-------------------------- MODULE AudioChainProofs --------------------------
(***************************************************************************)
(* Theorems about the audio chain, for any number of consumers, blocks,    *)
(* receptions and decoder sessions and any capacity of the queues.         *)
(***************************************************************************)
EXTENDS AudioChain, FiniteSetTheorems, TLAPS

(* Queues of blocks. *)

\* q holds the blocks b, b + 1, ...
Consecutive(q, b) == \A i \in 1 .. Len(q) : q[i] = b + i - 1

\* q holds blocks from b to n, in order, and perhaps end marks.
Ascending(q, b, n) ==
    /\ \A i \in 1 .. Len(q) : q[i] # End => b <= q[i] /\ q[i] <= n
    /\ \A i, j \in 1 .. Len(q) : i < j /\ q[i] # End /\ q[j] # End => q[i] < q[j]

\* Each block in q is the next one after the block before it.
Chained(q) == \A i \in 1 .. Len(q) - 1 : q[i + 1] = q[i] + 1

LEMMA AppendFacts ==
    ASSUME NEW S, NEW q \in Seq(S), NEW e \in S
    PROVE  /\ Append(q, e) \in Seq(S)
           /\ Len(q) \in Nat
           /\ Len(Append(q, e)) = Len(q) + 1
           /\ \A i \in 1 .. Len(q) : Append(q, e)[i] = q[i]
           /\ Append(q, e)[Len(q) + 1] = e
           /\ Append(q, e) # <<>>
OBVIOUS

LEMMA TailFacts ==
    ASSUME NEW S, NEW q \in Seq(S), q # <<>>
    PROVE  /\ Tail(q) \in Seq(S)
           /\ Len(q) \in Nat \ {0}
           /\ Len(Tail(q)) = Len(q) - 1
           /\ \A i \in 1 .. Len(q) - 1 : Tail(q)[i] = q[i + 1]
           /\ Head(q) = q[1]
           /\ Head(q) \in S
OBVIOUS

LEMMA LenFacts ==
    ASSUME NEW S, NEW q \in Seq(S)
    PROVE  (q = <<>> => Len(q) = 0) /\ (q # <<>> => Len(q) \in Nat /\ Len(q) >= 1)
OBVIOUS

LEMMA EmptyFacts ==
    ASSUME NEW S
    PROVE  /\ <<>> \in Seq(S)
           /\ Len(<<>>) = 0
           /\ \A b, n : Consecutive(<<>>, b) /\ Ascending(<<>>, b, n)
           /\ Chained(<<>>)
BY DEF Consecutive, Ascending, Chained

LEMMA AppendOrder ==
    ASSUME NEW q \in Seq(Nat), NEW b \in Nat, NEW n \in Nat
    PROVE  /\ Consecutive(q, b) /\ b + Len(q) = n => Consecutive(Append(q, n), b)
           /\ Ascending(q, b, n - 1) /\ b <= n => Ascending(Append(q, n), b, n)
           /\ Chained(q) /\ (q # <<>> => n = q[Len(q)] + 1) => Chained(Append(q, n))
<1> DEFINE r == Append(q, n)
<1>1. /\ r \in Seq(Nat) /\ Len(q) \in Nat /\ Len(r) = Len(q) + 1
      /\ \A i \in 1 .. Len(q) : r[i] = q[i]
      /\ r[Len(q) + 1] = n
  BY AppendFacts
<1>2. \A i \in 1 .. Len(r) : i \in 1 .. Len(q) \/ i = Len(q) + 1
  BY <1>1
<1>3. \A i \in 1 .. Len(q) : q[i] \in Nat
  OBVIOUS
<1>4. q # <<>> => Len(q) >= 1
  OBVIOUS
<1>0. q = <<>> => Len(q) = 0
  OBVIOUS
<1> HIDE DEF r
<1>5. Consecutive(q, b) /\ b + Len(q) = n => Consecutive(r, b)
  <2> SUFFICES ASSUME Consecutive(q, b), b + Len(q) = n, NEW i \in 1 .. Len(r)
               PROVE  r[i] = b + i - 1
    BY DEF Consecutive
  <2>1. CASE i \in 1 .. Len(q)
    BY <1>1, <2>1 DEF Consecutive
  <2>2. CASE i = Len(q) + 1
    BY <1>1, <2>2
  <2> QED
    BY <1>2, <2>1, <2>2
<1>6. Ascending(q, b, n - 1) /\ b <= n => Ascending(r, b, n)
  <2> SUFFICES ASSUME Ascending(q, b, n - 1), b <= n PROVE Ascending(r, b, n)
    OBVIOUS
  <2>1. ASSUME NEW i \in 1 .. Len(r), r[i] # End PROVE b <= r[i] /\ r[i] <= n
    <3>1. CASE i \in 1 .. Len(q)
      <4>1. r[i] = q[i] /\ q[i] \in Nat
        BY <1>1, <1>3, <3>1
      <4>2. b <= q[i] /\ q[i] <= n - 1
        BY <2>1, <3>1, <4>1 DEF Ascending
      <4> QED
        BY <4>1, <4>2
    <3>2. CASE i = Len(q) + 1
      BY <1>1, <3>2
    <3> QED
      BY <1>2, <3>1, <3>2
  <2>2. ASSUME NEW i \in 1 .. Len(r), NEW j \in 1 .. Len(r), i < j, r[i] # End, r[j] # End
        PROVE  r[i] < r[j]
    <3>1. i \in 1 .. Len(q) /\ r[i] = q[i] /\ q[i] \in Nat
      BY <1>1, <1>2, <1>3, <2>2, SMTT(30)
    <3>2. CASE j \in 1 .. Len(q)
      BY <1>1, <2>2, <3>1, <3>2 DEF Ascending
    <3>3. CASE j = Len(q) + 1
      BY <1>1, <2>2, <3>1, <3>3 DEF Ascending
    <3> QED
      BY <1>2, <3>2, <3>3
  <2> QED
    BY <2>1, <2>2 DEF Ascending
<1>7. Chained(q) /\ (q # <<>> => n = q[Len(q)] + 1) => Chained(r)
  <2> SUFFICES ASSUME Chained(q), q # <<>> => n = q[Len(q)] + 1, NEW i \in 1 .. Len(r) - 1
               PROVE  r[i + 1] = r[i] + 1
    BY DEF Chained
  <2>1. CASE i \in 1 .. Len(q) - 1
    <3>1. i \in 1 .. Len(q) /\ i + 1 \in 1 .. Len(q)
      BY <1>1, <2>1
    <3>2. r[i] = q[i] /\ r[i + 1] = q[i + 1]
      BY <1>1, <3>1
    <3> QED
      BY <2>1, <3>2 DEF Chained
  <2>2. CASE i = Len(q)
    BY <1>0, <1>1, <2>2
  <2> QED
    BY <1>1, <2>1, <2>2
<1> QED
  BY <1>5, <1>6, <1>7 DEF r

LEMMA TailOrder ==
    ASSUME NEW q \in Seq(Nat), q # <<>>, NEW b \in Nat, NEW n \in Int
    PROVE  /\ Consecutive(q, b) => Head(q) = b /\ Consecutive(Tail(q), b + 1)
           /\ Ascending(q, b, n) => Ascending(Tail(q), b, n)
           /\ Ascending(q, b, n) /\ Head(q) # End =>
                b <= Head(q) /\ Head(q) <= n /\ Ascending(Tail(q), Head(q) + 1, n)
           /\ Chained(q) => /\ Chained(Tail(q))
                            /\ Tail(q) # <<>> => /\ Tail(q)[1] = Head(q) + 1
                                                 /\ Tail(q)[Len(Tail(q))] = q[Len(q)]
                            /\ Tail(q) = <<>> => q[Len(q)] = Head(q)
<1> DEFINE t == Tail(q)
<1>1. /\ t \in Seq(Nat) /\ Len(q) \in Nat \ {0} /\ Len(t) = Len(q) - 1
      /\ \A i \in 1 .. Len(q) - 1 : t[i] = q[i + 1]
      /\ Head(q) = q[1]
  BY TailFacts
<1>2. \A i \in 1 .. Len(q) : q[i] \in Nat
  OBVIOUS
<1>3. (t = <<>> => Len(t) = 0) /\ (t # <<>> => Len(t) >= 1)
  BY <1>1, LenFacts
<1> HIDE DEF t
<1>4. Consecutive(q, b) => Head(q) = b /\ Consecutive(t, b + 1)
  BY <1>1, <1>2 DEF Consecutive
<1>5. ASSUME Ascending(q, b, n) PROVE Ascending(t, b, n)
  <2>1. \A i \in 1 .. Len(t) : i + 1 \in 1 .. Len(q) /\ t[i] = q[i + 1]
    BY <1>1
  <2>2. \A i \in 1 .. Len(t) : t[i] # End => b <= t[i] /\ t[i] <= n
    BY <1>5, <2>1 DEF Ascending
  <2>3. \A i, j \in 1 .. Len(t) : i < j /\ t[i] # End /\ t[j] # End => t[i] < t[j]
    <3> SUFFICES ASSUME NEW i \in 1 .. Len(t), NEW j \in 1 .. Len(t),
                        i < j, t[i] # End, t[j] # End
                 PROVE  t[i] < t[j]
      OBVIOUS
    <3>1. i + 1 < j + 1
      BY <1>1
    <3> QED
      BY <1>5, <2>1, <3>1 DEF Ascending
  <2> QED
    BY <2>2, <2>3 DEF Ascending
<1>6. ASSUME Ascending(q, b, n), Head(q) # End
      PROVE  b <= Head(q) /\ Head(q) <= n /\ Ascending(t, Head(q) + 1, n)
  <2>1. q[1] \in Nat /\ b <= q[1] /\ q[1] <= n
    BY <1>1, <1>2, <1>6 DEF Ascending
  <2>2. \A i \in 1 .. Len(t) : t[i] # End => q[1] < t[i] /\ t[i] \in Nat
    <3>1. \A i \in 1 .. Len(t) : i + 1 \in 1 .. Len(q) /\ t[i] = q[i + 1] /\ 1 < i + 1
      BY <1>1
    <3>2. 1 \in 1 .. Len(q) /\ q[1] # End
      BY <1>1, <1>6
    <3> QED
      BY <1>2, <1>6, <3>1, <3>2 DEF Ascending
  <2>3. \A i \in 1 .. Len(t) : t[i] # End => q[1] + 1 <= t[i]
    BY <2>1, <2>2
  <2> QED
    BY <1>1, <1>5, <1>6, <2>1, <2>3 DEF Ascending
<1>7. ASSUME Chained(q)
      PROVE  /\ Chained(t)
             /\ t # <<>> => t[1] = Head(q) + 1 /\ t[Len(t)] = q[Len(q)]
             /\ t = <<>> => q[Len(q)] = Head(q)
  <2>1. \A i \in 1 .. Len(t) : i + 1 \in 1 .. Len(q) /\ t[i] = q[i + 1]
    BY <1>1
  <2>2. Chained(t)
    <3> SUFFICES ASSUME NEW i \in 1 .. Len(t) - 1 PROVE t[i + 1] = t[i] + 1
      BY DEF Chained
    <3>1. i \in 1 .. Len(t) /\ i + 1 \in 1 .. Len(t) /\ i + 1 \in 1 .. Len(q) - 1
      BY <1>1
    <3> QED
      BY <1>7, <2>1, <3>1 DEF Chained
  <2>3. t # <<>> => t[1] = Head(q) + 1 /\ t[Len(t)] = q[Len(q)]
    <3> SUFFICES ASSUME t # <<>> PROVE t[1] = Head(q) + 1 /\ t[Len(t)] = q[Len(q)]
      OBVIOUS
    <3>1. 1 \in 1 .. Len(t) /\ Len(t) \in 1 .. Len(t) /\ 1 \in 1 .. Len(q) - 1
      BY <1>1, <1>3
    <3>2. t[1] = q[2] /\ t[Len(t)] = q[Len(t) + 1] /\ Len(t) + 1 = Len(q)
      BY <1>1, <2>1, <3>1, SMTT(30)
    <3>3. q[2] = q[1] + 1
      BY <1>7, <3>1 DEF Chained
    <3> QED
      BY <1>1, <3>2, <3>3
  <2>4. t = <<>> => q[Len(q)] = Head(q)
    <3>1. t = <<>> => Len(q) = 1
      BY <1>1, <1>3
    <3> QED
      BY <1>1, <3>1
  <2> QED
    BY <2>2, <2>3, <2>4
<1> QED
  BY <1>4, <1>5, <1>6, <1>7 DEF t
-----------------------------------------------------------------------------
(* The receiver. *)

\* What the worker's place says of the hub: which clients it has still to serve,
\* which one it drains, and whose tuner is open.
HubInv ==
    /\ worker \in {"dead", "open", "closing"} => ~active
    /\ worker \in {"loop", "publish", "leave"} => active
    /\ HubFree => todo = {}
    /\ worker \notin {"drain", "take"} => cur = {}
    /\ worker \in {"drain", "take"} => \E c \in Consumer : cur = {c}
    /\ todo \cap cur = {}
    /\ active => todo \subseteq clients /\ cur \cap clients = {}
    /\ worker # "dead" => session >= 1
    /\ worker = "publish" \/ (worker \in {"drain", "take"} /\ active) => number >= 1
    /\ worker = "open" => drivers = {}
    /\ worker \in {"drain", "take"} /\ active => drivers \subseteq {session}

\* What a consumer's handler has joined: whoever the hub knows has a handler, and a
\* consumer without one has nothing of an earlier connection.
HandlerInv ==
    \A c \in Consumer :
        /\ c \in clients \cup todo \cup cur => stream[c] # "none"
        /\ stream[c] = "none" => queue[c] = <<>> /\ next[c] = 0
        /\ stream[c] # "none" => next[c] >= 1
        /\ joined[c] <= session
        /\ worker = "open" => joined[c] < session

\* Whatever became of its reception, a handler's queue holds blocks in order, none
\* given before and none to come, and not the one a publish has still to offer it.
OrderInv ==
    \A c \in Consumer :
        /\ next[c] <= number + 1
        /\ Ascending(queue[c], next[c], number)
        /\ c \in todo /\ active => /\ next[c] <= number
                                  /\ Ascending(queue[c], next[c], number - 1)

\* A consumer that is served has missed nothing, and its queue ends with the newest
\* block, or the one before while a publish has not come to it.
ServeInv ==
    \A c \in Served :
        /\ ~gap[c]
        /\ Consecutive(queue[c], next[c])
        /\ worker = "loop" => next[c] + Len(queue[c]) = number + 1
        /\ worker \in {"publish", "drain", "take"} =>
             next[c] + Len(queue[c]) = IF c \in todo THEN number ELSE number + 1

\* The type invariant without the connections.
RxTypes ==
    /\ state \in {"idle", "starting", "running", "stopping"} \cup Ended
    /\ stop \in BOOLEAN /\ stopper \in BOOLEAN
    /\ worker \in {"dead", "open", "loop", "publish", "drain", "take",
                   "leave", "close", "closing"}
    /\ kind \in {"usb", "tcp"}
    /\ drivers \subseteq 1 .. MaxSession
    /\ failed \in {"no", "source", "hub"}
    /\ active \in BOOLEAN
    /\ number \in 0 .. MaxBlock
    /\ session \in 0 .. MaxSession

HandlerTypes ==
    /\ clients \subseteq Consumer
    /\ IsFiniteSet(clients)
    /\ Cardinality(clients) <= MaxClients
    /\ todo \subseteq Consumer
    /\ cur \subseteq Consumer
    /\ joined \in [Consumer -> 0 .. MaxSession]
    /\ next \in [Consumer -> Nat]
    /\ gap \in [Consumer -> BOOLEAN]
    /\ stream \in [Consumer -> {"none", "stream", "leave"}]

QueueTypes ==
    /\ queue \in [Consumer -> Seq(Block \cup {End})]
    /\ \A c \in Consumer : Len(queue[c]) <= Depth

LineTypes ==
    /\ conn \in [Consumer -> {"none", "asked", "open", "shut", "ended"}]
    /\ wire \in [Consumer -> Block \cup {End}]

RxInv == RxTypes /\ HandlerTypes /\ QueueTypes /\ HubInv /\ HandlerInv /\ OrderInv /\ ServeInv /\ OneDriver

LEMMA QueueFacts ==
    ASSUME QueueTypes, NEW c \in Consumer
    PROVE  queue[c] \in Seq(Block \cup {End}) /\ queue[c] \in Seq(Nat) /\ Len(queue[c]) \in Nat
<1>1. queue[c] \in Seq(Block \cup {End})
  BY DEF QueueTypes
<1>2. Block \cup {End} \subseteq Nat
  BY SdrAssumption DEF Block, End
<1>3. \A q \in Seq(Block \cup {End}) : q \in Seq(Nat)
  BY <1>2
<1> QED
  BY <1>1, <1>3

LEMMA RxStart == ASSUME SdrInit PROVE RxInv
<1> USE SdrAssumption DEF SdrInit
<1>1. RxTypes
  <2>1. kind \in {"usb", "tcp"}
    OBVIOUS
  <2>2. 0 \in 0 .. MaxBlock /\ 0 \in 0 .. MaxSession
    OBVIOUS
  <2> QED
    BY <2>1, <2>2 DEF RxTypes
<1>7. HubInv
  BY DEF HubInv, HubFree
<1>8. OneDriver
  BY DEF OneDriver
<1>2. HandlerTypes
  BY FS_EmptySet DEF HandlerTypes
<1>3. QueueTypes
  BY EmptyFacts DEF QueueTypes
<1>4. HandlerInv
  BY DEF HandlerInv
<1>5. OrderInv
  BY EmptyFacts DEF OrderInv
<1>6. ServeInv
  BY DEF ServeInv, Served
<1> QED
  BY <1>1, <1>2, <1>3, <1>4, <1>5, <1>6, <1>7, <1>8 DEF RxInv

\* What a step without the hub leaves alone.
Untouched == UNCHANGED <<clients, todo, cur, number, queue, joined, stream, next, gap>>

LEMMA OutsideKeeps ==
    ASSUME RxInv, Untouched,
           RxTypes', HubInv', OneDriver',
           worker' \in {"publish", "drain", "take"} => worker' = worker,
           worker' = "open" => session' = session + 1 \/ (worker = "open" /\ session' = session),
           worker' # "open" => session' = session,
           worker' = "loop" => worker \in {"loop", "open"} \/ (worker = "publish" /\ todo = {}),
           active' => active \/ (worker = "open" /\ session' = session)
    PROVE  RxInv'
<1> USE DEF RxInv, Untouched
<1>1. HandlerTypes' /\ QueueTypes'
  BY DEF HandlerTypes, QueueTypes, RxTypes
<1>2. HandlerInv'
  BY DEF HandlerInv, RxTypes, HandlerTypes
<1>3. OrderInv'
  <2> SUFFICES ASSUME NEW c \in todo, active' PROVE active
    BY DEF OrderInv
  <2> QED
    BY DEF HubInv, HubFree
<1>4. ServeInv'
  <2> SUFFICES ASSUME NEW c \in Served' PROVE ServeInv!(c)'
    BY DEF ServeInv
  <2>1. c \in Consumer /\ joined[c] \in Nat /\ session \in Nat
    BY SdrAssumption DEF Served, HandlerTypes, RxTypes
  <2>2. active' /\ joined[c] = session' /\ c \in clients /\ c \notin cur
    BY DEF Served
  <2>3. session' = session
    BY <2>2 DEF HubInv
  <2>4. ~(worker = "open")
    BY <2>1, <2>2, <2>3 DEF HandlerInv
  <2>5. active
    BY <2>2, <2>4
  <2>6. c \in Served
    BY <2>2, <2>3, <2>5 DEF Served
  <2>7. ServeInv!(c)
    BY <2>6 DEF ServeInv
  <2> QED
    BY <2>4, <2>7
<1> QED
  BY <1>1, <1>2, <1>3, <1>4

LEMMA OutsideStep ==
    ASSUME RxInv,
           \/ \E k \in Kinds : StartReceiver(k)
           \/ RequestStop \/ ShowStop \/ OpenSource \/ LeaveLoop \/ SourceEnds \/ Published
           \/ LeaveSource \/ DriverDies
    PROVE  RxInv'
<1> USE SdrAssumption DEF hubVars, conVars, seen, net, Untouched
<1>0. RxTypes /\ HubInv /\ OneDriver
  BY DEF RxInv
<1>1. ASSUME NEW k \in Kinds, StartReceiver(k) PROVE RxInv'
  <2>1. RxTypes'
    <3>1. session \in Nat /\ session' = session + 1 /\ session < MaxSession /\ MaxSession \in Nat
      BY <1>0, <1>1 DEF StartReceiver, RxTypes
    <3>2. session' \in 0 .. MaxSession
      BY <3>1
    <3>3. k \in {"usb", "tcp"}
      OBVIOUS
    <3> QED
      BY <1>0, <1>1, <3>2, <3>3 DEF StartReceiver, RxTypes
  <2>2. HubInv' /\ OneDriver'
    BY <1>0, <1>1 DEF StartReceiver, RxTypes, HubInv, HubFree, OneDriver
  <2> QED
    BY <1>1, <2>1, <2>2, OutsideKeeps DEF StartReceiver
<1>2. CASE RequestStop \/ ShowStop
  <2>1. RxTypes'
    BY <1>0, <1>2 DEF RequestStop, ShowStop, RxTypes
  <2>2. HubInv' /\ OneDriver'
    BY <1>0, <1>2 DEF RequestStop, ShowStop, HubInv, HubFree, OneDriver
  <2>3. UNCHANGED <<worker, session, active>> /\ Untouched
    BY <1>2 DEF RequestStop, ShowStop
  <2> QED
    BY <2>1, <2>2, <2>3, OutsideKeeps, <1>0 DEF HubInv, RxInv
<1>3. CASE OpenSource
  <2>1. RxTypes'
    <3>1. session \in 1 .. MaxSession
      BY <1>0, <1>3 DEF OpenSource, RxTypes, HubInv
    <3> QED
      BY <1>0, <1>3, <3>1 DEF OpenSource, RxTypes, Ended
  <2>2. HubInv' /\ OneDriver'
    BY <1>0, <1>3 DEF OpenSource, RxTypes, HubInv, HubFree, OneDriver
  <2>3. /\ worker = "open" /\ worker' \in {"loop", "close"} /\ session' = session
        /\ Untouched
    BY <1>3 DEF OpenSource
  <2> QED
    BY <2>1, <2>2, <2>3, OutsideKeeps
<1>4. CASE LeaveLoop \/ SourceEnds \/ Published \/ LeaveSource \/ DriverDies
  <2>1. RxTypes'
    BY <1>0, <1>4, ZenonT(60)
       DEF LeaveLoop, SourceEnds, Published, LeaveSource, DriverDies, RxTypes, Ended
  <2>2. HubInv' /\ OneDriver'
    BY <1>0, <1>4 DEF LeaveLoop, SourceEnds, Published, LeaveSource, DriverDies, HubInv, HubFree,
                      OneDriver
  <2>3. UNCHANGED <<session, active>> /\ Untouched
    BY <1>4 DEF LeaveLoop, SourceEnds, Published, LeaveSource, DriverDies
  <2>4. \/ worker' \in {"leave", "close"}
        \/ worker = "publish" /\ todo = {} /\ worker' = "loop"
        \/ worker = "dead" /\ worker' = worker
    BY <1>4 DEF LeaveLoop, SourceEnds, Published, LeaveSource, DriverDies
  <2> QED
    BY <2>1, <2>2, <2>3, <2>4, OutsideKeeps
<1> QED
  BY <1>1, <1>2, <1>3, <1>4

LEMMA AscendingGrows ==
    ASSUME NEW q \in Seq(Nat), NEW b \in Nat, NEW n \in Int, NEW m \in Int, n <= m, Ascending(q, b, n)
    PROVE  Ascending(q, b, m)
<1>1. \A i \in 1 .. Len(q) : q[i] \in Nat
  OBVIOUS
<1> QED
  BY <1>1 DEF Ascending

LEMMA NextBlockStep == ASSUME RxInv, NextBlock PROVE RxInv'
<1>1. /\ worker = "loop" /\ worker' = "publish" /\ number < MaxBlock /\ number' = number + 1
      /\ todo' = clients
      /\ UNCHANGED <<state, stop, stopper, kind, drivers, failed, session, active, clients, cur,
                     queue, joined, stream, next, gap>>
  BY DEF NextBlock, conVars, seen, net
<1> USE SdrAssumption DEF RxInv
<1>2. number \in Nat
  BY DEF RxTypes
<1>3. active /\ todo = {} /\ cur = {}
  BY <1>1 DEF HubInv, HubFree
<1>4. RxTypes'
  BY <1>1, <1>2 DEF RxTypes
<1>5. HandlerTypes' /\ QueueTypes'
  BY <1>1, <1>4 DEF HandlerTypes, QueueTypes
<1>6. HubInv'
  BY <1>1, <1>2, <1>3 DEF HubInv, HubFree
<1>7. HandlerInv'
  BY <1>1 DEF HandlerInv, HandlerTypes
<1>8. OrderInv'
  <2> SUFFICES ASSUME NEW c \in Consumer PROVE OrderInv!(c)'
    BY DEF OrderInv
  <2>1. queue[c] \in Seq(Nat) /\ next[c] \in Nat
    BY QueueFacts DEF HandlerTypes
  <2>2. next[c] <= number + 1 /\ Ascending(queue[c], next[c], number)
    BY DEF OrderInv
  <2>3. Ascending(queue[c], next[c], number + 1)
    BY <1>2, <2>1, <2>2, AscendingGrows
  <2>4. number' - 1 = number /\ next[c] <= number' + 1 /\ next[c] <= number'
    BY <1>1, <1>2, <2>1, <2>2
  <2> QED
    BY <1>1, <2>2, <2>3, <2>4
<1>9. ServeInv'
  BY <1>1, <1>2 DEF ServeInv, Served
<1>10. OneDriver'
  BY <1>1 DEF OneDriver
<1> QED
  BY <1>4, <1>5, <1>6, <1>7, <1>8, <1>9, <1>10

LEMMA RemoveKeepsRoom ==
    ASSUME NEW S, IsFiniteSet(S), NEW x, NEW n \in Nat, Cardinality(S) <= n
    PROVE  IsFiniteSet(S \ {x}) /\ Cardinality(S \ {x}) <= n
<1>1. Cardinality(S) \in Nat
  BY FS_CardinalityType
<1>2. IsFiniteSet(S \ {x})
  BY FS_RemoveElement
<1>3. Cardinality(S \ {x}) = IF x \in S THEN Cardinality(S) - 1 ELSE Cardinality(S)
  BY FS_RemoveElement
<1> QED
  BY <1>1, <1>2, <1>3

LEMMA PublishStep == ASSUME RxInv, NEW c \in Consumer, PublishTo(c) PROVE RxInv'
<1>1. /\ worker = "publish" /\ c \in todo /\ todo' = todo \ {c}
      /\ UNCHANGED <<state, stop, stopper, kind, drivers, failed, session, active, number,
                     joined, stream, next, gap>>
  BY DEF PublishTo, conVars, seen, net
<1>2. \/ /\ Len(queue[c]) < Depth
         /\ queue' = [queue EXCEPT ![c] = Append(queue[c], number)]
         /\ UNCHANGED <<worker, clients, cur>>
      \/ /\ clients' = clients \ {c} /\ cur' = {c} /\ worker' = "drain"
         /\ UNCHANGED queue
  BY DEF PublishTo
<1> USE SdrAssumption DEF RxInv
<1>3. /\ number \in 1 .. MaxBlock /\ number \in Block \cup {End} /\ number \in Nat
      /\ session \in Nat
  BY <1>1 DEF RxTypes, HubInv, Block
<1>4. active /\ cur = {} /\ c \in clients
  BY <1>1 DEF HubInv
<1>5. /\ queue[c] \in Seq(Block \cup {End}) /\ queue[c] \in Seq(Nat) /\ Len(queue[c]) \in Nat
      /\ next[c] \in Nat
  BY QueueFacts DEF HandlerTypes
<1>6. RxTypes' /\ OneDriver' /\ HandlerInv'
  <2>1. RxTypes'
    BY <1>1, <1>2 DEF RxTypes
  <2>2. OneDriver'
    BY <1>1, <1>2 DEF OneDriver
  <2>3. HandlerInv'
    <3> SUFFICES ASSUME NEW d \in Consumer PROVE HandlerInv!(d)'
      BY DEF HandlerInv
    <3>1. HandlerInv!(d) /\ HandlerInv!(c)
      BY DEF HandlerInv
    <3>2. stream[d] = "none" => queue'[d] = queue[d]
      <4>1. stream[d] = "none" => d # c
        BY <1>1, <3>1
      <4> QED
        BY <1>2, <4>1 DEF QueueTypes
    <3>3. d \in clients' \cup todo' \cup cur' => d \in clients \cup todo \cup cur
      BY <1>1, <1>2
    <3>4. worker' # "open"
      BY <1>1, <1>2
    <3> QED
      BY <1>1, <3>1, <3>2, <3>3, <3>4
  <2> QED
    BY <2>1, <2>2, <2>3
<1>7. HubInv'
  <2>1. CASE UNCHANGED <<worker, clients, cur>>
    BY <1>1, <1>4, <2>1 DEF HubInv, HubFree
  <2>2. CASE clients' = clients \ {c} /\ cur' = {c} /\ worker' = "drain"
    BY <1>1, <1>3, <1>4, <2>2 DEF HubInv, HubFree, OneDriver
  <2> QED
    BY <1>2, <2>1, <2>2
<1>8. HandlerTypes'
  <2>1. IsFiniteSet(clients') /\ Cardinality(clients') <= MaxClients
    <3>1. /\ IsFiniteSet(clients \ {c}) /\ Cardinality(clients \ {c}) <= MaxClients
      <4>1. IsFiniteSet(clients) /\ Cardinality(clients) <= MaxClients
        BY DEF HandlerTypes
      <4> QED
        BY <4>1, RemoveKeepsRoom
    <3>2. clients' = clients \/ clients' = clients \ {c}
      BY <1>2
    <3> QED
      BY <3>1, <3>2 DEF HandlerTypes
  <2>2. clients' \subseteq Consumer /\ todo' \subseteq Consumer /\ cur' \subseteq Consumer
    BY <1>1, <1>2 DEF HandlerTypes
  <2> QED
    BY <1>1, <2>1, <2>2 DEF HandlerTypes
<1>9. CASE /\ Len(queue[c]) < Depth
           /\ queue' = [queue EXCEPT ![c] = Append(queue[c], number)]
           /\ UNCHANGED <<worker, clients, cur>>
  <2> DEFINE q == Append(queue[c], number)
  <2>1. q \in Seq(Block \cup {End}) /\ Len(q) = Len(queue[c]) + 1
    BY <1>3, <1>5, AppendFacts
  <2>2. queue'[c] = q /\ \A d \in Consumer \ {c} : queue'[d] = queue[d]
    BY <1>9 DEF QueueTypes
  <2>3. next[c] <= number /\ Ascending(queue[c], next[c], number - 1)
    BY <1>1, <1>4 DEF OrderInv
  <2>4. Ascending(q, next[c], number)
    BY <1>3, <1>5, <2>3, AppendOrder
  <2>5. Consecutive(queue[c], next[c]) /\ next[c] + Len(queue[c]) = number => Consecutive(q, next[c])
    BY <1>3, <1>5, AppendOrder
  <2> HIDE DEF q
  <2>6. QueueTypes'
    BY <1>9, <2>1, <1>5 DEF QueueTypes, q
  <2>7. OrderInv'
    BY <1>1, <1>3, <2>2, <2>4 DEF OrderInv
  <2>8. ServeInv'
    <3> SUFFICES ASSUME NEW d \in Served' PROVE ServeInv!(d)'
      BY DEF ServeInv
    <3>1. d \in Served /\ ServeInv!(d) /\ d \in Consumer
      BY <1>1, <1>9 DEF Served, ServeInv, HandlerTypes
    <3>2. CASE d = c
      <4>1. ~gap[c] /\ Consecutive(queue[c], next[c]) /\ next[c] + Len(queue[c]) = number
        BY <1>1, <3>1, <3>2
      <4>2. Consecutive(queue'[c], next'[c])
        BY <1>1, <2>2, <2>5, <4>1
      <4>3. next'[c] + Len(queue'[c]) = number' + 1
        BY <1>1, <1>3, <1>5, <2>1, <2>2, <4>1
      <4>4. c \notin todo' /\ worker' = "publish"
        BY <1>1, <1>9
      <4> QED
        BY <1>1, <3>2, <4>1, <4>2, <4>3, <4>4
    <3>3. CASE d # c
      BY <1>1, <1>9, <2>2, <3>1, <3>3
    <3> QED
      BY <3>2, <3>3
  <2> QED
    BY <1>6, <1>7, <1>8, <2>6, <2>7, <2>8
<1>10. CASE clients' = clients \ {c} /\ cur' = {c} /\ worker' = "drain" /\ UNCHANGED queue
  <2>1. QueueTypes'
    BY <1>10 DEF QueueTypes
  <2>2. OrderInv'
    BY <1>1, <1>10 DEF OrderInv
  <2>3. ServeInv'
    <3> SUFFICES ASSUME NEW d \in Served' PROVE ServeInv!(d)'
      BY DEF ServeInv
    <3>1. d \in Served /\ ServeInv!(d) /\ d # c
      BY <1>1, <1>4, <1>10 DEF Served, ServeInv
    <3> QED
      BY <1>1, <1>10, <3>1
  <2> QED
    BY <1>6, <1>7, <1>8, <2>1, <2>2, <2>3
<1> QED
  BY <1>2, <1>9, <1>10

LEMMA CloseStep ==
    ASSUME RxInv, CloseHub \/ Closed \/ \E c \in Consumer : CloseClient(c)
    PROVE  RxInv'
<1>1. /\ worker \in {"close", "closing"} /\ ~active'
      /\ UNCHANGED <<state, stop, stopper, kind, drivers, failed, session, number, queue,
                     joined, stream, next, gap>>
  BY DEF CloseHub, Closed, CloseClient, conVars, seen, net, RxInv, HubInv
<1>2. \/ /\ worker' = "closing" /\ todo' = clients /\ UNCHANGED <<clients, cur>>
      \/ /\ worker = "closing" /\ worker' = "dead" /\ todo = {} /\ clients' = {}
         /\ UNCHANGED <<todo, cur>>
      \/ /\ worker' = "drain" /\ \E c \in todo : todo' = todo \ {c} /\ cur' = {c}
         /\ UNCHANGED clients
  BY DEF CloseHub, Closed, CloseClient
<1> USE SdrAssumption DEF RxInv
<1>3. RxTypes' /\ OneDriver'
  <2>1. worker' \in {"dead", "drain", "closing"}
    BY <1>2
  <2>2. active' = FALSE
    BY DEF CloseHub, Closed, CloseClient, RxTypes, HubInv
  <2> QED
    BY <1>1, <2>1, <2>2 DEF RxTypes, OneDriver
<1>4. HandlerTypes'
  <2>1. clients' = clients \/ clients' = {}
    BY <1>2
  <2>2. IsFiniteSet(clients') /\ Cardinality(clients') <= MaxClients
    BY <2>1, FS_EmptySet DEF HandlerTypes
  <2>3. clients' \subseteq Consumer /\ todo' \subseteq Consumer /\ cur' \subseteq Consumer
    BY <1>2 DEF HandlerTypes
  <2> QED
    BY <1>1, <1>3, <2>2, <2>3 DEF HandlerTypes
<1>5. QueueTypes'
  BY <1>1 DEF QueueTypes
<1>6. HubInv'
  <2>1. todo \subseteq Consumer /\ session' >= 1 /\ cur = {}
    BY <1>1 DEF HubInv, HandlerTypes
  <2> QED
    BY <1>1, <1>2, <2>1 DEF HubInv, HubFree
<1>7. HandlerInv'
  <2> SUFFICES ASSUME NEW c \in Consumer PROVE HandlerInv!(c)'
    BY DEF HandlerInv
  <2>1. HandlerInv!(c)
    BY DEF HandlerInv
  <2>2. c \in clients' \cup todo' \cup cur' => c \in clients \cup todo \cup cur
    BY <1>2
  <2>3. worker' # "open"
    BY <1>2
  <2> QED
    BY <1>1, <2>1, <2>2, <2>3
<1>8. OrderInv' /\ ServeInv'
  BY <1>1 DEF OrderInv, ServeInv, Served
<1> QED
  BY <1>3, <1>4, <1>5, <1>6, <1>7, <1>8

LEMMA DrainTestStep == ASSUME RxInv, DrainTest PROVE RxInv'
<1>1. /\ worker = "drain"
      /\ UNCHANGED <<state, stop, stopper, kind, drivers, failed, session, active, clients, todo,
                     number, joined, stream, next, gap>>
  BY DEF DrainTest, conVars, seen, net
<1>2. PICK c \in cur :
        \/ /\ queue[c] = <<>> /\ queue' = [queue EXCEPT ![c] = <<End>>]
           /\ worker' = IF active THEN "publish" ELSE "closing"
           /\ cur' = {}
        \/ worker' = "take" /\ UNCHANGED <<queue, cur>>
  BY DEF DrainTest
<1> USE SdrAssumption DEF RxInv
<1>3. c \in Consumer /\ cur = {c} /\ c \notin todo /\ (active => c \notin clients)
  BY <1>1 DEF HubInv, HandlerTypes
<1>4. RxTypes' /\ HandlerTypes' /\ OneDriver'
  BY <1>1, <1>2 DEF RxTypes, HandlerTypes, OneDriver, HubInv
<1>5. HubInv'
  BY <1>1, <1>2, <1>3 DEF HubInv, HubFree
<1>6. CASE worker' = "take" /\ UNCHANGED <<queue, cur>>
  <2>1. QueueTypes' /\ HandlerInv'
    BY <1>1, <1>6 DEF QueueTypes, HandlerInv
  <2>2. OrderInv' /\ ServeInv'
    BY <1>1, <1>6 DEF OrderInv, ServeInv, Served
  <2> QED
    BY <1>4, <1>5, <2>1, <2>2
<1>7. CASE /\ queue[c] = <<>> /\ queue' = [queue EXCEPT ![c] = <<End>>]
           /\ worker' = IF active THEN "publish" ELSE "closing"
           /\ cur' = {}
  <2>1. queue'[c] = <<End>> /\ \A d \in Consumer \ {c} : queue'[d] = queue[d]
    BY <1>3, <1>7 DEF QueueTypes
  <2>2. <<End>> \in Seq(Block \cup {End}) /\ Len(<<End>>) = 1 /\ <<End>>[1] = End
    OBVIOUS
  <2>3. QueueTypes'
    BY <1>3, <1>7, <2>2 DEF QueueTypes
  <2>4. HandlerInv'
    <3> SUFFICES ASSUME NEW d \in Consumer PROVE HandlerInv!(d)'
      BY DEF HandlerInv
    <3>1. HandlerInv!(d) /\ stream[c] # "none"
      BY <1>3 DEF HandlerInv
    <3> QED
      BY <1>1, <1>7, <2>1, <3>1
  <2>5. OrderInv'
    <3> SUFFICES ASSUME NEW d \in Consumer PROVE OrderInv!(d)'
      BY DEF OrderInv
    <3>1. OrderInv!(d)
      BY DEF OrderInv
    <3>2. CASE d = c
      <4>1. \A b, n : Ascending(<<End>>, b, n)
        BY <2>2 DEF Ascending
      <4> QED
        BY <1>1, <1>3, <2>1, <3>1, <3>2, <4>1
    <3> QED
      BY <1>1, <2>1, <3>1, <3>2
  <2>6. ServeInv'
    <3> SUFFICES ASSUME NEW d \in Served' PROVE ServeInv!(d)'
      BY DEF ServeInv
    <3>1. d \in Served /\ d # c /\ d \in Consumer /\ worker' = "publish"
      BY <1>1, <1>3, <1>7 DEF Served, HandlerTypes
    <3>2. ServeInv!(d)
      BY <3>1 DEF ServeInv
    <3> QED
      BY <1>1, <2>1, <3>1, <3>2
  <2> QED
    BY <1>4, <1>5, <2>3, <2>4, <2>5, <2>6
<1> QED
  BY <1>2, <1>6, <1>7

LEMMA DrainTakeStep == ASSUME RxInv, DrainTake PROVE RxInv'
<1>1. /\ worker = "take"
      /\ UNCHANGED <<state, stop, stopper, kind, drivers, session, active, clients,
                     number, joined, stream, next, gap>>
  BY DEF DrainTake, conVars, seen, net
<1>2. PICK c \in cur :
        \/ /\ queue[c] # <<>> /\ queue' = [queue EXCEPT ![c] = Tail(queue[c])]
           /\ worker' = "drain"
           /\ UNCHANGED <<failed, todo, cur>>
        \/ /\ worker' = IF active THEN "leave" ELSE "dead"
           /\ failed' = IF active THEN "hub" ELSE failed
           /\ todo' = {} /\ cur' = {}
           /\ UNCHANGED queue
  BY DEF DrainTake
<1> USE SdrAssumption DEF RxInv
<1>3. c \in Consumer /\ cur = {c} /\ c \notin todo /\ (active => c \notin clients)
  BY <1>1 DEF HubInv, HandlerTypes
<1>4. RxTypes' /\ HandlerTypes' /\ OneDriver'
  BY <1>1, <1>2 DEF RxTypes, HandlerTypes, OneDriver, HubInv
<1>5. HubInv'
  BY <1>1, <1>2, <1>3 DEF HubInv, HubFree, HandlerTypes
<1>6. CASE /\ queue[c] # <<>> /\ queue' = [queue EXCEPT ![c] = Tail(queue[c])]
           /\ worker' = "drain"
           /\ UNCHANGED <<failed, todo, cur>>
  <2>1. /\ queue[c] \in Seq(Block \cup {End}) /\ queue[c] \in Seq(Nat)
        /\ next[c] \in Nat /\ number \in Nat
    BY <1>3, QueueFacts DEF HandlerTypes, RxTypes
  <2>2. queue'[c] = Tail(queue[c]) /\ \A d \in Consumer \ {c} : queue'[d] = queue[d]
    BY <1>3, <1>6 DEF QueueTypes
  <2>3. Tail(queue[c]) \in Seq(Block \cup {End}) /\ Len(Tail(queue[c])) = Len(queue[c]) - 1
    BY <1>6, <2>1, TailFacts
  <2>4. QueueTypes'
    <3>1. Len(queue[c]) \in Nat
      BY <2>1
    <3> QED
      BY <1>3, <1>6, <2>2, <2>3, <3>1 DEF QueueTypes
  <2>5. HandlerInv'
    <3> SUFFICES ASSUME NEW d \in Consumer PROVE HandlerInv!(d)'
      BY DEF HandlerInv
    <3>1. HandlerInv!(d) /\ stream[c] # "none"
      BY <1>3 DEF HandlerInv
    <3> QED
      BY <1>1, <1>6, <2>2, <3>1
  <2>6. OrderInv'
    <3> SUFFICES ASSUME NEW d \in Consumer PROVE OrderInv!(d)'
      BY DEF OrderInv
    <3>1. OrderInv!(d)
      BY DEF OrderInv
    <3>2. CASE d = c
      <4>1. Ascending(Tail(queue[c]), next[c], number)
        BY <1>6, <2>1, <3>1, <3>2, TailOrder
      <4> QED
        BY <1>1, <1>3, <1>6, <2>2, <3>1, <3>2, <4>1
    <3> QED
      BY <1>1, <1>6, <2>2, <3>1, <3>2
  <2>7. ServeInv'
    <3> SUFFICES ASSUME NEW d \in Served' PROVE ServeInv!(d)'
      BY DEF ServeInv
    <3>1. d \in Served /\ d # c /\ d \in Consumer
      BY <1>1, <1>3, <1>6 DEF Served, HandlerTypes
    <3>2. ServeInv!(d)
      BY <3>1 DEF ServeInv
    <3> QED
      BY <1>1, <1>6, <2>2, <3>1, <3>2
  <2> QED
    BY <1>4, <1>5, <2>4, <2>5, <2>6, <2>7
<1>7. CASE /\ worker' = IF active THEN "leave" ELSE "dead"
           /\ todo' = {} /\ cur' = {}
           /\ UNCHANGED queue
  <2>1. QueueTypes' /\ HandlerInv'
    BY <1>1, <1>7 DEF QueueTypes, HandlerInv
  <2>2. OrderInv'
    BY <1>1, <1>7 DEF OrderInv
  <2>3. ServeInv'
    <3> SUFFICES ASSUME NEW d \in Served' PROVE ServeInv!(d)'
      BY DEF ServeInv
    <3>1. d \in Served
      BY <1>1, <1>3, <1>7 DEF Served
    <3>2. ServeInv!(d)
      BY <3>1 DEF ServeInv
    <3> QED
      BY <1>1, <1>7, <3>2
  <2> QED
    BY <1>4, <1>5, <2>1, <2>2, <2>3
<1> QED
  BY <1>2, <1>6, <1>7

LEMMA SubscribeStep == ASSUME RxInv, NEW c \in Consumer, Subscribe(c) PROVE RxInv'
<1>1. /\ stream[c] = "none" /\ HubFree
      /\ UNCHANGED <<state, stop, stopper, worker, kind, drivers, failed, session, active,
                     todo, cur, number, queue>>
  BY DEF Subscribe, rxVars
<1>2. \/ /\ active /\ Cardinality(clients) < MaxClients
         /\ clients' = clients \cup {c}
         /\ joined' = [joined EXCEPT ![c] = session]
         /\ next' = [next EXCEPT ![c] = number + 1]
         /\ gap' = [gap EXCEPT ![c] = FALSE]
         /\ stream' = [stream EXCEPT ![c] = "stream"]
      \/ UNCHANGED <<clients, joined, next, gap, stream>>
  BY DEF Subscribe
<1> USE SdrAssumption DEF RxInv
<1>3. RxTypes' /\ QueueTypes' /\ OneDriver'
  BY <1>1 DEF RxTypes, QueueTypes, OneDriver
<1>4. CASE UNCHANGED <<clients, joined, next, gap, stream>>
  BY <1>1, <1>3, <1>4 DEF HandlerTypes, HubInv, HubFree, HandlerInv, OrderInv, ServeInv, Served
<1>5. CASE /\ active /\ Cardinality(clients) < MaxClients
           /\ clients' = clients \cup {c}
           /\ joined' = [joined EXCEPT ![c] = session]
           /\ next' = [next EXCEPT ![c] = number + 1]
           /\ gap' = [gap EXCEPT ![c] = FALSE]
           /\ stream' = [stream EXCEPT ![c] = "stream"]
  <2>1. number \in Nat /\ session \in 0 .. MaxSession /\ todo = {} /\ cur = {} /\ queue[c] = <<>>
    BY <1>1 DEF RxTypes, HubInv, HubFree, HandlerInv
  <2>2. /\ joined'[c] = session /\ next'[c] = number + 1 /\ gap'[c] = FALSE
        /\ stream'[c] = "stream"
        /\ \A d \in Consumer \ {c} : /\ joined'[d] = joined[d] /\ next'[d] = next[d]
                                     /\ gap'[d] = gap[d] /\ stream'[d] = stream[d]
    BY <1>5 DEF HandlerTypes
  <2>3. IsFiniteSet(clients') /\ Cardinality(clients') <= MaxClients
    <3>1. IsFiniteSet(clients) /\ Cardinality(clients) \in Nat
      BY FS_CardinalityType DEF HandlerTypes
    <3>2. /\ IsFiniteSet(clients \cup {c})
          /\ Cardinality(clients \cup {c}) =
               IF c \in clients THEN Cardinality(clients) ELSE Cardinality(clients) + 1
      BY <3>1, FS_AddElement
    <3> QED
      BY <1>5, <3>1, <3>2
  <2>4. HandlerTypes'
    BY <1>1, <1>5, <2>1, <2>3 DEF HandlerTypes
  <2>5. HubInv'
    BY <1>1, <1>5, <2>1 DEF HubInv, HubFree
  <2>6. HandlerInv'
    <3> SUFFICES ASSUME NEW d \in Consumer PROVE HandlerInv!(d)'
      BY DEF HandlerInv
    <3>1. HandlerInv!(d)
      BY DEF HandlerInv
    <3>2. CASE d = c
      BY <1>1, <1>5, <2>1, <2>2, <3>2 DEF HubInv
    <3>3. CASE d # c
      BY <1>1, <1>5, <2>1, <2>2, <3>1, <3>3
    <3> QED
      BY <3>2, <3>3
  <2>7. OrderInv'
    <3> SUFFICES ASSUME NEW d \in Consumer PROVE OrderInv!(d)'
      BY DEF OrderInv
    <3>1. OrderInv!(d)
      BY DEF OrderInv
    <3>2. CASE d = c
      BY <1>1, <2>1, <2>2, <3>2, EmptyFacts
    <3>3. CASE d # c
      BY <1>1, <2>1, <2>2, <3>1, <3>3
    <3> QED
      BY <3>2, <3>3
  <2>8. ServeInv'
    <3> SUFFICES ASSUME NEW d \in Served' PROVE ServeInv!(d)'
      BY DEF ServeInv
    <3>1. CASE d = c
      BY <1>1, <2>1, <2>2, <3>1, EmptyFacts DEF HubFree
    <3>2. CASE d # c
      <4>1. d \in Consumer /\ d \in Served
        BY <1>1, <1>5, <2>2, <2>4, <3>2 DEF Served, HandlerTypes
      <4>2. ServeInv!(d)
        BY <4>1 DEF ServeInv
      <4> QED
        BY <1>1, <2>2, <3>2, <4>1, <4>2
    <3> QED
      BY <3>1, <3>2
  <2> QED
    BY <1>3, <2>4, <2>5, <2>6, <2>7, <2>8
<1> QED
  BY <1>2, <1>4, <1>5

LEMMA GetStep == ASSUME RxInv, NEW c \in Consumer, Get(c) PROVE RxInv'
<1> DEFINE b == Head(queue[c])
<1>1. /\ stream[c] = "stream" /\ queue[c] # <<>>
      /\ queue' = [queue EXCEPT ![c] = Tail(queue[c])]
      /\ UNCHANGED <<state, stop, stopper, worker, kind, drivers, failed, session, active,
                     clients, todo, cur, number, joined>>
  BY DEF Get, rxVars, hubVars
<1>2. \/ /\ b = End /\ stream' = [stream EXCEPT ![c] = "leave"] /\ UNCHANGED <<next, gap>>
      \/ /\ b # End /\ UNCHANGED stream
         /\ gap' = [gap EXCEPT ![c] = gap[c] \/ b # next[c]]
         /\ next' = [next EXCEPT ![c] = b + 1]
  BY DEF Get
<1> USE SdrAssumption DEF RxInv
<1>3. RxTypes' /\ OneDriver'
  BY <1>1 DEF RxTypes, OneDriver
<1>4. /\ queue[c] \in Seq(Block \cup {End}) /\ queue[c] \in Seq(Nat) /\ Len(queue[c]) \in Nat \ {0}
      /\ next[c] \in Nat /\ number \in Nat /\ b \in Nat
      /\ Tail(queue[c]) \in Seq(Block \cup {End}) /\ Len(Tail(queue[c])) = Len(queue[c]) - 1
  BY <1>1, QueueFacts, TailFacts DEF HandlerTypes, RxTypes
<1>5. queue'[c] = Tail(queue[c]) /\ \A d \in Consumer \ {c} : queue'[d] = queue[d]
  BY <1>1 DEF QueueTypes
<1>6. QueueTypes'
  BY <1>1, <1>4, <1>5 DEF QueueTypes
<1>7. /\ \A d \in Consumer \ {c} : next'[d] = next[d] /\ gap'[d] = gap[d] /\ stream'[d] = stream[d]
      /\ stream'[c] # "none"
      /\ \/ b = End /\ next'[c] = next[c] /\ gap'[c] = gap[c]
         \/ b # End /\ next'[c] = b + 1 /\ gap'[c] = (gap[c] \/ b # next[c])
  <2> HIDE DEF b
  <2> QED
    BY <1>1, <1>2 DEF HandlerTypes
<1>8. Ascending(queue[c], next[c], number) /\ next[c] <= number + 1
  BY DEF OrderInv
<1>9. b # End => next[c] <= b /\ b <= number /\ Ascending(Tail(queue[c]), b + 1, number)
  BY <1>1, <1>4, <1>8, TailOrder
<1>10. Ascending(Tail(queue[c]), next[c], number)
  BY <1>1, <1>4, <1>8, TailOrder
<1>11. ASSUME c \in todo, active
       PROVE  /\ next[c] <= number
              /\ Ascending(Tail(queue[c]), next[c], number - 1)
              /\ b # End => b <= number - 1 /\ Ascending(Tail(queue[c]), b + 1, number - 1)
  <2>1. next[c] <= number /\ Ascending(queue[c], next[c], number - 1)
    BY <1>11 DEF OrderInv
  <2> QED
    BY <1>1, <1>4, <2>1, TailOrder
<1>12. Consecutive(queue[c], next[c]) => b = next[c] /\ Consecutive(Tail(queue[c]), next[c] + 1)
  BY <1>1, <1>4, TailOrder
<1> HIDE DEF b
<1>13. HandlerTypes'
  <2>1. stream' \in [Consumer -> {"none", "stream", "leave"}]
    BY <1>1, <1>2 DEF HandlerTypes
  <2>2. next' \in [Consumer -> Nat]
    <3>1. b + 1 \in Nat
      BY <1>4
    <3> QED
      BY <1>2, <3>1 DEF HandlerTypes
  <2>3. gap' \in [Consumer -> BOOLEAN]
    BY <1>2 DEF HandlerTypes
  <2> QED
    BY <1>1, <2>1, <2>2, <2>3 DEF HandlerTypes
<1>14. HubInv'
  BY <1>1 DEF HubInv, HubFree
<1>15. HandlerInv'
  <2> SUFFICES ASSUME NEW d \in Consumer PROVE HandlerInv!(d)'
    BY DEF HandlerInv
  <2>1. HandlerInv!(d)
    BY DEF HandlerInv
  <2>2. CASE d = c
    BY <1>1, <1>4, <1>7, <2>1, <2>2
  <2>3. CASE d # c
    BY <1>1, <1>5, <1>7, <2>1, <2>3
  <2> QED
    BY <2>2, <2>3
<1>16. OrderInv'
  <2> SUFFICES ASSUME NEW d \in Consumer PROVE OrderInv!(d)'
    BY DEF OrderInv
  <2>1. OrderInv!(d)
    BY DEF OrderInv
  <2>2. CASE d = c
    BY <1>1, <1>4, <1>5, <1>7, <1>8, <1>9, <1>10, <1>11, <2>2
  <2>3. CASE d # c
    BY <1>1, <1>5, <1>7, <2>1, <2>3
  <2> QED
    BY <2>2, <2>3
<1>17. ServeInv'
  <2> SUFFICES ASSUME NEW d \in Served' PROVE ServeInv!(d)'
    BY DEF ServeInv
  <2>1. d \in Served /\ d \in Consumer
    BY <1>1, <1>13 DEF Served, HandlerTypes
  <2>2. ServeInv!(d)
    BY <2>1 DEF ServeInv
  <2>3. CASE d = c
    <3>1. c \in Consumer /\ next[c] >= 1
      BY <1>1 DEF HandlerInv
    <3>2. b = next[c] /\ Consecutive(Tail(queue[c]), next[c] + 1)
      BY <1>12, <2>2, <2>3
    <3>3. next'[c] = next[c] + 1 /\ ~gap'[c]
      <4>1. b # End
        BY <1>4, <3>1, <3>2 DEF End
      <4>2. next'[c] = b + 1 /\ gap'[c] = (gap[c] \/ b # next[c])
        BY <1>7, <4>1
      <4>3. ~gap'[c]
        BY <2>2, <2>3, <3>2, <4>2, Zenon
      <4> QED
        BY <3>2, <4>2, <4>3
    <3>4. next'[c] + Len(queue'[c]) = next[c] + Len(queue[c])
      BY <1>4, <1>5, <3>3
    <3> QED
      BY <1>1, <1>5, <2>2, <2>3, <3>2, <3>3, <3>4
  <2>4. CASE d # c
    BY <1>1, <1>5, <1>7, <2>1, <2>2, <2>4
  <2> QED
    BY <2>3, <2>4
<1> QED
  BY <1>3, <1>6, <1>13, <1>14, <1>15, <1>16, <1>17

LEMMA LeaveStep ==
    ASSUME RxInv, NEW c \in Consumer, GiveUp(c) \/ Unsubscribe(c)
    PROVE  RxInv'
<1> USE SdrAssumption DEF RxInv
<1>1. CASE GiveUp(c)
  <2>1. /\ stream[c] = "stream" /\ stream' = [stream EXCEPT ![c] = "leave"]
        /\ UNCHANGED <<rxVars, hubVars, queue, joined, next, gap>>
    BY <1>1 DEF GiveUp, seen
  <2>2. UNCHANGED <<state, stop, stopper, worker, kind, drivers, failed, session, active,
                    clients, todo, cur, number, queue, joined, next, gap>>
    BY <2>1 DEF rxVars, hubVars
  <2>3. stream'[c] = "leave" /\ \A d \in Consumer \ {c} : stream'[d] = stream[d]
    BY <2>1 DEF HandlerTypes
  <2>4. RxTypes' /\ HandlerTypes' /\ QueueTypes' /\ OneDriver'
    BY <2>1, <2>2 DEF RxTypes, HandlerTypes, QueueTypes, OneDriver
  <2>5. HubInv' /\ OrderInv' /\ ServeInv'
    BY <2>2 DEF HubInv, HubFree, OrderInv, ServeInv, Served
  <2>6. HandlerInv'
    <3> SUFFICES ASSUME NEW d \in Consumer PROVE HandlerInv!(d)'
      BY DEF HandlerInv
    <3>1. HandlerInv!(d) /\ HandlerInv!(c)
      BY DEF HandlerInv
    <3> QED
      BY <2>1, <2>2, <2>3, <3>1
  <2> QED
    BY <2>4, <2>5, <2>6
<1>2. CASE Unsubscribe(c)
  <2>1. /\ stream[c] = "leave" /\ HubFree
        /\ clients' = clients \ {c}
        /\ stream' = [stream EXCEPT ![c] = "none"]
        /\ queue' = [queue EXCEPT ![c] = <<>>]
        /\ joined' = [joined EXCEPT ![c] = 0]
        /\ next' = [next EXCEPT ![c] = 0]
        /\ UNCHANGED <<state, stop, stopper, worker, kind, drivers, failed, session, active,
                       todo, cur, number, gap>>
    BY <1>2 DEF Unsubscribe, rxVars
  <2>2. number \in Nat /\ session \in Nat /\ todo = {} /\ cur = {}
    BY <2>1 DEF RxTypes, HubInv, HubFree
  <2>3. /\ stream'[c] = "none" /\ queue'[c] = <<>> /\ joined'[c] = 0 /\ next'[c] = 0
        /\ \A d \in Consumer \ {c} : /\ stream'[d] = stream[d] /\ queue'[d] = queue[d]
                                     /\ joined'[d] = joined[d] /\ next'[d] = next[d]
    BY <2>1 DEF HandlerTypes, QueueTypes
  <2>4. RxTypes' /\ OneDriver'
    BY <2>1 DEF RxTypes, OneDriver
  <2>5. HandlerTypes'
    <3>1. IsFiniteSet(clients') /\ Cardinality(clients') <= MaxClients
      <4>1. IsFiniteSet(clients) /\ Cardinality(clients) <= MaxClients
        BY DEF HandlerTypes
      <4> QED
        BY <2>1, <4>1, RemoveKeepsRoom
    <3>2. 0 \in 0 .. MaxSession
      OBVIOUS
    <3> QED
      BY <2>1, <3>1, <3>2 DEF HandlerTypes
  <2>6. QueueTypes'
    BY <2>1, <2>3, EmptyFacts DEF QueueTypes
  <2>7. HubInv'
    BY <2>1, <2>2 DEF HubInv, HubFree
  <2>8. HandlerInv' /\ OrderInv'
    <3> SUFFICES ASSUME NEW d \in Consumer PROVE HandlerInv!(d)' /\ OrderInv!(d)'
      BY DEF HandlerInv, OrderInv
    <3>1. HandlerInv!(d) /\ OrderInv!(d)
      BY DEF HandlerInv, OrderInv
    <3>2. CASE d = c
      <4>1. worker = "open" => session >= 1
        BY DEF HubInv
      <4> QED
        BY <2>1, <2>2, <2>3, <3>2, <4>1, EmptyFacts
    <3>3. CASE d # c
      BY <2>1, <2>3, <3>1, <3>3
    <3> QED
      BY <3>2, <3>3
  <2>9. ServeInv'
    <3> SUFFICES ASSUME NEW d \in Served' PROVE ServeInv!(d)'
      BY DEF ServeInv
    <3>1. d \in Consumer /\ d # c /\ d \in Served
      BY <2>1, <2>3, <2>5 DEF Served, HandlerTypes
    <3>2. ServeInv!(d)
      BY <3>1 DEF ServeInv
    <3> QED
      BY <2>1, <2>3, <3>1, <3>2
  <2> QED
    BY <2>4, <2>5, <2>6, <2>7, <2>8, <2>9
<1> QED
  BY <1>1, <1>2
-----------------------------------------------------------------------------
(* The line and the decoder session. *)

\* A handler serves the connection exactly while the client has one it can read.
ConnInv == \A c \in Consumer : stream[c] = "none" <=> conn[c] \in {"none", "asked", "ended"}

\* A session that is not over was told to stop if its event is set, and knows why
\* its capture thread is over.
StopInv ==
    /\ decoder \in {"begin", "look", "get"} /\ halt => asked
    /\ capture = "dead" /\ decoder \in {"begin", "look", "get"} => failure \/ halt

\* A session starts with nothing of an earlier one, and its capture thread has its
\* place on the connection.
LineInv ==
    /\ decoder \in {"dead", "begin"} => capture = "none" /\ chunks = <<>> /\ due = 0 /\ ~failure
    /\ decoder = "begin" => ~skipped
    /\ decoder \notin {"dead", "begin"} => capture # "none"
    /\ capture \in {"connect", "wait"} => chunks = <<>> /\ due = 0 /\ ~skipped
    /\ Decoder \in scene.listeners => decoder = "dead" /\ ~skipped
    /\ Decoder \notin scene.listeners =>
         /\ capture \in {"none", "connect", "dead"} => conn[Decoder] \in {"none", "shut"}
         /\ capture = "wait" => conn[Decoder] \in {"asked", "open", "ended"}
         /\ capture = "read" => conn[Decoder] \in {"open", "ended"}
    /\ capture = "wait" /\ conn[Decoder] = "asked" => wire[Decoder] = End

\* b is the block that comes after what the capture thread has taken, or the first.
Follows(b) == IF chunks # <<>> THEN b = chunks[Len(chunks)] + 1 ELSE due # 0 => b = due

\* Without a gap on the receiver's side, push, the chunk queue, the connection and
\* the handler continue one another.
FlowInv ==
    decoder \in {"look", "get"} /\ ~gap[Decoder] =>
        /\ Chained(chunks)
        /\ due # 0 /\ chunks # <<>> => chunks[1] = due
        /\ capture \in {"wait", "read"} =>
             /\ wire[Decoder] # End => Follows(wire[Decoder])
             /\ stream[Decoder] = "stream" =>
                  IF wire[Decoder] # End THEN next[Decoder] = wire[Decoder] + 1
                                         ELSE Follows(next[Decoder])

GapTold == skipped => gap[Decoder]

DecInv == D!DecTypeOK /\ StopInv /\ LineInv /\ FlowInv /\ TruncationTold /\ GapTold

\* Also with a gap, what is on its way to push is new and in order: the chunk queue,
\* then the block on the connection, then what the handler has still to take.
PipeInv ==
    /\ \A i \in 1 .. Len(chunks) : chunks[i] # End
    /\ Ascending(chunks, due, number)
    /\ capture \in {"wait", "read"} =>
         /\ wire[Decoder] # End => /\ due <= wire[Decoder] /\ wire[Decoder] <= number
                                  /\ Ascending(chunks, due, wire[Decoder] - 1)
         /\ stream[Decoder] = "stream" => /\ due <= next[Decoder]
                                          /\ Ascending(chunks, due, next[Decoder] - 1)
                                          /\ wire[Decoder] # End => wire[Decoder] < next[Decoder]

ChainInv == LineTypes /\ ConnInv /\ DecInv

LEMMA ChainStart == ASSUME Init PROVE ChainInv
<1> USE SdrAssumption, ChainAssumption DEF Init, SdrInit, D!DecInit
<1>1. LineTypes
  BY DEF LineTypes
<1>2. ConnInv
  BY DEF ConnInv
<1>3. D!DecTypeOK
  <2>1. <<>> \in Seq(Nat)
    OBVIOUS
  <2>2. 0 \in 0 .. MaxRuns
    OBVIOUS
  <2> QED
    BY <2>1, <2>2 DEF D!DecTypeOK
<1>4. StopInv /\ LineInv /\ FlowInv
  BY DEF StopInv, LineInv, FlowInv
<1>5. TruncationTold /\ GapTold
  BY DEF TruncationTold, D!TruncationTold, GapTold
<1> QED
  BY <1>1, <1>2, <1>3, <1>4, <1>5 DEF ChainInv, DecInv

\* The decoder session sees of the receiver only what happens on its connection.
LEMMA DecoderKeeps ==
    ASSUME DecInv, UNCHANGED <<decVars, scene>>,
           conn'[Decoder] = conn[Decoder], wire'[Decoder] = wire[Decoder],
           stream'[Decoder] = stream[Decoder], next'[Decoder] = next[Decoder],
           gap'[Decoder] = gap[Decoder]
    PROVE  DecInv'
<1>1. UNCHANGED <<status, halt, asked, decoder, capture, chunks, failure, due, skipped, runs, scene>>
  BY DEF decVars
<1>2. D!DecTypeOK' /\ StopInv' /\ TruncationTold' /\ GapTold'
  BY <1>1 DEF DecInv, D!DecTypeOK, StopInv, TruncationTold, D!TruncationTold, GapTold
<1>3. LineInv'
  BY <1>1 DEF DecInv, LineInv
<1>4. FlowInv'
  BY <1>1 DEF DecInv, FlowInv, Follows
<1> QED
  BY <1>2, <1>3, <1>4 DEF DecInv

LEMMA ReceiverKeepsLine ==
    ASSUME ChainInv, UNCHANGED <<decVars, scene>>, UNCHANGED <<conn, wire, stream, next, gap>>
    PROVE  ChainInv'
<1>1. LineTypes' /\ ConnInv'
  BY DEF ChainInv, LineTypes, ConnInv
<1>2. DecInv'
  BY DecoderKeeps DEF ChainInv
<1> QED
  BY <1>1, <1>2 DEF ChainInv

LEMMA SubscribeLine ==
    ASSUME RxInv, ChainInv, NEW c \in Consumer, Subscribe(c), UNCHANGED <<decVars, scene>>
    PROVE  ChainInv'
<1>1. /\ conn[c] = "asked" /\ stream[c] = "none" /\ UNCHANGED wire
      /\ \/ /\ next' = [next EXCEPT ![c] = number + 1]
            /\ gap' = [gap EXCEPT ![c] = FALSE]
            /\ stream' = [stream EXCEPT ![c] = "stream"]
            /\ conn' = [conn EXCEPT ![c] = "open"]
         \/ /\ conn' = [conn EXCEPT ![c] = "ended"]
            /\ UNCHANGED <<next, gap, stream>>
  BY DEF Subscribe
<1>2. HandlerTypes /\ LineTypes /\ ConnInv /\ DecInv
  BY DEF RxInv, ChainInv
<1>3. \A d \in Consumer \ {c} : /\ conn'[d] = conn[d] /\ stream'[d] = stream[d]
                                /\ next'[d] = next[d] /\ gap'[d] = gap[d]
  BY <1>1, <1>2 DEF HandlerTypes, LineTypes
<1>4. \/ conn'[c] = "open" /\ stream'[c] = "stream" /\ gap'[c] = FALSE
      \/ conn'[c] = "ended" /\ stream'[c] = "none" /\ gap'[c] = gap[c]
  BY <1>1, <1>2 DEF HandlerTypes, LineTypes
<1>5. LineTypes'
  BY <1>1, <1>2 DEF LineTypes
<1>6. ConnInv'
  BY <1>1, <1>2, <1>3, <1>4 DEF ConnInv
<1>7. DecInv'
  <2>1. CASE c # Decoder
    BY <1>1, <1>2, <1>3, <2>1, ChainAssumption, DecoderKeeps
  <2>2. CASE c = Decoder
    <3>0. UNCHANGED <<status, halt, asked, decoder, capture, chunks, failure, due, skipped, runs, scene>>
      BY DEF decVars
    <3>1. \/ decoder = "dead" /\ Decoder \in scene.listeners
          \/ capture = "wait" /\ Decoder \notin scene.listeners
      BY <1>1, <1>2, <2>2 DEF DecInv, LineInv, D!DecTypeOK
    <3>2. ~skipped /\ chunks = <<>> /\ due = 0
      BY <1>2, <3>1 DEF DecInv, LineInv
    <3>3. capture = "wait" => wire[Decoder] = End
      BY <1>1, <1>2, <2>2 DEF DecInv, LineInv
    <3>4. LineInv'
      BY <1>1, <1>2, <1>4, <2>2, <3>0, <3>1 DEF DecInv, LineInv
    <3>5. FlowInv'
      <4>1. decoder = "dead" \/ (capture = "wait" /\ wire[Decoder] = End)
        BY <3>1, <3>3
      <4> QED
        BY <1>1, <3>0, <3>2, <4>1, EmptyFacts DEF FlowInv, Follows
    <3>6. D!DecTypeOK' /\ StopInv' /\ TruncationTold' /\ GapTold'
      BY <1>2, <3>0, <3>2
      DEF DecInv, D!DecTypeOK, StopInv, TruncationTold, D!TruncationTold, GapTold
    <3> QED
      BY <3>4, <3>5, <3>6 DEF DecInv
  <2> QED
    BY <2>1, <2>2
<1> QED
  BY <1>5, <1>6, <1>7 DEF ChainInv

LEMMA GetLine ==
    ASSUME RxInv, ChainInv, NEW c \in Consumer, Get(c), UNCHANGED <<decVars, scene>>
    PROVE  ChainInv'
<1> DEFINE b == Head(queue[c])
<1>1. /\ stream[c] = "stream" /\ wire[c] = End /\ queue[c] # <<>> /\ UNCHANGED conn
      /\ \/ /\ b = End /\ stream' = [stream EXCEPT ![c] = "leave"] /\ UNCHANGED <<wire, next, gap>>
         \/ /\ b # End /\ UNCHANGED stream
            /\ wire' = [wire EXCEPT ![c] = b]
            /\ gap' = [gap EXCEPT ![c] = gap[c] \/ b # next[c]]
            /\ next' = [next EXCEPT ![c] = b + 1]
  BY DEF Get
<1>2. HandlerTypes /\ QueueTypes /\ LineTypes /\ ConnInv /\ DecInv
  BY DEF RxInv, ChainInv
<1>3. b \in Block \cup {End}
  <2>1. queue[c] \in Seq(Block \cup {End})
    BY <1>2, QueueFacts
  <2> QED
    BY <1>1, <2>1, TailFacts
<1> HIDE DEF b
<1>4. \A d \in Consumer \ {c} : /\ wire'[d] = wire[d] /\ stream'[d] = stream[d]
                                /\ next'[d] = next[d] /\ gap'[d] = gap[d]
  BY <1>1, <1>2 DEF HandlerTypes, LineTypes
<1>5. \/ /\ stream'[c] = "leave" /\ wire'[c] = End /\ gap'[c] = gap[c]
      \/ /\ stream'[c] = "stream" /\ wire'[c] = b /\ b # End /\ next'[c] = b + 1
         /\ gap'[c] = (gap[c] \/ b # next[c])
  BY <1>1, <1>2 DEF HandlerTypes, LineTypes
<1>6. LineTypes'
  BY <1>1, <1>2, <1>3 DEF LineTypes
<1>7. ConnInv'
  BY <1>1, <1>2, <1>4, <1>5 DEF ConnInv
<1>8. DecInv'
  <2>1. CASE c # Decoder
    BY <1>1, <1>2, <1>4, <2>1, ChainAssumption, DecoderKeeps
  <2>2. CASE c = Decoder
    <3>0. UNCHANGED <<status, halt, asked, decoder, capture, chunks, failure, due, skipped, runs,
                      scene, conn>>
      BY <1>1 DEF decVars
    <3>1. conn[Decoder] # "asked"
      BY <1>1, <1>2, <2>2 DEF ConnInv
    <3>2. LineInv'
      BY <1>2, <3>0, <3>1 DEF DecInv, LineInv
    <3>3. gap[Decoder] => gap'[Decoder]
      BY <1>5, <2>2, Zenon
    <3>4. FlowInv'
      <4> SUFFICES ASSUME decoder \in {"look", "get"}, ~gap'[Decoder] PROVE FlowInv!2'
        BY <3>0 DEF FlowInv
      <4>1. FlowInv!2
        BY <1>2, <3>3 DEF DecInv, FlowInv
      <4>2. CASE stream'[c] = "leave" /\ wire'[c] = End
        BY <2>2, <3>0, <4>1, <4>2
      <4>3. CASE stream'[c] = "stream" /\ wire'[c] = b /\ next'[c] = b + 1 /\ b = next[c]
        BY <1>1, <2>2, <3>0, <4>1, <4>3 DEF Follows
      <4>4. \/ stream'[c] = "leave" /\ wire'[c] = End
            \/ stream'[c] = "stream" /\ wire'[c] = b /\ next'[c] = b + 1 /\ b = next[c]
        BY <1>5, <2>2, Zenon
      <4> QED
        BY <4>2, <4>3, <4>4
    <3>5. D!DecTypeOK' /\ StopInv' /\ TruncationTold'
      BY <1>2, <3>0 DEF DecInv, D!DecTypeOK, StopInv, TruncationTold, D!TruncationTold
    <3>6. GapTold'
      BY <1>2, <3>0, <3>3 DEF DecInv, GapTold
    <3> QED
      BY <3>2, <3>4, <3>5, <3>6 DEF DecInv
  <2> QED
    BY <2>1, <2>2
<1> QED
  BY <1>6, <1>7, <1>8 DEF ChainInv

LEMMA LeaveLine ==
    ASSUME RxInv, ChainInv, NEW c \in Consumer, GiveUp(c) \/ Unsubscribe(c),
           UNCHANGED <<decVars, scene>>
    PROVE  ChainInv'
<1>1. /\ UNCHANGED gap
      /\ \/ /\ stream[c] = "stream" /\ stream' = [stream EXCEPT ![c] = "leave"]
            /\ wire' \in {wire, [wire EXCEPT ![c] = End]}
            /\ UNCHANGED <<conn, next>>
         \/ /\ stream[c] = "leave" /\ stream' = [stream EXCEPT ![c] = "none"]
            /\ next' = [next EXCEPT ![c] = 0]
            /\ conn' = [conn EXCEPT ![c] = IF conn[c] = "open" THEN "ended" ELSE "none"]
            /\ UNCHANGED wire
  BY DEF GiveUp, Unsubscribe, seen
<1>2. HandlerTypes /\ LineTypes /\ ConnInv /\ DecInv
  BY DEF RxInv, ChainInv
<1>3. \A d \in Consumer \ {c} : /\ wire'[d] = wire[d] /\ stream'[d] = stream[d]
                                /\ next'[d] = next[d] /\ conn'[d] = conn[d]
  BY <1>1, <1>2 DEF HandlerTypes, LineTypes
<1>4. /\ stream'[c] # "stream" /\ wire'[c] \in {wire[c], End}
      /\ \/ stream'[c] = "leave" /\ conn'[c] = conn[c]
         \/ stream'[c] = "none" /\ conn'[c] = IF conn[c] = "open" THEN "ended" ELSE "none"
  BY <1>1, <1>2 DEF HandlerTypes, LineTypes
<1>5. conn[c] \in {"open", "shut"}
  BY <1>1, <1>2 DEF ConnInv, LineTypes
<1>6. LineTypes'
  BY <1>1, <1>2 DEF LineTypes
<1>7. ConnInv'
  BY <1>1, <1>2, <1>3, <1>4, <1>5 DEF ConnInv
<1>8. DecInv'
  <2>1. CASE c # Decoder
    BY <1>1, <1>2, <1>3, <2>1, ChainAssumption, DecoderKeeps
  <2>2. CASE c = Decoder
    <3>0. UNCHANGED <<status, halt, asked, decoder, capture, chunks, failure, due, skipped, runs, scene>>
      BY DEF decVars
    <3>1. LineInv'
      BY <1>2, <1>4, <1>5, <2>2, <3>0 DEF DecInv, LineInv
    <3>2. FlowInv'
      <4>1. FlowInv /\ UNCHANGED gap
        BY <1>1, <1>2 DEF DecInv
      <4> QED
        BY <1>4, <2>2, <3>0, <4>1 DEF FlowInv, Follows
    <3>3. D!DecTypeOK' /\ StopInv' /\ TruncationTold' /\ GapTold'
      BY <1>1, <1>2, <3>0
      DEF DecInv, D!DecTypeOK, StopInv, TruncationTold, D!TruncationTold, GapTold
    <3> QED
      BY <3>1, <3>2, <3>3 DEF DecInv
  <2> QED
    BY <2>1, <2>2
<1> QED
  BY <1>6, <1>7, <1>8 DEF ChainInv

\* The other consumers use their own connections.
LEMMA ListenerLine ==
    ASSUME ChainInv, NEW c \in Consumer, Ask(c) \/ Note(c), UNCHANGED scene
    PROVE  ChainInv'
<1>1. /\ c \in scene.listeners /\ UNCHANGED <<stream, next, gap, decVars, scene>>
      /\ \/ /\ conn[c] = "none" /\ conn' = [conn EXCEPT ![c] = "asked"]
            /\ UNCHANGED wire
         \/ /\ conn[c] = "ended" /\ conn' = [conn EXCEPT ![c] = "none"]
            /\ wire' = [wire EXCEPT ![c] = End]
  BY DEF Ask, Note, conVars, seen
<1>2. LineTypes /\ ConnInv /\ DecInv
  BY DEF ChainInv
<1>3. \A d \in Consumer \ {c} : conn'[d] = conn[d] /\ wire'[d] = wire[d]
  BY <1>1, <1>2 DEF LineTypes
<1>4. conn[c] \in {"none", "ended"} /\ conn'[c] \in {"none", "asked"}
  BY <1>1, <1>2 DEF LineTypes
<1>5. LineTypes'
  BY <1>1, <1>2 DEF LineTypes
<1>6. ConnInv'
  BY <1>1, <1>2, <1>3, <1>4 DEF ConnInv
<1>7. DecInv'
  <2>1. CASE c # Decoder
    BY <1>1, <1>2, <1>3, <2>1, ChainAssumption, DecoderKeeps
  <2>2. CASE c = Decoder
    <3>0. UNCHANGED <<status, halt, asked, decoder, capture, chunks, failure, due, skipped, runs, scene>>
      BY <1>1 DEF decVars
    <3>1. decoder = "dead" /\ capture = "none"
      BY <1>1, <1>2, <2>2 DEF DecInv, LineInv
    <3>2. LineInv' /\ FlowInv'
      BY <1>1, <1>2, <2>2, <3>0, <3>1 DEF DecInv, LineInv, FlowInv
    <3>3. D!DecTypeOK' /\ StopInv' /\ TruncationTold' /\ GapTold'
      BY <1>1, <1>2, <3>0
      DEF DecInv, D!DecTypeOK, StopInv, TruncationTold, D!TruncationTold, GapTold
    <3> QED
      BY <3>2, <3>3 DEF DecInv
  <2> QED
    BY <2>1, <2>2
<1> QED
  BY <1>5, <1>6, <1>7 DEF ChainInv

LEMMA CaptureStep ==
    ASSUME ChainInv, D!CaptureThread, UNCHANGED <<stream, next, gap, scene>>
    PROVE  ChainInv'
<1> USE SdrAssumption, ChainAssumption
<1>1. LineTypes /\ ConnInv /\ D!DecTypeOK /\ StopInv /\ LineInv /\ FlowInv /\ TruncationTold /\ GapTold
  BY DEF ChainInv, DecInv
<1>2. UNCHANGED <<status, halt, asked, decoder, due, skipped, runs>>
  BY DEF D!CaptureThread, D!Connect, D!Connected, D!Record, D!lineVars
<1>3. capture # "none" /\ Decoder \notin scene.listeners /\ decoder \notin {"dead", "begin"}
  BY <1>1 DEF D!CaptureThread, D!Connect, D!Connected, D!Record, LineInv, D!DecTypeOK
<1>4. TruncationTold' /\ GapTold'
  BY <1>1, <1>2 DEF TruncationTold, D!TruncationTold, GapTold
<1>5. CASE D!Connect
  <2>1. /\ capture = "connect" /\ conn[Decoder] = "none" /\ capture' = "wait"
        /\ conn' = [conn EXCEPT ![Decoder] = "asked"]
        /\ wire' = [wire EXCEPT ![Decoder] = 0]
        /\ UNCHANGED <<chunks, failure>>
    BY <1>5 DEF D!Connect
  <2>2. /\ conn'[Decoder] = "asked" /\ wire'[Decoder] = End
        /\ \A d \in Consumer \ {Decoder} : conn'[d] = conn[d]
    BY <1>1, <2>1 DEF LineTypes, End
  <2>3. LineTypes'
    BY <1>1, <2>1 DEF LineTypes, End
  <2>4. ConnInv' /\ stream[Decoder] = "none"
    BY <1>1, <2>1, <2>2 DEF ConnInv
  <2>5. D!DecTypeOK' /\ StopInv'
    BY <1>1, <1>2, <2>1 DEF D!DecTypeOK, StopInv
  <2>6. LineInv' /\ FlowInv'
    BY <1>1, <1>2, <1>3, <2>1, <2>2, <2>4, EmptyFacts DEF LineInv, FlowInv
  <2> QED
    BY <1>4, <2>3, <2>4, <2>5, <2>6 DEF ChainInv, DecInv
<1>6. CASE D!Connected
  <2>1. /\ capture = "wait" /\ conn[Decoder] # "asked" /\ capture' = "read"
        /\ UNCHANGED <<chunks, failure, conn, wire>>
    BY <1>6 DEF D!Connected, D!lineVars
  <2>2. LineTypes' /\ ConnInv'
    BY <1>1, <2>1 DEF LineTypes, ConnInv
  <2>3. D!DecTypeOK' /\ StopInv'
    BY <1>1, <1>2, <2>1 DEF D!DecTypeOK, StopInv
  <2>4. LineInv'
    BY <1>1, <1>2, <1>3, <2>1 DEF LineInv
  <2>5. FlowInv'
    BY <1>1, <1>2, <2>1 DEF FlowInv, Follows
  <2> QED
    BY <1>4, <2>2, <2>3, <2>4, <2>5 DEF ChainInv, DecInv
<1>7. CASE D!Record
  <2>0. capture = "read" /\ wire' = [wire EXCEPT ![Decoder] = 0]
    BY <1>7 DEF D!Record
  <2>1. \/ /\ wire[Decoder] # 0 /\ chunks' = Append(chunks, wire[Decoder])
           /\ UNCHANGED <<failure, capture, conn>>
        \/ /\ failure' = ~halt /\ capture' = "dead" /\ UNCHANGED chunks
           /\ conn' = [conn EXCEPT ![Decoder] = IF conn[Decoder] = "ended" THEN "none" ELSE "shut"]
    BY <1>7 DEF D!Record
  <2>2. wire'[Decoder] = End /\ wire[Decoder] \in Nat
    BY <1>1, <2>0 DEF LineTypes, End, Block
  <2>3. LineTypes'
    <3>1. wire' \in [Consumer -> Block \cup {End}]
      BY <1>1, <2>0 DEF LineTypes, End
    <3>2. conn' \in [Consumer -> {"none", "asked", "open", "shut", "ended"}]
      BY <1>1, <2>1 DEF LineTypes
    <3> QED
      BY <3>1, <3>2 DEF LineTypes
  <2>4. chunks \in Seq(Nat) /\ Len(chunks) \in Nat
    BY <1>1 DEF D!DecTypeOK
  <2>5. CASE /\ wire[Decoder] # 0 /\ chunks' = Append(chunks, wire[Decoder])
             /\ UNCHANGED <<failure, capture, conn>>
    <3>1. /\ chunks' \in Seq(Nat) /\ Len(chunks') = Len(chunks) + 1
          /\ chunks'[Len(chunks')] = wire[Decoder] /\ chunks' # <<>>
          /\ chunks # <<>> => chunks'[1] = chunks[1]
          /\ chunks = <<>> => chunks'[1] = wire[Decoder]
      <4>1. (chunks = <<>> => Len(chunks) = 0) /\ (chunks # <<>> => Len(chunks) >= 1)
        BY <2>4
      <4> QED
        BY <2>2, <2>4, <2>5, <4>1, AppendFacts
    <3>2. ConnInv' /\ D!DecTypeOK' /\ StopInv'
      BY <1>1, <1>2, <2>5, <3>1 DEF ConnInv, D!DecTypeOK, StopInv
    <3>3. LineInv'
      BY <1>1, <1>2, <1>3, <2>0, <2>5 DEF LineInv
    <3>4. FlowInv'
      <4> SUFFICES ASSUME decoder \in {"look", "get"}, ~gap[Decoder] PROVE FlowInv!2'
        BY <1>2 DEF FlowInv
      <4>1. /\ Chained(chunks) /\ (due # 0 /\ chunks # <<>> => chunks[1] = due)
            /\ Follows(wire[Decoder])
            /\ stream[Decoder] = "stream" => next[Decoder] = wire[Decoder] + 1
        BY <1>1, <2>0, <2>5 DEF FlowInv, End
      <4>2. Chained(chunks')
        BY <2>2, <2>4, <2>5, <4>1, AppendOrder DEF Follows
      <4>3. due' # 0 => chunks'[1] = due'
        BY <1>2, <3>1, <4>1 DEF Follows
      <4>4. stream'[Decoder] = "stream" => Follows(next[Decoder])'
        BY <3>1, <4>1 DEF Follows
      <4> QED
        BY <2>2, <4>2, <4>3, <4>4
    <3> QED
      BY <1>4, <2>3, <3>2, <3>3, <3>4 DEF ChainInv, DecInv
  <2>6. CASE /\ failure' = ~halt /\ capture' = "dead" /\ UNCHANGED chunks
             /\ conn' = [conn EXCEPT ![Decoder] = IF conn[Decoder] = "ended" THEN "none" ELSE "shut"]
    <3>1. /\ conn[Decoder] \in {"open", "ended"}
          /\ conn'[Decoder] = IF conn[Decoder] = "ended" THEN "none" ELSE "shut"
          /\ \A d \in Consumer \ {Decoder} : conn'[d] = conn[d]
      BY <1>1, <1>3, <2>0, <2>6 DEF LineInv, LineTypes
    <3>2. ConnInv'
      BY <1>1, <3>1 DEF ConnInv
    <3>3. failure' \in BOOLEAN /\ (failure' \/ halt')
      BY <1>1, <1>2, <2>6 DEF D!DecTypeOK
    <3>4. D!DecTypeOK' /\ StopInv'
      BY <1>1, <1>2, <2>6, <3>3 DEF D!DecTypeOK, StopInv
    <3>5. LineInv' /\ FlowInv'
      BY <1>1, <1>2, <1>3, <2>6, <3>1 DEF LineInv, FlowInv
    <3> QED
      BY <1>4, <2>3, <3>2, <3>4, <3>5 DEF ChainInv, DecInv
  <2> QED
    BY <2>1, <2>5, <2>6
<1> QED
  BY <1>5, <1>6, <1>7 DEF D!CaptureThread

LEMMA OperatorStep ==
    ASSUME ChainInv, Decoder \notin scene.listeners, D!StartDecoder \/ D!StopDecoder,
           UNCHANGED <<stream, next, gap, scene>>
    PROVE  ChainInv'
<1> USE SdrAssumption, ChainAssumption
<1>1. LineTypes /\ ConnInv /\ D!DecTypeOK /\ StopInv /\ LineInv /\ FlowInv /\ TruncationTold /\ GapTold
  BY DEF ChainInv, DecInv
<1>2. UNCHANGED <<capture, chunks, failure, due, conn, wire>>
  BY DEF D!StartDecoder, D!StopDecoder, D!lineVars
<1>3. \/ /\ decoder = "dead" /\ decoder' = "begin" /\ runs < MaxRuns /\ runs' = runs + 1
         /\ halt' = FALSE /\ asked' = FALSE /\ status' = "starting" /\ skipped' = FALSE
      \/ /\ decoder # "dead" /\ asked' = TRUE /\ halt' = TRUE /\ status' = "stopping"
         /\ UNCHANGED <<decoder, skipped, runs>>
  BY DEF D!StartDecoder, D!StopDecoder
<1>4. LineTypes' /\ ConnInv'
  BY <1>1, <1>2 DEF LineTypes, ConnInv
<1>5. D!DecTypeOK'
  <2>1. runs' \in 0 .. MaxRuns
    BY <1>1, <1>3 DEF D!DecTypeOK
  <2> QED
    BY <1>1, <1>2, <1>3, <2>1 DEF D!DecTypeOK
<1>6. StopInv' /\ LineInv'
  BY <1>1, <1>2, <1>3 DEF StopInv, LineInv
<1>7. FlowInv'
  BY <1>1, <1>2, <1>3 DEF FlowInv, Follows
<1>8. TruncationTold' /\ GapTold'
  BY <1>1, <1>3 DEF TruncationTold, D!TruncationTold, GapTold
<1> QED
  BY <1>4, <1>5, <1>6, <1>7, <1>8 DEF ChainInv, DecInv

LEMMA DecodeStep ==
    ASSUME ChainInv, D!DecoderThread, UNCHANGED <<stream, next, gap, scene>>
    PROVE  ChainInv'
<1> USE SdrAssumption, ChainAssumption
<1>1. LineTypes /\ ConnInv /\ D!DecTypeOK /\ StopInv /\ LineInv /\ FlowInv /\ TruncationTold /\ GapTold
  BY DEF ChainInv, DecInv
<1>2. UNCHANGED <<asked, runs, conn, wire>> /\ decoder # "dead" /\ Decoder \notin scene.listeners
  <2>1. UNCHANGED <<asked, runs, conn, wire>> /\ decoder # "dead"
    BY DEF D!DecoderThread, D!Begin, D!Look, D!GetChunk, D!GetNoChunk, D!JoinCapture, D!lineVars
  <2> QED
    BY <1>1, <2>1 DEF LineInv
<1>3. LineTypes' /\ ConnInv'
  BY <1>1, <1>2 DEF LineTypes, ConnInv
<1>4. CASE D!Begin
  <2>1. /\ decoder = "begin" /\ capture' = "connect" /\ status' = "running" /\ decoder' = "look"
        /\ UNCHANGED <<halt, chunks, failure, due, skipped>>
    BY <1>4 DEF D!Begin
  <2>2. D!DecTypeOK' /\ StopInv' /\ LineInv'
    BY <1>1, <1>2, <2>1 DEF D!DecTypeOK, StopInv, LineInv
  <2>3. FlowInv' /\ TruncationTold' /\ GapTold'
    BY <1>1, <2>1, EmptyFacts DEF FlowInv, LineInv, TruncationTold, D!TruncationTold, GapTold
  <2> QED
    BY <1>3, <2>2, <2>3 DEF ChainInv, DecInv
<1>5. ASSUME decoder \in {"look", "get"}, UNCHANGED <<capture, chunks, failure, due, skipped>>,
             \/ decoder' \in {"look", "get"} /\ UNCHANGED <<status, halt>>
             \/ /\ halt \/ failure
                /\ D!Conclude(~halt) \/ D!Conclude(failure)
      PROVE  ChainInv'
  <2>1. \/ decoder' \in {"look", "get"} /\ UNCHANGED <<status, halt>>
        \/ decoder' = "join" /\ halt' = TRUE /\ (status' = "error" \/ (status' = "stopped" /\ halt))
    BY <1>5 DEF D!Conclude
  <2>2. D!DecTypeOK' /\ StopInv' /\ LineInv'
    <3>1. D!DecTypeOK'
      BY <1>1, <1>2, <1>5, <2>1 DEF D!DecTypeOK, D!Final
    <3>2. StopInv'
      BY <1>1, <1>2, <1>5, <2>1 DEF StopInv
    <3>3. LineInv'
      BY <1>1, <1>2, <1>5, <2>1 DEF LineInv
    <3> QED
      BY <3>1, <3>2, <3>3
  <2>3. FlowInv'
    BY <1>1, <1>2, <1>5, <2>1 DEF FlowInv, Follows
  <2>4. TruncationTold' /\ GapTold'
    BY <1>1, <1>2, <1>5, <2>1 DEF TruncationTold, D!TruncationTold, StopInv, GapTold
  <2> QED
    BY <1>3, <2>2, <2>3, <2>4 DEF ChainInv, DecInv
<1>6. CASE D!Look
  <2>1. /\ decoder = "look" /\ UNCHANGED <<capture, chunks, failure, due, skipped>>
        /\ \/ decoder' = "get" /\ UNCHANGED <<status, halt>>
           \/ (halt \/ failure) /\ D!Conclude(~halt)
    BY <1>6 DEF D!Look
  <2> QED
    BY <1>5, <2>1
<1>7. CASE D!GetNoChunk
  <2>1. /\ decoder = "get" /\ UNCHANGED <<capture, chunks, failure, due, skipped>>
        /\ \/ decoder' = "look" /\ UNCHANGED <<status, halt>>
           \/ capture = "dead" /\ D!Conclude(failure)
    BY <1>7 DEF D!GetNoChunk
  <2>2. capture = "dead" => failure \/ halt
    BY <1>1, <2>1 DEF StopInv
  <2> QED
    BY <1>5, <2>1, <2>2
<1>8. CASE D!GetChunk
  <2>1. /\ decoder = "get" /\ chunks # <<>> /\ chunks' = Tail(chunks) /\ UNCHANGED <<capture, failure>>
        /\ \/ halt /\ D!Conclude(FALSE) /\ UNCHANGED <<due, skipped>>
           \/ /\ due' = Head(chunks) + 1
              /\ skipped' = (skipped \/ (due # 0 /\ Head(chunks) # due))
              /\ \/ decoder' = "look" /\ UNCHANGED <<status, halt>>
                 \/ D!Conclude(TRUE)
    BY <1>8 DEF D!GetChunk
  <2>2. /\ chunks \in Seq(Nat) /\ chunks' \in Seq(Nat) /\ Head(chunks) \in Nat
        /\ Head(chunks) = chunks[1]
    BY <1>1, <2>1, TailFacts DEF D!DecTypeOK
  <2>3. \/ decoder' = "look" /\ UNCHANGED <<status, halt>>
        \/ decoder' = "join" /\ halt' = TRUE /\ (status' = "error" \/ (status' = "stopped" /\ halt))
    BY <2>1 DEF D!Conclude
  <2>4. D!DecTypeOK' /\ StopInv'
    <3>1. due' \in Nat
      <4>1. due' = due \/ due' = Head(chunks) + 1
        BY <2>1
      <4>2. due \in Nat
        BY <1>1 DEF D!DecTypeOK
      <4> QED
        BY <2>2, <4>1, <4>2
    <3>2. skipped' \in BOOLEAN
      <4>1. \/ skipped' = skipped
            \/ skipped' = (skipped \/ (due # 0 /\ Head(chunks) # due))
        BY <2>1, Zenon
      <4>2. skipped \in BOOLEAN
        BY <1>1 DEF D!DecTypeOK
      <4> QED
        BY <4>1, <4>2, Zenon
    <3>3. D!DecTypeOK'
      BY <1>1, <1>2, <2>1, <2>2, <2>3, <3>1, <3>2 DEF D!DecTypeOK, D!Final
    <3>4. StopInv'
      BY <1>1, <1>2, <2>1, <2>3 DEF StopInv
    <3> QED
      BY <3>3, <3>4
  <2>5. LineInv'
    BY <1>1, <1>2, <2>1, <2>3 DEF LineInv
  <2>6. ~gap[Decoder] => Chained(chunks) /\ (due # 0 => Head(chunks) = due)
    BY <1>1, <2>1, <2>2 DEF FlowInv
  <2>7. GapTold'
    <3> SUFFICES ASSUME ~gap[Decoder] PROVE ~skipped'
      BY DEF GapTold
    <3>1. ~skipped
      BY <1>1 DEF GapTold
    <3> QED
      BY <2>1, <2>6, <3>1
  <2>8. FlowInv'
    <3> SUFFICES ASSUME decoder' = "look", ~gap[Decoder] PROVE FlowInv!2'
      BY <2>3 DEF FlowInv
    <3>1. /\ Chained(chunks) /\ (due # 0 => Head(chunks) = due)
          /\ capture \in {"wait", "read"} =>
               /\ wire[Decoder] # End => Follows(wire[Decoder])
               /\ stream[Decoder] = "stream" =>
                    IF wire[Decoder] # End THEN next[Decoder] = wire[Decoder] + 1
                                           ELSE Follows(next[Decoder])
      BY <1>1, <2>1, <2>6 DEF FlowInv
    <3>2. due' = Head(chunks) + 1
      BY <2>1 DEF D!Conclude
    <3>3. /\ Chained(chunks')
          /\ chunks' # <<>> => chunks'[1] = due' /\ chunks'[Len(chunks')] = chunks[Len(chunks)]
          /\ chunks' = <<>> => chunks[Len(chunks)] + 1 = due'
      <4>1. /\ Chained(Tail(chunks))
            /\ Tail(chunks) # <<>> => /\ Tail(chunks)[1] = Head(chunks) + 1
                                     /\ Tail(chunks)[Len(Tail(chunks))] = chunks[Len(chunks)]
            /\ Tail(chunks) = <<>> => chunks[Len(chunks)] = Head(chunks)
        <5>1. chunks \in Seq(Nat) /\ chunks # <<>> /\ Chained(chunks) /\ 0 \in Nat /\ 0 \in Int
          BY <2>1, <2>2, <3>1
        <5> QED
          BY ONLY <5>1, TailOrder
      <4>2. chunks' = Tail(chunks)
        BY <2>1
      <4> QED
        BY ONLY <3>2, <4>1, <4>2
    <3>4. \A n : Follows(n) => Follows(n)'
      BY <2>1, <3>3 DEF Follows
    <3> QED
      BY <1>2, <2>1, <3>1, <3>3, <3>4
  <2>9. TruncationTold'
    BY <1>1, <1>2, <2>1, <2>3 DEF TruncationTold, D!TruncationTold, StopInv
  <2> QED
    BY <1>3, <2>4, <2>5, <2>7, <2>8, <2>9 DEF ChainInv, DecInv
<1>9. CASE D!JoinCapture
  <2>1. /\ decoder \in {"join", "wait"} /\ UNCHANGED <<halt, skipped>>
        /\ \/ /\ capture = "dead" /\ decoder' = "dead" /\ capture' = "none" /\ chunks' = <<>>
              /\ failure' = FALSE /\ due' = 0 /\ UNCHANGED status
           \/ /\ decoder' = "wait" /\ status' = "error"
              /\ UNCHANGED <<capture, chunks, failure, due>>
    BY <1>9 DEF D!JoinCapture
  <2>2. D!DecTypeOK' /\ StopInv' /\ LineInv'
    <3>1. D!DecTypeOK'
      <4>1. chunks' \in Seq(Nat)
        <5>1. <<>> \in Seq(Nat)
          OBVIOUS
        <5>2. chunks \in Seq(Nat)
          BY <1>1 DEF D!DecTypeOK
        <5> QED
          BY ONLY <2>1, <5>1, <5>2
      <4>2. due' \in Nat
        BY <1>1, <2>1 DEF D!DecTypeOK
      <4> QED
        BY <1>1, <1>2, <2>1, <4>1, <4>2 DEF D!DecTypeOK, D!Final
    <3>2. StopInv' /\ LineInv'
      BY <1>1, <1>2, <2>1 DEF StopInv, LineInv
    <3> QED
      BY <3>1, <3>2
  <2>3. FlowInv' /\ TruncationTold' /\ GapTold'
    BY <1>1, <1>2, <2>1 DEF FlowInv, TruncationTold, D!TruncationTold, GapTold
  <2> QED
    BY <1>3, <2>2, <2>3 DEF ChainInv, DecInv
<1> QED
  BY <1>4, <1>6, <1>7, <1>8, <1>9 DEF D!DecoderThread
-----------------------------------------------------------------------------
(* The order of what is pushed. *)

LEMMA PipeKeeps ==
    ASSUME D!DecTypeOK, PipeInv, number \in Nat, number' \in Nat, number <= number',
           UNCHANGED <<chunks, due>>,
           \/ capture' \notin {"wait", "read"}
           \/ /\ capture' \in {"wait", "read"} => capture \in {"wait", "read"}
              /\ wire'[Decoder] \in {wire[Decoder], End} /\ wire[Decoder] \in Nat
              /\ stream'[Decoder] = "stream" => /\ stream[Decoder] = "stream"
                                               /\ next'[Decoder] = next[Decoder]
    PROVE  PipeInv'
<1>1. chunks \in Seq(Nat) /\ due \in Nat
  BY DEF D!DecTypeOK
<1>2. Ascending(chunks, due, number')
  BY <1>1, AscendingGrows DEF PipeInv
<1> QED
  BY <1>2 DEF PipeInv

LEMMA PipeStart == ASSUME Init PROVE PipeInv
BY EmptyFacts DEF Init, SdrInit, D!DecInit, PipeInv

LEMMA PipeHandler ==
    ASSUME RxInv, ChainInv, PipeInv, UNCHANGED <<decVars, scene>>,
           NEW c \in Consumer, Subscribe(c) \/ Get(c) \/ GiveUp(c) \/ Unsubscribe(c)
    PROVE  PipeInv'
<1> USE SdrAssumption, ChainAssumption
<1>0. /\ D!DecTypeOK /\ LineInv /\ HandlerTypes /\ QueueTypes /\ LineTypes /\ ConnInv
      /\ number \in Nat /\ chunks \in Seq(Nat) /\ due \in Nat
      /\ wire[Decoder] \in Nat /\ next[Decoder] \in Nat
  BY DEF RxInv, ChainInv, DecInv, RxTypes, D!DecTypeOK, HandlerTypes, LineTypes, Block, End
<1>1. UNCHANGED <<decoder, capture, chunks, due, number>>
  BY DEF decVars, Subscribe, Get, GiveUp, Unsubscribe, hubVars
<1>2. CASE c # Decoder
  <2>1. \/ wire' = wire \/ \E b : wire' = [wire EXCEPT ![c] = b]
    BY DEF Subscribe, Get, GiveUp, Unsubscribe
  <2>2. \/ stream' = stream \/ \E b : stream' = [stream EXCEPT ![c] = b]
    BY DEF Subscribe, Get, GiveUp, Unsubscribe
  <2>3. \/ next' = next \/ \E b : next' = [next EXCEPT ![c] = b]
    BY DEF Subscribe, Get, GiveUp, Unsubscribe, seen
  <2>4. wire'[Decoder] = wire[Decoder] /\ stream'[Decoder] = stream[Decoder]
        /\ next'[Decoder] = next[Decoder]
    BY <1>0, <1>2, <2>1, <2>2, <2>3 DEF HandlerTypes, LineTypes
  <2> QED
    BY <1>0, <1>1, <2>4, PipeKeeps
<1>3. CASE c = Decoder /\ capture \notin {"wait", "read"}
  BY <1>0, <1>1, <1>3, PipeKeeps
<1>4. CASE c = Decoder /\ capture \in {"wait", "read"} /\ Subscribe(c)
  <2>1. conn[Decoder] = "asked" /\ stream[Decoder] = "none" /\ UNCHANGED wire
    BY <1>4 DEF Subscribe
  <2>2. capture = "wait" /\ wire[Decoder] = End /\ chunks = <<>> /\ due = 0
    BY <1>0, <1>4, <2>1 DEF LineInv, D!DecTypeOK
  <2>3. next'[Decoder] \in Nat
    BY <1>0, <1>4 DEF Subscribe, HandlerTypes
  <2> QED
    BY <1>0, <1>1, <2>1, <2>2, <2>3, EmptyFacts DEF PipeInv
<1>5. CASE c = Decoder /\ capture \in {"wait", "read"} /\ Get(c)
  <2> DEFINE b == Head(queue[c])
  <2>1. /\ stream[c] = "stream" /\ wire[c] = End /\ queue[c] # <<>>
        /\ \/ /\ stream' = [stream EXCEPT ![c] = "leave"] /\ UNCHANGED wire
           \/ /\ b # End /\ wire' = [wire EXCEPT ![c] = b] /\ next' = [next EXCEPT ![c] = b + 1]
    BY <1>5 DEF Get
  <2>2. queue[c] \in Seq(Nat) /\ b \in Nat
    <3>1. queue[c] \in Seq(Nat)
      BY QueueFacts DEF RxInv
    <3> QED
      BY <2>1, <3>1, TailFacts
  <2>3. b # End => next[c] <= b /\ b <= number
    <3>1. Ascending(queue[c], next[c], number)
      BY DEF RxInv, OrderInv
    <3> QED
      BY <1>0, <1>5, <2>1, <2>2, <3>1, TailOrder
  <2> HIDE DEF b
  <2>4. /\ due <= next[Decoder] /\ Ascending(chunks, due, next[Decoder] - 1)
    BY <1>5, <2>1 DEF PipeInv
  <2>5. CASE stream' = [stream EXCEPT ![c] = "leave"] /\ UNCHANGED wire
    <3>1. stream'[Decoder] = "leave"
      BY <1>0, <1>5, <2>5 DEF HandlerTypes
    <3> QED
      BY <1>0, <1>1, <2>5, <3>1, PipeKeeps
  <2>6. CASE b # End /\ wire' = [wire EXCEPT ![c] = b] /\ next' = [next EXCEPT ![c] = b + 1]
    <3>1. wire'[Decoder] = b /\ next'[Decoder] = b + 1
      BY <1>0, <1>5, <2>6 DEF HandlerTypes, LineTypes
    <3>2. Ascending(chunks, due, b - 1) /\ Ascending(chunks, due, b)
      <4>1. b - 1 \in Int /\ b \in Int /\ next[Decoder] - 1 \in Int
            /\ next[Decoder] - 1 <= b - 1 /\ next[Decoder] - 1 <= b
        BY <1>0, <1>5, <2>2, <2>3, <2>6
      <4> QED
        BY <1>0, <2>4, <4>1, AscendingGrows
    <3>3. due <= b /\ b <= number /\ due <= b + 1 /\ b < b + 1 /\ (b + 1) - 1 = b
      BY <1>0, <1>5, <2>2, <2>3, <2>4, <2>6
    <3> QED
      BY <1>1, <3>1, <3>2, <3>3 DEF PipeInv
  <2> QED
    BY <2>1, <2>5, <2>6
<1>6. CASE c = Decoder /\ capture \in {"wait", "read"} /\ (GiveUp(c) \/ Unsubscribe(c))
  <2>1. /\ stream' = [stream EXCEPT ![c] = "leave"] \/ stream' = [stream EXCEPT ![c] = "none"]
        /\ wire' \in {wire, [wire EXCEPT ![c] = End]}
    BY <1>6 DEF GiveUp, Unsubscribe
  <2>2. stream'[Decoder] # "stream" /\ wire'[Decoder] \in {wire[Decoder], End}
    BY <1>0, <1>6, <2>1 DEF HandlerTypes, LineTypes
  <2> QED
    BY <1>0, <1>1, <2>2, PipeKeeps
<1> QED
  BY <1>2, <1>3, <1>4, <1>5, <1>6

LEMMA PipeDecoder ==
    ASSUME RxInv, ChainInv, PipeInv, UNCHANGED <<number, stream, next, scene>>,
           \/ D!CaptureThread \/ D!DecoderThread
           \/ Decoder \notin scene.listeners /\ (D!StartDecoder \/ D!StopDecoder)
           \/ \E c \in Consumer : Ask(c) \/ Note(c)
    PROVE  PipeInv'
<1> USE SdrAssumption, ChainAssumption
<1>0. /\ D!DecTypeOK /\ LineInv /\ ConnInv /\ HandlerTypes /\ LineTypes
      /\ number \in Nat /\ chunks \in Seq(Nat) /\ due \in Nat /\ wire[Decoder] \in Nat
      /\ next[Decoder] \in Nat
  BY DEF RxInv, ChainInv, DecInv, RxTypes, D!DecTypeOK, LineTypes, HandlerTypes, Block, End
<1>1. CASE D!Connect
  <2>1. /\ capture = "connect" /\ conn[Decoder] = "none" /\ capture' = "wait"
        /\ wire' = [wire EXCEPT ![Decoder] = 0] /\ UNCHANGED <<chunks, due>>
    BY <1>1 DEF D!Connect
  <2>2. wire'[Decoder] = End /\ stream[Decoder] = "none" /\ chunks = <<>>
    BY <1>0, <2>1 DEF LineTypes, End, ConnInv, LineInv
  <2> QED
    BY <2>1, <2>2, EmptyFacts DEF PipeInv
<1>2. CASE D!Connected
  <2>1. /\ capture = "wait" /\ capture' = "read" /\ UNCHANGED <<chunks, due, wire>>
    BY <1>2 DEF D!Connected, D!lineVars
  <2> QED
    BY <1>0, <2>1, PipeKeeps
<1>3. CASE D!Record
  <2>1. /\ capture = "read" /\ UNCHANGED due
        /\ wire' = [wire EXCEPT ![Decoder] = 0]
        /\ \/ /\ wire[Decoder] # 0 /\ chunks' = Append(chunks, wire[Decoder]) /\ UNCHANGED capture
           \/ capture' = "dead" /\ UNCHANGED chunks
    BY <1>3 DEF D!Record
  <2>2. CASE capture' = "dead" /\ UNCHANGED chunks
    BY <1>0, <2>1, <2>2, PipeKeeps
  <2>3. CASE wire[Decoder] # 0 /\ chunks' = Append(chunks, wire[Decoder]) /\ UNCHANGED capture
    <3> DEFINE w == wire[Decoder]
    <3>1. /\ w \in Nat /\ w # End /\ due <= w /\ w <= number /\ Ascending(chunks, due, w - 1)
          /\ stream[Decoder] = "stream" => due <= next[Decoder] /\ w < next[Decoder]
      BY <1>0, <2>1, <2>3 DEF PipeInv, End
    <3> HIDE DEF w
    <3>2. chunks' = Append(chunks, w) /\ chunks' \in Seq(Nat) /\ Ascending(chunks', due, w)
      BY <1>0, <2>3, <3>1, AppendOrder, AppendFacts DEF w
    <3>3. \A i \in 1 .. Len(chunks') : chunks'[i] # End
      <4>1. /\ Len(chunks') = Len(chunks) + 1 /\ Len(chunks) \in Nat
            /\ \A i \in 1 .. Len(chunks) : chunks'[i] = chunks[i]
            /\ chunks'[Len(chunks) + 1] = w
        BY <1>0, <3>1, <3>2, AppendFacts
      <4>2. \A i \in 1 .. Len(chunks') : i \in 1 .. Len(chunks) \/ i = Len(chunks) + 1
        BY <4>1
      <4> QED
        BY <3>1, <4>1, <4>2 DEF PipeInv
    <3>4. Ascending(chunks', due, number)
      <4>1. /\ w \in Int /\ number \in Int /\ w <= number /\ due \in Nat
            /\ chunks' \in Seq(Nat) /\ Ascending(chunks', due, w)
        BY <1>0, <3>1, <3>2
      <4> QED
        BY ONLY <4>1, AscendingGrows
    <3>5. stream[Decoder] = "stream" => Ascending(chunks', due, next[Decoder] - 1)
      <4>1. w < next[Decoder] => w <= next[Decoder] - 1 /\ next[Decoder] - 1 \in Int /\ w \in Int
        BY <1>0, <3>1
      <4> QED
        BY <1>0, <3>1, <3>2, <4>1, AscendingGrows
    <3>6. wire'[Decoder] = End
      BY <1>0, <2>1 DEF LineTypes, End
    <3> QED
      BY <2>1, <3>1, <3>3, <3>4, <3>5, <3>6 DEF PipeInv
  <2> QED
    BY <2>1, <2>2, <2>3
<1>4. CASE D!GetChunk
  <2>1. /\ decoder = "get" /\ chunks # <<>> /\ chunks' = Tail(chunks) /\ UNCHANGED <<capture, wire>>
        /\ due' = due \/ due' = Head(chunks) + 1
    BY <1>4 DEF D!GetChunk, D!lineVars
  <2> DEFINE b == Head(chunks)
  <2>2. /\ chunks' \in Seq(Nat) /\ b \in Nat /\ b = chunks[1] /\ Len(chunks) \in Nat \ {0}
        /\ Len(chunks') = Len(chunks) - 1
        /\ \A i \in 1 .. Len(chunks) - 1 : chunks'[i] = chunks[i + 1]
    BY <1>0, <2>1, TailFacts
  <2>3. b # End /\ \A i \in 1 .. Len(chunks') : chunks'[i] # End
    <3>1. 1 \in 1 .. Len(chunks) /\ \A i \in 1 .. Len(chunks') : i + 1 \in 1 .. Len(chunks)
      BY <2>2
    <3> QED
      BY <2>2, <3>1 DEF PipeInv
  <2>4. ASSUME NEW n \in Int, Ascending(chunks, due, n)
        PROVE  Ascending(chunks', due', n) /\ b <= n
    <3>1. Ascending(chunks', due, n) /\ b <= n /\ Ascending(chunks', b + 1, n)
      BY <1>0, <2>1, <2>3, <2>4, TailOrder
    <3> QED
      BY <2>1, <3>1
  <2> HIDE DEF b
  <2>5. \A n \in Int : due <= n /\ b < n => due' <= n
    BY <1>0, <2>1, <2>2 DEF b
  <2>6. Ascending(chunks', due', number)
    BY <1>0, <2>4 DEF PipeInv
  <2>7. ASSUME capture \in {"wait", "read"}, wire[Decoder] # End
        PROVE  due' <= wire[Decoder] /\ Ascending(chunks', due', wire[Decoder] - 1)
    <3>1. /\ due <= wire[Decoder] /\ Ascending(chunks, due, wire[Decoder] - 1)
          /\ wire[Decoder] - 1 \in Int /\ wire[Decoder] \in Int
      BY <1>0, <2>7 DEF PipeInv
    <3>2. Ascending(chunks', due', wire[Decoder] - 1) /\ b <= wire[Decoder] - 1
      BY <2>4, <3>1
    <3>3. b < wire[Decoder]
      BY <1>0, <2>2, <3>2
    <3> QED
      BY <2>5, <3>1, <3>2, <3>3
  <2>8. ASSUME capture \in {"wait", "read"}, stream[Decoder] = "stream"
        PROVE  due' <= next[Decoder] /\ Ascending(chunks', due', next[Decoder] - 1)
    <3>1. /\ due <= next[Decoder] /\ Ascending(chunks, due, next[Decoder] - 1)
          /\ next[Decoder] - 1 \in Int /\ next[Decoder] \in Int
      BY <1>0, <2>8 DEF PipeInv
    <3>2. Ascending(chunks', due', next[Decoder] - 1) /\ b <= next[Decoder] - 1
      BY <2>4, <3>1
    <3>3. b < next[Decoder]
      BY <1>0, <2>2, <3>2
    <3> QED
      BY <2>5, <3>1, <3>2, <3>3
  <2> QED
    BY <2>1, <2>3, <2>6, <2>7, <2>8 DEF PipeInv
<1>5. CASE D!Begin
  BY <1>0, <1>5, PipeKeeps DEF D!Begin
<1>6. CASE D!Look \/ D!GetNoChunk
  <2>1. UNCHANGED <<chunks, due, capture, wire>>
    BY <1>6 DEF D!Look, D!GetNoChunk, D!lineVars
  <2> QED
    BY <1>0, <2>1, PipeKeeps
<1>7. CASE D!JoinCapture
  <2>1. \/ capture' = "none" /\ chunks' = <<>> /\ due' = 0
        \/ UNCHANGED <<chunks, due, capture>>
    BY <1>7 DEF D!JoinCapture
  <2>2. UNCHANGED wire
    BY <1>7 DEF D!JoinCapture, D!lineVars
  <2>3. CASE capture' = "none" /\ chunks' = <<>> /\ due' = 0
    BY <2>3, EmptyFacts DEF PipeInv
  <2>4. CASE UNCHANGED <<chunks, due, capture>>
    BY <1>0, <2>2, <2>4, PipeKeeps
  <2> QED
    BY <2>1, <2>3, <2>4
<1>8. CASE D!StartDecoder \/ D!StopDecoder
  <2>1. UNCHANGED <<chunks, due, capture, wire>>
    BY <1>8 DEF D!StartDecoder, D!StopDecoder, D!lineVars
  <2> QED
    BY <1>0, <2>1, PipeKeeps
<1>9. ASSUME NEW c \in Consumer, Ask(c) \/ Note(c) PROVE PipeInv'
  <2>1. /\ c \in scene.listeners /\ UNCHANGED <<chunks, due, capture>>
        /\ wire' \in {wire, [wire EXCEPT ![c] = End]}
    BY <1>9 DEF Ask, Note, decVars
  <2>2. c # Decoder => wire'[Decoder] = wire[Decoder]
    BY <1>0, <2>1 DEF LineTypes
  <2>3. c = Decoder => capture = "none"
    BY <1>0, <2>1 DEF LineInv
  <2> QED
    BY <1>0, <2>1, <2>2, <2>3, PipeKeeps
<1> QED
  BY <1>1, <1>2, <1>3, <1>4, <1>5, <1>6, <1>7, <1>8, <1>9 DEF D!CaptureThread, D!DecoderThread
-----------------------------------------------------------------------------
(* The theorems. *)

IInv == RxInv /\ ChainInv /\ PipeInv

\* What one step of the chain is.
LEMMA StepCases ==
    ASSUME [Next]_vars
    PROVE  \/ UNCHANGED vars
           \/ /\ UNCHANGED <<conn, wire, stream, next, gap, decVars, scene>>
              /\ \/ \E k \in Kinds : StartReceiver(k)
                 \/ RequestStop \/ ShowStop \/ OpenSource \/ LeaveLoop \/ SourceEnds \/ Published
                 \/ LeaveSource \/ DriverDies
                 \/ NextBlock \/ DrainTest \/ DrainTake \/ CloseHub \/ Closed
                 \/ \E c \in Consumer : PublishTo(c) \/ CloseClient(c)
           \/ /\ UNCHANGED <<decVars, scene>>
              /\ \E c \in Consumer : Subscribe(c) \/ Get(c) \/ GiveUp(c) \/ Unsubscribe(c)
           \/ /\ UNCHANGED <<rxVars, hubVars, queue, conVars, seen, scene>>
              /\ \/ D!CaptureThread \/ D!DecoderThread
                 \/ Decoder \notin scene.listeners /\ (D!StartDecoder \/ D!StopDecoder)
                 \/ \E c \in Consumer : Ask(c) \/ Note(c)
<1>1. ASSUME SdrNext, UNCHANGED <<decVars, scene>>
      PROVE  \/ /\ UNCHANGED <<conn, wire, stream, next, gap, decVars, scene>>
                /\ \/ \E k \in Kinds : StartReceiver(k)
                   \/ RequestStop \/ ShowStop \/ OpenSource \/ LeaveLoop \/ SourceEnds \/ Published
                   \/ LeaveSource \/ DriverDies
                   \/ NextBlock \/ DrainTest \/ DrainTake \/ CloseHub \/ Closed
                   \/ \E c \in Consumer : PublishTo(c) \/ CloseClient(c)
             \/ /\ UNCHANGED <<decVars, scene>>
                /\ \E c \in Consumer : Subscribe(c) \/ Get(c) \/ GiveUp(c) \/ Unsubscribe(c)
  <2> USE <1>1 DEF conVars, seen, net
  <2>1. ASSUME NEW k \in Kinds, StartReceiver(k) PROVE UNCHANGED <<conn, wire, stream, next, gap>>
    BY <2>1 DEF StartReceiver
  <2>2. CASE RequestStop \/ ShowStop \/ NextBlock \/ SourceEnds \/ DriverDies
    BY <2>2 DEF RequestStop, ShowStop, NextBlock, SourceEnds, DriverDies
  <2>3. CASE OpenSource \/ LeaveLoop \/ Published \/ DrainTest \/ DrainTake \/ LeaveSource
             \/ CloseHub \/ Closed
    BY <2>3 DEF OpenSource, LeaveLoop, Published, DrainTest, DrainTake, LeaveSource, CloseHub, Closed
  <2>4. ASSUME NEW c \in Consumer, PublishTo(c) \/ CloseClient(c)
        PROVE  UNCHANGED <<conn, wire, stream, next, gap>>
    BY <2>4 DEF PublishTo, CloseClient
  <2> QED
    BY <2>1, <2>2, <2>3, <2>4 DEF SdrNext, Worker, Handler
<1>2. ASSUME Next
      PROVE  \/ SdrNext /\ UNCHANGED <<decVars, scene>>
             \/ /\ UNCHANGED <<rxVars, hubVars, queue, conVars, seen, scene>>
                /\ \/ D!CaptureThread \/ D!DecoderThread
                   \/ Decoder \notin scene.listeners /\ (D!StartDecoder \/ D!StopDecoder)
                   \/ \E c \in Consumer : Ask(c) \/ Note(c)
  <2>1. Step /\ UNCHANGED scene
    BY <1>2 DEF Next
  <2>2. CASE SdrNext /\ UNCHANGED decVars
    BY <2>1, <2>2
  <2>3. CASE Capturing \/ Decoding \/ Operating
    BY <2>1, <2>3 DEF Capturing, Decoding, Operating, OnLine
  <2>4. CASE \E c \in Consumer : Ask(c) \/ Note(c)
    <3>1. PICK c \in Consumer : Ask(c) \/ Note(c)
      BY <2>4
    <3>2. UNCHANGED <<rxVars, hubVars, queue, conVars, seen>>
      BY <3>1 DEF Ask, Note
    <3> QED
      BY <2>1, <2>4, <3>2
  <2> QED
    BY <2>1, <2>2, <2>3, <2>4 DEF Step
<1> QED
  BY <1>1, <1>2

LEMMA IInvStart == ASSUME Init PROVE IInv
BY RxStart, ChainStart, PipeStart DEF Init, IInv

LEMMA IInvStep == ASSUME IInv, [Next]_vars PROVE IInv'
<1> USE DEF IInv
<1>1. CASE UNCHANGED vars
  <2>1. UNCHANGED <<rxVars, hubVars, queue, conVars, seen, net, decVars, scene>>
    BY <1>1 DEF vars, sdrVars
  <2>2. RxInv'
    <3>1. RxTypes' /\ HubInv' /\ OneDriver'
      BY <2>1 DEF RxInv, RxTypes, HubInv, HubFree, OneDriver, rxVars, hubVars
    <3>2. HandlerTypes' /\ QueueTypes' /\ HandlerInv' /\ OrderInv' /\ ServeInv'
      BY <2>1 DEF RxInv, HandlerTypes, QueueTypes, HandlerInv, OrderInv, ServeInv, Served,
                  rxVars, hubVars, conVars, seen
    <3> QED
      BY <3>1, <3>2 DEF RxInv
  <2>3. ChainInv'
    BY <2>1, ReceiverKeepsLine DEF conVars, seen, net
  <2>4. PipeInv'
    BY <2>1 DEF PipeInv, hubVars, conVars, seen, net, decVars
  <2> QED
    BY <2>2, <2>3, <2>4
<1>2. ASSUME UNCHANGED <<conn, wire, stream, next, gap, decVars, scene>>,
             \/ \E k \in Kinds : StartReceiver(k)
             \/ RequestStop \/ ShowStop \/ OpenSource \/ LeaveLoop \/ SourceEnds \/ Published
             \/ LeaveSource \/ DriverDies
             \/ NextBlock \/ DrainTest \/ DrainTake \/ CloseHub \/ Closed
             \/ \E c \in Consumer : PublishTo(c) \/ CloseClient(c)
      PROVE  IInv'
  <2>1. RxInv'
    BY <1>2, OutsideStep, NextBlockStep, DrainTestStep, DrainTakeStep, CloseStep, PublishStep
  <2>2. ChainInv'
    BY <1>2, ReceiverKeepsLine
  <2>3. PipeInv'
    <3>1. number \in Nat /\ (number' = number \/ number' = number + 1)
      BY <1>2, SdrAssumption DEF RxInv, RxTypes, StartReceiver, RequestStop, ShowStop, OpenSource,
         LeaveLoop, SourceEnds, Published, LeaveSource, DriverDies, NextBlock, DrainTest, DrainTake,
         CloseHub, Closed, PublishTo, CloseClient, hubVars
    <3>2. number' \in Nat /\ number <= number'
      BY <3>1
    <3>3. D!DecTypeOK /\ wire[Decoder] \in Nat
      BY SdrAssumption, ChainAssumption DEF ChainInv, DecInv, LineTypes, Block, End
    <3> QED
      BY <1>2, <3>1, <3>2, <3>3, PipeKeeps DEF decVars
  <2> QED
    BY <2>1, <2>2, <2>3
<1>3. ASSUME UNCHANGED <<decVars, scene>>,
             NEW c \in Consumer, Subscribe(c) \/ Get(c) \/ GiveUp(c) \/ Unsubscribe(c)
      PROVE  IInv'
  BY <1>3, SubscribeStep, GetStep, LeaveStep, SubscribeLine, GetLine, LeaveLine,
     PipeHandler
<1>4. ASSUME UNCHANGED <<rxVars, hubVars, queue, conVars, seen, scene>>,
             \/ D!CaptureThread \/ D!DecoderThread
             \/ Decoder \notin scene.listeners /\ (D!StartDecoder \/ D!StopDecoder)
             \/ \E c \in Consumer : Ask(c) \/ Note(c)
      PROVE  IInv'
  <2>1. RxInv'
    <3>1. RxTypes' /\ HubInv' /\ OneDriver'
      BY <1>4 DEF RxInv, RxTypes, HubInv, HubFree, OneDriver, rxVars, hubVars
    <3>2. HandlerTypes' /\ QueueTypes' /\ HandlerInv' /\ OrderInv' /\ ServeInv'
      BY <1>4 DEF RxInv, HandlerTypes, QueueTypes, HandlerInv, OrderInv, ServeInv, Served,
                  rxVars, hubVars, conVars, seen
    <3> QED
      BY <3>1, <3>2 DEF RxInv
  <2>2. UNCHANGED <<stream, next, gap, scene>>
    BY <1>4 DEF conVars, seen
  <2>3. ChainInv'
    BY <1>4, <2>2, CaptureStep, DecodeStep, OperatorStep, ListenerLine
  <2>4. PipeInv'
    BY <1>4, <2>2, PipeDecoder DEF hubVars
  <2> QED
    BY <2>1, <2>3, <2>4
<1> QED
  BY <1>1, <1>2, <1>3, <1>4, StepCases

\* The inductive invariant of the chain: where the worker, its hub and each handler
\* stand, what is in the queues, and how the capture thread and push follow them.
THEOREM Invariant == Spec => []IInv
<1>1. Init => IInv
  BY IInvStart
<1>2. IInv /\ [Next]_vars => IInv'
  BY IInvStep
<1> QED
  BY <1>1, <1>2, PTL DEF Spec

\* No queue holds more than its size, the hub never knows more clients than it
\* accepts, and every variable has its type.
THEOREM TypeCorrect == Spec => []TypeOK
<1>1. IInv => TypeOK
  BY DEF IInv, RxInv, RxTypes, HandlerTypes, QueueTypes, ChainInv, LineTypes, DecInv, TypeOK,
         SdrTypeOK
<1> QED
  BY <1>1, Invariant, PTL

\* A consumer that keeps up is given every block, in order, however the handlers,
\* the drains of other consumers and the ends of receptions interleave.
THEOREM ContinuousSafe == Spec => []Continuous
<1>1. ASSUME IInv PROVE Continuous
  <2> SUFFICES ASSUME NEW c \in Served PROVE Continuous!(c)
    BY DEF Continuous
  <2>1. c \in Consumer
    BY <1>1 DEF IInv, RxInv, HandlerTypes, Served
  <2>2. ServeInv!(c)
    BY <1>1 DEF IInv, RxInv, ServeInv
  <2>3. DOMAIN queue[c] = 1 .. Len(queue[c])
    BY <1>1, <2>1, QueueFacts DEF IInv, RxInv
  <2> QED
    BY <2>2, <2>3 DEF Consecutive
<1> QED
  BY <1>1, Invariant, PTL

\* No tuner and no audio device has two owners, for any number of receptions and
\* decoder sessions, even those that did not stop in time.
THEOREM OwnerSafe == Spec => []OneOwner
<1>1. IInv => OneOwner
  BY DEF IInv, RxInv, ChainInv, DecInv, LineInv, OneOwner, D!OneCapture
<1> QED
  BY <1>1, Invariant, PTL

\* A decoder session is never shown as completed, and as stopped only when it was
\* told to stop.
THEOREM TruncationSafe == Spec => []TruncationTold
<1>1. IInv => TruncationTold
  BY DEF IInv, ChainInv, DecInv
<1> QED
  BY <1>1, Invariant, PTL

\* push misses a block only when the receiver's handler did, and none is on its way
\* to it twice, out of order or before it is published.
THEOREM LossSafe == Spec => []LossIsTold
<1>1. ASSUME IInv PROVE LossIsTold
  <2>1. GapTold
    BY <1>1 DEF IInv, ChainInv, DecInv
  <2>2. DOMAIN chunks = 1 .. Len(chunks)
    BY <1>1 DEF IInv, ChainInv, DecInv, D!DecTypeOK
  <2> QED
    BY <1>1, <2>1, <2>2 DEF IInv, GapTold, LossIsTold, PipeInv, Ascending
<1> QED
  BY <1>1, Invariant, PTL
-----------------------------------------------------------------------------
(* The hub and its handlers implement the broadcast. *)

\* Nobody is served before the first reception that has its source open.
LEMMA BroadcastInit == ASSUME Init PROVE Hub!Init
BY DEF Init, SdrInit, Hub!Init, Served

\* A step of the service that gives nobody a block drops consumers, or nobody.
LEMMA WorkerDrops ==
    ASSUME RxInv,
           \/ \E k \in Kinds : StartReceiver(k)
           \/ RequestStop \/ ShowStop \/ OpenSource \/ LeaveLoop \/ SourceEnds \/ Published
           \/ LeaveSource \/ DriverDies \/ DrainTest \/ DrainTake \/ CloseHub \/ Closed
           \/ \E c \in Consumer : PublishTo(c) \/ CloseClient(c)
    PROVE  Hub!Drop
<1> USE DEF RxInv, hubVars, conVars, seen, net
<1>0. SUFFICES UNCHANGED <<number, next, joined>> /\ Served' \subseteq Served
  BY DEF Hub!Drop
<1>1. ASSUME NEW k \in Kinds, StartReceiver(k)
      PROVE  UNCHANGED <<number, next, joined>> /\ Served' \subseteq Served
  BY <1>1 DEF StartReceiver, HubInv, Served
<1>2. CASE RequestStop \/ ShowStop \/ LeaveLoop \/ SourceEnds \/ Published \/ LeaveSource \/ DriverDies
  BY <1>2 DEF RequestStop, ShowStop, LeaveLoop, SourceEnds, Published, LeaveSource, DriverDies, Served
<1>3. CASE OpenSource
  <2>1. /\ worker = "open" /\ UNCHANGED <<number, next, joined, clients, cur, session>>
    BY <1>3 DEF OpenSource
  <2>2. \A c \in clients : joined[c] # session
    <3>1. \A c \in clients : joined[c] < session /\ joined[c] \in Nat /\ session \in Nat
      BY <2>1, SdrAssumption DEF HandlerInv, HandlerTypes, RxTypes
    <3> QED
      BY <3>1
  <2> QED
    BY <2>1, <2>2 DEF Served
<1>4. CASE CloseHub \/ Closed \/ \E c \in Consumer : CloseClient(c)
  <2>1. ~active' /\ UNCHANGED <<number, next, joined>>
    BY <1>4 DEF CloseHub, Closed, CloseClient, HubInv
  <2> QED
    BY <2>1 DEF Served
<1>5. CASE DrainTest \/ DrainTake
  <2>1. /\ UNCHANGED <<number, next, joined, active, session, clients>>
        /\ worker \in {"drain", "take"}
    BY <1>5 DEF DrainTest, DrainTake
  <2> QED
    BY <2>1 DEF HubInv, Served
<1>6. ASSUME NEW c \in Consumer, PublishTo(c)
      PROVE  UNCHANGED <<number, next, joined>> /\ Served' \subseteq Served
  <2>1. /\ UNCHANGED <<number, next, joined, active, session>>
        /\ worker = "publish"
        /\ UNCHANGED <<clients, cur>> \/ clients' = clients \ {c}
    BY <1>6 DEF PublishTo
  <2>2. cur = {}
    BY <2>1 DEF HubInv
  <2> QED
    BY <2>1, <2>2 DEF Served
<1> QED
  BY <1>1, <1>2, <1>3, <1>4, <1>5, <1>6

LEMMA HandlerBroadcasts ==
    ASSUME RxInv, NEW c \in Consumer, Subscribe(c) \/ Get(c) \/ GiveUp(c) \/ Unsubscribe(c)
    PROVE  [Hub!Next]_<<number, next, Served>>
<1> USE DEF RxInv
<1>0. number \in Nat /\ next[c] \in Nat
  BY SdrAssumption DEF RxTypes, HandlerTypes
<1>1. CASE Subscribe(c)
  <2>1. /\ stream[c] = "none" /\ HubFree
        /\ UNCHANGED <<session, active, cur, number>>
        /\ \/ /\ active
              /\ clients' = clients \cup {c}
              /\ joined' = [joined EXCEPT ![c] = session]
              /\ next' = [next EXCEPT ![c] = number + 1]
           \/ UNCHANGED <<clients, joined, next>>
    BY <1>1 DEF Subscribe, rxVars
  <2>2. CASE UNCHANGED <<clients, joined, next>>
    BY <2>1, <2>2 DEF Served
  <2>3. CASE /\ active
             /\ clients' = clients \cup {c}
             /\ joined' = [joined EXCEPT ![c] = session]
             /\ next' = [next EXCEPT ![c] = number + 1]
    <3>1. cur = {} /\ next[c] = 0
      BY <2>1 DEF HubInv, HubFree, HandlerInv
    <3>2. joined'[c] = session /\ \A d \in Consumer \ {c} : joined'[d] = joined[d]
      BY <2>3 DEF HandlerTypes
    <3>3. Served' = Served \cup {c}
      BY <2>1, <2>3, <3>1, <3>2 DEF Served, HandlerTypes
    <3>4. Hub!Join(c)
      BY <2>1, <2>3, <3>1, <3>3 DEF Hub!Join
    <3> QED
      BY <3>4 DEF Hub!Next
  <2> QED
    BY <2>1, <2>2, <2>3
<1>2. CASE Get(c)
  <2> DEFINE b == Head(queue[c])
  <2>1. /\ stream[c] = "stream" /\ queue[c] # <<>>
        /\ UNCHANGED <<session, active, clients, cur, number, joined>>
        /\ \/ UNCHANGED next
           \/ b # End /\ next' = [next EXCEPT ![c] = b + 1]
    BY <1>2 DEF Get, rxVars, hubVars
  <2>2. UNCHANGED Served
    BY <2>1 DEF Served
  <2>3. CASE b # End /\ next' = [next EXCEPT ![c] = b + 1]
    <3>1. queue[c] \in Seq(Nat) /\ b \in Nat
      BY <2>1, QueueFacts, TailFacts
    <3>2. next[c] > 0
      BY <1>0, <2>1 DEF HandlerInv
    <3>3. b \in next[c] .. number
      <4>1. Ascending(queue[c], next[c], number)
        BY DEF OrderInv
      <4>2. next[c] <= b /\ b <= number
        BY <1>0, <2>1, <2>3, <3>1, <4>1, TailOrder
      <4> QED
        BY <1>0, <3>1, <4>2
    <3>4. c \in Served => b = next[c]
      <4>1. c \in Served => Consecutive(queue[c], next[c])
        BY DEF ServeInv
      <4>2. Consecutive(queue[c], next[c]) => b = next[c]
        BY <1>0, <2>1, <3>1, TailOrder
      <4> QED
        BY <4>1, <4>2
    <3> HIDE DEF b
    <3>5. Hub!Hear(c)
      BY <2>1, <2>2, <2>3, <3>2, <3>3, <3>4 DEF Hub!Hear
    <3> QED
      BY <3>5 DEF Hub!Next
  <2> QED
    BY <2>1, <2>2, <2>3
<1>3. CASE GiveUp(c)
  BY <1>3 DEF GiveUp, rxVars, hubVars, seen, Served
<1>4. CASE Unsubscribe(c)
  <2>1. /\ stream[c] = "leave" /\ HubFree
        /\ clients' = clients \ {c}
        /\ joined' = [joined EXCEPT ![c] = 0]
        /\ next' = [next EXCEPT ![c] = 0]
        /\ UNCHANGED <<session, active, cur, number>>
    BY <1>4 DEF Unsubscribe, rxVars
  <2>2. next[c] > 0
    BY <1>0, <2>1 DEF HandlerInv
  <2>3. \A d \in Consumer \ {c} : joined'[d] = joined[d]
    BY <2>1 DEF HandlerTypes
  <2>4. Served' = Served \ {c}
    BY <2>1, <2>3 DEF Served, HandlerTypes
  <2>5. Hub!Leave(c)
    BY <2>1, <2>2, <2>4 DEF Hub!Leave
  <2> QED
    BY <2>5 DEF Hub!Next
<1> QED
  BY <1>1, <1>2, <1>3, <1>4

LEMMA BroadcastStep == ASSUME IInv, [Next]_vars PROVE [Hub!Next]_<<number, next, Served>>
<1>0. RxInv
  BY DEF IInv
<1>1. CASE UNCHANGED <<rxVars, hubVars, queue, conVars, seen>>
  BY <1>1 DEF rxVars, hubVars, conVars, seen, Served
<1>2. CASE UNCHANGED vars
  BY <1>1, <1>2 DEF vars, sdrVars
<1>3. CASE NextBlock
  <2>1. /\ number' = number + 1
        /\ UNCHANGED <<next, joined, session, active, clients, cur>>
    BY <1>3 DEF NextBlock, conVars, seen
  <2>2. Hub!Publish
    BY <2>1 DEF Hub!Publish, Served
  <2> QED
    BY <2>2 DEF Hub!Next
<1>4. CASE \/ \E k \in Kinds : StartReceiver(k)
           \/ RequestStop \/ ShowStop \/ OpenSource \/ LeaveLoop \/ SourceEnds \/ Published
           \/ LeaveSource \/ DriverDies \/ DrainTest \/ DrainTake \/ CloseHub \/ Closed
           \/ \E c \in Consumer : PublishTo(c) \/ CloseClient(c)
  BY <1>0, <1>4, WorkerDrops DEF Hub!Next
<1>5. ASSUME NEW c \in Consumer, Subscribe(c) \/ Get(c) \/ GiveUp(c) \/ Unsubscribe(c)
      PROVE  [Hub!Next]_<<number, next, Served>>
  BY <1>0, <1>5, HandlerBroadcasts
<1> QED
  BY <1>1, <1>2, <1>3, <1>4, <1>5, StepCases

\* The receiver implements the broadcast: whatever the queues, the drains and the
\* receptions do, a consumer is given published blocks only, each once and in order,
\* and all of them while it is served.
THEOREM ImplementsBroadcast == Spec => BroadcastSpec
<1>1. Init => Hub!Init
  BY BroadcastInit
<1>2. IInv /\ [Next]_vars => [Hub!Next]_<<number, next, Served>>
  BY BroadcastStep
<1> QED
  BY <1>1, <1>2, Invariant, PTL DEF Spec, BroadcastSpec, Hub!Spec
=============================================================================
