--------------------------- MODULE ManagedReceiver ---------------------------
(***************************************************************************)
(* A managed receiver: a decoder program run as a child process, started   *)
(* and stopped by the threads of the scheduler or of the tracker.          *)
(* src/plugins/bqe_sstv_decoder/integration.py (Receiver, of which every   *)
(* decoder has an instance); lrpt/integration.py (LRPTReceiver) adds the   *)
(* wait for the child's first answer.                                      *)
(***************************************************************************)
EXTENDS Naturals

CONSTANTS User,     \* threads of the program
          MaxChild  \* bound: children started

Nobody == "nobody"

ASSUME ReceiverAssumption == MaxChild \in Nat /\ Nobody \notin User

VARIABLES
    owned,    \* self.process, 0 for None
    alive,    \* children alive
    killed,   \* history: children that were sent SIGKILL
    holder,   \* who holds self.lock, or Nobody
    user,     \* where each thread is
    purpose,  \* what it came for
    ending,   \* the child it waits for
    children  \* children started

receiverVars == <<owned, alive, killed, holder, user, purpose, ending, children>>

Child == 1 .. MaxChild

ReceiverTypeOK ==
    /\ owned \in Child \cup {0}
    /\ alive \subseteq Child
    /\ killed \subseteq Child
    /\ holder \in User \cup {Nobody}
    /\ user \in [User -> {"idle", "swap", "eof", "terminated", "killed", "spawn", "probe"}]
    /\ purpose \in [User -> {"start", "stop"}]
    /\ ending \in [User -> Child \cup {0}]
    /\ children \in 0 .. MaxChild

ReceiverInit ==
    /\ owned = 0
    /\ alive = {}
    /\ killed = {}
    /\ holder = Nobody
    /\ user = [u \in User |-> "idle"]
    /\ purpose = [u \in User |-> "stop"]
    /\ ending = [u \in User |-> 0]
    /\ children = 0

Moves(u, from, to) ==
    /\ user[u] = from
    /\ user' = [user EXCEPT ![u] = to]

\* The lock is re-entrant: start keeps it while it calls stop.
Call(u) ==
    /\ holder = Nobody
    /\ holder' = u
    /\ Moves(u, "idle", "swap")
    /\ \E what \in {"start", "stop"} : purpose' = [purpose EXCEPT ![u] = what]
    /\ UNCHANGED <<owned, alive, killed, ending, children>>

\* What comes after stop, or after its end by an exception.
Return(u, from) == Moves(u, from, "idle") /\ holder' = Nobody

AfterStop(u, from) ==
    \/ purpose[u] = "stop" /\ Return(u, from)
    \/ purpose[u] = "start" /\ Moves(u, from, "spawn") /\ UNCHANGED holder

\* Mutant: a start that does not stop the child there is.
SwapForStop(u) ==
    /\ ending' = [ending EXCEPT ![u] = owned]
    /\ owned' = 0
    /\ \/ (owned = 0 \/ purpose[u] = "start") /\ AfterStop(u, "swap")
       \/ owned # 0 /\ purpose[u] = "stop" /\ Moves(u, "swap", "eof") /\ UNCHANGED holder
    /\ UNCHANGED <<alive, killed, purpose, children>>

Swap(u) ==
    /\ ending' = [ending EXCEPT ![u] = owned]
    /\ owned' = 0
    /\ \/ owned = 0 /\ AfterStop(u, "swap")
       \/ owned # 0 /\ Moves(u, "swap", "eof") /\ UNCHANGED holder
    /\ UNCHANGED <<alive, killed, purpose, children>>

\* Its standard input is closed: it ends in twelve seconds, or is terminated; then
\* it ends in three, or is killed; then it is reaped in three, or stop raises.
Reap(u) ==
    /\ ending[u] \notin alive
    /\ \E from \in {"eof", "terminated", "killed"} : AfterStop(u, from)
    /\ UNCHANGED <<owned, alive, killed, purpose, ending, children>>

\* Mutant: without the limits.
TimeOutNever(u) ==
    /\ FALSE
    /\ UNCHANGED receiverVars

TimeOut(u) ==
    /\ ending[u] \in alive
    /\ \/ Moves(u, "eof", "terminated") /\ UNCHANGED <<holder, killed>>
       \/ /\ Moves(u, "terminated", "killed")
          /\ killed' = killed \cup {ending[u]}
          /\ UNCHANGED holder
       \/ Return(u, "killed") /\ UNCHANGED killed
    /\ UNCHANGED <<owned, alive, purpose, ending, children>>

\* The decoder is not enabled, or misconfigured, or cannot be started.
StartNothing(u) ==
    /\ Return(u, "spawn")
    /\ UNCHANGED <<owned, alive, killed, purpose, ending, children>>

\* The start of LRPT goes on to wait for the child's answer.
Spawn(u) ==
    /\ children < MaxChild
    /\ children' = children + 1
    /\ owned' = children + 1
    /\ alive' = alive \cup {children + 1}
    /\ \/ Return(u, "spawn")
       \/ Moves(u, "spawn", "probe") /\ UNCHANGED holder
    /\ UNCHANGED <<killed, purpose, ending>>

\* The child answers that it captures, or it is stopped and start raises.
Probe(u) ==
    /\ \/ Return(u, "probe") /\ UNCHANGED purpose
       \/ Moves(u, "probe", "swap") /\ purpose' = [purpose EXCEPT ![u] = "stop"]
          /\ UNCHANGED holder
    /\ UNCHANGED <<owned, alive, killed, ending, children>>

ChildEnds ==
    /\ \E c \in alive : alive' = alive \ {c}
    /\ UNCHANGED <<owned, killed, holder, user, purpose, ending, children>>

Managing(u) ==
    \/ Swap(u)
    \/ Reap(u) \/ TimeOut(u) \/ StartNothing(u) \/ Spawn(u) \/ Probe(u)

ReceiverNext == ChildEnds \/ \E u \in User : Call(u) \/ Managing(u)

ReceiverSpec == ReceiverInit /\ [][ReceiverNext]_receiverVars
-----------------------------------------------------------------------------
\* However starts and stops interleave, and whatever their children do, a child
\* that is alive is the one a stop would end or the one it is ending, unless
\* SIGKILL itself did not help: no two decoders share the sound input (start, stop).
OneReceiver ==
    \A c \in alive \ killed :
        \/ c = owned
        \/ holder # Nobody /\ c = ending[holder]

\* A child that never ends does not keep the lock: whoever waits for it gets it
\* (stop's three limits, start's stop of a child that does not answer).
LockIsFreed == \A u \in User : holder = u ~> holder # u
=============================================================================
