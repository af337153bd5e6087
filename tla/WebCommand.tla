----------------------------- MODULE WebCommand -----------------------------
(***************************************************************************)
(* Scripts run by a click on the web page (update of the elements, search  *)
(* for passes): web threads that ask, a worker thread per command, and the *)
(* two threads that clean up at the exit.                                  *)
(* src/bqe_wisp.py (_start_script_command, request_shutdown,               *)
(* cleanup_helper_programs, terminate_popen_process).                      *)
(***************************************************************************)
EXTENDS Naturals

CONSTANT MaxCommand  \* bound: commands started

ASSUME CommandAssumption == MaxCommand \in Nat

VARIABLES
    commandRunning,  \* APP_STATE['command_running']
    current,         \* CURRENT_WEB_COMMAND_PROCESS, 0 for None
    scripts,         \* script processes alive
    commander,       \* where the worker of each command is
    commands,        \* commands accepted
    exiting,         \* SHUTDOWN_EVENT
    cleaner,         \* where each clean-up is
    victim,          \* the process it read
    misreported      \* history: a request for a missing script was answered

commandVars == <<commandRunning, current, scripts, commander, commands, exiting, cleaner,
                 victim, misreported>>

Command == 1 .. MaxCommand
Cleaner == {"request", "scheduler"}

CommandTypeOK ==
    /\ commandRunning \in BOOLEAN
    /\ current \in Command \cup {0}
    /\ scripts \subseteq Command
    /\ commander \in [Command -> {"none", "spawn", "register", "wait", "compare", "clear",
                                  "report", "done"}]
    /\ commands \in 0 .. MaxCommand
    /\ exiting \in BOOLEAN
    /\ cleaner \in [Cleaner -> {"idle", "read", "terminate", "forget", "done"}]
    /\ victim \in [Cleaner -> Command \cup {0}]
    /\ misreported \in BOOLEAN

CommandInit ==
    /\ commandRunning = FALSE
    /\ current = 0
    /\ scripts = {}
    /\ commander = [c \in Command |-> "none"]
    /\ commands = 0
    /\ exiting = FALSE
    /\ cleaner = [k \in Cleaner |-> "idle"]
    /\ victim = [k \in Cleaner |-> 0]
    /\ misreported = FALSE

exitVars == <<exiting, cleaner, victim>>
Advances(c, from, to) ==
    /\ commander[c] = from
    /\ commander' = [commander EXCEPT ![c] = to]

\* The flag is reset although another command may run.
RefuseMissing ==
    /\ commandRunning' = FALSE
    /\ misreported' = TRUE
    /\ UNCHANGED <<current, scripts, commander, commands, exitVars>>

StartCommand ==
    /\ ~commandRunning
    /\ commands < MaxCommand
    /\ commandRunning' = TRUE
    /\ commands' = commands + 1
    /\ Advances(commands + 1, "none", "spawn")
    /\ UNCHANGED <<current, scripts, exitVars, misreported>>

SpawnScript(c) ==
    /\ \/ Advances(c, "spawn", "register") /\ scripts' = scripts \cup {c}
       \/ Advances(c, "spawn", "report") /\ UNCHANGED scripts
    /\ UNCHANGED <<commandRunning, current, commands, exitVars, misreported>>

Register(c) ==
    /\ Advances(c, "register", "wait")
    /\ current' = c
    /\ UNCHANGED <<commandRunning, scripts, commands, exitVars, misreported>>

ScriptEnds ==
    /\ \E c \in scripts : scripts' = scripts \ {c}
    /\ UNCHANGED <<commandRunning, current, commander, commands, exitVars, misreported>>

\* Mutant: the script that takes too long is left alone.
GiveUpScript(c) ==
    /\ Advances(c, "wait", "compare")
    /\ UNCHANGED <<commandRunning, current, scripts, commands, exitVars, misreported>>

\* communicate returns, or the script is killed at the timeout and reaped.
AwaitScript(c) ==
    /\ Advances(c, "wait", "compare")
    /\ scripts' = scripts \ {c}
    /\ UNCHANGED <<commandRunning, current, commands, exitVars, misreported>>

ForgetScript(c) ==
    /\ \/ Advances(c, "compare", IF current = c THEN "clear" ELSE "report")
          /\ UNCHANGED current
       \/ Advances(c, "clear", "report") /\ current' = 0
    /\ UNCHANGED <<commandRunning, scripts, commands, exitVars, misreported>>

Report(c) ==
    /\ Advances(c, "report", "done")
    /\ commandRunning' = FALSE
    /\ UNCHANGED <<current, scripts, commands, exitVars, misreported>>

Working(c) ==
    SpawnScript(c) \/ Register(c) \/ AwaitScript(c) \/ ForgetScript(c) \/ Report(c)
-----------------------------------------------------------------------------
CleanerMoves(k, from, to) ==
    /\ cleaner[k] = from
    /\ cleaner' = [cleaner EXCEPT ![k] = to]

RequestExit ==
    /\ CleanerMoves("request", "idle", "read")
    /\ exiting' = TRUE
    /\ commandRunning' = FALSE
    /\ UNCHANGED <<current, scripts, commander, commands, victim, misreported>>

\* The scheduler's finally block.
FinalCleanup ==
    /\ exiting
    /\ CleanerMoves("scheduler", "idle", "read")
    /\ UNCHANGED <<commandRunning, current, scripts, commander, commands, exiting, victim,
                   misreported>>

ReadCommand(k) ==
    /\ CleanerMoves(k, "read", "terminate")
    /\ victim' = [victim EXCEPT ![k] = current]
    /\ UNCHANGED <<commandRunning, current, scripts, commander, commands, exiting,
                   misreported>>

\* Terminated, and killed after ten seconds.
TerminateCommand(k) ==
    /\ CleanerMoves(k, "terminate", "forget")
    /\ scripts' = scripts \ {victim[k]}
    /\ UNCHANGED <<commandRunning, current, commander, commands, exiting, victim,
                   misreported>>

ForgetCommand(k) ==
    /\ CleanerMoves(k, "forget", "done")
    /\ current' = 0
    /\ UNCHANGED <<commandRunning, scripts, commander, commands, exiting, victim,
                   misreported>>

Cleaning(k) == ReadCommand(k) \/ TerminateCommand(k) \/ ForgetCommand(k)

CommandNext ==
    \/ RefuseMissing \/ StartCommand \/ ScriptEnds
    \/ \E c \in Command : Working(c)
    \/ RequestExit \/ FinalCleanup
    \/ \E k \in Cleaner : Cleaning(k)

CommandSpec == CommandInit /\ [][CommandNext]_commandVars
-----------------------------------------------------------------------------
\* Until the exit is asked for or a missing script is, a script that is alive is the
\* one the exit would terminate, or is about to be, and the page says that a command
\* is running; so no two scripts rewrite the same files (_start_script_command).
CommandsApart ==
    exiting \/ misreported \/
        \A c \in scripts :
            /\ commandRunning
            /\ c = current \/ commander[c] = "register"
            /\ scripts = {c}
=============================================================================
