------------------------------ MODULE Supervisor ------------------------------
(***************************************************************************)
(* The daemon of bot.py.  It runs pre_init(), starts the embedded hub, the  *)
(* enabled bots and the server as processes, looks at them once a second,   *)
(* restarts a bot that crashed unless it crashed too often, and restarts or *)
(* ends as a whole when the server, the hub or a bot says so.  Whatever     *)
(* makes it leave run_bot(), cleanup_processes() ends its processes: first  *)
(* the bots, then the server, then the hub.  Only Ctrl-C does not: the      *)
(* first one cancels the task of asyncio.run(), CancelledError passes every *)
(* except clause of main_async(), and the processes are left to the exit    *)
(* handler of multiprocessing, which ends them in no order.                 *)
(*                                                                          *)
(* A process has its name: the daemon never has two of one name in          *)
(* `processes`.  Exit codes are 0, 33 (restart everything), 78 (not worth a *)
(* restart) and all others.                                                 *)
(***************************************************************************)
EXTENDS Integers, SequencesExt

CONSTANTS
    Bots,             \* the enabled bots
    MaxExits          \* bound on the processes that end by themselves

ASSUME SupervisorAssumption ==
    /\ MaxExits \in Nat /\ IsFiniteSet(Bots)
    /\ {"server", "hub", "nobody"} \cap Bots = {}

VARIABLES
    daemon,           \* where the daemon stands
    embedded,         \* the hub runs as a process of the daemon
    processes,        \* the processes it looks after, in this order
    child,            \* what each process does, or the code it ended with
    asked,            \* the process that terminate_process() waits for
    again,            \* RestartBot was raised
    attempts,         \* failed_to_start_attempts: the count of each bot
    recent,           \* the last of them is no more than a minute old
    interrupts,       \* SIGINTs of this asyncio.run(): none, one or more
    exits             \* how many processes have ended by themselves

daemonVars == <<daemon, embedded, processes, asked, again, attempts, recent,
                interrupts>>
supervisorVars == <<daemonVars, child, exits>>

Names == Bots \cup {"server", "hub"}
Codes == {"ok", "restart", "useless", "error"}

SupervisorTypeOK ==
    /\ daemon \in {"preinit", "hub", "hubwait", "launch", "watch", "cleanup",
                  "exiting", "ended"}
    /\ embedded \in BOOLEAN /\ again \in BOOLEAN
    /\ processes \in Seq(Names) /\ IsInjective(processes)
    /\ child \in [Names -> {"none", "running"} \cup Codes]
    /\ asked \in Names \cup {"nobody"}
    /\ attempts \in [Bots -> Nat] /\ recent \in [Bots -> BOOLEAN]
    /\ interrupts \in 0..2 /\ exits \in 0..MaxExits

SupervisorInit ==
    /\ daemon = "preinit" /\ embedded \in BOOLEAN
    /\ processes = <<>>
    /\ child = [n \in Names |-> "none"]
    /\ asked = "nobody" /\ again = FALSE
    /\ attempts = [b \in Bots |-> 0] /\ recent = [b \in Bots |-> FALSE]
    /\ interrupts = 0 /\ exits = 0

Running(n) == child[n] = "running"
Ended(n) == child[n] \in Codes
-----------------------------------------------------------------------------
(* Starting.                                                                *)

Leave(restart) == daemon' = "cleanup" /\ again' = restart

PreInit ==
    /\ daemon = "preinit"
    /\ \/ daemon' = "hub" /\ UNCHANGED again
       \/ Leave(FALSE)
    /\ UNCHANGED <<embedded, processes, child, asked, attempts, recent, interrupts, exits>>

StartHub ==
    /\ daemon = "hub"
    /\ \/ /\ embedded
          /\ daemon' = "hubwait"
          /\ processes' = <<"hub">>
          /\ child' = [child EXCEPT !["hub"] = "running"]
       \/ /\ ~embedded
          /\ daemon' = "launch"
          /\ UNCHANGED <<processes, child>>
    /\ UNCHANGED <<embedded, asked, again, attempts, recent, interrupts, exits>>

HubReady ==
    /\ daemon = "hubwait" /\ interrupts = 0 /\ Running("hub")
    /\ daemon' = "launch"
    /\ UNCHANGED <<embedded, processes, child, asked, again, attempts, recent, interrupts, exits>>

(* It is not ready in ten seconds, or has ended.                            *)
HubFails ==
    /\ daemon = "hubwait" /\ interrupts = 0
    /\ Leave(FALSE)
    /\ processes' = <<>>
    /\ child' = [child EXCEPT !["hub"] = "none"]
    /\ UNCHANGED <<embedded, asked, attempts, recent, interrupts, exits>>

Launch ==
    /\ daemon = "launch"
    /\ daemon' = "watch"
    /\ processes' = processes \o SetToSeq(Bots) \o <<"server">>
    /\ child' = [n \in Names |-> IF n = "hub" THEN child[n] ELSE "running"]
    /\ UNCHANGED <<embedded, asked, again, attempts, recent, interrupts, exits>>
-----------------------------------------------------------------------------
(* Watching: one look at the processes, up to the first that has ended.     *)

FirstEnded(n) ==
    /\ daemon = "watch" /\ Len(processes) > 1
    /\ \E i \in DOMAIN processes :
          /\ processes[i] = n /\ Ended(n)
          /\ \A j \in 1..(i - 1) : ~Ended(processes[j])

Forget(n) ==
    /\ processes' = RemoveFirst(processes, n)
    /\ child' = [child EXCEPT ![n] = "none"]

(* The server or the hub ends the daemon with it; code 33 of the server or  *)
(* of a bot restarts everything.                                            *)
LeaveWith(n) ==
    /\ FirstEnded(n)
    /\ n \in {"server", "hub"} \/ child[n] = "restart"
    /\ Leave(n # "hub" /\ child[n] = "restart")
    /\ UNCHANGED <<embedded, processes, child, asked, attempts, recent, interrupts, exits>>

(* The look is over: the daemon sleeps, or is cancelled where it would.     *)
LookEnds == daemon' = IF interrupts > 0 THEN "exiting" ELSE "watch"

BotLeaves(b) ==
    /\ FirstEnded(b) /\ child[b] \in {"ok", "useless"}
    /\ Forget(b) /\ LookEnds
    /\ UNCHANGED <<embedded, asked, again, attempts, recent, interrupts, exits>>

(* restart_bot_process(): failures a minute apart count from one again.     *)
Attempt(b) == (IF recent[b] THEN attempts[b] ELSE 0) + 1

(* Mutant of BotCrashed: the new process is not among `processes`. *)
BotCrashedUntracked(b) ==
    /\ FirstEnded(b) /\ child[b] = "error" /\ LookEnds
    /\ attempts' = [attempts EXCEPT ![b] = Attempt(b)]
    /\ recent' = [recent EXCEPT ![b] = TRUE]
    /\ processes' = RemoveFirst(processes, b)
    /\ child' = [child EXCEPT ![b] = IF Attempt(b) >= 3 THEN "none" ELSE "running"]
    /\ UNCHANGED <<embedded, asked, again, interrupts, exits>>

BotCrashed(b) ==
    /\ FirstEnded(b) /\ child[b] = "error" /\ LookEnds
    /\ attempts' = [attempts EXCEPT ![b] = Attempt(b)]
    /\ recent' = [recent EXCEPT ![b] = TRUE]
    /\ IF Attempt(b) >= 3
       THEN Forget(b)
       ELSE /\ processes' = Append(RemoveFirst(processes, b), b)
            /\ child' = [child EXCEPT ![b] = "running"]
    /\ UNCHANGED <<embedded, asked, again, interrupts, exits>>

(* Mutant of NobodyLeft: the server counts as somebody to wait for. *)
NobodyLeftAtAll ==
    /\ daemon = "watch" /\ Len(processes) < 1
    /\ Leave(FALSE)
    /\ UNCHANGED <<embedded, processes, child, asked, attempts, recent, interrupts, exits>>

(* No process, or one alone, is left to look after.                         *)
NobodyLeft ==
    /\ daemon = "watch" /\ Len(processes) <= 1
    /\ Leave(FALSE)
    /\ UNCHANGED <<embedded, processes, child, asked, attempts, recent, interrupts, exits>>

-----------------------------------------------------------------------------
(* cleanup_processes(), and the loop of main() around it.                   *)

StopRank(n) == IF n \in Bots THEN 0 ELSE IF n = "server" THEN 1 ELSE 2

StopNext(n) ==
    /\ daemon = "cleanup" /\ asked = "nobody"
    /\ n \in Range(processes)
    /\ \A o \in Range(processes) : StopRank(n) <= StopRank(o)
    /\ asked' = n
    /\ UNCHANGED <<daemon, embedded, processes, child, again, attempts, recent, interrupts, exits>>

(* terminate_process(): it ends by itself in time, or is killed.            *)
Stopped(n) ==
    /\ asked = n
    /\ asked' = "nobody"
    /\ Forget(n)
    /\ UNCHANGED <<daemon, embedded, again, attempts, recent, interrupts, exits>>

CleanupEnds ==
    /\ daemon = "cleanup" /\ asked = "nobody" /\ processes = <<>>
    /\ daemon' = IF again THEN "preinit" ELSE "exiting"
    /\ again' = FALSE /\ interrupts' = 0
    /\ UNCHANGED <<embedded, processes, child, asked, attempts, recent, exits>>
-----------------------------------------------------------------------------
(* Ctrl-C, and the end of the program.                                      *)

(* The first SIGINT: main_task.cancel().                                    *)
Interrupt ==
    /\ interrupts = 0
    /\ daemon \in {"preinit", "hub", "hubwait", "launch", "watch", "cleanup"}
    /\ interrupts' = 1
    /\ UNCHANGED <<daemon, embedded, processes, child, asked, again, attempts, recent, exits>>

(* CancelledError at an await of run_bot().                                 *)
Cancelled ==
    /\ interrupts > 0 /\ daemon \in {"hubwait", "watch"}
    /\ daemon' = "exiting"
    /\ UNCHANGED <<embedded, processes, child, asked, again, attempts, recent, interrupts, exits>>

(* Every further one is a KeyboardInterrupt where the daemon stands:        *)
(* main_async() catches it outside of cleanup_processes().                  *)
InterruptAgain ==
    /\ interrupts > 0 /\ interrupts' = 2
    /\ daemon \in {"preinit", "hub", "launch", "watch"}
    /\ Leave(FALSE)
    /\ UNCHANGED <<embedded, processes, child, asked, attempts, recent, exits>>

(* Within terminate_process() the close() of a process that still runs      *)
(* raises ValueError in its place, which is caught: the process is passed   *)
(* over, and left running.  A bound: not while everything is restarted,     *)
(* when it would live on beside its successor.                              *)
PassesOver(n) ==
    /\ interrupts > 0 /\ interrupts' = 2
    /\ asked = n /\ Running(n) /\ ~again
    /\ processes' = RemoveFirst(processes, n) /\ asked' = "nobody"
    /\ UNCHANGED <<daemon, embedded, child, again, attempts, recent, exits>>

CleanupInterrupted ==
    /\ interrupts > 0 /\ interrupts' = 2
    /\ daemon = "cleanup" /\ (asked # "nobody" => ~Running(asked))
    /\ daemon' = "exiting" /\ asked' = "nobody" /\ again' = FALSE
    /\ UNCHANGED <<embedded, processes, child, attempts, recent, exits>>

(* multiprocessing ends the daemonic processes that are left.               *)
ExitTerminates(n) ==
    /\ daemon = "exiting" /\ Running(n)
    /\ child' = [child EXCEPT ![n] = "none"]
    /\ UNCHANGED <<daemonVars, exits>>

Exits ==
    /\ daemon = "exiting" /\ \A n \in Names : ~Running(n)
    /\ daemon' = "ended"
    /\ UNCHANGED <<embedded, processes, child, asked, again, attempts, recent, interrupts, exits>>
-----------------------------------------------------------------------------
(* The processes and the clock.                                             *)

ProcessEnds(n, code) ==
    /\ Running(n) /\ exits < MaxExits
    /\ child' = [child EXCEPT ![n] = code]
    /\ exits' = exits + 1
    /\ UNCHANGED daemonVars

MinutePasses(b) ==
    /\ recent[b]
    /\ recent' = [recent EXCEPT ![b] = FALSE]
    /\ UNCHANGED <<daemon, embedded, processes, child, asked, again, attempts, interrupts, exits>>

DaemonStarts == PreInit \/ StartHub \/ HubReady \/ HubFails \/ Launch
DaemonWatches ==
    \/ \E n \in Names : LeaveWith(n)
    \/ \E b \in Bots : BotLeaves(b) \/ BotCrashed(b)
    \/ NobodyLeft
DaemonCleans == (\E n \in Names : StopNext(n) \/ Stopped(n)) \/ CleanupEnds

DaemonExits == Cancelled \/ (\E n \in Names : ExitTerminates(n)) \/ Exits

DaemonSteps == DaemonStarts \/ DaemonWatches \/ DaemonCleans \/ DaemonExits
Interrupts == Interrupt \/ InterruptAgain \/ (\E n \in Names : PassesOver(n)) \/ CleanupInterrupted
Disturbances ==
    \/ Interrupts
    \/ \E n \in Names, code \in Codes : ProcessEnds(n, code)
    \/ \E b \in Bots : MinutePasses(b)
=============================================================================
