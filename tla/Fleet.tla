-------------------------------- MODULE Fleet --------------------------------
(***************************************************************************)
(* The daemon, its processes, and what the server knows of the bots: every  *)
(* start of a bot is a new peer, which registers and sends signals while    *)
(* its process runs and leaves a row behind when it ends; the cache is that *)
(* of the server and goes with its process.                                 *)
(***************************************************************************)
EXTENDS Supervisor, AliveCache

CONSTANTS
    Followed,         \* the bots whose peers are followed
    MaxCrashes        \* bound on the starts anew that are followed

ASSUME FleetAssumption == Followed \subseteq Bots /\ MaxCrashes \in 0..MaxExits

VARIABLES
    peerOf,           \* the peer that each bot followed is, or was last
    traffic           \* what this behaviour is about, see Next

vars == <<supervisorVars, aliveVars, peerOf, traffic>>

ServerUp == Running("server")
Current == {peerOf[b] : b \in Followed}

TypeOK ==
    /\ SupervisorTypeOK /\ CacheTypeOK
    /\ peerOf \in [Followed -> Peers \cup {"nobody"}]
    /\ traffic \in {"processes", "peers"}

Init ==
    /\ SupervisorInit /\ CacheInit
    /\ peerOf = [b \in Followed |-> "nobody"]
    /\ traffic \in {"processes", "peers"} /\ (traffic = "peers" => ~embedded)

(* What the start or the end of processes means for the peers and the cache.*)
Starting == {b \in Followed : ~Running(b) /\ Running(b)'}
Ending == {b \in Followed : Running(b) /\ ~Running(b)'}
Fresh == {p \in Peers : life[p] = "new"} \ Current

NewPeers ==
    LET peers == CHOOSE f \in [Starting -> Fresh] : IsInjective(f)
    IN [b \in Followed |-> IF b \in Starting THEN peers[b] ELSE peerOf[b]]

Daemon(step) ==
    /\ step
    /\ UNCHANGED <<reg, lease, events, traffic>>
    /\ IF traffic = "peers"
       THEN /\ peerOf' = NewPeers
            /\ life' = [p \in Peers |->
                           IF \E b \in Ending : peerOf[b] = p THEN "dead" ELSE life[p]]
       ELSE UNCHANGED <<peerOf, life>>
    /\ IF ServerUp /\ ~ServerUp' THEN Forgotten ELSE UNCHANGED <<signals, cacheVars>>

(* A signal is sent to those who are registered at that time.               *)
Bot(b, step) ==
    /\ Running(b) /\ step
    /\ ServerUp \/ UNCHANGED signals
    /\ UNCHANGED <<supervisorVars, peerOf, traffic>>

Time(p) ==
    /\ LeaseLapses(p) \/ ExpiresElsewhere(p)
    /\ UNCHANGED <<supervisorVars, peerOf, traffic>>

Server(step) ==
    /\ ServerUp /\ step
    /\ UNCHANGED <<supervisorVars, peerOf, traffic>>

StartsAnew ==
    (\E b \in Followed : ProcessEnds(b, "error")) \/ ProcessEnds("server", "restart")

(* A bound: either the processes end in any way and the daemon may be       *)
(* interrupted, while the bots do not register; or the peers and the cache  *)
(* do all they can, while bots crash and the server restarts everything.    *)
Next ==
    \/ Daemon(DaemonSteps)
    \/ traffic = "processes" /\ Daemon(Disturbances)
    \/ /\ traffic = "peers"
       /\ \/ exits < MaxCrashes /\ Daemon(StartsAnew)
          \/ \E b \in Followed : peerOf[b] # "nobody" /\ Bot(b, PeerSteps(peerOf[b]))
          \/ \E p \in Peers : Time(p)
          \/ Server(CacheSteps)

Spec == Init /\ [][Next]_vars

(* The loop of the daemon runs; a process that runs registers, ends its     *)
(* maintenance and sends heartbeats; the server reconciles every ten        *)
(* seconds; and the lease of a dead process runs out.                       *)
Fairness ==
    /\ WF_vars(Daemon(DaemonStarts)) /\ WF_vars(Daemon(DaemonWatches))
    /\ WF_vars(Daemon(DaemonCleans)) /\ WF_vars(Daemon(DaemonExits))
    /\ \A b \in Followed, p \in Peers :
          WF_vars(peerOf[b] = p /\ Bot(b, \/ Registers(p) \/ BecomesReady(p)
                                         \/ EndsMaintenance(p) \/ Heartbeats(p)))
    /\ \A p \in Peers : WF_vars(life[p] = "dead" /\ Time(p))
    /\ WF_vars(traffic = "peers" /\ Server(Reconciles))

FairSpec == Spec /\ Fairness
-----------------------------------------------------------------------------
(* A process is asked to stop only after all those that need it have ended: *)
(* the server after the bots, the hub after the server, so that signals and *)
(* results of the others still arrive (cleanup_processes(), whoever leaves  *)
(* run_bot(), unless the user interrupts a second time); and when the       *)
(* daemon starts anew or has ended, nobody is left running.  The exit on    *)
(* the first Ctrl-C asks nobody in this way and keeps no order.             *)
OrderedStop ==
    /\ interrupts < 2 =>
          /\ asked \in Bots \cup {"nobody"} \/ \A b \in Bots : ~Running(b)
          /\ asked = "hub" => ~ServerUp
    /\ daemon \in {"preinit", "ended"} => \A n \in Names : ~Running(n)

(* Without a hub of its own, the daemon ends once every bot has left or     *)
(* crashed too often (the loop of run_bot()).                               *)
EmptyFleetEnds ==
    ~embedded /\ daemon = "watch" /\ Range(processes) \cap Bots = {} ~> daemon # "watch"

(* While the server stays up, its cache comes back to saying that a bot     *)
(* that stays up can be reached, and stops for good saying so of a process  *)
(* that is dead, whatever signals were lost, late or overtaken (alive.py).  *)
CacheSettles ==
    /\ \A b \in Followed, p \in Peers :
          <>[](/\ ServerUp /\ Running(b) /\ peerOf[b] = p
               /\ life[p] \notin {"draining", "stopped"}) => []<>Alive(p)
    /\ \A p \in Peers : <>[](ServerUp /\ life[p] = "dead") => <>[]~Alive(p)
=============================================================================
