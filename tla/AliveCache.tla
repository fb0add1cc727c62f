------------------------------ MODULE AliveCache ------------------------------
(***************************************************************************)
(* The cache that a process keeps of its peers (core/alive.py), which says  *)
(* where a session can be sent, against the rows of the registry.  It is    *)
(* written by the reconciliation every few seconds, by the handlers of the  *)
(* lifecycle signals, which look the peer up before they believe them, and  *)
(* by every routing that has read the registry.  An answer of the registry  *)
(* is read in one step and written to the cache in a later one.             *)
(*                                                                          *)
(* The lifecycle of a peer is that of PeerLifecycle with its poller,        *)
(* handlers and locks left out.  A lease is running or not; the copy of one *)
(* in the cache is older than that of the row, and may run out before it.   *)
(***************************************************************************)
EXTENDS Integers, FiniteSets

CONSTANTS
    Peers,            \* the processes that may register
    MaxEvents,        \* bound on the windows, late heartbeats and new starts of a poller
    MaxSignals,       \* bound on the signals under way at once
    MaxAnswers        \* bound on the answers under way at once

ASSUME CacheAssumption == {MaxEvents, MaxSignals, MaxAnswers} \subseteq Nat

VARIABLES
    life,             \* what each peer takes itself to be
    reg,              \* the state of its row in the registry
    lease,            \* lease_until of that row lies ahead
    events,           \* how many of them there were
    signals,          \* lifecycle signals on the way to this process
    answers,          \* answers of the registry, not yet written to the cache
    round,            \* where the reconciliation stands
    cache             \* Alive.values

peerVars == <<life, reg, lease, events>>
cacheVars == <<answers, round, cache>>
aliveVars == <<peerVars, signals, cacheVars>>

States == {"starting", "ready", "maintenance", "draining", "stopped"}
Leased == States \ {"stopped"}
Kinds == {"ready", "maintenance", "resumed", "draining", "stopped"}
NoEntry == [state |-> "none", live |-> FALSE]
Resting == [at |-> "rest", gone |-> {}, found |-> {}]

CacheTypeOK ==
    /\ life \in [Peers -> {"new", "dead"} \cup States]
    /\ reg \in [Peers -> {"none"} \cup States]
    /\ lease \in [Peers -> BOOLEAN]
    /\ events \in 0..MaxEvents
    /\ signals \subseteq [peer : Peers, kind : Kinds]
    /\ answers \subseteq [peer : Peers, state : States, force : BOOLEAN]
    /\ round \in [at : {"rest", "expired", "resolved"}, gone : SUBSET Peers, found : SUBSET Peers]
    /\ cache \in [Peers -> [state : {"none"} \cup States, live : BOOLEAN]]

CacheInit ==
    /\ life = [p \in Peers |-> "new"]
    /\ reg = [p \in Peers |-> "none"]
    /\ lease = [p \in Peers |-> FALSE]
    /\ events = 0
    /\ signals = {} /\ answers = {} /\ round = Resting
    /\ cache = [p \in Peers |-> NoEntry]

(* resolve() and select_route() return a row that is ready under its lease. *)
Resolves(p) == reg[p] = "ready" /\ lease[p]

(* get_alive() and is_alive().                                              *)
Alive(p) == cache[p].state = "ready" /\ cache[p].live
-----------------------------------------------------------------------------
(* The peers.  A signal that cannot be sent is logged and forgotten.        *)

Row(p, state) ==
    /\ reg' = [reg EXCEPT ![p] = state]
    /\ lease' = [lease EXCEPT ![p] = state # "stopped"]

Emit(p, kind) ==
    \/ UNCHANGED signals
    \/ /\ Cardinality(signals) < MaxSignals
       /\ signals' = signals \cup {[peer |-> p, kind |-> kind]}

Becomes(p, state) == life' = [life EXCEPT ![p] = state]

Registers(p) ==
    /\ life[p] = "new"
    /\ Becomes(p, "starting") /\ Row(p, "starting")
    /\ UNCHANGED <<events, signals, cacheVars>>

(* Its poller failed, unregistered it, and is started again.                *)
RegistersAgain(p) ==
    /\ life[p] = "stopped" /\ events < MaxEvents
    /\ events' = events + 1
    /\ Becomes(p, "starting") /\ Row(p, "starting")
    /\ UNCHANGED <<signals, cacheVars>>

BecomesReady(p) ==
    /\ life[p] = "starting"
    /\ Becomes(p, "ready") /\ Row(p, "ready") /\ Emit(p, "ready")
    /\ UNCHANGED <<events, cacheVars>>

BeginsMaintenance(p) ==
    /\ life[p] = "ready" /\ events < MaxEvents
    /\ events' = events + 1
    /\ Becomes(p, "maintenance") /\ Row(p, "maintenance") /\ Emit(p, "maintenance")
    /\ UNCHANGED cacheVars

EndsMaintenance(p) ==
    /\ life[p] = "maintenance"
    /\ Becomes(p, "ready") /\ Row(p, "ready") /\ Emit(p, "resumed")
    /\ UNCHANGED <<events, cacheVars>>

(* _maintain_peer(): the lease is renewed, or the peer registered again.    *)
Heartbeats(p) ==
    /\ life[p] = "ready" /\ ~Resolves(p)
    /\ Row(p, "ready")
    /\ UNCHANGED <<life, events, signals, cacheVars>>

Drains(p) ==
    /\ life[p] \in {"starting", "ready", "maintenance"}
    /\ Becomes(p, "draining") /\ Row(p, "draining") /\ Emit(p, "draining")
    /\ UNCHANGED <<events, cacheVars>>

Unregisters(p) ==
    /\ life[p] = "draining"
    /\ Becomes(p, "stopped") /\ Row(p, "stopped") /\ Emit(p, "stopped")
    /\ UNCHANGED <<events, cacheVars>>

(* The lease of a row runs out, and every older copy of it: that of a dead  *)
(* process, or of one whose heartbeat is late.                              *)
LeaseLapses(p) ==
    /\ lease[p]
    /\ \/ life[p] = "dead" /\ UNCHANGED events
       \/ life[p] # "dead" /\ events < MaxEvents /\ events' = events + 1
    /\ lease' = [lease EXCEPT ![p] = FALSE]
    /\ cache' = [cache EXCEPT ![p].live = FALSE]
    /\ UNCHANGED <<life, reg, signals, answers, round>>

(* Another process finds the row first.                                     *)
ExpiresElsewhere(p) ==
    /\ reg[p] \in Leased /\ ~lease[p]
    /\ reg' = [reg EXCEPT ![p] = "stopped"]
    /\ UNCHANGED <<life, lease, events, signals, cacheVars>>
-----------------------------------------------------------------------------
(* The cache.                                                               *)

Rank(state) ==
    CASE state = "starting" -> 0 [] state = "ready" -> 1 [] state = "maintenance" -> 2
      [] state = "draining" -> 3 [] state = "stopped" -> 4

(* Alive.refresh_peer(): unless it is forced, no state goes back.           *)
Refreshed(entry, state, live, force) ==
    IF ~force /\ entry # NoEntry /\ Rank(state) < Rank(entry.state)
    THEN entry
    ELSE [state |-> state, live |-> live]

(* _refresh_peer_cache(): expire_stale(), then resolve(), then the cache.   *)
ReconcileBegins ==
    /\ round.at = "rest"
    /\ LET stale == {p \in Peers : reg[p] \in Leased /\ ~lease[p]}
       IN /\ reg' = [p \in Peers |-> IF p \in stale THEN "stopped" ELSE reg[p]]
          /\ round' = [at |-> "expired", gone |-> stale, found |-> {}]
    /\ UNCHANGED <<life, lease, events, signals, answers, cache>>

ReconcileReads ==
    /\ round.at = "expired"
    /\ round' = [round EXCEPT !.at = "resolved", !.found = {p \in Peers : Resolves(p)}]
    /\ UNCHANGED <<peerVars, signals, answers, cache>>

(* Mutant of Replaced: replace_peers() does not force. *)
ReplacedUnlessLower(p, aged) ==
    LET entry == IF p \in round.gone THEN Refreshed(cache[p], "stopped", FALSE, FALSE)
                 ELSE cache[p]
    IN IF p \in round.found THEN Refreshed(entry, "ready", lease[p], FALSE)
       ELSE IF entry.state \in {"draining", "stopped"} /\ p \notin aged \ round.gone
       THEN entry
       ELSE NoEntry

(* Alive.replace_peers(): what was not found is kept for two minutes if it  *)
(* is draining or stopped, and dropped otherwise.                           *)
Replaced(p, aged) ==
    LET entry == IF p \in round.gone THEN Refreshed(cache[p], "stopped", FALSE, FALSE)
                 ELSE cache[p]
    IN IF p \in round.found THEN Refreshed(entry, "ready", lease[p], TRUE)
       ELSE IF entry.state \in {"draining", "stopped"} /\ p \notin aged \ round.gone
       THEN entry
       ELSE NoEntry

ReconcileEnds ==
    /\ round.at = "resolved"
    /\ \E aged \in {{}, Peers} : cache' = [p \in Peers |-> Replaced(p, aged)]
    /\ round' = Resting
    /\ UNCHANGED <<peerVars, signals, answers>>

Answer(p, state, force) ==
    /\ Cardinality(answers) < MaxAnswers
    /\ answers' = answers \cup {[peer |-> p, state |-> state, force |-> force]}

(* _dispatch_signal(): a signal the registry does not bear out is ignored.  *)
Confirms(s) ==
    IF s.kind \in {"ready", "resumed"} THEN Resolves(s.peer) ELSE reg[s.peer] = s.kind

SignalArrives(s) ==
    /\ s \in signals
    /\ signals' = signals \ {s}
    /\ \/ /\ Confirms(s)
          /\ IF s.kind \in {"ready", "resumed"}
             THEN Answer(s.peer, "ready", TRUE)
             ELSE Answer(s.peer, s.kind, FALSE)
       \/ ~Confirms(s) /\ UNCHANGED answers
    /\ UNCHANGED <<peerVars, round, cache>>

(* SessionInfo.assign() and emit_signal() read the registry to send, and    *)
(* note in the cache whom they found.                                       *)
RouteReads(p) ==
    /\ Resolves(p)
    /\ Answer(p, "ready", FALSE)
    /\ UNCHANGED <<peerVars, signals, round, cache>>

AnswerWritten(a) ==
    /\ a \in answers
    /\ answers' = answers \ {a}
    /\ cache' = [cache EXCEPT ![a.peer] =
                     Refreshed(@, a.state, a.state # "stopped" /\ lease[a.peer], a.force)]
    /\ UNCHANGED <<peerVars, signals, round>>

(* The copy of a lease runs out while its peer has renewed it.              *)
CopyLapses(p) ==
    /\ cache[p].live
    /\ cache' = [cache EXCEPT ![p].live = FALSE]
    /\ UNCHANGED <<peerVars, signals, answers, round>>

(* The process of the cache ends; its successor is another peer.            *)
Forgotten ==
    /\ signals' = {} /\ answers' = {} /\ round' = Resting
    /\ cache' = [p \in Peers |-> NoEntry]

PeerSteps(p) ==
    \/ Registers(p) \/ RegistersAgain(p) \/ BecomesReady(p)
    \/ BeginsMaintenance(p) \/ EndsMaintenance(p) \/ Heartbeats(p) \/ Drains(p) \/ Unregisters(p)
Reconciles == ReconcileBegins \/ ReconcileReads \/ ReconcileEnds
CacheSteps ==
    \/ Reconciles
    \/ \E s \in signals : SignalArrives(s)
    \/ \E a \in answers : AnswerWritten(a)
    \/ \E p \in Peers : RouteReads(p) \/ CopyLapses(p)
=============================================================================
