---------------------------- MODULE PeerLifecycle ----------------------------
(***************************************************************************)
(* The coroutines of one JobQueue peer that share its event loop: the       *)
(* poller (check_job_queue), the handlers it spawns (_process_task), the    *)
(* maintenance windows that handlers and other tasks open                  *)
(* (maintenance_window), and the shutdown (shutdown_window around           *)
(* stop_job_queue).  What they share is the poll lock, the maintenance      *)
(* lock, pause_event, four flags of the class and the row of the peer in    *)
(* the registry.  A step is what a coroutine does between two awaits; a     *)
(* statement sent to the registry is in flight in one state of its          *)
(* coroutine and committed in the next, so that others run in between.      *)
(***************************************************************************)
EXTENDS FiniteSets

CONSTANTS
    Handlers,         \* requests the peer may claim, one task each
    Outsiders,        \* tasks that are not handlers
    Maintainers,      \* those of them that open a maintenance window
    Failures          \* which failures happen, see FailureKinds

(* poller: an exception ends the poller.  deadline: the deadline of a       *)
(* request cancels its handler.  database: a statement of the registry is   *)
(* refused, or committed although it raises.  slow: a window does not have  *)
(* the poll lock, or its operation done, in time.  stubborn: a shutdown     *)
(* does not have the poll lock, or a handler ended, in time.  early: the    *)
(* process shuts down before its peer was ready.                            *)
FailureKinds == {"poller", "deadline", "database", "slow", "stubborn", "early"}
Workers == Handlers \cup Outsiders

ASSUME ConstantsAssumption ==
    /\ Maintainers \subseteq Workers
    /\ Failures \subseteq FailureKinds
    /\ Handlers \cap Outsiders = {}
    /\ {"free", "poller", "shutdown"} \cap Workers = {}

VARIABLES
    poller,           \* where check_job_queue stands
    claiming,         \* claim_new, read when the round of the poller began
    handler,          \* the task of each request
    cancelled,        \* handlers with a cancellation not yet delivered
    window,           \* where maintenance_window stands in each worker
    started,          \* maintenance_started of the window that holds the lock
    waits,            \* the tasks its wait_process_tasks() gathers
    shutdown,         \* where shutdown_window stands
    pollLock,         \* the holder of _poll_lock
    windowLock,       \* the holder of _maintenance_lock
    pause,            \* pause_event: set while new requests may be claimed
    active,           \* _maintenance_active
    registered,       \* _registered
    shuttingDown,     \* _shutting_down
    reg               \* the state of the peer's row in the registry

handlerVars == <<handler, cancelled>>
windowVars == <<window, started, waits, windowLock>>
flags == <<pause, active, registered, shuttingDown>>
vars == <<poller, claiming, handlerVars, windowVars, shutdown, pollLock, flags, reg>>

Starting == {"starting", "registered", "readying", "announcing"}
InRound == {"polling", "renewing", "missing"}
Stopping == {"rollback", "draining", "unregistering", "unregistered", "retrying"}
PollerStates == {"off", "idle", "ended"} \cup Starting \cup InRound \cup Stopping

Entry == {"lock", "barrier", "entering", "entered", "announcing", "drain", "expired"}
Body == {"shared", "upgrading", "nested", "exclusive"}
Locked == {"nested", "exclusive"}
WindowStates == {"none", "locking", "resuming", "resumed", "left"} \cup Entry \cup Body
ShutdownStates == {"none", "barrier", "draining", "cancelling", "waiting",
                   "locking", "stopping", "joining", "done"}
RowStates == {"absent", "starting", "ready", "maintenance", "draining", "stopped"}

Running == {h \in Handlers : handler[h] \in {"running", "late"}}

TypeOK ==
    /\ poller \in PollerStates
    /\ claiming \in BOOLEAN
    /\ handler \in [Handlers -> {"none", "running", "late", "done"}]
    /\ cancelled \subseteq Handlers
    /\ window \in [Workers -> WindowStates]
    /\ started \in BOOLEAN
    /\ waits \subseteq Handlers
    /\ shutdown \in ShutdownStates
    /\ pollLock \in {"free", "poller", "shutdown"} \cup Workers
    /\ windowLock \in {"free"} \cup Workers
    /\ pause \in BOOLEAN /\ active \in BOOLEAN
    /\ registered \in BOOLEAN /\ shuttingDown \in BOOLEAN
    /\ reg \in RowStates

Init ==
    /\ poller = "off" /\ claiming = FALSE
    /\ handler = [h \in Handlers |-> "none"] /\ cancelled = {}
    /\ window = [m \in Workers |-> "none"] /\ started = FALSE /\ waits = {}
    /\ shutdown = "none"
    /\ pollLock = "free" /\ windowLock = "free"
    /\ pause = TRUE /\ active = FALSE /\ registered = FALSE /\ shuttingDown = FALSE
    /\ reg = "absent"

Release(holder) == pollLock' = IF pollLock = holder THEN "free" ELSE pollLock
------------------------------------------------------------------------------
(* The poller: _start_peer().                                               *)

PollerMoves(from, to) == poller = from /\ poller' = to
Frame == UNCHANGED <<handlerVars, windowVars, shutdown>>

PollerOnly(from, to) ==
    /\ PollerMoves(from, to)
    /\ UNCHANGED <<claiming, pollLock, flags, reg>> /\ Frame

PollerCommits(from, to, state) ==
    /\ PollerMoves(from, to) /\ reg' = state
    /\ UNCHANGED <<claiming, pollLock, flags>> /\ Frame

StartPoller == shutdown = "none" /\ PollerOnly("off", "starting")
CommitStarting == PollerCommits("starting", "registered", "starting")

Registered ==
    /\ PollerMoves("registered", "readying")
    /\ registered' = TRUE
    /\ UNCHANGED <<claiming, pollLock, pause, active, shuttingDown, reg>> /\ Frame

CommitReady == PollerCommits("readying", "announcing", "ready")
PeerReady == PollerOnly("announcing", "idle")

(* A round of the poller under the poll lock: _check_queue() receives with  *)
(* the claim_new read at its start, and spawns what it got; _maintain_peer()*)
(* then renews the lease when it is due.                                    *)
StartRound ==
    /\ PollerMoves("idle", "polling")
    /\ pollLock = "free" /\ pollLock' = "poller"
    /\ UNCHANGED <<flags, reg>> /\ Frame

(* Mutant of BeginRound: the round claims whatever pause_event says. *)
BeginRoundUnpaused == StartRound /\ claiming' = TRUE

BeginRound == StartRound /\ claiming' = pause

Spawn(S) ==
    /\ S # {} => claiming
    /\ handler' = [h \in Handlers |-> IF h \in S THEN "running" ELSE handler[h]]
    /\ UNCHANGED cancelled

New == {h \in Handlers : handler[h] = "none"}

EndRound(S) ==
    /\ Spawn(S)
    /\ PollerMoves("polling", "idle") /\ Release("poller")
    /\ UNCHANGED <<claiming, windowVars, shutdown, flags, reg>>

HeartbeatDue(S) ==
    /\ ~shuttingDown /\ ~active
    /\ Spawn(S)
    /\ PollerMoves("polling", "renewing")
    /\ UNCHANGED <<claiming, windowVars, shutdown, pollLock, flags, reg>>

(* renew() finds the row only while it says starting or ready; otherwise    *)
(* the peer registers again.                                                *)
LeaseRound(from, state) ==
    /\ PollerMoves(from, "idle") /\ Release("poller")
    /\ reg' = state
    /\ UNCHANGED <<claiming, flags>> /\ Frame

Renew == reg \in {"starting", "ready"} /\ LeaseRound("renewing", "ready")

(* Mutant of RenewMisses: a lease that was not renewed is left alone. *)
RenewMissesSilently == reg \notin {"starting", "ready"} /\ LeaseRound("renewing", reg)

RenewMisses == reg \notin {"starting", "ready"} /\ PollerOnly("renewing", "missing")
RegisterAgain == LeaseRound("missing", "ready")
------------------------------------------------------------------------------
(* The poller ends, by an exception or a cancellation: the poll lock is     *)
(* released, and a registered peer runs _stop_peer(); a registration that   *)
(* was under way is rolled back; a cancellation that reaches _stop_peer()   *)
(* itself leaves only its last attempt to unregister.                       *)

Ended == IF shutdown = "none" THEN "off" ELSE "ended"

PollerStops ==
    /\ Release("poller")
    /\ \/ poller \in Stopping /\ poller' = "retrying" /\ active' = FALSE
       \/ poller \in {"starting", "registered"} /\ poller' = "rollback" /\ UNCHANGED active
       \/ /\ poller \in {"readying", "announcing", "idle"} \cup InRound
          /\ poller' = "draining" /\ UNCHANGED active

PollerFails ==
    /\ "poller" \in Failures
    /\ poller \in Starting \cup InRound
    /\ PollerStops
    /\ UNCHANGED <<claiming, pause, registered, shuttingDown, reg>> /\ Frame

RollBack ==
    /\ poller = "rollback" /\ poller' = Ended
    /\ reg' = IF reg = "absent" THEN "absent" ELSE "stopped"
    /\ UNCHANGED <<claiming, pollLock, flags>> /\ Frame

StopDrains == PollerCommits("draining", "unregistering", "draining")
StopUnregisters == PollerCommits("unregistering", "unregistered", "stopped")

PeerStopped ==
    /\ poller = "unregistered" /\ poller' = Ended
    /\ active' = FALSE /\ registered' = FALSE
    /\ UNCHANGED <<claiming, pollLock, pause, shuttingDown, reg>> /\ Frame

StopFails ==
    /\ "database" \in Failures
    /\ poller \in {"draining", "unregistering"} /\ poller' = "retrying"
    /\ active' = FALSE
    /\ UNCHANGED <<claiming, pollLock, pause, registered, shuttingDown, reg>> /\ Frame

StopRetries ==
    /\ poller = "retrying" /\ poller' = Ended
    /\ registered' = FALSE
    /\ \/ reg' = "stopped"
       \/ "database" \in Failures /\ UNCHANGED reg
    /\ UNCHANGED <<claiming, pollLock, pause, active, shuttingDown>> /\ Frame
------------------------------------------------------------------------------
(* The handlers.                                                            *)

HandlerEnds(h) ==
    /\ h \in Running /\ window[h] \in {"none", "left"}
    /\ handler' = [handler EXCEPT ![h] = "done"]
    /\ cancelled' = cancelled \ {h}
    /\ UNCHANGED <<poller, claiming, windowVars, shutdown, pollLock, flags, reg>>

DeadlinePasses(h) ==
    /\ "deadline" \in Failures
    /\ handler[h] = "running" /\ handler' = [handler EXCEPT ![h] = "late"]
    /\ cancelled' = cancelled \cup {h}
    /\ UNCHANGED <<poller, claiming, windowVars, shutdown, pollLock, flags, reg>>
------------------------------------------------------------------------------
(* The maintenance windows.                                                 *)

Others == UNCHANGED <<poller, claiming, handler, shutdown, registered, shuttingDown>>
WindowMoves(m, to) == window' = [window EXCEPT ![m] = to]

(* A worker that was cancelled while it waits does nothing else before the  *)
(* cancellation reaches it; a statement it has sent may still commit.       *)
At(m, states) == window[m] \in states /\ m \notin cancelled

WindowOnly(m, from, to) ==
    /\ At(m, {from}) /\ WindowMoves(m, to)
    /\ UNCHANGED <<cancelled, started, waits, windowLock, pollLock, pause, active, reg>>
    /\ Others

OpenWindow(m) ==
    /\ m \in Maintainers
    /\ m \in Handlers => m \in Running
    /\ WindowOnly(m, "none", "lock")

TakeWindow(m) ==
    /\ At(m, {"lock"}) /\ WindowMoves(m, "barrier")
    /\ windowLock = "free" /\ windowLock' = m
    /\ pause' = FALSE /\ started' = FALSE
    /\ UNCHANGED <<cancelled, waits, pollLock, active, reg>> /\ Others

(* wait_process_tasks() gathers the other tasks there are when it starts.   *)
StartDraining(m) == WindowMoves(m, "drain") /\ waits' = Running \ {m}

(* _begin_maintenance(), which declines for a peer that is not registered.  *)
BeginMaintenance(m) ==
    /\ At(m, {"barrier"})
    /\ IF registered /\ ~shuttingDown /\ ~active
       THEN WindowMoves(m, "entering") /\ UNCHANGED waits
       ELSE StartDraining(m)
    /\ UNCHANGED <<cancelled, started, windowLock, pollLock, pause, active, reg>> /\ Others

(* Mutant of PassBarrier: it does not wait for the round in progress. *)
PassBarrierAtOnce(m) == BeginMaintenance(m)

(* The poll lock is taken and released: the round that may have read        *)
(* pause_event before it was cleared is over.                               *)
PassBarrier(m) == pollLock = "free" /\ BeginMaintenance(m)

CommitMaintenance(m) ==
    /\ window[m] = "entering" /\ WindowMoves(m, "entered")
    /\ reg' = "maintenance"
    /\ UNCHANGED <<cancelled, started, waits, windowLock, pollLock, pause, active>> /\ Others

(* set_state() raises, before the commit or after it.                       *)
EnterFails(m) ==
    /\ "database" \in Failures
    /\ At(m, {"entering", "entered"}) /\ StartDraining(m)
    /\ UNCHANGED <<cancelled, started, windowLock, pollLock, pause, active, reg>> /\ Others

Entered(m) ==
    /\ At(m, {"entered"}) /\ WindowMoves(m, "announcing")
    /\ active' = TRUE
    /\ UNCHANGED <<cancelled, started, waits, windowLock, pollLock, pause, reg>> /\ Others

Announced(m) ==
    /\ At(m, {"announcing"}) /\ StartDraining(m)
    /\ started' = TRUE
    /\ UNCHANGED <<cancelled, windowLock, pollLock, pause, active, reg>> /\ Others

(* The body runs at once, or waits for the poll lock first.                 *)
EnterBody(m) == WindowOnly(m, "drain", "shared") \/ WindowOnly(m, "drain", "locking")

(* Mutant of Drained: it goes on while a handler is in a window itself. *)
DrainedButWindows(m) == EnterBody(m) /\ \A h \in waits \cap Running : window[h] # "none"

Drained(m) == EnterBody(m) /\ waits \cap Running = {}

GrantPollLock(m) ==
    /\ pollLock = "free" /\ pollLock' = m
    /\ \/ At(m, {"locking"}) /\ WindowMoves(m, "exclusive")
       \/ At(m, {"upgrading"}) /\ WindowMoves(m, "nested")
    /\ UNCHANGED <<cancelled, started, waits, windowLock, pause, active, reg>> /\ Others

(* Mutant of Upgrade: the nested window reuses the scope of the outer one. *)
UpgradeByReuse(m) == WindowOnly(m, "shared", "nested")

(* A window nested in its owner's shared one: an exclusive one needs the    *)
(* poll lock, which it gives back to the shared body.                       *)
Upgrade(m) == WindowOnly(m, "shared", "upgrading")

EndNested(m) ==
    /\ At(m, {"nested", "upgrading"})
    /\ window[m] = "upgrading" => "slow" \in Failures /\ pollLock # "free"
    /\ WindowMoves(m, "shared") /\ Release(m)
    /\ UNCHANGED <<cancelled, started, waits, windowLock, pause, active, reg>> /\ Others
------------------------------------------------------------------------------
(* How a window ends.                                                       *)

(* Mutant of Reopen: claiming resumes only after a window that was announced. *)
ReopenIfStarted(m) ==
    /\ WindowMoves(m, "left")
    /\ windowLock' = "free"
    /\ pause' = (pause \/ (started /\ ~shuttingDown))

Reopen(m) ==
    /\ WindowMoves(m, "left")
    /\ windowLock' = "free"
    /\ pause' = (pause \/ ~shuttingDown)

(* Mutant of CloseWindow: only a window that was fully announced is undone. *)
CloseWindowIfStarted(m) ==
    IF started /\ registered /\ ~shuttingDown
    THEN WindowMoves(m, "resuming") /\ UNCHANGED <<windowLock, pause, active>>
    ELSE active' = (active /\ ~started) /\ Reopen(m)

(* The outer finally: the peer returns to ready when it had left, unless it *)
(* is no longer registered or is shutting down.                             *)
CloseWindow(m) ==
    IF (started \/ active) /\ registered /\ ~shuttingDown
    THEN WindowMoves(m, "resuming") /\ UNCHANGED <<windowLock, pause, active>>
    ELSE active' = FALSE /\ Reopen(m)

EndBody(m) ==
    /\ At(m, {"shared", "exclusive"})
    /\ CloseWindow(m) /\ Release(m)
    /\ UNCHANGED <<cancelled, started, waits, reg>> /\ Others

CommitResume(m) ==
    /\ window[m] = "resuming" /\ WindowMoves(m, "resumed")
    /\ reg' = "ready"
    /\ UNCHANGED <<cancelled, started, waits, windowLock, pollLock, pause, active>> /\ Others

(* _end_maintenance() is over, or its registration failed.                  *)
Resumed(m) ==
    /\ \/ At(m, {"resumed"})
       \/ "database" \in Failures /\ At(m, {"resuming"})
    /\ active' = FALSE /\ Reopen(m)
    /\ UNCHANGED <<cancelled, started, waits, pollLock, reg>> /\ Others

LockTimesOut(m) ==
    /\ "slow" \in Failures /\ pollLock # "free"
    /\ At(m, {"barrier", "locking"})
    /\ CloseWindow(m)
    /\ UNCHANGED <<cancelled, started, waits, pollLock, reg>> /\ Others

(* The cancellation of a gather() cancels the tasks it gathers and is       *)
(* delivered when the last of them has ended.                               *)
DrainExpires(m) ==
    /\ WindowMoves(m, "expired")
    /\ cancelled' = (cancelled \ {m}) \cup (waits \cap Running)
    /\ UNCHANGED <<windowLock, pollLock, pause, active>>

(* MAINTENANCE_OPERATION_TIMEOUT_SECONDS runs out on the way into the body. *)
EnteringTimesOut(m) ==
    /\ "slow" \in Failures
    /\ At(m, {"entering", "entered", "announcing"})
    /\ CloseWindow(m)
    /\ UNCHANGED <<cancelled, pollLock, started, waits, reg>> /\ Others

(* Mutant of EnterTimesOut: nothing bounds the wait for the other handlers. *)
EnterTimesOutUnlessDraining(m) == EnteringTimesOut(m)

EnterTimesOut(m) ==
    \/ EnteringTimesOut(m)
    \/ At(m, {"drain"}) /\ DrainExpires(m) /\ UNCHANGED <<started, waits, reg>> /\ Others

Expired(m) ==
    /\ At(m, {"expired"}) /\ waits \cap Running = {}
    /\ CloseWindow(m)
    /\ UNCHANGED <<cancelled, started, waits, pollLock, reg>> /\ Others

(* A cancelled handler that is inside a window.  In _end_maintenance() the  *)
(* exception passes by the statement that sets pause_event.                 *)
Delivered(m) == cancelled' = cancelled \ {m}

WindowCancelled(m) ==
    /\ m \in cancelled
    /\ \/ /\ window[m] = "lock" /\ WindowMoves(m, "left") /\ Delivered(m)
          /\ UNCHANGED <<windowLock, pollLock, pause, active>>
       \/ window[m] = "drain" /\ DrainExpires(m)
       \/ /\ window[m] = "expired" /\ Delivered(m)
          /\ UNCHANGED <<window, windowLock, pollLock, pause, active>>
       \/ /\ window[m] \in {"barrier", "entering", "entered", "announcing", "locking"} \cup Body
          /\ CloseWindow(m) /\ Release(m) /\ Delivered(m)
       \/ /\ window[m] \in {"resuming", "resumed"}
          /\ WindowMoves(m, "left") /\ windowLock' = "free" /\ active' = FALSE
          /\ Delivered(m) /\ UNCHANGED <<pollLock, pause>>
    /\ UNCHANGED <<started, waits, reg>> /\ Others
------------------------------------------------------------------------------
(* The shutdown.                                                            *)

ShutdownMoves(from, to) == shutdown = from /\ shutdown' = to
Elsewhere == UNCHANGED <<claiming, handler, windowVars, registered>>

ShutdownOnly(from, to) ==
    /\ ShutdownMoves(from, to)
    /\ UNCHANGED <<poller, cancelled, pollLock, pause, active, shuttingDown, reg>> /\ Elsewhere

BeginShutdown ==
    /\ poller \notin Starting \/ "early" \in Failures
    /\ ShutdownMoves("none", IF registered THEN "barrier" ELSE "cancelling")
    /\ shuttingDown' = TRUE /\ pause' = FALSE
    /\ UNCHANGED <<poller, cancelled, pollLock, active, reg>> /\ Elsewhere

(* Mutant of ShutdownBarrier: it does not wait for the round in progress. *)
ShutdownBarrierAtOnce == ShutdownOnly("barrier", "draining")

(* The round in progress is over: what it claimed is among the handlers.    *)
ShutdownBarrier == pollLock = "free" /\ ShutdownOnly("barrier", "draining")

ShutdownBarrierTimesOut ==
    "stubborn" \in Failures /\ pollLock # "free" /\ ShutdownOnly("barrier", "cancelling")

CommitDraining ==
    /\ ShutdownMoves("draining", "cancelling")
    /\ \/ reg' = "draining"
       \/ "database" \in Failures /\ UNCHANGED reg
    /\ UNCHANGED <<poller, cancelled, pollLock, pause, active, shuttingDown>> /\ Elsewhere

CancelHandlers ==
    /\ ShutdownMoves("cancelling", "waiting")
    /\ cancelled' = cancelled \cup Running
    /\ UNCHANGED <<poller, pollLock, pause, active, shuttingDown, reg>> /\ Elsewhere

HandlersGone == (Running = {} \/ "stubborn" \in Failures) /\ ShutdownOnly("waiting", "locking")

LockForShutdown ==
    /\ \/ pollLock = "free" /\ pollLock' = "shutdown"
       \/ "stubborn" \in Failures /\ pollLock # "free" /\ UNCHANGED pollLock
    /\ ShutdownMoves("locking", "stopping")
    /\ UNCHANGED <<poller, cancelled, pause, active, shuttingDown, reg>> /\ Elsewhere

Cancel(needed) ==
    /\ ShutdownMoves("stopping", "joining")
    /\ IF needed THEN PollerStops ELSE UNCHANGED <<poller, pollLock, active>>
    /\ UNCHANGED <<cancelled, pause, shuttingDown, reg>> /\ Elsewhere

NoTask == {"off", "ended"}

(* Mutant of StopJobQueue: it joins a poller that is starting uncancelled. *)
StopJobQueueIfRegistered == Cancel(poller \notin NoTask /\ registered)

StopJobQueue == Cancel(poller \notin NoTask)

EndShutdown ==
    /\ poller \in NoTask
    /\ ShutdownMoves("joining", "done")
    /\ Release("shutdown")
    /\ shuttingDown' = FALSE /\ pause' = TRUE
    /\ UNCHANGED <<poller, cancelled, active, reg>> /\ Elsewhere
------------------------------------------------------------------------------
PollerStep ==
    \/ StartPoller \/ CommitStarting \/ Registered \/ CommitReady \/ PeerReady
    \/ BeginRound \/ (\E S \in SUBSET New : EndRound(S) \/ HeartbeatDue(S))
    \/ Renew \/ RenewMisses \/ RegisterAgain
    \/ RollBack \/ StopDrains \/ StopUnregisters \/ PeerStopped \/ StopRetries

WindowStep(m) ==
    \/ TakeWindow(m) \/ PassBarrier(m) \/ CommitMaintenance(m) \/ Entered(m)
    \/ Announced(m) \/ Drained(m) \/ EnterTimesOut(m) \/ Expired(m) \/ GrantPollLock(m)
    \/ EndNested(m) \/ EndBody(m) \/ CommitResume(m) \/ Resumed(m) \/ WindowCancelled(m)

WindowOther(m) ==
    OpenWindow(m) \/ Upgrade(m) \/ EnterFails(m) \/ LockTimesOut(m)

ShutdownStep ==
    \/ ShutdownBarrier \/ ShutdownBarrierTimesOut \/ CommitDraining \/ CancelHandlers
    \/ HandlersGone \/ LockForShutdown \/ StopJobQueue \/ EndShutdown

Next ==
    \/ PollerStep \/ PollerFails \/ StopFails
    \/ \E h \in Handlers : HandlerEnds(h) \/ DeadlinePasses(h)
    \/ \E m \in Workers : WindowStep(m) \/ WindowOther(m)
    \/ BeginShutdown \/ ShutdownStep

(* Every coroutine that can run eventually does; asyncio.Lock is FIFO, so   *)
(* whoever waits for one gets it although the poller takes it again and     *)
(* again; a lease comes due again and again; handlers and bodies end; the   *)
(* timeout around the drain expires.                                        *)
Fairness ==
    /\ WF_vars(PollerStep) /\ SF_vars(\E S \in SUBSET New : HeartbeatDue(S))
    /\ \A h \in Handlers : WF_vars(HandlerEnds(h))
    /\ \A m \in Workers : SF_vars(WindowStep(m)) /\ SF_vars(EndBody(m))
    /\ SF_vars(ShutdownStep)

Spec == Init /\ [][Next]_vars
FairSpec == Spec /\ Fairness
------------------------------------------------------------------------------
(* Properties.                                                              *)

(* While the body of a maintenance window runs no other handler does, so    *)
(* that modules and connections can be replaced under it; and under an      *)
(* exclusive window the poller is not inside a round either.                *)
BodyAlone ==
    \A m \in Workers :
       /\ window[m] \in Body => Running \subseteq {m}
       /\ window[m] \in Locked => poller \notin InRound

(* Once cancel_process_tasks() of the shutdown has seen every handler end,  *)
(* no later round brings a new one: what the shutdown then closes is not    *)
(* used by a handler any more.                                              *)
QuietShutdown ==
    shutdown \in {"locking", "stopping", "joining", "done"} => Running = {}

(* The flag that suspends the heartbeat is never left set without a window  *)
(* whose end clears it: otherwise the lease would run out.                  *)
ActiveHasOwner == active => windowLock # "free"

(* Requests are refused only while a window is open or the peer shuts down. *)
(* A window that is cancelled on its way out leaves pause_event cleared.    *)
ClaimingIsRestored == ~pause /\ ~shuttingDown => windowLock # "free"

(* A peer that left the routes for a maintenance is not offered for new     *)
(* requests before the body of the window has ended.                        *)
MaintenanceIsHidden ==
    \A m \in Workers : window[m] \in Body /\ started => reg # "ready"

(* A peer that has announced its shutdown does not advertise itself again:  *)
(* no heartbeat does.  The only steps that can are in flight when the       *)
(* shutdown begins: the register(ready) of a window on its way out, and the *)
(* set_state(ready) of a peer that is starting.                             *)
OnlyInFlightReadvertises ==
    shuttingDown /\ reg = "draining" /\ reg' = "ready"
       => \/ \E m \in Workers : window[m] = "resuming" /\ window'[m] # "resuming"
          \/ poller = "readying" /\ poller' # "readying"
DrainingStandsButForInFlight == [][OnlyInFlightReadvertises]_vars

(* However windows compete, a peer claims again: two handlers that wait for *)
(* each other's window are separated by the timeout around the drain.       *)
ClaimsResume == ~pause ~> pause

(* A row left in maintenance returns to ready while the process lives on,   *)
(* even if no window answers for it: when set_state() raised although it    *)
(* had committed, or the window timed out between the commit and its flag.  *)
MaintenanceEnds ==
    reg = "maintenance" /\ shutdown = "none" ~> reg # "maintenance" \/ shutdown # "none"

(* A shutdown comes to its end from wherever the others stood, a peer that  *)
(* has not registered yet too.                                              *)
ShutdownEnds == shuttingDown ~> shutdown = "done"
==============================================================================
