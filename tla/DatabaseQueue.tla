---------------------------- MODULE DatabaseQueue ----------------------------
(***************************************************************************)
(* Delivery of RPC requests through the database backend of the JobQueue:   *)
(* the callers (JobQueueBase.call and submit), the task table              *)
(* (JobQueuesTable), the pollers and handlers of the peers of one service,  *)
(* the part of the peer registry that ends deliveries, and the hourly       *)
(* cleaner.  Each action is one await-to-await segment or one transaction.  *)
(* The three clocks of the code are one: expired[t] is the deadline of t,   *)
(* lapsed[p] the lease of p, and age[t] the age of the row of t.            *)
(***************************************************************************)
EXTENDS Naturals, FiniteSets

CONSTANTS
    Tasks,            \* task ids (uuid4, never reused)
    Calls,            \* the tasks issued by call(); the others by submit()
    Peers,            \* the processes that serve the service
    Service,          \* the anycast target every peer of the service listens to
    BatchSize,        \* CLAIM_BATCH_SIZE
    MaxFaults,        \* bound on the failures of one behaviour
    FaultyTasks,      \* bound on the requests of one that has failures
    NoTarget

ASSUME ConstantsAssumption ==
    /\ Calls \subseteq Tasks
    /\ Service \notin Peers
    /\ NoTarget \notin Peers \cup {Service}
    /\ BatchSize \in Nat \ {0}
    /\ MaxFaults \in Nat
    /\ FaultyTasks \in Nat

VARIABLES
    phase,            \* where the coroutine of each call or submit stands
    target,           \* the destination its request was resolved to
    reply,            \* the result set on the future of each waiting call
    answer,           \* what call() or submit() gave its user
    cleanup,          \* abandon() deletions still running in the background
    expired,          \* whether the deadline of the request has passed
    row,              \* the rows of JobQueuesTable
    age,              \* the age of a row in steps of the retention period
    job,              \* what the poller and handlers of a peer do with a task
    proc,             \* the process of each peer
    reg,              \* the state column of its registry row
    lapsed,           \* whether its lease has run out
    faults,           \* how many failures have happened
    starts,           \* history: how often the handler of a task was entered
    returned          \* history: whether a handler of the task returned

callerVars == <<phase, target, reply, answer, cleanup>>
peerVars == <<proc, reg, lapsed>>
history == <<starts, returned>>
vars == <<callerVars, expired, row, age, job, peerVars, faults, history>>

Phases == {"idle", "resolving", "sending", "waiting", "abandoning", "closed", "dead"}
Replies == {"none", "done", "failed", "timeout", "unavailable"}
Answers == {"none", "value", "accepted", "error", "timeout"}
Terminal == {"done", "failed", "timeout"}
Statuses == {"absent", "pending", "processing"} \cup Terminal
JobStates == {"none", "fetched", "claimed", "spawned", "running",
              "returned", "raised", "late"}

(* The limits of clear_task in units of age: terminal rows go after an hour,*)
(* active ones after ACTIVE_TIMEOUT_SECONDS = two hours.                    *)
Retention == 1
ActiveTimeout == 2

NoRow == [status |-> "absent", target |-> NoTarget, by |-> NoTarget]
NewRow(d) == [status |-> "pending", target |-> d, by |-> NoTarget]

RowType == [status : Statuses,
            target : Peers \cup {Service, NoTarget},
            by : Peers \cup {NoTarget}]

StateType ==
    /\ phase \in [Tasks -> Phases]
    /\ target \in [Tasks -> Peers \cup {Service, NoTarget}]
    /\ reply \in [Tasks -> Replies]
    /\ answer \in [Tasks -> Answers]
    /\ cleanup \subseteq Tasks
    /\ expired \in [Tasks -> BOOLEAN]
    /\ row \in [Tasks -> RowType]
    /\ age \in [Tasks -> 0 .. ActiveTimeout]
    /\ job \in [Peers -> [Tasks -> JobStates]]
    /\ proc \in [Peers -> {"down", "up", "stopping", "ended", "gone"}]
    /\ reg \in [Peers -> {"ready", "draining", "stopped"}]
    /\ lapsed \in [Peers -> BOOLEAN]
    /\ starts \in [Tasks -> Nat]
    /\ returned \in [Tasks -> BOOLEAN]

TypeOK ==
    /\ StateType
    /\ faults \in 0 .. MaxFaults

Init ==
    /\ phase = [t \in Tasks |-> "idle"]
    /\ target = [t \in Tasks |-> NoTarget]
    /\ reply = [t \in Tasks |-> "none"]
    /\ answer = [t \in Tasks |-> "none"]
    /\ cleanup = {}
    /\ expired = [t \in Tasks |-> FALSE]
    /\ row = [t \in Tasks |-> NoRow]
    /\ age = [t \in Tasks |-> 0]
    /\ job = [p \in Peers |-> [t \in Tasks |-> "none"]]
    /\ proc = [p \in Peers |-> "down"]
    /\ reg = [p \in Peers |-> "stopped"]
    /\ lapsed = [p \in Peers |-> FALSE]
    /\ faults = 0
    /\ starts = [t \in Tasks |-> 0]
    /\ returned = [t \in Tasks |-> FALSE]
-----------------------------------------------------------------------------
(* The statements on the task table. *)

Insert(t) ==
    /\ row' = [row EXCEPT ![t] = NewRow(target[t])]
    /\ UNCHANGED age

Delete(S) ==
    /\ row' = [t \in Tasks |-> IF t \in S THEN NoRow ELSE row[t]]
    /\ age' = [t \in Tasks |-> IF t \in S THEN 0 ELSE age[t]]

Keep == UNCHANGED <<row, age>>

(* Mutant of ClaimRow: the UPDATE has lost its status filter. *)
ClaimRowUnfiltered(p, t) ==
    /\ row' = [row EXCEPT ![t] = [@ EXCEPT !.status = "processing", !.by = p]]
    /\ UNCHANGED age

(* One UPDATE ... WHERE status = 'pending'. *)
ClaimRow(p, t) ==
    /\ row[t].status = "pending"
    /\ row' = [row EXCEPT ![t] = [@ EXCEPT !.status = "processing", !.by = p]]
    /\ UNCHANGED age

(* Mutant of RespondRow: the UPDATE has lost its status filter. *)
RespondRowUnfiltered(t, status) ==
    IF t \notin Calls THEN Delete({t})
    ELSE /\ row' = [row EXCEPT ![t].status = status]
         /\ UNCHANGED age

(* respond(): free of effect unless the row is still processing. *)
RespondRow(t, status) ==
    IF row[t].status # "processing" THEN Keep
    ELSE IF t \notin Calls THEN Delete({t})
    ELSE /\ row' = [row EXCEPT ![t].status = status]
         /\ UNCHANGED age

(* Mutant of DeliveriesOf: what the peer had claimed is forgotten. *)
DeliveriesAddressedTo(p) ==
    {t \in Tasks : row[t].status = "pending" /\ row[t].target = p}

(* The deliveries that fail_peer_deliveries() ends for peer p. *)
DeliveriesOf(p) ==
    {t \in Tasks : \/ row[t].status = "pending" /\ row[t].target = p
                   \/ row[t].status = "processing" /\ row[t].by = p}

(* Mutant of FailDeliveries: it stops at the first delivery it finds. *)
FailOneDelivery(p) ==
    IF DeliveriesOf(p) = {} THEN Keep
    ELSE \E t \in DeliveriesOf(p) :
            IF t \in Calls
            THEN row' = [row EXCEPT ![t].status = "failed"] /\ UNCHANGED age
            ELSE Delete({t})

FailDeliveries(p) ==
    LET S == DeliveriesOf(p)
    IN  /\ row' = [t \in Tasks |->
                     IF t \notin S THEN row[t]
                     ELSE IF t \in Calls THEN [row[t] EXCEPT !.status = "failed"]
                     ELSE NoRow]
        /\ age' = [t \in Tasks |-> IF t \in S \ Calls THEN 0 ELSE age[t]]
-----------------------------------------------------------------------------
(* The callers. *)

(* resolve(): the peers that are ready under a lease that has not run out.  *)
Routable == {p \in Peers : reg[p] = "ready" /\ ~lapsed[p]}

(* resolve_target(): a service route goes to the peer its key hashes to, or *)
(* to the service when no peer is routable; a string is taken as it is.     *)
Destinations == Routable \cup {Service}

StartCall(t) ==
    /\ phase[t] = "idle"
    /\ phase' = [phase EXCEPT ![t] = "resolving"]
    /\ UNCHANGED <<target, reply, answer, cleanup, expired, row, age, job, peerVars, history>>

Resolve(t) ==
    /\ phase[t] = "resolving"
    /\ \E d \in Destinations : target' = [target EXCEPT ![t] = d]
    /\ phase' = [phase EXCEPT ![t] = "sending"]
    /\ UNCHANGED <<reply, answer, cleanup, expired, row, age, job, peerVars, history>>

Send(t) ==
    /\ phase[t] = "sending"
    /\ Insert(t)
    /\ IF t \in Calls
       THEN /\ phase' = [phase EXCEPT ![t] = "waiting"]
            /\ UNCHANGED answer
       ELSE /\ phase' = [phase EXCEPT ![t] = "closed"]
            /\ answer' = [answer EXCEPT ![t] = "accepted"]
    /\ target' = [target EXCEPT ![t] = NoTarget]
    /\ UNCHANGED <<reply, cleanup, expired, job, peerVars, history>>

(* send() raises, or the deadline cancels it; the INSERT may have committed.*)
SendInterrupted(t) ==
    /\ phase[t] = "sending"
    /\ Insert(t) \/ Keep
    /\ \/ answer' = [answer EXCEPT ![t] = "error"]
       \/ expired[t] /\ answer' = [answer EXCEPT ![t] = "timeout"]
    /\ phase' = [phase EXCEPT ![t] = IF t \in Calls THEN "abandoning" ELSE "closed"]
    /\ target' = [target EXCEPT ![t] = NoTarget]
    /\ reply' = [reply EXCEPT ![t] = "none"]
    /\ UNCHANGED <<cleanup, expired, job, peerVars, history>>

(* Mutant of CallExpires: the wait for the response has no timeout. *)
CallExpiresUnlessWaiting(t) ==
    /\ expired[t]
    /\ phase[t] = "resolving"
    /\ phase' = [phase EXCEPT ![t] = "closed"]
    /\ answer' = [answer EXCEPT ![t] = "timeout"]
    /\ UNCHANGED <<target, reply, cleanup, expired, row, age, job, peerVars, history>>

(* The deadline cancels resolve_target(), before any waiter exists, or the  *)
(* wait for the response, even when the future has just been resolved.      *)
CallExpires(t) ==
    /\ expired[t]
    /\ phase[t] \in {"resolving", "waiting"}
    /\ phase' = [phase EXCEPT ![t] = IF @ = "waiting" THEN "abandoning" ELSE "closed"]
    /\ answer' = [answer EXCEPT ![t] = "timeout"]
    /\ reply' = [reply EXCEPT ![t] = "none"]
    /\ UNCHANGED <<target, cleanup, expired, row, age, job, peerVars, history>>

(* The task that awaits the call is cancelled. *)
CallCancelled(t) ==
    /\ phase[t] \in {"resolving", "waiting"}
    /\ phase' = [phase EXCEPT ![t] = IF @ = "waiting" THEN "abandoning" ELSE "closed"]
    /\ answer' = [answer EXCEPT ![t] = "error"]
    /\ reply' = [reply EXCEPT ![t] = "none"]
    /\ UNCHANGED <<target, cleanup, expired, row, age, job, peerVars, history>>

(* _decode_response(). *)
Decode(status) ==
    CASE status = "done" -> "value"
      [] status = "timeout" -> "timeout"
      [] OTHER -> "error"

CallReturns(t) ==
    /\ phase[t] = "waiting"
    /\ reply[t] # "none"
    /\ answer' = [answer EXCEPT ![t] = Decode(reply[t])]
    /\ phase' = [phase EXCEPT ![t] = "closed"]
    /\ reply' = [reply EXCEPT ![t] = "none"]
    /\ UNCHANGED <<target, cleanup, expired, row, age, job, peerVars, history>>

(* The finally clause of call(). *)
Abandon(t) ==
    /\ phase[t] = "abandoning"
    /\ phase' = [phase EXCEPT ![t] = "closed"]
    /\ Delete({t})
    /\ UNCHANGED <<target, reply, answer, cleanup, expired, job, peerVars, history>>

(* The deletion fails, or outlives ABANDON_TIMEOUT_SECONDS and goes on.     *)
AbandonIncomplete(t) ==
    /\ phase[t] = "abandoning"
    /\ phase' = [phase EXCEPT ![t] = "closed"]
    /\ cleanup' \in {cleanup, cleanup \cup {t}}
    /\ UNCHANGED <<target, reply, answer, expired, row, age, job, peerVars, history>>

CleanupEnds(t) ==
    /\ t \in cleanup
    /\ cleanup' = cleanup \ {t}
    /\ Delete({t})
    /\ UNCHANGED <<phase, target, reply, answer, expired, job, peerVars, history>>

CleanupFails(t) ==
    /\ t \in cleanup
    /\ cleanup' = cleanup \ {t}
    /\ UNCHANGED <<phase, target, reply, answer, expired, row, age, job, peerVars, history>>

(* consume_responses(): the terminal row is read and deleted. *)
Receive(t) ==
    /\ phase[t] = "waiting"
    /\ reply[t] = "none"
    /\ row[t].status \in Terminal
    /\ reply' = [reply EXCEPT ![t] = row[t].status]
    /\ UNCHANGED <<phase, target, answer, cleanup, expired, job, peerVars, history>>

Consume(t) == Receive(t) /\ Delete({t})

(* When only the DELETE fails, the response is delivered all the same. *)
ConsumeKeepsRow(t) == Receive(t) /\ Keep

(* The poller of the calling process ends: its waiters, which exist since   *)
(* before the send, are told so and their deliveries abandoned.             *)
PumpStops(t) ==
    /\ t \in Calls
    /\ phase[t] \in {"sending", "waiting"}
    /\ reply[t] = "none"
    /\ reply' = [reply EXCEPT ![t] = "unavailable"]
    /\ cleanup' = cleanup \cup {t}
    /\ UNCHANGED <<phase, target, answer, expired, row, age, job, peerVars, history>>

CallerDies(t) ==
    /\ phase[t] \notin {"idle", "closed", "dead"} \/ t \in cleanup
    /\ phase' = [phase EXCEPT ![t] = "dead"]
    /\ cleanup' = cleanup \ {t}
    /\ target' = [target EXCEPT ![t] = NoTarget]
    /\ reply' = [reply EXCEPT ![t] = "none"]
    /\ UNCHANGED <<answer, expired, row, age, job, peerVars, history>>
-----------------------------------------------------------------------------
(* The pollers and handlers of the serving peers. *)

SetJob(p, t, s) == job' = [job EXCEPT ![p][t] = s]

(* The requests of the batch its poller is receiving. *)
Batch(p) == {t \in Tasks : job[p][t] \in {"fetched", "claimed"}}

Candidates(p) ==
    {t \in Tasks : /\ row[t].status = "pending"
                   /\ row[t].target \in {p, Service}
                   /\ job[p][t] = "none"}

(* get_all(): at most BatchSize candidates, in no order, read before any of *)
(* them is claimed.                                                         *)
Fetch(p) ==
    /\ proc[p] = "up"
    /\ Batch(p) = {}
    /\ \E S \in SUBSET Candidates(p) \ {{}} :
          /\ Cardinality(S) <= BatchSize
          /\ job' = [job EXCEPT ![p] =
                       [t \in Tasks |-> IF t \in S THEN "fetched" ELSE @[t]]]
    /\ UNCHANGED <<callerVars, expired, row, age, peerVars, history>>

Claim(p, t) ==
    /\ job[p][t] = "fetched"
    /\ \/ ClaimRow(p, t) /\ SetJob(p, t, "claimed")
       \/ row[t].status # "pending" /\ Keep /\ SetJob(p, t, "none")
    /\ UNCHANGED <<callerVars, expired, peerVars, history>>

(* receive() has gone through its candidates: one task per claimed request. *)
Spawn(p) ==
    /\ Batch(p) # {}
    /\ \A t \in Batch(p) : job[p][t] = "claimed"
    /\ job' = [job EXCEPT ![p] =
                 [t \in Tasks |-> IF @[t] = "claimed" THEN "spawned" ELSE @[t]]]
    /\ UNCHANGED <<callerVars, expired, row, age, peerVars, history>>

(* Mutant of StartHandler: the deadline is not looked at. *)
StartHandlerAnyTime(p, t) ==
    /\ job[p][t] = "spawned"
    /\ SetJob(p, t, "running")
    /\ starts' = [starts EXCEPT ![t] = @ + 1]
    /\ UNCHANGED <<callerVars, expired, row, age, peerVars, returned>>

(* _process_task() enters the handler, unless the deadline has passed. *)
StartHandler(p, t) ==
    /\ job[p][t] = "spawned"
    /\ IF expired[t]
       THEN SetJob(p, t, "late") /\ UNCHANGED starts
       ELSE SetJob(p, t, "running") /\ starts' = [starts EXCEPT ![t] = @ + 1]
    /\ UNCHANGED <<callerVars, expired, row, age, peerVars, returned>>

HandlerReturns(p, t) ==
    /\ job[p][t] = "running"
    /\ SetJob(p, t, "returned")
    /\ returned' = [returned EXCEPT ![t] = TRUE]
    /\ UNCHANGED <<callerVars, expired, row, age, peerVars, starts>>

(* It raises; or the deadline scope around it expires; or an RPC of its own *)
(* does, since RpcTimeoutError is reported as what it is whoever raised it. *)
HandlerFails(p, t) ==
    /\ job[p][t] = "running"
    /\ SetJob(p, t, "raised") \/ SetJob(p, t, "late")
    /\ UNCHANGED <<callerVars, expired, row, age, peerVars, history>>

StatusOf(s) ==
    CASE s = "returned" -> "done"
      [] s = "late" -> "timeout"
      [] OTHER -> "failed"

Responding == {"returned", "raised", "late"}

Respond(p, t) ==
    /\ job[p][t] \in Responding
    /\ RespondRow(t, StatusOf(job[p][t]))
    /\ SetJob(p, t, "none")
    /\ UNCHANGED <<callerVars, expired, peerVars, history>>

(* respond() raises, its UPDATE committed or not: after a handler returned, *)
(* the failure is reported as one of the handler; otherwise the task ends.  *)
RespondFails(p, t) ==
    /\ job[p][t] \in Responding
    /\ Keep \/ RespondRow(t, StatusOf(job[p][t]))
    /\ SetJob(p, t, IF job[p][t] = "returned" THEN "raised" ELSE "none")
    /\ UNCHANGED <<callerVars, expired, peerVars, history>>

(* A task cancelled before its first step never runs, so nothing is written *)
(* for it; one cancelled in respond() cannot tell whether that took effect. *)
CancelTask(p, t) ==
    \/ /\ \/ job[p][t] = "spawned" /\ SetJob(p, t, "none")
          \/ job[p][t] = "running" /\ SetJob(p, t, "raised")
       /\ UNCHANGED <<callerVars, expired, row, age, peerVars, history>>
    \/ RespondFails(p, t)

(* cancel_process_tasks() of the shutdown window. *)
CancelHandler(p, t) == proc[p] = "stopping" /\ CancelTask(p, t)

(* The timeout around the gather of wait_process_tasks(). *)
MaintenanceTimesOut(p, t) == proc[p] = "up" /\ CancelTask(p, t)
-----------------------------------------------------------------------------
(* The registry row and the process of a peer. *)

DropBatch(p) ==
    job' = [job EXCEPT ![p] = [t \in Tasks |-> IF t \in Batch(p) THEN "none" ELSE @[t]]]

(* check_job_queue() enters its loop: starting, then ready. *)
StartPeer(p) ==
    /\ proc[p] = "down"
    /\ proc' = [proc EXCEPT ![p] = "up"]
    /\ reg' = [reg EXCEPT ![p] = "ready"]
    /\ lapsed' = [lapsed EXCEPT ![p] = FALSE]
    /\ UNCHANGED <<callerVars, expired, row, age, job, history>>

(* renew(), or register() when the row is no longer starting or ready; the  *)
(* poller comes to it between two batches.                                  *)
Heartbeat(p) ==
    /\ proc[p] = "up"
    /\ Batch(p) = {}
    /\ lapsed[p] \/ reg[p] # "ready"
    /\ reg' = [reg EXCEPT ![p] = "ready"]
    /\ lapsed' = [lapsed EXCEPT ![p] = FALSE]
    /\ UNCHANGED <<callerVars, expired, row, age, job, proc, history>>

(* begin_shutdown(): no new claims; the poll lock is the barrier for a      *)
(* batch in progress, and when it times out nothing is published.           *)
BeginShutdown(p) ==
    /\ proc[p] = "up"
    /\ proc' = [proc EXCEPT ![p] = "stopping"]
    /\ reg' = [reg EXCEPT ![p] = IF Batch(p) = {} THEN "draining" ELSE @]
    /\ lapsed' = [lapsed EXCEPT ![p] = IF Batch(p) = {} THEN FALSE ELSE @]
    /\ UNCHANGED <<callerVars, expired, row, age, job, history>>

(* unregister() is one transaction: the state and the deliveries. *)
Unregister(p) ==
    /\ reg' = [reg EXCEPT ![p] = "stopped"]
    /\ lapsed' = [lapsed EXCEPT ![p] = FALSE]
    /\ FailDeliveries(p)

(* A poller that fails may be started again; one that was shut down is not. *)
Stopped(state) == IF state = "up" THEN "down" ELSE "ended"

(* The poller ends: what it had claimed but not spawned is lost, handlers   *)
(* already spawned go on; _stop_peer() unregisters.                         *)
StopPoller(p) ==
    /\ proc' = [proc EXCEPT ![p] = Stopped(@)]
    /\ DropBatch(p)
    /\ Unregister(p)
    /\ UNCHANGED <<callerVars, expired, history>>

StopPeer(p) == proc[p] = "stopping" /\ StopPoller(p)

(* An error ends the poller of a peer nobody asked to stop. *)
PollerFails(p) == proc[p] = "up" /\ StopPoller(p)

(* _stop_peer() runs out of its second before it unregistered, before or    *)
(* after it wrote "draining".                                               *)
StopTimesOut(p) ==
    /\ proc[p] \in {"up", "stopping"}
    /\ proc' = [proc EXCEPT ![p] = Stopped(@)]
    /\ DropBatch(p)
    /\ \/ UNCHANGED <<reg, lapsed>>
       \/ /\ reg' = [reg EXCEPT ![p] = "draining"]
          /\ lapsed' = [lapsed EXCEPT ![p] = FALSE]
    /\ UNCHANGED <<callerVars, expired, row, age, history>>

(* The process ends; a restarted one has another peer_id. *)
Crash(p) ==
    /\ proc[p] # "gone"
    /\ proc' = [proc EXCEPT ![p] = "gone"]
    /\ job' = [job EXCEPT ![p] = [t \in Tasks |-> "none"]]
    /\ UNCHANGED <<callerVars, expired, row, age, reg, lapsed, history>>

LeaseLapses(p) ==
    /\ reg[p] # "stopped"
    /\ ~lapsed[p]
    /\ lapsed' = [lapsed EXCEPT ![p] = TRUE]
    /\ UNCHANGED <<callerVars, expired, row, age, job, proc, reg, history>>

(* Time: nobody renews the lease of a peer whose poller has stopped. *)
LeaseRunsOut(p) == proc[p] # "up" /\ LeaseLapses(p)

(* A poller held up for 45 seconds misses its heartbeats. *)
HeartbeatMissed(p) == proc[p] = "up" /\ LeaseLapses(p)

(* expire_stale() in the reconciliation of any process. *)
ExpireStale(p) ==
    /\ reg[p] # "stopped"
    /\ lapsed[p]
    /\ Unregister(p)
    /\ UNCHANGED <<callerVars, expired, job, proc, history>>
-----------------------------------------------------------------------------
(* Time and the cleaner. *)

Expire(t) ==
    /\ phase[t] # "idle"
    /\ ~expired[t]
    /\ expired' = [expired EXCEPT ![t] = TRUE]
    /\ UNCHANGED <<callerVars, row, age, job, peerVars, history>>

(* A deadline is at most TASK_TIMEOUT_SECONDS = ACTIVE_TIMEOUT_SECONDS      *)
(* after the call, so a row that old belongs to an expired request.         *)
GrowOld(t) ==
    /\ row[t].status # "absent"
    /\ age[t] < ActiveTimeout
    /\ age[t] + 1 = ActiveTimeout => expired[t]
    /\ age' = [age EXCEPT ![t] = @ + 1]
    /\ UNCHANGED <<callerVars, expired, row, job, peerVars, history>>

(* Mutant of ClearTask: active rows are marked first, so that the deletion  *)
(* of ended rows in the same round takes them too.                          *)
ClearTaskMarksFirst ==
    LET old == {t \in Tasks :
                  \/ row[t].status \in Terminal /\ age[t] >= Retention
                  \/ row[t].status # "absent" /\ age[t] >= ActiveTimeout}
    IN  /\ old # {}
        /\ Delete(old)
        /\ UNCHANGED <<callerVars, expired, job, peerVars, history>>

(* Mutant of ClearTask: active rows are left alone. *)
ClearEndedTask ==
    LET ended == {t \in Tasks : row[t].status \in Terminal /\ age[t] >= Retention}
    IN  /\ ended # {}
        /\ Delete(ended)
        /\ UNCHANGED <<callerVars, expired, job, peerVars, history>>

(* clear_task(): old terminal rows are deleted; then the active rows past   *)
(* the limit are deleted, or marked timeout when a caller may wait for them.*)
ClearTask ==
    LET ended == {t \in Tasks : row[t].status \in Terminal /\ age[t] >= Retention}
        stale == {t \in Tasks : /\ row[t].status \in {"pending", "processing"}
                                /\ age[t] >= ActiveTimeout}
    IN  /\ ended \cup stale # {}
        /\ row' = [t \in Tasks |->
                     IF t \in ended \cup (stale \ Calls) THEN NoRow
                     ELSE IF t \in stale THEN [row[t] EXCEPT !.status = "timeout"]
                     ELSE row[t]]
        /\ age' = [t \in Tasks |-> IF row'[t] = NoRow THEN 0 ELSE age[t]]
        /\ UNCHANGED <<callerVars, expired, job, peerVars, history>>
-----------------------------------------------------------------------------
CallerStep(t) ==
    \/ StartCall(t) \/ Resolve(t) \/ Send(t) \/ CallExpires(t)
    \/ Consume(t) \/ CallReturns(t) \/ Abandon(t) \/ CleanupEnds(t)
    \/ Expire(t) \/ GrowOld(t)

CallerFault(t) ==
    \/ SendInterrupted(t) \/ CallCancelled(t) \/ AbandonIncomplete(t) \/ CleanupFails(t)
    \/ ConsumeKeepsRow(t) \/ PumpStops(t) \/ CallerDies(t)

HandlerStep(p, t) ==
    \/ Claim(p, t) \/ StartHandler(p, t) \/ HandlerReturns(p, t)
    \/ HandlerFails(p, t) \/ CancelHandler(p, t) \/ Respond(p, t)

HandlerFault(p, t) == MaintenanceTimesOut(p, t) \/ RespondFails(p, t)

PeerStep(p) ==
    \/ Fetch(p) \/ Spawn(p) \/ StartPeer(p) \/ Heartbeat(p) \/ BeginShutdown(p)
    \/ StopPeer(p) \/ LeaseRunsOut(p) \/ ExpireStale(p)

PeerFault(p) ==
    PollerFails(p) \/ StopTimesOut(p) \/ HeartbeatMissed(p) \/ Crash(p)

Step ==
    \/ \E t \in Tasks : CallerStep(t)
    \/ \E p \in Peers, t \in Tasks : HandlerStep(p, t)
    \/ \E p \in Peers : PeerStep(p)
    \/ ClearTask

Fault ==
    \/ \E t \in Tasks : CallerFault(t)
    \/ \E p \in Peers, t \in Tasks : HandlerFault(p, t)
    \/ \E p \in Peers : PeerFault(p)

Few == Cardinality({t \in Tasks : phase[t] # "idle"}) <= FaultyTasks

Next ==
    \/ Step /\ UNCHANGED faults /\ (faults > 0 => Few')
    \/ Fault /\ Few /\ faults < MaxFaults /\ faults' = faults + 1

Spec == Init /\ [][Next]_vars

(* The event loop of a caller runs every coroutine that can run, time       *)
(* passes, and the Server's hourly job keeps calling clear_task().  Nothing *)
(* is assumed of the serving peers.                                         *)
CallerProgress(t) ==
    \/ Resolve(t) \/ Send(t) \/ CallExpires(t) \/ Consume(t)
    \/ CallReturns(t) \/ Abandon(t) \/ CleanupEnds(t)

Fairness ==
    /\ \A t \in Tasks :
          /\ WF_vars(CallerProgress(t) /\ UNCHANGED faults)
          /\ WF_vars(Expire(t) /\ UNCHANGED faults)
          /\ WF_vars(GrowOld(t) /\ UNCHANGED faults)
    /\ WF_vars(ClearTask /\ UNCHANGED faults)

FairSpec == Spec /\ Fairness
-----------------------------------------------------------------------------
(* The states in which a peer has taken a task off the queue. *)
Held == JobStates \ {"none", "fetched"}

(* A request reaches a handler at most once, however many pollers see its   *)
(* row, whoever is declared dead meanwhile, and whatever is retried: the    *)
(* claim is the one conditional UPDATE of JobQueuesTable.claim().           *)
AtMostOnce == \A t \in Tasks : starts[t] <= 1

(* At most one peer holds a request, and nobody does while it is pending.   *)
ExclusiveClaim ==
    \A t \in Tasks, p \in Peers :
        job[p][t] \in Held =>
            /\ row[t].status # "pending"
            /\ \A q \in Peers \ {p} : job[q][t] \notin Held

(* Unless something failed, a row is "processing" only as long as its       *)
(* claimer works on it, or is in a shutdown that will end it.               *)
OrphanNeedsFault ==
    \A t \in Tasks :
        row[t].status = "processing" =>
            \/ job[row[t].by][t] # "none"
            \/ proc[row[t].by] = "stopping"
            \/ faults > 0

(* The first result of a request is the only one: a terminal row changes no *)
(* more until it is deleted, and a deleted row does not come back, so that  *)
(* a late respond() of a peer given up for dead is without effect.          *)
ResultStands(t) ==
    /\ row[t].status \in Terminal => row'[t] \in {row[t], NoRow}
    /\ row[t] = NoRow /\ phase[t] # "sending" => row'[t] = NoRow

FirstResultStands == [][\A t \in Tasks : ResultStands(t)]_vars

(* An unfinished delivery that a caller may wait for is never dropped       *)
(* behind its back: its row stays until it has a result, or goes by the     *)
(* abandon() of its own caller.                                             *)
Unfinished(t) == row[t].status \in {"pending", "processing"}
Kept(t) == Unfinished(t) /\ row'[t] = NoRow => phase[t] = "abandoning" \/ t \in cleanup

UnfinishedCallKept == [][\A t \in Calls : Kept(t)]_vars

(* When the registry declares a peer stopped, by unregister() or            *)
(* expire_stale(), no delivery addressed to it or claimed by it is left     *)
(* unfinished in the same instant (README of core/queue, 数据库后端).        *)
Relieved(p) ==
    \A t \in Tasks : /\ row'[t].status = "pending" => row'[t].target # p
                    /\ row'[t].status = "processing" => row'[t].by # p

StopEndsDeliveries ==
    [][\A p \in Peers : reg[p] # "stopped" /\ reg'[p] = "stopped" => Relieved(p)]_vars

(* Every call() and submit() comes to an end, whatever happens to the peers.*)
CallEnds ==
    \A t \in Tasks :
        phase[t] = "resolving" ~> phase[t] \in {"closed", "dead"}

(* No row stays for good: not that of a dead caller, of a crashed claimer,  *)
(* or of a request nobody listens to.                                       *)
RowsCollected ==
    \A t \in Tasks : row[t].status # "absent" ~> row[t].status = "absent"

(* The database queue keeps the promise of RpcContract. *)
Execution ==
    [t \in Tasks |-> IF returned[t] THEN "returned"
                     ELSE IF starts[t] > 0 THEN "begun" ELSE "none"]

RPC == INSTANCE RpcContract WITH execution <- Execution

Contract == RPC!Spec
-----------------------------------------------------------------------------
(* The inductive invariant behind AtMostOnce, ExclusiveClaim and Contract.  *)

(* Before its INSERT a request has left no trace; until call() gives an     *)
(* answer there is none.                                                    *)
CallInv(t) ==
    /\ phase[t] \in {"idle", "resolving", "sending"} =>
          /\ row[t].status = "absent"
          /\ starts[t] = 0
          /\ \A p \in Peers : job[p][t] \notin Held
    /\ phase[t] \in {"idle", "resolving", "sending", "waiting"} => answer[t] = "none"

(* A pending row is untouched, and only one peer ever gets past the claim.  *)
ClaimInv(t) ==
    /\ row[t].status = "pending" => starts[t] = 0
    /\ starts[t] <= 1
    /\ \A p \in Peers :
          /\ job[p][t] \in {"claimed", "spawned"} => starts[t] = 0
          /\ job[p][t] = "running" => starts[t] = 1 /\ ~returned[t]
          /\ job[p][t] = "returned" => returned[t]
    /\ returned[t] => starts[t] = 1

(* "done" is written for a handler that returned, "timeout" for a deadline  *)
(* that has passed or by a handler that was entered, wherever the result is *)
(* on its way.                                                              *)
ResultInv(t) ==
    /\ "done" \in {row[t].status, reply[t]} => returned[t]
    /\ "timeout" \in {row[t].status, reply[t]} => expired[t] \/ starts[t] = 1
    /\ \A p \in Peers : job[p][t] = "late" => expired[t] \/ starts[t] = 1
    /\ age[t] = ActiveTimeout => expired[t]

IInv ==
    /\ TypeOK
    /\ ExclusiveClaim
    /\ \A t \in Tasks : CallInv(t) /\ ClaimInv(t) /\ ResultInv(t)
=============================================================================
