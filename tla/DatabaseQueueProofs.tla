------------------------- MODULE DatabaseQueueProofs -------------------------
(* Proofs about DatabaseQueue, for every set of tasks and of peers, every   *)
(* batch size and every number of failures.                                 *)
EXTENDS DatabaseQueue, TLAPS

(* The rows and their ages stay typed through every statement on the table. *)
TableType ==
    /\ row \in [Tasks -> RowType]
    /\ age \in [Tasks -> 0 .. ActiveTimeout]

LEMMA NoRowType == NoRow \in RowType
BY DEF NoRow, RowType, Statuses

LEMMA StatusType ==
    ASSUME NEW r \in RowType, NEW s \in Statuses
    PROVE  [r EXCEPT !.status = s] \in RowType
BY DEF RowType

LEMMA ClaimedType ==
    ASSUME NEW r \in RowType, NEW p \in Peers
    PROVE  [r EXCEPT !.status = "processing", !.by = p] \in RowType
<1>1. "processing" \in Statuses
  BY DEF Statuses
<1>2. p \in Peers \cup {NoTarget}
  OBVIOUS
<1> QED
  BY <1>1, <1>2 DEF RowType

LEMMA InsertType ==
    ASSUME StateType, NEW t \in Tasks, Insert(t)
    PROVE  TableType'
<1>1. NewRow(target[t]) \in RowType
  BY DEF StateType, NewRow, RowType, Statuses
<1> QED
  BY <1>1 DEF StateType, TableType, Insert

LEMMA KeepType ==
    ASSUME StateType, Keep
    PROVE  TableType'
BY DEF StateType, TableType, Keep

LEMMA DeleteType ==
    ASSUME StateType, NEW S, Delete(S)
    PROVE  TableType'
<1>1. 0 \in 0 .. ActiveTimeout
  BY DEF ActiveTimeout
<1> QED
  BY <1>1, NoRowType DEF StateType, TableType, Delete

LEMMA ClaimType ==
    ASSUME StateType, NEW t \in Tasks, NEW p \in Peers, ClaimRow(p, t)
    PROVE  TableType'
<1>1. [row[t] EXCEPT !.status = "processing", !.by = p] \in RowType
  BY ClaimedType DEF StateType
<1>2. row' = [row EXCEPT ![t] = [row[t] EXCEPT !.status = "processing", !.by = p]]
  BY DEF ClaimRow
<1> QED
  BY <1>1, <1>2 DEF StateType, TableType, ClaimRow

LEMMA FailType ==
    ASSUME StateType, NEW p \in Peers, FailDeliveries(p)
    PROVE  TableType'
<1>1. \A t \in Tasks : [row[t] EXCEPT !.status = "failed"] \in RowType
  BY StatusType DEF StateType, Statuses, Terminal
<1>2. row' \in [Tasks -> RowType]
  BY <1>1, NoRowType DEF StateType, FailDeliveries
<1>3. age' \in [Tasks -> 0 .. ActiveTimeout]
  BY DEF StateType, FailDeliveries, ActiveTimeout
<1> QED
  BY <1>2, <1>3 DEF TableType

LEMMA RespondType ==
    ASSUME StateType, NEW t \in Tasks, NEW s \in JobStates, RespondRow(t, StatusOf(s))
    PROVE  TableType'
<1>1. StatusOf(s) \in Statuses
  BY DEF StatusOf, Statuses, Terminal
<1>2. CASE row[t].status # "processing"
  BY <1>2, KeepType DEF RespondRow
<1>3. CASE row[t].status = "processing" /\ t \notin Calls
  BY <1>3, DeleteType DEF RespondRow
<1>4. CASE row[t].status = "processing" /\ t \in Calls
  <2>1. [row[t] EXCEPT !.status = StatusOf(s)] \in RowType
    BY <1>1, StatusType DEF StateType
  <2>2. row' = [row EXCEPT ![t] = [row[t] EXCEPT !.status = StatusOf(s)]]
    BY <1>4 DEF RespondRow
  <2> QED
    BY <1>4, <2>1, <2>2 DEF RespondRow, StateType, TableType
<1> QED
  BY <1>2, <1>3, <1>4

LEMMA SetJobType ==
    ASSUME StateType, NEW p \in Peers, NEW t \in Tasks, NEW s \in JobStates,
           SetJob(p, t, s)
    PROVE  job' \in [Peers -> [Tasks -> JobStates]]
BY DEF StateType, SetJob

LEMMA DropBatchType ==
    ASSUME StateType, NEW p \in Peers, DropBatch(p)
    PROVE  job' \in [Peers -> [Tasks -> JobStates]]
BY DEF StateType, DropBatch, JobStates

LEMMA RespondFailsType ==
    ASSUME StateType, NEW p \in Peers, NEW t \in Tasks, RespondFails(p, t)
    PROVE  StateType'
<1>1. job[p][t] \in JobStates
  BY DEF StateType
<1>2. TableType'
  BY <1>1, RespondType, KeepType DEF RespondFails
<1>3. job' \in [Peers -> [Tasks -> JobStates]]
  BY SetJobType DEF RespondFails, JobStates
<1> QED
  BY <1>2, <1>3 DEF RespondFails, TableType, StateType, callerVars, peerVars, history

LEMMA CancelTaskType ==
    ASSUME StateType, NEW p \in Peers, NEW t \in Tasks, CancelTask(p, t)
    PROVE  StateType'
<1>1. CASE RespondFails(p, t)
  BY <1>1, RespondFailsType
<1>2. CASE ~RespondFails(p, t)
  <2>1. job' \in [Peers -> [Tasks -> JobStates]]
    BY <1>2, SetJobType DEF CancelTask, JobStates
  <2> QED
    BY <1>2, <2>1 DEF CancelTask, StateType, callerVars, peerVars, history
<1> QED
  BY <1>1, <1>2

(* Each step keeps every variable but the count of failures in its type. *)
LEMMA TypeStep ==
    ASSUME StateType, Step \/ Fault
    PROVE  StateType'
<1> USE DEF StateType, Phases, Replies, Answers, Terminal, JobStates,
        callerVars, peerVars, history
<1>1. ASSUME NEW t \in Tasks, CallerStep(t)
      PROVE  StateType'
  <2>1. CASE StartCall(t)
    BY <2>1 DEF StartCall
  <2>2. CASE Resolve(t)
    BY <2>2 DEF Resolve, Destinations, Routable
  <2>3. CASE Send(t)
    BY <2>3, InsertType DEF Send, TableType
  <2>4. CASE CallExpires(t)
    BY <2>4 DEF CallExpires
  <2>5. CASE Consume(t)
    BY <2>5, DeleteType DEF Consume, Receive, TableType
  <2>6. CASE CallReturns(t)
    BY <2>6 DEF CallReturns, Decode
  <2>7. CASE Abandon(t)
    BY <2>7, DeleteType DEF Abandon, TableType
  <2>8. CASE CleanupEnds(t)
    BY <2>8, DeleteType DEF CleanupEnds, TableType
  <2>9. CASE Expire(t)
    BY <2>9 DEF Expire
  <2>10. CASE GrowOld(t)
    <3>1. age[t] < ActiveTimeout
      BY <2>10 DEF GrowOld
    <3>2. age[t] + 1 \in 0 .. ActiveTimeout
      BY <3>1 DEF ActiveTimeout
    <3> QED
      BY <2>10, <3>2 DEF GrowOld
  <2> QED
    BY <1>1, <2>1, <2>2, <2>3, <2>4, <2>5, <2>6, <2>7, <2>8, <2>9, <2>10 DEF CallerStep
<1>2. ASSUME NEW t \in Tasks, CallerFault(t)
      PROVE  StateType'
  <2>1. CASE SendInterrupted(t)
    <3>1. TableType'
      BY <2>1, InsertType, KeepType DEF SendInterrupted
    <3>2. answer' \in [Tasks -> Answers]
      BY <2>1 DEF SendInterrupted
    <3>3. phase' \in [Tasks -> Phases]
      BY <2>1 DEF SendInterrupted
    <3> QED
      BY <2>1, <3>1, <3>2, <3>3 DEF SendInterrupted, TableType
  <2>2. CASE AbandonIncomplete(t)
    BY <2>2 DEF AbandonIncomplete
  <2>3. CASE CleanupFails(t)
    BY <2>3 DEF CleanupFails
  <2>4. CASE ConsumeKeepsRow(t)
    BY <2>4, KeepType DEF ConsumeKeepsRow, Receive, TableType
  <2>5. CASE PumpStops(t)
    BY <2>5 DEF PumpStops
  <2>6. CASE CallerDies(t)
    BY <2>6 DEF CallerDies
  <2>7. CASE CallCancelled(t)
    BY <2>7 DEF CallCancelled
  <2> QED
    BY <1>2, <2>1, <2>2, <2>3, <2>4, <2>5, <2>6, <2>7 DEF CallerFault
<1>3. ASSUME NEW p \in Peers, NEW t \in Tasks, HandlerStep(p, t)
      PROVE  StateType'
  <2>1. CASE Claim(p, t)
    BY <2>1, ClaimType, KeepType, SetJobType DEF Claim, TableType
  <2>2. CASE StartHandler(p, t)
    <3>1. job' \in [Peers -> [Tasks -> JobStates]]
      BY <2>2, SetJobType DEF StartHandler
    <3>2. starts' \in [Tasks -> Nat]
      BY <2>2 DEF StartHandler
    <3> QED
      BY <2>2, <3>1, <3>2 DEF StartHandler
  <2>3. CASE HandlerReturns(p, t)
    BY <2>3 DEF HandlerReturns, SetJob
  <2>4. CASE HandlerFails(p, t)
    BY <2>4, SetJobType DEF HandlerFails
  <2>5. CASE CancelHandler(p, t)
    BY <2>5, CancelTaskType DEF CancelHandler
  <2>6. CASE Respond(p, t)
    <3>1. job[p][t] \in JobStates
      OBVIOUS
    <3>2. TableType'
      BY <2>6, <3>1, RespondType DEF Respond
    <3>3. job' \in [Peers -> [Tasks -> JobStates]]
      BY <2>6, SetJobType DEF Respond
    <3> QED
      BY <2>6, <3>2, <3>3 DEF Respond, TableType
  <2> QED
    BY <1>3, <2>1, <2>2, <2>3, <2>4, <2>5, <2>6 DEF HandlerStep
<1>4. ASSUME NEW p \in Peers, NEW t \in Tasks, HandlerFault(p, t)
      PROVE  StateType'
  <2>1. CASE MaintenanceTimesOut(p, t)
    BY <2>1, CancelTaskType DEF MaintenanceTimesOut
  <2>2. CASE RespondFails(p, t)
    BY <2>2, RespondFailsType
  <2> QED
    BY <1>4, <2>1, <2>2 DEF HandlerFault
<1>5. ASSUME NEW p \in Peers, PeerStep(p)
      PROVE  StateType'
  <2>1. CASE Fetch(p)
    BY <2>1 DEF Fetch
  <2>2. CASE Spawn(p)
    BY <2>2 DEF Spawn
  <2>3. CASE StartPeer(p)
    BY <2>3 DEF StartPeer
  <2>4. CASE Heartbeat(p)
    BY <2>4 DEF Heartbeat
  <2>5. CASE BeginShutdown(p)
    BY <2>5 DEF BeginShutdown
  <2>6. CASE StopPeer(p)
    BY <2>6, FailType, DropBatchType
    DEF StopPeer, StopPoller, Stopped, Unregister, TableType
  <2>7. CASE LeaseRunsOut(p)
    BY <2>7 DEF LeaseRunsOut, LeaseLapses
  <2>8. CASE ExpireStale(p)
    BY <2>8, FailType DEF ExpireStale, Unregister, TableType
  <2> QED
    BY <1>5, <2>1, <2>2, <2>3, <2>4, <2>5, <2>6, <2>7, <2>8 DEF PeerStep
<1>6. ASSUME NEW p \in Peers, PeerFault(p)
      PROVE  StateType'
  <2>1. CASE PollerFails(p)
    BY <2>1, FailType, DropBatchType
    DEF PollerFails, StopPoller, Stopped, Unregister, TableType
  <2>2. CASE StopTimesOut(p)
    BY <2>2, DropBatchType DEF StopTimesOut, Stopped
  <2>3. CASE HeartbeatMissed(p)
    BY <2>3 DEF HeartbeatMissed, LeaseLapses
  <2>4. CASE Crash(p)
    BY <2>4 DEF Crash
  <2> QED
    BY <1>6, <2>1, <2>2, <2>3, <2>4 DEF PeerFault
<1>7. ASSUME ClearTask
      PROVE  StateType'
  <2>1. \A t \in Tasks : [row[t] EXCEPT !.status = "timeout"] \in RowType
    BY StatusType DEF Statuses
  <2>2. row' \in [Tasks -> RowType]
    BY <1>7, <2>1, NoRowType DEF ClearTask
  <2>3. age' \in [Tasks -> 0 .. ActiveTimeout]
    BY <1>7 DEF ClearTask, ActiveTimeout
  <2>4. UNCHANGED <<callerVars, expired, job, peerVars, history>>
    BY <1>7 DEF ClearTask
  <2> QED
    BY <2>2, <2>3, <2>4
<1> QED
  BY <1>1, <1>2, <1>3, <1>4, <1>5, <1>6, <1>7 DEF Step, Fault

(* Every variable stays in its type through every caller, handler, peer and *)
(* cleaner step of the database queue.                                      *)
THEOREM TypeCorrect == Spec => []TypeOK
<1>1. Init => TypeOK
  BY ConstantsAssumption
  DEF Init, TypeOK, StateType, Phases, Replies, Answers, Statuses, JobStates, NoRow,
          RowType, ActiveTimeout
<1>2. ASSUME TypeOK, [Next]_vars
      PROVE  TypeOK'
  <2>1. CASE UNCHANGED vars
    BY <1>2, <2>1 DEF vars, callerVars, peerVars, history, TypeOK, StateType
  <2>2. CASE Next
    <3>1. faults' \in 0 .. MaxFaults
      BY <1>2, <2>2, ConstantsAssumption DEF Next, TypeOK
    <3>2. StateType'
      BY <1>2, <2>2, TypeStep DEF Next, TypeOK
    <3> QED
      BY <3>1, <3>2 DEF TypeOK
  <2> QED
    BY <1>2, <2>1, <2>2
<1> QED
  BY <1>1, <1>2, PTL DEF Spec
-----------------------------------------------------------------------------
(* At-most-once execution and exclusive claims of the database queue, by    *)
(* the inductive invariant IInv, and that the queue implements RpcContract. *)
(* The argument is per task u: a statement on the table either lets the row *)
(* of u fade (RowFades), which no part of the invariant minds, or is one of *)
(* INSERT, claim and respond on u itself.                                   *)

(* ExclusiveClaim for one task. *)
Exclusive(u) ==
    \A p \in Peers :
        job[p][u] \in Held =>
            /\ row[u].status # "pending"
            /\ \A q \in Peers \ {p} : job[q][u] \notin Held

TaskInv(u) == Exclusive(u) /\ CallInv(u) /\ ClaimInv(u) /\ ResultInv(u)

(* The row of u is as it was, or deleted, or ended as failed. *)
RowFades(u) ==
    /\ \/ row'[u].status = row[u].status
       \/ row[u].status # "absent" /\ row'[u].status \in {"absent", "failed"}
    /\ age'[u] \in {age[u], 0}

LEMMA InvByTask == IInv <=> TypeOK /\ \A u \in Tasks : TaskInv(u)
BY DEF IInv, TaskInv, Exclusive, ExclusiveClaim
-----------------------------------------------------------------------------
(* What each statement does to the status of the row of u. *)

LEMMA NewStatus ==
    ASSUME NEW r \in RowType, NEW s
    PROVE  [r EXCEPT !.status = s].status = s
BY DEF RowType

LEMMA KeepFades ==
    ASSUME Keep, NEW u \in Tasks
    PROVE  RowFades(u)
BY DEF Keep, RowFades

LEMMA DeleteFades ==
    ASSUME NEW S, Delete(S), NEW u \in Tasks
    PROVE  RowFades(u)
BY DEF Delete, RowFades, NoRow

LEMMA FailFades ==
    ASSUME StateType, NEW p \in Peers, FailDeliveries(p), NEW u \in Tasks
    PROVE  RowFades(u)
<1>1. row[u] \in RowType
  BY DEF StateType
<1>2. u \in DeliveriesOf(p) => row[u].status # "absent"
  BY DEF DeliveriesOf
<1>3. row'[u] \in {row[u], NoRow, [row[u] EXCEPT !.status = "failed"]}
  BY DEF FailDeliveries
<1>4. u \notin DeliveriesOf(p) => row'[u] = row[u]
  BY DEF FailDeliveries
<1>5. age'[u] \in {age[u], 0}
  BY DEF FailDeliveries
<1>6. row'[u] = NoRow => row'[u].status = "absent"
  BY DEF NoRow
<1>7. row'[u] = [row[u] EXCEPT !.status = "failed"] => row'[u].status = "failed"
  BY <1>1, NewStatus
<1> QED
  BY <1>2, <1>3, <1>4, <1>5, <1>6, <1>7 DEF RowFades

LEMMA InsertRow ==
    ASSUME StateType, NEW t \in Tasks, Insert(t)
    PROVE  /\ row'[t].status = "pending"
           /\ age'[t] = age[t]
           /\ \A u \in Tasks \ {t} : RowFades(u)
BY DEF Insert, NewRow, StateType, RowFades

LEMMA ClaimedRow ==
    ASSUME StateType, NEW p \in Peers, NEW t \in Tasks, ClaimRow(p, t)
    PROVE  /\ row[t].status = "pending"
           /\ row'[t].status = "processing"
           /\ age'[t] = age[t]
           /\ \A u \in Tasks \ {t} : RowFades(u)
<1>1. row[t] \in RowType
  BY DEF StateType
<1>2. row' = [row EXCEPT ![t] = [row[t] EXCEPT !.status = "processing", !.by = p]]
  BY DEF ClaimRow
<1>3. [row[t] EXCEPT !.status = "processing", !.by = p].status = "processing"
  BY <1>1 DEF RowType
<1> QED
  BY <1>2, <1>3 DEF ClaimRow, StateType, RowFades

LEMMA RespondedRow ==
    ASSUME StateType, NEW t \in Tasks, NEW s, RespondRow(t, s), NEW u \in Tasks
    PROVE  \/ RowFades(u)
           \/ /\ u = t
              /\ row[t].status = "processing"
              /\ row'[t].status = s
              /\ age'[t] = age[t]
<1>1. CASE row[t].status # "processing"
  BY <1>1, KeepFades DEF RespondRow
<1>2. CASE row[t].status = "processing" /\ t \notin Calls
  BY <1>2, DeleteFades DEF RespondRow
<1>3. CASE row[t].status = "processing" /\ t \in Calls
  <2>1. row[t] \in RowType
    BY DEF StateType
  <2>2. row' = [row EXCEPT ![t] = [row[t] EXCEPT !.status = s]] /\ UNCHANGED age
    BY <1>3 DEF RespondRow
  <2>3. [row[t] EXCEPT !.status = s].status = s
    BY <2>1, NewStatus
  <2> QED
    BY <1>3, <2>2, <2>3 DEF StateType, RowFades
<1> QED
  BY <1>1, <1>2, <1>3
-----------------------------------------------------------------------------
(* Steps that leave the jobs and their history alone: a caller goes on, the *)
(* row of u at most fades, and a result comes from the row.                 *)
CallerMoves(u) ==
    /\ phase'[u] \in {"idle", "resolving", "sending"} =>
          phase[u] \in {"idle", "resolving", "sending"}
    /\ phase'[u] \in {"idle", "resolving", "sending", "waiting"} => answer'[u] = "none"
    /\ reply'[u] \in {reply[u], row[u].status, "none", "unavailable"}
    /\ expired[u] => expired'[u]

LEMMA CallerFrame ==
    ASSUME StateType, NEW u \in Tasks, TaskInv(u), RowFades(u), CallerMoves(u),
           UNCHANGED <<job, starts, returned>>
    PROVE  TaskInv(u)'
<1> USE DEF TaskInv, RowFades
<1>1. Exclusive(u)'
  BY DEF Exclusive
<1>2. CallInv(u)'
  BY DEF CallInv, CallerMoves
<1>3. ClaimInv(u)'
  BY DEF ClaimInv
<1>4. ResultInv(u)'
  BY DEF ResultInv, CallerMoves, ActiveTimeout
<1> QED
  BY <1>1, <1>2, <1>3, <1>4

(* Steps that fetch u, lose or fail the job on it, or hand a claimed one    *)
(* over to its task, without touching the callers.                          *)
JobsFade(u) ==
    \A p \in Peers :
        \/ job'[p][u] \in {job[p][u], "none", "fetched"}
        \/ job[p][u] \in Held /\ job'[p][u] = "raised"
        \/ job[p][u] = "claimed" /\ job'[p][u] = "spawned"

LEMMA JobFrame ==
    ASSUME StateType, NEW u \in Tasks, TaskInv(u), RowFades(u), JobsFade(u),
           UNCHANGED <<phase, answer, reply, expired, starts, returned>>
    PROVE  TaskInv(u)'
<1> USE DEF TaskInv, RowFades, JobsFade, Held, JobStates
<1>1. Exclusive(u)'
  BY DEF Exclusive
<1>2. CallInv(u)'
  BY DEF CallInv
<1>3. ClaimInv(u)'
  BY DEF ClaimInv
<1>4. ResultInv(u)'
  BY DEF ResultInv, ActiveTimeout
<1> QED
  BY <1>1, <1>2, <1>3, <1>4
-----------------------------------------------------------------------------
(* The callers. *)

LEMMA InsertInv ==
    ASSUME StateType, NEW t \in Tasks, Insert(t), phase[t] = "sending", TaskInv(t),
           answer'[t] = "none" \/ phase'[t] \in {"abandoning", "closed"},
           phase'[t] \notin {"idle", "resolving", "sending"},
           reply'[t] \in {reply[t], "none"},
           UNCHANGED <<expired, job, starts, returned>>
    PROVE  TaskInv(t)'
<1>1. row'[t].status = "pending" /\ age'[t] = age[t]
  BY InsertRow
<1> USE <1>1 DEF TaskInv
<1>2. Exclusive(t)'
  BY DEF Exclusive, CallInv
<1>3. CallInv(t)'
  BY DEF CallInv
<1>4. ClaimInv(t)'
  BY DEF ClaimInv, CallInv
<1>5. ResultInv(t)'
  BY DEF ResultInv
<1> QED
  BY <1>2, <1>3, <1>4, <1>5

LEMMA CallerStepInv ==
    ASSUME StateType, NEW t \in Tasks, NEW u \in Tasks, TaskInv(u), CallerStep(t)
    PROVE  TaskInv(u)'
<1> USE DEF StateType, peerVars, history, callerVars
<1>1. CASE StartCall(t)
  <2>1. RowFades(u)
    BY <1>1, KeepFades DEF StartCall, Keep
  <2>2. CallerMoves(u)
    BY <1>1 DEF StartCall, CallerMoves, TaskInv, CallInv
  <2> QED
    BY <1>1, <2>1, <2>2, CallerFrame DEF StartCall
<1>2. CASE Resolve(t)
  <2>1. RowFades(u)
    BY <1>2, KeepFades DEF Resolve, Keep
  <2>2. CallerMoves(u)
    BY <1>2 DEF Resolve, CallerMoves, TaskInv, CallInv
  <2> QED
    BY <1>2, <2>1, <2>2, CallerFrame DEF Resolve
<1>3. CASE Send(t)
  <2>1. CASE u = t
    <3>1. answer'[t] = "none" \/ phase'[t] \in {"abandoning", "closed"}
      BY <1>3, <2>1 DEF Send, TaskInv, CallInv
    <3>2. phase'[t] \notin {"idle", "resolving", "sending"}
      BY <1>3 DEF Send
    <3> QED
      BY <1>3, <2>1, <3>1, <3>2, InsertInv DEF Send
  <2>2. CASE u # t
    <3>1. RowFades(u)
      BY <1>3, <2>2, InsertRow DEF Send
    <3>2. CallerMoves(u)
      BY <1>3, <2>2 DEF Send, CallerMoves, TaskInv, CallInv
    <3> QED
      BY <1>3, <3>1, <3>2, CallerFrame DEF Send
  <2> QED
    BY <2>1, <2>2
<1>4. CASE CallExpires(t)
  <2>1. RowFades(u)
    BY <1>4, KeepFades DEF CallExpires, Keep
  <2>2. CallerMoves(u)
    BY <1>4 DEF CallExpires, CallerMoves, TaskInv, CallInv
  <2> QED
    BY <1>4, <2>1, <2>2, CallerFrame DEF CallExpires
<1>5. CASE Consume(t)
  <2>1. RowFades(u)
    BY <1>5, DeleteFades DEF Consume
  <2>2. CallerMoves(u)
    BY <1>5 DEF Consume, Receive, CallerMoves, TaskInv, CallInv
  <2> QED
    BY <1>5, <2>1, <2>2, CallerFrame DEF Consume, Receive
<1>6. CASE CallReturns(t)
  <2>1. RowFades(u)
    BY <1>6, KeepFades DEF CallReturns, Keep
  <2>2. CallerMoves(u)
    BY <1>6 DEF CallReturns, CallerMoves, TaskInv, CallInv
  <2> QED
    BY <1>6, <2>1, <2>2, CallerFrame DEF CallReturns
<1>7. CASE Abandon(t)
  <2>1. RowFades(u)
    BY <1>7, DeleteFades DEF Abandon
  <2>2. CallerMoves(u)
    BY <1>7 DEF Abandon, CallerMoves, TaskInv, CallInv
  <2> QED
    BY <1>7, <2>1, <2>2, CallerFrame DEF Abandon
<1>8. CASE CleanupEnds(t)
  <2>1. RowFades(u)
    BY <1>8, DeleteFades DEF CleanupEnds
  <2>2. CallerMoves(u)
    BY <1>8 DEF CleanupEnds, CallerMoves, TaskInv, CallInv
  <2> QED
    BY <1>8, <2>1, <2>2, CallerFrame DEF CleanupEnds
<1>9. CASE Expire(t)
  <2>1. RowFades(u)
    BY <1>9, KeepFades DEF Expire, Keep
  <2>2. CallerMoves(u)
    BY <1>9 DEF Expire, CallerMoves, TaskInv, CallInv
  <2> QED
    BY <1>9, <2>1, <2>2, CallerFrame DEF Expire
<1>10. CASE GrowOld(t)
  <2>1. age'[u] = ActiveTimeout => expired[u]
    BY <1>10 DEF GrowOld, TaskInv, ResultInv, ActiveTimeout
  <2> QED
    BY <1>10, <2>1
    DEF GrowOld, TaskInv, Exclusive, CallInv, ClaimInv, ResultInv
<1> QED
  BY <1>1, <1>2, <1>3, <1>4, <1>5, <1>6, <1>7, <1>8, <1>9, <1>10 DEF CallerStep

LEMMA CallerFaultInv ==
    ASSUME StateType, NEW t \in Tasks, NEW u \in Tasks, TaskInv(u), CallerFault(t)
    PROVE  TaskInv(u)'
<1> USE DEF StateType, peerVars, history, callerVars
<1>1. CASE SendInterrupted(t)
  <2>1. CASE Insert(t) /\ u = t
    <3>1. phase'[t] \in {"abandoning", "closed"}
      BY <1>1 DEF SendInterrupted
    <3> QED
      BY <1>1, <2>1, <3>1, InsertInv DEF SendInterrupted
  <2>2. CASE Keep \/ u # t
    <3>1. RowFades(u)
      BY <1>1, <2>2, InsertRow, KeepFades DEF SendInterrupted
    <3>2. CallerMoves(u)
      BY <1>1, <2>2 DEF SendInterrupted, CallerMoves, TaskInv, CallInv
    <3> QED
      BY <1>1, <3>1, <3>2, CallerFrame DEF SendInterrupted
  <2> QED
    BY <1>1, <2>1, <2>2 DEF SendInterrupted
<1>2. CASE CallCancelled(t)
  <2>1. RowFades(u)
    BY <1>2, KeepFades DEF CallCancelled, Keep
  <2>2. CallerMoves(u)
    BY <1>2 DEF CallCancelled, CallerMoves, TaskInv, CallInv
  <2> QED
    BY <1>2, <2>1, <2>2, CallerFrame DEF CallCancelled
<1>3. CASE AbandonIncomplete(t)
  <2>1. RowFades(u)
    BY <1>3, KeepFades DEF AbandonIncomplete, Keep
  <2>2. CallerMoves(u)
    BY <1>3 DEF AbandonIncomplete, CallerMoves, TaskInv, CallInv
  <2> QED
    BY <1>3, <2>1, <2>2, CallerFrame DEF AbandonIncomplete
<1>4. CASE CleanupFails(t)
  <2>1. RowFades(u)
    BY <1>4, KeepFades DEF CleanupFails, Keep
  <2>2. CallerMoves(u)
    BY <1>4 DEF CleanupFails, CallerMoves, TaskInv, CallInv
  <2> QED
    BY <1>4, <2>1, <2>2, CallerFrame DEF CleanupFails
<1>5. CASE ConsumeKeepsRow(t)
  <2>1. RowFades(u)
    BY <1>5, KeepFades DEF ConsumeKeepsRow
  <2>2. CallerMoves(u)
    BY <1>5 DEF ConsumeKeepsRow, Receive, CallerMoves, TaskInv, CallInv
  <2> QED
    BY <1>5, <2>1, <2>2, CallerFrame DEF ConsumeKeepsRow, Receive
<1>6. CASE PumpStops(t)
  <2>1. RowFades(u)
    BY <1>6, KeepFades DEF PumpStops, Keep
  <2>2. CallerMoves(u)
    BY <1>6 DEF PumpStops, CallerMoves, TaskInv, CallInv
  <2> QED
    BY <1>6, <2>1, <2>2, CallerFrame DEF PumpStops
<1>7. CASE CallerDies(t)
  <2>1. RowFades(u)
    BY <1>7, KeepFades DEF CallerDies, Keep
  <2>2. CallerMoves(u)
    BY <1>7 DEF CallerDies, CallerMoves, TaskInv, CallInv
  <2> QED
    BY <1>7, <2>1, <2>2, CallerFrame DEF CallerDies
<1> QED
  BY <1>1, <1>2, <1>3, <1>4, <1>5, <1>6, <1>7 DEF CallerFault
-----------------------------------------------------------------------------
(* The handlers. *)

LEMMA SetJobOf ==
    ASSUME StateType, NEW p \in Peers, NEW t \in Tasks, NEW s, SetJob(p, t, s)
    PROVE  /\ job'[p][t] = s
           /\ \A q \in Peers, v \in Tasks :
                 q # p \/ v # t => job'[q][v] = job[q][v]
BY DEF SetJob, StateType

LEMMA ClaimStep ==
    ASSUME StateType, NEW p \in Peers, NEW t \in Tasks, NEW u \in Tasks,
           TaskInv(u), Claim(p, t)
    PROVE  TaskInv(u)'
<1> USE DEF callerVars, peerVars, history
<1>1. CASE ClaimRow(p, t) /\ SetJob(p, t, "claimed") /\ u = t
  <2> USE <1>1, ClaimedRow, SetJobOf DEF TaskInv
  <2>1. \A q \in Peers : job[q][t] \notin Held
    BY DEF Exclusive
  <2>2. \A q \in Peers \ {p} : job'[q][t] \notin Held
    BY <2>1
  <2>3. Exclusive(t)'
    BY <2>2 DEF Exclusive
  <2>4. CallInv(t)'
    BY DEF Claim, CallInv
  <2>5. ClaimInv(t)'
    BY <2>2 DEF Claim, ClaimInv, Held, JobStates
  <2>6. ResultInv(t)'
    BY DEF Claim, ResultInv
  <2> QED
    BY <2>3, <2>4, <2>5, <2>6
<1>2. CASE ~(ClaimRow(p, t) /\ SetJob(p, t, "claimed") /\ u = t)
  <2>1. RowFades(u)
    BY <1>2, ClaimedRow, KeepFades DEF Claim
  <2>2. JobsFade(u)
    BY <1>2, SetJobOf DEF Claim, JobsFade
  <2> QED
    BY <2>1, <2>2, JobFrame DEF Claim
<1> QED
  BY <1>1, <1>2

LEMMA StartHandlerStep ==
    ASSUME StateType, NEW p \in Peers, NEW t \in Tasks, NEW u \in Tasks,
           TaskInv(u), StartHandler(p, t)
    PROVE  TaskInv(u)'
<1> USE DEF callerVars, peerVars, history, TaskInv
<1>1. job[p][t] = "spawned" /\ UNCHANGED <<phase, answer, reply, expired, row, age, returned>>
  BY DEF StartHandler
<1>2. RowFades(u)
  BY <1>1, KeepFades DEF Keep
<1>3. CASE u # t
  <2>1. JobsFade(u)
    BY <1>3, SetJobOf DEF StartHandler, JobsFade
  <2>2. starts'[u] = starts[u]
    BY <1>3 DEF StartHandler, StateType
  <2>3. Exclusive(u)'
    BY <1>1, <2>1 DEF Exclusive, JobsFade, Held, JobStates
  <2>4. CallInv(u)'
    BY <1>1, <2>1, <2>2 DEF CallInv, JobsFade, Held, JobStates
  <2>5. ClaimInv(u)'
    BY <1>1, <2>1, <2>2 DEF ClaimInv, JobsFade, Held, JobStates
  <2>6. ResultInv(u)'
    BY <1>1, <2>1, <2>2 DEF ResultInv, JobsFade
  <2> QED
    BY <2>3, <2>4, <2>5, <2>6
<1>4. CASE u = t
  <2>1. \A q \in Peers \ {p} : job'[q][t] = job[q][t] /\ job[q][t] \notin Held
    BY <1>1, <1>4, SetJobOf DEF StartHandler, Exclusive, Held, JobStates
  <2>2. starts[t] = 0 /\ ~returned[t] /\ row[t].status # "pending"
    BY <1>1, <1>4 DEF ClaimInv, Exclusive, Held, JobStates
  <2>3. phase[t] \notin {"idle", "resolving", "sending"}
    BY <1>1, <1>4 DEF CallInv, Held, JobStates
  <2>4. \/ job'[p][t] = "late" /\ expired[t] /\ starts'[t] = 0
        \/ job'[p][t] = "running" /\ starts'[t] = 1
    BY <2>2, SetJobOf DEF StartHandler, StateType
  <2>5. Exclusive(t)'
    BY <1>1, <2>1, <2>2 DEF Exclusive
  <2>6. CallInv(t)'
    BY <1>1, <1>4, <2>3 DEF CallInv
  <2>7. ClaimInv(t)'
    BY <1>1, <2>1, <2>2, <2>4 DEF ClaimInv, Held, JobStates
  <2>8. ResultInv(t)'
    BY <1>1, <1>4, <2>1, <2>2, <2>4 DEF ResultInv, Held, JobStates
  <2> QED
    BY <1>4, <2>5, <2>6, <2>7, <2>8
<1> QED
  BY <1>3, <1>4

LEMMA HandlerReturnsStep ==
    ASSUME StateType, NEW p \in Peers, NEW t \in Tasks, NEW u \in Tasks,
           TaskInv(u), HandlerReturns(p, t)
    PROVE  TaskInv(u)'
<1> USE DEF callerVars, peerVars, history, TaskInv
<1>1. job[p][t] = "running" /\ UNCHANGED <<phase, answer, reply, expired, row, age, starts>>
  BY DEF HandlerReturns
<1>2. job'[p][t] = "returned"
      /\ \A q \in Peers, v \in Tasks : q # p \/ v # t => job'[q][v] = job[q][v]
  BY SetJobOf DEF HandlerReturns
<1>3. returned'[t] /\ (u # t => returned'[u] = returned[u])
  BY DEF HandlerReturns, StateType
<1>4. CASE u # t
  BY <1>1, <1>2, <1>3, <1>4 DEF Exclusive, CallInv, ClaimInv, ResultInv
<1>5. CASE u = t
  <2>1. \A q \in Peers \ {p} : job'[q][t] \notin Held
    BY <1>1, <1>2, <1>5 DEF Exclusive, Held, JobStates
  <2>2. Exclusive(t)'
    BY <1>1, <1>2, <1>5, <2>1 DEF Exclusive, Held, JobStates
  <2>3. CallInv(t)'
    BY <1>1, <1>5 DEF CallInv, Held, JobStates
  <2>4. ClaimInv(t)'
    BY <1>1, <1>2, <1>3, <1>5, <2>1 DEF ClaimInv, Held, JobStates
  <2>5. ResultInv(t)'
    BY <1>1, <1>2, <1>3, <1>5 DEF ResultInv
  <2> QED
    BY <1>5, <2>2, <2>3, <2>4, <2>5
<1> QED
  BY <1>4, <1>5

LEMMA HandlerFailsStep ==
    ASSUME StateType, NEW p \in Peers, NEW t \in Tasks, NEW u \in Tasks,
           TaskInv(u), HandlerFails(p, t)
    PROVE  TaskInv(u)'
<1> USE DEF callerVars, peerVars, history, TaskInv
<1>1. job[p][t] = "running"
      /\ UNCHANGED <<phase, answer, reply, expired, row, age, starts, returned>>
  BY DEF HandlerFails
<1>2. job'[p][t] \in {"raised", "late"}
      /\ \A q \in Peers, v \in Tasks : q # p \/ v # t => job'[q][v] = job[q][v]
  BY SetJobOf DEF HandlerFails
<1>3. CASE u # t
  BY <1>1, <1>2, <1>3 DEF Exclusive, CallInv, ClaimInv, ResultInv
<1>4. CASE u = t
  <2>1. starts[t] = 1
    BY <1>1, <1>4 DEF ClaimInv
  <2>2. Exclusive(t)'
    BY <1>1, <1>2, <1>4 DEF Exclusive, Held, JobStates
  <2>3. CallInv(t)'
    BY <1>1, <1>4 DEF CallInv, Held, JobStates
  <2>4. ClaimInv(t)'
    BY <1>1, <1>2, <1>4, <2>1 DEF ClaimInv
  <2>5. ResultInv(t)'
    BY <1>1, <1>2, <1>4, <2>1 DEF ResultInv
  <2> QED
    BY <1>4, <2>2, <2>3, <2>4, <2>5
<1> QED
  BY <1>3, <1>4

(* The result of a job reaches the row of its task, or does not. *)
LEMMA RespondStep ==
    ASSUME StateType, NEW p \in Peers, NEW t \in Tasks, NEW u \in Tasks,
           TaskInv(u), job[p][t] \in Responding,
           Keep \/ RespondRow(t, StatusOf(job[p][t])),
           NEW s \in {"none", "raised"}, SetJob(p, t, s),
           UNCHANGED <<phase, answer, reply, expired, starts, returned>>
    PROVE  TaskInv(u)'
<1>1. JobsFade(u)
  BY SetJobOf DEF JobsFade, Responding, Held, JobStates
<1>2. CASE RowFades(u)
  BY <1>1, <1>2, JobFrame
<1>3. CASE ~RowFades(u)
  <2>1. /\ u = t
        /\ row[t].status = "processing"
        /\ row'[t].status = StatusOf(job[p][t])
        /\ age'[t] = age[t]
    BY <1>3, KeepFades, RespondedRow
  <2>2. row'[t].status \notin {"absent", "pending"}
    BY <2>1 DEF StatusOf, Responding
  <2>3. row'[t].status = "done" => returned[t]
    BY <2>1 DEF StatusOf, Responding, TaskInv, ClaimInv
  <2>4. row'[t].status = "timeout" => expired[t] \/ starts[t] = 1
    BY <2>1 DEF StatusOf, Responding, TaskInv, ResultInv
  <2> USE <1>1, <2>1 DEF TaskInv, JobsFade, Held, JobStates
  <2>5. Exclusive(t)'
    BY <2>2 DEF Exclusive
  <2>6. CallInv(t)'
    BY DEF CallInv
  <2>7. ClaimInv(t)'
    BY <2>2 DEF ClaimInv
  <2>8. ResultInv(t)'
    BY <2>3, <2>4 DEF ResultInv
  <2> QED
    BY <2>5, <2>6, <2>7, <2>8
<1> QED
  BY <1>2, <1>3

LEMMA RespondFailsStep ==
    ASSUME StateType, NEW p \in Peers, NEW t \in Tasks, NEW u \in Tasks,
           TaskInv(u), RespondFails(p, t)
    PROVE  TaskInv(u)'
<1>1. UNCHANGED <<phase, answer, reply, expired, starts, returned>>
  BY DEF RespondFails, callerVars, history
<1>2. \E s \in {"none", "raised"} : SetJob(p, t, s)
  BY DEF RespondFails
<1> QED
  BY <1>1, <1>2, RespondStep DEF RespondFails

LEMMA CancelTaskStep ==
    ASSUME StateType, NEW p \in Peers, NEW t \in Tasks, NEW u \in Tasks,
           TaskInv(u), CancelTask(p, t)
    PROVE  TaskInv(u)'
<1>1. CASE RespondFails(p, t)
  BY <1>1, RespondFailsStep
<1>2. CASE ~RespondFails(p, t)
  <2>1. RowFades(u)
    BY <1>2, KeepFades DEF CancelTask, Keep
  <2>2. JobsFade(u)
    BY <1>2, SetJobOf DEF CancelTask, JobsFade, Held, JobStates
  <2> QED
    BY <1>2, <2>1, <2>2, JobFrame DEF CancelTask, callerVars, history
<1> QED
  BY <1>1, <1>2

LEMMA HandlerInv ==
    ASSUME StateType, NEW p \in Peers, NEW t \in Tasks, NEW u \in Tasks,
           TaskInv(u), HandlerStep(p, t) \/ HandlerFault(p, t)
    PROVE  TaskInv(u)'
<1>1. CASE Respond(p, t)
  BY <1>1, RespondStep DEF Respond, callerVars, history
<1> QED
  BY <1>1, ClaimStep, StartHandlerStep, HandlerReturnsStep, HandlerFailsStep,
     RespondFailsStep, CancelTaskStep
  DEF HandlerStep, HandlerFault, CancelHandler, MaintenanceTimesOut
-----------------------------------------------------------------------------
(* The peers and the cleaner. *)

LEMMA DropBatchFades ==
    ASSUME StateType, NEW p \in Peers, DropBatch(p), NEW u \in Tasks
    PROVE  JobsFade(u)
BY DEF DropBatch, StateType, JobsFade

LEMMA PeerInv ==
    ASSUME StateType, NEW p \in Peers, NEW u \in Tasks, TaskInv(u),
           PeerStep(p) \/ PeerFault(p)
    PROVE  TaskInv(u)'
<1> USE DEF callerVars, peerVars, history
<1>1. UNCHANGED <<phase, answer, reply, expired, starts, returned>>
  BY DEF PeerStep, PeerFault, Fetch, Spawn, StartPeer, Heartbeat, BeginShutdown,
         StopPeer, LeaseRunsOut, ExpireStale, PollerFails, StopTimesOut,
         HeartbeatMissed, Crash, StopPoller, LeaseLapses
<1>2. RowFades(u)
  <2>1. CASE Unregister(p)
    BY <2>1, FailFades DEF Unregister
  <2>2. CASE Keep
    BY <2>2, KeepFades
  <2>3. Keep \/ Unregister(p)
    BY DEF PeerStep, PeerFault, Fetch, Spawn, StartPeer, Heartbeat, BeginShutdown,
           StopPeer, LeaseRunsOut, ExpireStale, PollerFails, StopTimesOut,
           HeartbeatMissed, Crash, StopPoller, LeaseLapses, Keep
  <2> QED
    BY <2>1, <2>2, <2>3
<1>3. JobsFade(u)
  <2>1. CASE Fetch(p)
    BY <2>1 DEF Fetch, StateType, JobsFade
  <2>2. CASE Spawn(p)
    BY <2>2 DEF Spawn, StateType, JobsFade
  <2>3. CASE Crash(p)
    BY <2>3 DEF Crash, StateType, JobsFade
  <2>4. CASE DropBatch(p)
    BY <2>4, DropBatchFades
  <2>5. CASE UNCHANGED job
    BY <2>5 DEF JobsFade
  <2> QED
    BY <2>1, <2>2, <2>3, <2>4, <2>5
    DEF PeerStep, PeerFault, StartPeer, Heartbeat, BeginShutdown, StopPeer,
        LeaseRunsOut, ExpireStale, PollerFails, StopTimesOut, HeartbeatMissed,
        StopPoller, LeaseLapses
<1> QED
  BY <1>1, <1>2, <1>3, JobFrame

LEMMA ClearTaskInv ==
    ASSUME StateType, ClearTask, NEW u \in Tasks, TaskInv(u)
    PROVE  TaskInv(u)'
<1> DEFINE stale == row[u].status \in {"pending", "processing"} /\ age[u] >= ActiveTimeout
<1>1. UNCHANGED <<phase, answer, reply, expired, job, starts, returned>>
  BY DEF ClearTask, callerVars, history
<1>2. age'[u] \in {age[u], 0}
  BY DEF ClearTask
<1>3. CASE row'[u] = NoRow /\ row[u].status # "absent"
  <2>1. RowFades(u)
    BY <1>2, <1>3 DEF RowFades, NoRow
  <2>2. JobsFade(u)
    BY <1>1 DEF JobsFade
  <2> QED
    BY <1>1, <2>1, <2>2, JobFrame
<1>4. CASE row'[u] = row[u]
  <2>1. RowFades(u)
    BY <1>2, <1>4 DEF RowFades
  <2>2. JobsFade(u)
    BY <1>1 DEF JobsFade
  <2> QED
    BY <1>1, <2>1, <2>2, JobFrame
<1>5. CASE stale /\ row'[u] = [row[u] EXCEPT !.status = "timeout"]
  <2>1. row'[u].status = "timeout"
    BY <1>5, NewStatus DEF StateType
  <2>2. expired[u]
    <3>1. age[u] = ActiveTimeout
      BY <1>5 DEF StateType, ActiveTimeout
    <3> QED
      BY <3>1 DEF TaskInv, ResultInv
  <2> QED
    BY <1>1, <1>2, <1>5, <2>1, <2>2
    DEF TaskInv, Exclusive, CallInv, ClaimInv, ResultInv, ActiveTimeout
<1> QED
  BY <1>3, <1>4, <1>5 DEF ClearTask, Terminal
-----------------------------------------------------------------------------
LEMMA StepInv ==
    ASSUME StateType, Step \/ Fault, NEW u \in Tasks, TaskInv(u)
    PROVE  TaskInv(u)'
BY CallerStepInv, CallerFaultInv, HandlerInv, PeerInv, ClearTaskInv DEF Step, Fault

LEMMA InvInit == Init => \A u \in Tasks : TaskInv(u)
BY DEF Init, TaskInv, Exclusive, CallInv, ClaimInv, ResultInv, NoRow, Held,
       JobStates, ActiveTimeout

LEMMA InvNext ==
    ASSUME TypeOK, [Next]_vars, NEW u \in Tasks, TaskInv(u)
    PROVE  TaskInv(u)'
<1>1. CASE UNCHANGED vars
  BY <1>1 DEF vars, callerVars, peerVars, history, TaskInv, Exclusive, CallInv,
              ClaimInv, ResultInv
<1>2. CASE Next
  BY <1>2, StepInv DEF Next, TypeOK
<1> QED
  BY <1>1, <1>2

(* The inductive invariant holds in every reachable state. *)
THEOREM Invariant == Spec => []IInv
<1> DEFINE AllTasks == \A u \in Tasks : TaskInv(u)
<1>1. Init => AllTasks
  BY InvInit
<1>2. TypeOK /\ AllTasks /\ [Next]_vars => AllTasks'
  BY InvNext
<1>3. TypeOK /\ AllTasks => IInv
  BY InvByTask
<1> HIDE DEF AllTasks
<1> QED
  BY <1>1, <1>2, <1>3, TypeCorrect, PTL DEF Spec

(* A request is handed to a handler at most once: whichever peers poll for  *)
(* it, crash, lose their lease or are stopped, and whatever is retried.     *)
THEOREM ExecutedAtMostOnce == Spec => []AtMostOnce
<1>1. IInv => AtMostOnce
  BY DEF IInv, ClaimInv, AtMostOnce
<1> QED
  BY <1>1, Invariant, PTL

(* Two peers never hold the same request, and none holds a pending one. *)
THEOREM ClaimsExclude == Spec => []ExclusiveClaim
<1>1. IInv => ExclusiveClaim
  BY DEF IInv
<1> QED
  BY <1>1, Invariant, PTL
-----------------------------------------------------------------------------
(* Refinement of RpcContract. *)

LEMMA ContractInit == Init => RPC!Init
BY DEF Init, RPC!Init, Execution

(* Steps in which no handler begins or returns and at most t is answered. *)
LEMMA AnswerStep ==
    ASSUME StateType, UNCHANGED <<starts, returned, expired>>, NEW t \in Tasks,
           NEW a \in Answers \ {"none"}, answer[t] = "none",
           answer' = [answer EXCEPT ![t] = a],
           a = "value" => returned[t],
           a = "timeout" => expired[t] \/ starts[t] > 0 \/ returned[t]
    PROVE  RPC!Next
<1>1. Execution' = Execution
  BY DEF Execution
<1>2. Execution[t] = "returned" <=> returned[t]
  BY DEF Execution
<1>3. starts[t] > 0 \/ returned[t] => Execution[t] # "none"
  BY DEF Execution
<1>4. RPC!Answer(t, a)
  BY <1>1, <1>2, <1>3 DEF RPC!Answer, RPC!Answers, Answers
<1> QED
  BY <1>4 DEF RPC!Next, RPC!Answers, Answers

LEMMA SilentStep ==
    ASSUME UNCHANGED <<starts, returned, expired, answer>>
    PROVE  UNCHANGED RPC!vars
BY DEF RPC!vars, Execution

LEMMA ExecutionChanges ==
    ASSUME NEW t \in Tasks, NEW e,
           \A u \in Tasks \ {t} : starts'[u] = starts[u] /\ returned'[u] = returned[u],
           e = IF returned'[t] THEN "returned" ELSE IF starts'[t] > 0 THEN "begun" ELSE "none"
    PROVE  Execution' = [Execution EXCEPT ![t] = e]
BY DEF Execution

LEMMA CallerRefines ==
    ASSUME StateType, NEW t \in Tasks, TaskInv(t), CallerStep(t) \/ CallerFault(t)
    PROVE  RPC!Next \/ UNCHANGED RPC!vars
<1> USE DEF callerVars, peerVars, history, TaskInv
<1>1. CASE UNCHANGED <<starts, returned, expired, answer>>
  BY <1>1, SilentStep
<1>2. CASE Send(t)
  <2>1. CASE t \in Calls
    BY <1>1, <1>2, <2>1 DEF Send
  <2>2. CASE t \notin Calls
    <3>1. answer[t] = "none" /\ answer' = [answer EXCEPT ![t] = "accepted"]
      BY <1>2, <2>2 DEF Send, CallInv
    <3> QED
      BY <1>2, <3>1, AnswerStep DEF Send, Answers
  <2> QED
    BY <2>1, <2>2
<1>3. CASE CallExpires(t)
  <2>1. answer[t] = "none" /\ expired[t] /\ answer' = [answer EXCEPT ![t] = "timeout"]
    BY <1>3 DEF CallExpires, CallInv
  <2> QED
    BY <1>3, <2>1, AnswerStep DEF CallExpires, Answers
<1>4. CASE CallReturns(t)
  <2>1. answer[t] = "none" /\ answer' = [answer EXCEPT ![t] = Decode(reply[t])]
    BY <1>4 DEF CallReturns, CallInv
  <2>2. Decode(reply[t]) \in Answers \ {"none"}
    BY DEF Decode, Answers
  <2>3. Decode(reply[t]) = "value" => returned[t]
    BY DEF Decode, ResultInv
  <2>4. Decode(reply[t]) = "timeout" => expired[t] \/ starts[t] > 0
    BY DEF Decode, ResultInv
  <2> QED
    BY <1>4, <2>1, <2>2, <2>3, <2>4, AnswerStep DEF CallReturns
<1>5. CASE SendInterrupted(t)
  <2>1. answer[t] = "none"
    BY <1>5 DEF SendInterrupted, CallInv
  <2>2. \/ answer' = [answer EXCEPT ![t] = "error"]
        \/ expired[t] /\ answer' = [answer EXCEPT ![t] = "timeout"]
    BY <1>5 DEF SendInterrupted
  <2> QED
    BY <1>5, <2>1, <2>2, AnswerStep DEF SendInterrupted, Answers
<1>6. CASE CallCancelled(t)
  <2>1. answer[t] = "none" /\ answer' = [answer EXCEPT ![t] = "error"]
    BY <1>6 DEF CallCancelled, CallInv
  <2> QED
    BY <1>6, <2>1, AnswerStep DEF CallCancelled, Answers
<1>7. CASE Expire(t)
  <2>1. UNCHANGED <<Execution, answer>>
    BY <1>7 DEF Expire, Execution
  <2>2. RPC!Expire(t)
    BY <1>7, <2>1 DEF Expire, RPC!Expire
  <2> QED
    BY <2>2 DEF RPC!Next
<1>8. \/ UNCHANGED <<starts, returned, expired, answer>>
      \/ Send(t) \/ CallExpires(t) \/ CallReturns(t) \/ SendInterrupted(t)
      \/ CallCancelled(t) \/ Expire(t)
  BY DEF CallerStep, CallerFault, StartCall, Resolve, Consume, ConsumeKeepsRow,
         Receive, Abandon, CleanupEnds, GrowOld, AbandonIncomplete, CleanupFails,
         PumpStops, CallerDies
<1> QED
  BY <1>1, <1>2, <1>3, <1>4, <1>5, <1>6, <1>7, <1>8

LEMMA HandlerRefines ==
    ASSUME StateType, NEW p \in Peers, NEW t \in Tasks, TaskInv(t),
           HandlerStep(p, t) \/ HandlerFault(p, t)
    PROVE  RPC!Next \/ UNCHANGED RPC!vars
<1> USE DEF callerVars, peerVars, history, TaskInv
<1>1. CASE UNCHANGED <<starts, returned, expired, answer>>
  BY <1>1, SilentStep
<1>2. CASE StartHandler(p, t) /\ ~expired[t]
  <2>1. starts[t] = 0 /\ ~returned[t]
    BY <1>2 DEF StartHandler, ClaimInv
  <2>2. starts' = [starts EXCEPT ![t] = 1] /\ UNCHANGED <<returned, expired, answer>>
    BY <1>2, <2>1 DEF StartHandler
  <2>3. Execution[t] = "none"
    BY <2>1 DEF Execution
  <2>4. starts'[t] = 1 /\ ~returned'[t]
    BY <2>1, <2>2 DEF StateType
  <2>5. "begun" = IF returned'[t] THEN "returned"
                  ELSE IF starts'[t] > 0 THEN "begun" ELSE "none"
    BY <2>4
  <2>6. \A u \in Tasks \ {t} : starts'[u] = starts[u] /\ returned'[u] = returned[u]
    BY <2>2 DEF StateType
  <2>7. Execution' = [Execution EXCEPT ![t] = "begun"]
    BY <2>5, <2>6, ExecutionChanges
  <2>8. RPC!Begin(t)
    BY <1>2, <2>2, <2>3, <2>7 DEF RPC!Begin
  <2> QED
    BY <2>8 DEF RPC!Next
<1>3. CASE HandlerReturns(p, t)
  <2>1. starts[t] = 1 /\ ~returned[t]
    BY <1>3 DEF HandlerReturns, ClaimInv
  <2>2. returned' = [returned EXCEPT ![t] = TRUE] /\ UNCHANGED <<starts, expired, answer>>
    BY <1>3 DEF HandlerReturns
  <2>3. Execution[t] = "begun"
    BY <2>1 DEF Execution
  <2>4. returned'[t]
    BY <2>2 DEF StateType
  <2>5. "returned" = IF returned'[t] THEN "returned"
                     ELSE IF starts'[t] > 0 THEN "begun" ELSE "none"
    BY <2>4
  <2>6. \A u \in Tasks \ {t} : starts'[u] = starts[u] /\ returned'[u] = returned[u]
    BY <2>2 DEF StateType
  <2>7. Execution' = [Execution EXCEPT ![t] = "returned"]
    BY <2>5, <2>6, ExecutionChanges
  <2>8. RPC!Return(t)
    BY <2>2, <2>3, <2>7 DEF RPC!Return
  <2> QED
    BY <2>8 DEF RPC!Next
<1>4. \/ UNCHANGED <<starts, returned, expired, answer>>
      \/ StartHandler(p, t) /\ ~expired[t]
      \/ HandlerReturns(p, t)
  BY DEF HandlerStep, HandlerFault, Claim, StartHandler, HandlerFails, CancelHandler,
         MaintenanceTimesOut, CancelTask, Respond, RespondFails
<1> QED
  BY <1>1, <1>2, <1>3, <1>4

(* The database queue keeps the contract of RPC: every behaviour of it is   *)
(* one of RpcContract, for any number of requests, peers and failures.      *)
THEOREM Refinement == Spec => Contract
<1>1. IInv /\ [Next]_vars => [RPC!Next]_(RPC!vars)
  <2> SUFFICES ASSUME IInv, [Next]_vars
               PROVE  RPC!Next \/ UNCHANGED RPC!vars
    OBVIOUS
  <2>1. StateType /\ \A u \in Tasks : TaskInv(u)
    BY InvByTask DEF TypeOK
  <2>2. CASE UNCHANGED vars
    BY <2>2, SilentStep DEF vars, callerVars, history
  <2>3. ASSUME NEW t \in Tasks, CallerStep(t) \/ CallerFault(t)
        PROVE  RPC!Next \/ UNCHANGED RPC!vars
    BY <2>1, <2>3, CallerRefines
  <2>4. ASSUME NEW p \in Peers, NEW t \in Tasks, HandlerStep(p, t) \/ HandlerFault(p, t)
        PROVE  RPC!Next \/ UNCHANGED RPC!vars
    BY <2>1, <2>4, HandlerRefines
  <2>5. ASSUME NEW p \in Peers, PeerStep(p) \/ PeerFault(p)
        PROVE  UNCHANGED RPC!vars
    <3>1. UNCHANGED <<starts, returned, expired, answer>>
      BY <2>5 DEF callerVars, peerVars, history, PeerStep, PeerFault, Fetch, Spawn,
                  StartPeer, Heartbeat, BeginShutdown, StopPeer, LeaseRunsOut,
                  ExpireStale, PollerFails, StopTimesOut, HeartbeatMissed, Crash,
                  StopPoller, LeaseLapses
    <3> QED
      BY <3>1, SilentStep
  <2>6. CASE ClearTask
    BY <2>6, SilentStep DEF ClearTask, callerVars, history
  <2> QED
    BY <2>2, <2>3, <2>4, <2>5, <2>6 DEF Next, Step, Fault
<1> QED
  BY <1>1, ContractInit, Invariant, PTL DEF Spec, Contract, RPC!Spec
-----------------------------------------------------------------------------
(* What a step may do to the row of u: insert it for its sender, claim it,  *)
(* end it while it is unfinished, or delete it: once it has ended, or when  *)
(* nobody waits for its result, or when its own caller gives it up.         *)
Inserted(u) == phase[u] = "sending" /\ row'[u] = NewRow(target[u])

Claimed(u) ==
    /\ row[u].status = "pending"
    /\ \E p \in Peers :
          /\ row'[u] = [row[u] EXCEPT !.status = "processing", !.by = p]
          /\ job'[p][u] = "claimed"

Finished(u) ==
    /\ Unfinished(u)
    /\ \E s \in Terminal : row'[u] = [row[u] EXCEPT !.status = s]

Deleted(u) ==
    /\ row'[u] = NoRow
    /\ \/ ~Unfinished(u) \/ u \notin Calls
       \/ phase[u] = "abandoning" \/ u \in cleanup

RowMoves(u) == row'[u] = row[u] \/ Inserted(u) \/ Claimed(u) \/ Finished(u) \/ Deleted(u)

LEMMA RespondMoves ==
    ASSUME StateType, NEW t \in Tasks, NEW s \in Terminal, RespondRow(t, s), NEW u \in Tasks
    PROVE  RowMoves(u)
<1>1. CASE row[t].status # "processing"
  BY <1>1 DEF RespondRow, Keep, RowMoves
<1>2. CASE row[t].status = "processing" /\ t \notin Calls
  BY <1>2 DEF RespondRow, Delete, RowMoves, Deleted
<1>3. CASE row[t].status = "processing" /\ t \in Calls
  <2>1. row' = [row EXCEPT ![t] = [row[t] EXCEPT !.status = s]]
    BY <1>3 DEF RespondRow
  <2> QED
    BY <1>3, <2>1 DEF StateType, RowMoves, Finished, Unfinished
<1> QED
  BY <1>1, <1>2, <1>3

LEMMA FailMoves ==
    ASSUME StateType, NEW p \in Peers, FailDeliveries(p), NEW u \in Tasks
    PROVE  RowMoves(u)
<1>1. CASE u \notin DeliveriesOf(p)
  BY <1>1 DEF FailDeliveries, RowMoves
<1>2. CASE u \in DeliveriesOf(p) /\ u \in Calls
  <2>1. row'[u] = [row[u] EXCEPT !.status = "failed"]
    BY <1>2 DEF FailDeliveries
  <2> QED
    BY <1>2, <2>1 DEF DeliveriesOf, RowMoves, Finished, Unfinished, Terminal
<1>3. CASE u \in DeliveriesOf(p) /\ u \notin Calls
  BY <1>3 DEF FailDeliveries, RowMoves, Deleted
<1> QED
  BY <1>1, <1>2, <1>3

LEMMA CallerMovesRow ==
    ASSUME StateType, NEW t \in Tasks, CallerStep(t) \/ CallerFault(t), NEW u \in Tasks
    PROVE  RowMoves(u)
<1> USE DEF StateType, RowMoves
<1>1. CASE row' = row
  BY <1>1
<1>2. CASE Insert(t) /\ phase[t] = "sending"
  BY <1>2 DEF Insert, Inserted
<1>3. CASE Delete({t}) /\ (phase[t] = "abandoning" \/ t \in cleanup \/ row[t].status \in Terminal)
  BY <1>3 DEF Delete, Deleted, Unfinished, Terminal
<1> QED
  BY <1>1, <1>2, <1>3
  DEF CallerStep, CallerFault, StartCall, Resolve, Send, CallExpires, Consume, Receive,
      CallReturns, Abandon, CleanupEnds, Expire, GrowOld, SendInterrupted, CallCancelled,
      AbandonIncomplete, CleanupFails, ConsumeKeepsRow, PumpStops, CallerDies, Keep

LEMMA HandlerMovesRow ==
    ASSUME StateType, NEW p \in Peers, NEW t \in Tasks, HandlerStep(p, t) \/ HandlerFault(p, t),
           NEW u \in Tasks
    PROVE  RowMoves(u)
<1>1. CASE row' = row
  BY <1>1 DEF RowMoves
<1>2. CASE ClaimRow(p, t) /\ SetJob(p, t, "claimed")
  <2>1. job'[p][t] = "claimed"
    BY <1>2, SetJobOf
  <2>2. row' = [row EXCEPT ![t] = [row[t] EXCEPT !.status = "processing", !.by = p]]
    BY <1>2 DEF ClaimRow
  <2> QED
    BY <1>2, <2>1, <2>2 DEF StateType, ClaimRow, RowMoves, Claimed
<1>3. CASE job[p][t] \in Responding /\ RespondRow(t, StatusOf(job[p][t]))
  <2>1. StatusOf(job[p][t]) \in Terminal
    BY DEF StatusOf, Terminal
  <2> QED
    BY <1>3, <2>1, RespondMoves
<1> QED
  BY <1>1, <1>2, <1>3
  DEF HandlerStep, HandlerFault, Claim, StartHandler, HandlerReturns, HandlerFails,
      CancelHandler, MaintenanceTimesOut, CancelTask, Respond, RespondFails, Keep

LEMMA PeerMovesRow ==
    ASSUME StateType, NEW p \in Peers, PeerStep(p) \/ PeerFault(p), NEW u \in Tasks
    PROVE  RowMoves(u)
<1>1. row' = row \/ FailDeliveries(p)
  BY DEF PeerStep, PeerFault, Fetch, Spawn, StartPeer, Heartbeat, BeginShutdown, StopPeer,
         LeaseRunsOut, ExpireStale, PollerFails, StopTimesOut, HeartbeatMissed, Crash,
         StopPoller, LeaseLapses, Unregister
<1> QED
  BY <1>1, FailMoves DEF RowMoves

LEMMA ClearMovesRow ==
    ASSUME StateType, ClearTask, NEW u \in Tasks
    PROVE  RowMoves(u)
<1>1. CASE row'[u] = row[u]
  BY <1>1 DEF RowMoves
<1>2. CASE row'[u] = NoRow /\ (row[u].status \in Terminal \/ u \notin Calls)
  BY <1>2 DEF RowMoves, Deleted, Unfinished, Terminal
<1>3. CASE row'[u] = [row[u] EXCEPT !.status = "timeout"] /\ Unfinished(u)
  BY <1>3 DEF RowMoves, Finished, Terminal
<1> QED
  BY <1>1, <1>2, <1>3 DEF ClearTask, Unfinished

LEMMA StepMovesRow ==
    ASSUME TypeOK, [Next]_vars, NEW u \in Tasks
    PROVE  RowMoves(u)
<1>1. CASE UNCHANGED vars
  BY <1>1 DEF vars, RowMoves
<1>2. CASE Next
  BY <1>2, CallerMovesRow, HandlerMovesRow, PeerMovesRow, ClearMovesRow
  DEF Next, Step, Fault, TypeOK
<1> QED
  BY <1>1, <1>2

(* The first result of a request is the only one, and a deleted row does    *)
(* not come back: respond() of a peer given up for dead, a second UPDATE of *)
(* a claim and every retry leave an ended row alone.                        *)
THEOREM ResultsStand == Spec => FirstResultStands
<1>1. ASSUME IInv, [Next]_vars, NEW u \in Tasks
      PROVE  ResultStands(u)
  <2>1. RowMoves(u)
    BY <1>1, StepMovesRow DEF IInv
  <2>2. phase[u] = "sending" => row[u].status = "absent"
    BY <1>1 DEF IInv, CallInv
  <2>3. NoRow.status = "absent"
    BY DEF NoRow
  <2> QED
    BY <2>1, <2>2, <2>3
    DEF ResultStands, RowMoves, Inserted, Claimed, Finished, Deleted, Unfinished, Terminal
<1>2. IInv /\ [Next]_vars => [\A t \in Tasks : ResultStands(t)]_vars
  BY <1>1
<1> QED
  BY <1>2, Invariant, PTL DEF Spec, FirstResultStands

(* The row of a call without a result goes by the abandon() of its own      *)
(* caller and by nobody else: not by the cleaner, a peer that stops, or the *)
(* reconciliation.                                                          *)
THEOREM CallsKept == Spec => UnfinishedCallKept
<1>1. ASSUME TypeOK, [Next]_vars, NEW u \in Calls
      PROVE  Kept(u)
  <2> SUFFICES ASSUME Unfinished(u), row'[u] = NoRow
               PROVE  Deleted(u)
    BY DEF Kept, Deleted
  <2>1. u \in Tasks
    BY ConstantsAssumption
  <2>2. row[u] \in RowType
    BY <1>1, <2>1 DEF TypeOK, StateType
  <2>3. row'[u].status = "absent"
    BY DEF NoRow
  <2>4. ~Inserted(u)
    BY <2>3 DEF Inserted, NewRow
  <2>5. ~Claimed(u)
    <3>1. \A p \in Peers : [row[u] EXCEPT !.status = "processing", !.by = p].status = "processing"
      BY <2>2 DEF RowType
    <3> QED
      BY <2>3, <3>1 DEF Claimed
  <2>6. ~Finished(u)
    <3>1. \A s \in Terminal : [row[u] EXCEPT !.status = s].status # "absent"
      BY <2>2 DEF RowType, Terminal
    <3> QED
      BY <2>3, <3>1 DEF Finished
  <2>7. row'[u] # row[u]
    BY <2>3 DEF Unfinished
  <2> QED
    BY <1>1, <2>1, <2>4, <2>5, <2>6, <2>7, StepMovesRow DEF RowMoves
<1>2. TypeOK /\ [Next]_vars => [\A t \in Calls : Kept(t)]_vars
  BY <1>1
<1> QED
  BY <1>2, TypeCorrect, PTL DEF Spec, UnfinishedCallKept
-----------------------------------------------------------------------------
(* unregister() and expire_stale() of one peer end what is addressed to it  *)
(* or claimed by it.                                                        *)
LEMMA FailRelieves ==
    ASSUME StateType, NEW p \in Peers, FailDeliveries(p)
    PROVE  Relieved(p)
<1> SUFFICES ASSUME NEW t \in Tasks
             PROVE  /\ row'[t].status = "pending" => row'[t].target # p
                    /\ row'[t].status = "processing" => row'[t].by # p
  BY DEF Relieved
<1>1. row[t] \in RowType
  BY DEF StateType
<1>2. CASE t \notin DeliveriesOf(p)
  BY <1>2 DEF FailDeliveries, DeliveriesOf
<1>3. CASE t \in DeliveriesOf(p)
  <2>1. row'[t] \in {NoRow, [row[t] EXCEPT !.status = "failed"]}
    BY <1>3 DEF FailDeliveries
  <2>2. NoRow.status = "absent" /\ [row[t] EXCEPT !.status = "failed"].status = "failed"
    BY <1>1, NewStatus DEF NoRow
  <2> QED
    BY <2>1, <2>2
<1> QED
  BY <1>2, <1>3

(* When the registry declares a peer stopped, no delivery addressed to it   *)
(* or claimed by it is left unfinished.                                     *)
THEOREM StopsEndDeliveries == Spec => StopEndsDeliveries
<1>1. ASSUME TypeOK, [Next]_vars, NEW p \in Peers, reg[p] # "stopped", reg'[p] = "stopped"
      PROVE  Relieved(p)
  <2> USE <1>1 DEF callerVars, peerVars, history
  <2>1. Next
    BY DEF vars
  <2>2. PICK q \in Peers : PeerStep(q) \/ PeerFault(q)
    <3>1. ASSUME NEW t \in Tasks, CallerStep(t) \/ CallerFault(t)
          PROVE  FALSE
      <4>1. reg' = reg
        BY <3>1
        DEF CallerStep, CallerFault, StartCall, Resolve, Send, CallExpires,
            Consume, Receive, CallReturns, Abandon, CleanupEnds, Expire, GrowOld, SendInterrupted,
            CallCancelled, AbandonIncomplete, CleanupFails, ConsumeKeepsRow, PumpStops, CallerDies
      <4> QED
        BY <4>1
    <3>2. ASSUME NEW r \in Peers, NEW t \in Tasks, HandlerStep(r, t) \/ HandlerFault(r, t)
          PROVE  FALSE
      <4>1. reg' = reg
        BY <3>2
        DEF HandlerStep, HandlerFault, Claim, StartHandler, HandlerReturns, HandlerFails,
            CancelHandler, MaintenanceTimesOut, CancelTask, Respond, RespondFails
      <4> QED
        BY <4>1
    <3>3. ~ClearTask
      BY DEF ClearTask
    <3> QED
      BY <2>1, <3>1, <3>2, <3>3 DEF Next, Step, Fault
  <2>3. \/ Unregister(q)
        \/ reg' = reg
        \/ \E s \in {"ready", "draining"} : reg' = [reg EXCEPT ![q] = s]
    BY <2>2
    DEF PeerStep, PeerFault, Fetch, Spawn, StartPeer, Heartbeat, BeginShutdown, StopPeer,
        LeaseRunsOut, ExpireStale, PollerFails, StopTimesOut, HeartbeatMissed, Crash,
        StopPoller, LeaseLapses, TypeOK, StateType
  <2>4. Unregister(p)
    BY <2>3 DEF Unregister, TypeOK, StateType
  <2> QED
    BY <2>4, FailRelieves DEF Unregister, TypeOK
<1>2. TypeOK /\ [Next]_vars =>
         [\A p \in Peers : reg[p] # "stopped" /\ reg'[p] = "stopped" => Relieved(p)]_vars
  BY <1>1
<1> QED
  BY <1>2, TypeCorrect, PTL DEF Spec, StopEndsDeliveries
-----------------------------------------------------------------------------
(* OrphanNeedsFault is inductive when the claimer of a row that has no      *)
(* failure behind it holds the request, and does not only look at it.       *)
OrphanInv(u) ==
    row[u].status = "processing" =>
        /\ row[u].by \in Peers
        /\ \/ job[row[u].by][u] \in Held
           \/ proc[row[u].by] = "stopping"
           \/ faults > 0

LEMMA HandlerKeepsHold ==
    ASSUME StateType, NEW p \in Peers, NEW u \in Tasks, NEW q \in Peers, NEW t \in Tasks,
           HandlerStep(q, t), row[u].status = "processing", row'[u] = row[u],
           job[p][u] \in Held \/ proc[p] = "stopping"
    PROVE  job'[p][u] \in Held \/ proc'[p] = "stopping"
<1>1. proc' = proc
  BY DEF HandlerStep, Claim, StartHandler, HandlerReturns, HandlerFails, CancelHandler,
         CancelTask, Respond, RespondFails, peerVars
<1> SUFFICES ASSUME proc[p] # "stopping", job[p][u] \in Held
             PROVE  job'[p][u] \in Held
  BY <1>1
<1>2. CASE p = q /\ u = t
  <2>1. CASE Respond(q, t)
    <3>1. RespondRow(u, StatusOf(job[p][u])) /\ StatusOf(job[p][u]) # "processing"
      BY <1>2, <2>1 DEF Respond, StatusOf
    <3>2. CASE u \notin Calls
      BY <3>1, <3>2 DEF RespondRow, Delete, NoRow
    <3>3. CASE u \in Calls
      <4>1. row' = [row EXCEPT ![u] = [row[u] EXCEPT !.status = StatusOf(job[p][u])]]
        BY <3>1, <3>3 DEF RespondRow
      <4>2. row[u] \in RowType /\ row'[u] = [row[u] EXCEPT !.status = StatusOf(job[p][u])]
        BY <4>1 DEF StateType
      <4>3. row'[u].status = StatusOf(job[p][u])
        BY <4>2, NewStatus
      <4> QED
        BY <3>1, <4>3
    <3> QED
      BY <3>2, <3>3
  <2>2. job[p][u] # "fetched" /\ ~CancelHandler(q, t)
    BY <1>2 DEF Held, CancelHandler
  <2>3. StartHandler(q, t) \/ HandlerReturns(q, t) \/ HandlerFails(q, t) \/ Respond(q, t)
    BY <1>2, <2>2 DEF HandlerStep, Claim
  <2>4. \A s \in Held : SetJob(q, t, s) => job'[p][u] \in Held
    BY <1>2, SetJobOf DEF Held, JobStates
  <2>5. StartHandler(q, t) => job'[p][u] \in Held
    BY <2>4 DEF StartHandler, Held, JobStates
  <2>6. HandlerReturns(q, t) => job'[p][u] \in Held
    BY <2>4 DEF HandlerReturns, Held, JobStates
  <2>7. HandlerFails(q, t) => job'[p][u] \in Held
    BY <2>4 DEF HandlerFails, Held, JobStates
  <2> QED
    BY <2>1, <2>3, <2>5, <2>6, <2>7
<1>3. CASE ~(p = q /\ u = t)
  <2>1. job'[p][u] = job[p][u]
    BY <1>3, SetJobOf
    DEF HandlerStep, Claim, StartHandler, HandlerReturns, HandlerFails, CancelHandler,
        CancelTask, Respond, RespondFails, JobStates
  <2> QED
    BY <2>1
<1> QED
  BY <1>2, <1>3

LEMMA PeerKeepsHold ==
    ASSUME StateType, NEW p \in Peers, NEW u \in Tasks, NEW q \in Peers, PeerStep(q),
           row[u].status = "processing", row[u].by = p, row'[u] = row[u],
           job[p][u] \in Held \/ proc[p] = "stopping"
    PROVE  job'[p][u] \in Held \/ proc'[p] = "stopping"
<1> USE DEF peerVars, Held, JobStates
<1>1. CASE Fetch(q)
  BY <1>1 DEF Fetch, Candidates, StateType
<1>2. CASE Spawn(q)
  BY <1>2 DEF Spawn, StateType
<1>3. CASE StartPeer(q)
  BY <1>3 DEF StartPeer, StateType
<1>4. CASE BeginShutdown(q)
  BY <1>4 DEF BeginShutdown, StateType
<1>5. CASE StopPeer(q)
  <2>1. p # q
    <3>1. CASE p = q /\ u \in Calls
      <4>1. row'[u] = [row[u] EXCEPT !.status = "failed"]
        BY <1>5, <3>1 DEF StopPeer, StopPoller, Unregister, FailDeliveries, DeliveriesOf
      <4> QED
        BY <4>1, NewStatus DEF StateType
    <3>2. CASE p = q /\ u \notin Calls
      BY <1>5, <3>2 DEF StopPeer, StopPoller, Unregister, FailDeliveries, DeliveriesOf, NoRow
    <3> QED
      BY <3>1, <3>2
  <2> QED
    BY <1>5, <2>1 DEF StopPeer, StopPoller, DropBatch, StateType
<1>6. CASE UNCHANGED <<job, proc>>
  BY <1>6
<1> QED
  BY <1>1, <1>2, <1>3, <1>4, <1>5, <1>6
  DEF PeerStep, Heartbeat, LeaseRunsOut, LeaseLapses, ExpireStale

LEMMA StepKeepsHold ==
    ASSUME StateType, Step, NEW p \in Peers, NEW u \in Tasks,
           row[u].status = "processing", row[u].by = p, row'[u] = row[u],
           job[p][u] \in Held \/ proc[p] = "stopping"
    PROVE  job'[p][u] \in Held \/ proc'[p] = "stopping"
<1>1. CASE UNCHANGED <<job, proc>>
  BY <1>1
<1>2. ASSUME NEW t \in Tasks, CallerStep(t)
      PROVE  UNCHANGED <<job, proc>>
  BY <1>2
  DEF CallerStep, StartCall, Resolve, Send, CallExpires, Consume, Receive, CallReturns,
      Abandon, CleanupEnds, Expire, GrowOld, peerVars
<1>3. ClearTask => UNCHANGED <<job, proc>>
  BY DEF ClearTask, peerVars
<1> QED
  BY <1>1, <1>2, <1>3, HandlerKeepsHold, PeerKeepsHold DEF Step

LEMMA OrphanStep ==
    ASSUME TypeOK, [Next]_vars, NEW u \in Tasks, OrphanInv(u)
    PROVE  OrphanInv(u)'
<1> SUFFICES ASSUME row'[u].status = "processing"
             PROVE  /\ row'[u].by \in Peers
                    /\ \/ job'[row'[u].by][u] \in Held
                       \/ proc'[row'[u].by] = "stopping"
                       \/ faults' > 0
  BY DEF OrphanInv
<1>1. row[u] \in RowType
  BY DEF TypeOK, StateType
<1>2. CASE Claimed(u)
  <2>1. PICK p \in Peers : /\ row'[u] = [row[u] EXCEPT !.status = "processing", !.by = p]
                          /\ job'[p][u] = "claimed"
    BY <1>2 DEF Claimed
  <2>2. row'[u].by = p
    BY <1>1, <2>1 DEF RowType
  <2> QED
    BY <2>1, <2>2 DEF Held, JobStates
<1>3. CASE row'[u] = row[u]
  <2>1. CASE UNCHANGED vars
    BY <1>3, <2>1 DEF vars, peerVars, OrphanInv
  <2>2. CASE Step /\ UNCHANGED faults
    BY <1>3, <2>2, StepKeepsHold DEF OrphanInv, TypeOK
  <2>3. CASE faults' = faults + 1
    BY <1>3, <2>3 DEF OrphanInv, TypeOK
  <2> QED
    BY <2>1, <2>2, <2>3 DEF Next
<1>4. ~Inserted(u)
  BY DEF Inserted, NewRow
<1>5. ~Finished(u)
  <2>1. \A s \in Terminal : [row[u] EXCEPT !.status = s].status # "processing"
    BY <1>1 DEF RowType, Terminal
  <2> QED
    BY <2>1 DEF Finished
<1>6. ~Deleted(u)
  BY DEF Deleted, NoRow
<1> QED
  BY <1>2, <1>3, <1>4, <1>5, <1>6, StepMovesRow DEF RowMoves

(* As long as nothing has failed, a claimed request is in the hands of its  *)
(* claimer, or of a shutdown that will end it.                              *)
THEOREM OrphansNeedFaults == Spec => []OrphanNeedsFault
<1> DEFINE AllTasks == \A u \in Tasks : OrphanInv(u)
<1>1. Init => AllTasks
  BY DEF Init, NoRow, OrphanInv
<1>2. TypeOK /\ AllTasks /\ [Next]_vars => AllTasks'
  BY OrphanStep
<1>3. AllTasks => OrphanNeedsFault
  BY DEF OrphanInv, OrphanNeedsFault, Held
<1> HIDE DEF AllTasks
<1> QED
  BY <1>1, <1>2, <1>3, TypeCorrect, PTL DEF Spec
=============================================================================
