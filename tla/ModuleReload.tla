----------------------------- MODULE ModuleReload -----------------------------
(***************************************************************************)
(* Loading, unloading and reloading modules while the Server runs           *)
(* (ModulesManager.load_module, unload_module, reload_module): the order in *)
(* which the window of the queue and the window of the scheduler are        *)
(* entered, the replacement of registrations, statuses, jobs and runtimes,  *)
(* what is rolled back when a step fails or is cancelled, and the shutdown  *)
(* of the Server (cleanup_sessions) beside all that.                        *)
(*                                                                          *)
(* A step is what a coroutine does between two awaits.  A statement that is *)
(* sent commits in a step of its own.  The window of the queue is that of   *)
(* PeerLifecycle: its owner waits for the other operations, or gives up     *)
(* when a time has passed, which cancels them.                              *)
(***************************************************************************)
EXTENDS SchedulerLifecycle

CONSTANTS
    Kind,             \* what each operation does: "load", "unload", "reload"
    Target,           \* the module that a load or unload names
    Package,          \* the modules that one reload replaces together
    Users,            \* the modules that spawn tasks and open resources
    Failures,         \* which failures happen, see FailureKinds
    MaxFaults         \* bound on the failures of one behaviour

(* cancel: the deadline of an operation cancels it.  database: a statement  *)
(* on ModuleStatus is refused.  build: the new code cannot be imported, or  *)
(* its database context not be prepared.  slow: the poll lock is not had in *)
(* time, or an operation is not done in time when the Server stops.         *)
FailureKinds == {"cancel", "database", "build", "slow"}

ASSUME ReloadAssumption ==
    /\ Kind \in [Operations -> {"load", "unload", "reload"}]
    /\ Target \in [Operations -> Modules]
    /\ Package \subseteq Modules /\ Users \subseteq Modules
    /\ Failures \subseteq FailureKinds
    /\ MaxFaults \in Nat
    /\ Generations \subseteq Nat \ {0} /\ 1 \in Generations
    /\ {Free, Shutdown} \cap Operations = {}

VARIABLES
    status,           \* the rows of ModuleStatus
    loaded,           \* _db_load of each registered Module
    registered,       \* the generation of each registered Module
    pc,               \* where each operation stands
    oldLoad,          \* what a load or unload read before its windows
    undo,             \* what a reload goes back to
    queueOwner,       \* the holder of the queue's _maintenance_lock
    cancelled,        \* operations with a cancellation not yet delivered
    shutdown,         \* where cleanup_sessions stands
    torn,             \* history: a roll-back was cut short, or came too late
    faults            \* how many failures have happened

moduleVars == <<status, loaded, registered>>
operationVars == <<pc, oldLoad, undo, queueOwner, cancelled>>
vars == <<schedulerVars, runtimeVars, moduleVars, operationVars, shutdown, torn, faults>>

Statuses == {"on", "off", "absent"}
StatusOf(load) == IF load THEN "on" ELSE "off"

Ended == {"idle", "ended"}
Waiting == {"queueing", "draining", "expired", "locking", "quieting"}
Switching == {"writing", "written", "suspending", "suspendingCut",
              "undoing", "undone", "resuspending"}
Building == {"reading", "deleting", "inserting", "inserted", "preparing"}
Committing == {"stopping", "stoppingCut", "switching", "closing", "closingCut"}
Restoring == {"restoring", "reinserting", "restored"}
InBody == Switching \cup Building \cup Committing \cup Restoring

Busy == {o \in Operations : pc[o] \notin Ended}
Scope(o) == IF Kind[o] = "reload" THEN Modules ELSE {Target[o]}

TypeOK ==
    /\ SchedulerTypeOK /\ RuntimesTypeOK
    /\ status \in [Modules -> Statuses]
    /\ loaded \in [Modules -> BOOLEAN]
    /\ registered \in [Modules -> Generations]
    /\ pc \in [Operations -> Ended \cup Waiting \cup InBody]
    /\ oldLoad \in [Operations -> BOOLEAN]
    /\ undo \in [status : [Modules -> Statuses], loaded : [Modules -> BOOLEAN],
                 registered : [Modules -> Generations], installed : [Modules -> Nat]]
    /\ queueOwner \in Operations \cup {Free}
    /\ cancelled \subseteq Operations
    /\ shutdown \in {"none", "queue", "waiting", "locking", "quieting",
                     "stopping", "staged", "done"}
    /\ torn \in BOOLEAN
    /\ faults \in 0 .. MaxFaults

Init ==
    /\ SchedulerInit([m \in Modules |-> 1]) /\ RuntimesInit
    /\ status = [m \in Modules |-> "on"]
    /\ loaded = [m \in Modules |-> TRUE]
    /\ registered = [m \in Modules |-> 1]
    /\ pc = [o \in Operations |-> "idle"]
    /\ oldLoad = [o \in Operations |-> TRUE]
    /\ undo = [status |-> status, loaded |-> loaded,
               registered |-> registered, installed |-> installed]
    /\ queueOwner = Free
    /\ cancelled = {}
    /\ shutdown = "none" /\ torn = FALSE /\ faults = 0

Fault(kind) == kind \in Failures /\ faults < MaxFaults /\ faults' = faults + 1
------------------------------------------------------------------------------
(* How the operations move.  One whose cancellation is pending does nothing *)
(* before it is delivered, but what it has sent may still commit.           *)

At(o, state) == pc[o] = state /\ o \notin cancelled
Goes(o, to) == pc' = [pc EXCEPT ![o] = to]

JobsKept == UNCHANGED <<saved, shuttingDown, executing>>
Still == UNCHANGED <<accepting, owner, queueOwner, cancelled>>
Alone == UNCHANGED <<oldLoad, undo, shutdown, torn>>

(* Both windows are left.                                                   *)
Ends(o) ==
    /\ Goes(o, "ended")
    /\ IF owner = o THEN CloseWindow ELSE UNCHANGED <<accepting, owner>>
    /\ queueOwner' = IF queueOwner = o THEN Free ELSE queueOwner
    /\ cancelled' = cancelled \ {o}

(* reconcile_modules(): the jobs of the registered and loaded modules.      *)
Reconcile(scope, load, code) ==
    Install(scope, [m \in Modules |-> IF load[m] THEN code[m] ELSE None])

(* A request that was claimed before the window of the queue may start      *)
(* while that drains.                                                       *)
Begin(o) ==
    /\ pc[o] = "idle" /\ shutdown \in {"none", "queue"}
    /\ queueOwner # Free => pc[queueOwner] = "draining"
    /\ oldLoad' = [oldLoad EXCEPT ![o] = loaded[Target[o]]]
    /\ Goes(o, IF Kind[o] = "load" THEN "locking"
               ELSE IF Kind[o] = "reload" /\ \E p \in Busy : Kind[p] = "reload"
               THEN "ended" ELSE "queueing")
    /\ UNCHANGED <<schedulerVars, runtimeVars, moduleVars, undo, queueOwner,
                   cancelled, shutdown, torn, faults>>

WaitsOnly(o, from, to) ==
    /\ At(o, from) /\ Goes(o, to)
    /\ UNCHANGED <<schedulerVars, runtimeVars, moduleVars, faults>> /\ Alone

TakeQueue(o) ==
    /\ queueOwner = Free /\ queueOwner' = o
    /\ WaitsOnly(o, "queueing", "draining") /\ UNCHANGED cancelled

Drained(o) ==
    /\ Busy = {o}
    /\ WaitsOnly(o, "draining", "locking") /\ UNCHANGED <<queueOwner, cancelled>>

(* Mutant of DrainTimesOut: nothing bounds the wait. *)
DrainNeverTimesOut(o) == FALSE

DrainTimesOut(o) ==
    /\ Busy # {o}
    /\ cancelled' = Busy \ {o}
    /\ WaitsOnly(o, "draining", "expired") /\ UNCHANGED queueOwner

DrainExpired(o) ==
    /\ At(o, "expired") /\ Busy = {o}
    /\ Ends(o)
    /\ UNCHANGED <<runtimeVars, moduleVars, installed, faults>> /\ JobsKept /\ Alone

TakeWindow(o) ==
    /\ At(o, "locking") /\ Goes(o, "quieting")
    /\ OpenWindow(o)
    /\ UNCHANGED <<runtimeVars, moduleVars, queueOwner, cancelled, faults>> /\ Alone
------------------------------------------------------------------------------
(* load_module() and unload_module().                                       *)

Body(o, from, to) ==
    /\ At(o, from) /\ Goes(o, to) /\ UNCHANGED faults
    /\ JobsKept /\ Still /\ Alone

StartSwitch(o) ==
    /\ Kind[o] # "reload" /\ Quiet(Scope(o))
    /\ Body(o, "quieting", "writing")
    /\ UNCHANGED <<installed, runtimeVars, moduleVars>>

Statement(o, from, to, rows) ==
    /\ pc[o] = from /\ Goes(o, to)
    /\ status' = rows
    /\ UNCHANGED <<schedulerVars, runtimeVars, loaded, registered, queueOwner, cancelled, faults>>
    /\ Alone

WriteStatus(o) ==
    Statement(o, "writing", "written",
              [status EXCEPT ![Target[o]] = StatusOf(Kind[o] = "load")])

WriteFails(o) ==
    /\ Fault("database")
    /\ At(o, "writing") /\ Goes(o, "undoing")
    /\ UNCHANGED <<schedulerVars, runtimeVars, moduleVars, queueOwner, cancelled>> /\ Alone

(* _db_load is set, the job follows it, and the runtime with it.            *)
Sets(o, load) ==
    /\ loaded' = [loaded EXCEPT ![Target[o]] = load]
    /\ Reconcile({Target[o]}, loaded', registered)
    /\ IF load THEN Activate({Target[o]}) ELSE Stop(Of({Target[o]}, current))
    /\ UNCHANGED <<status, registered>>

Loaded(o) ==
    /\ Kind[o] = "load" /\ At(o, "written")
    /\ Sets(o, TRUE)
    /\ Ends(o) /\ UNCHANGED faults
    /\ JobsKept /\ Alone

Unloaded(o) ==
    /\ Kind[o] = "unload" /\ Body(o, "written", "suspending")
    /\ Sets(o, FALSE)

(* A cancellation that stop() has kept back comes out now.                  *)
Suspended(o) ==
    /\ stopping = {}
    /\ \/ At(o, "suspending") /\ Ends(o)
       \/ At(o, "suspendingCut") /\ Goes(o, "undoing") /\ Still
    /\ UNCHANGED <<runtimeVars, moduleVars, installed, faults>> /\ JobsKept /\ Alone

UndoWrite(o) ==
    Statement(o, "undoing", "undone", [status EXCEPT ![Target[o]] = StatusOf(oldLoad[o])])

(* The restoration fails, which is only logged: nothing else is restored.   *)
UndoFails(o) ==
    /\ Fault("database")
    /\ At(o, "undoing") /\ Ends(o) /\ torn' = TRUE
    /\ UNCHANGED <<runtimeVars, moduleVars, installed, oldLoad, undo, shutdown>>
    /\ JobsKept

(* Mutant of Undone: the job and the runtime are left as they are. *)
UndoneStatusOnly(o) ==
    /\ At(o, "undone") /\ Ends(o) /\ UNCHANGED <<status, registered, installed, runtimeVars>>
    /\ loaded' = [loaded EXCEPT ![Target[o]] = oldLoad[o]]
    /\ UNCHANGED faults /\ JobsKept /\ Alone

(* The roll-back of a stop() that was broken off stops the runtime again:   *)
(* one that by now has only a resource still being made is not stopped.     *)
Overlooked(o) ==
    ~oldLoad[o] /\ \E r \in Of({Target[o]}, current) \ active :
                      resource[r] = "creating" /\ r \notin stopping'

Undone(o) ==
    /\ At(o, "undone")
    /\ Sets(o, oldLoad[o])
    /\ IF oldLoad[o] THEN Ends(o) ELSE Goes(o, "resuspending") /\ Still
    /\ torn' = (torn \/ Overlooked(o))
    /\ UNCHANGED <<oldLoad, undo, shutdown, faults>> /\ JobsKept

Resuspended(o) ==
    /\ At(o, "resuspending") /\ stopping = {}
    /\ Ends(o)
    /\ UNCHANGED <<runtimeVars, moduleVars, installed, faults>> /\ JobsKept /\ Alone
------------------------------------------------------------------------------
(* reload_module(): up to the commit.                                       *)

Prepare(o) ==
    /\ Kind[o] = "reload" /\ Quiet(Scope(o))
    /\ Body(o, "quieting", "reading")
    /\ Stage(Package)
    /\ UNCHANGED <<installed, moduleVars>>

(* The roll-back before a registration or a status was replaced.            *)
Abort(o) ==
    /\ Ends(o)
    /\ Unstage
    /\ UNCHANGED <<current, active, spawned, resource, stopping, moduleVars, installed>>
    /\ JobsKept /\ Alone

BuildFails(o) ==
    /\ \E kind \in {"build", "database"} : Fault(kind)
    /\ At(o, "reading") /\ Abort(o)

(* The statuses are read and the new code registers itself.                 *)
Import(o) ==
    /\ At(o, "reading") /\ Goes(o, "deleting")
    /\ undo' = [status |-> status, loaded |-> loaded,
                registered |-> registered, installed |-> installed]
    /\ registered' = [m \in Modules |-> IF m \in Package THEN staging[m] ELSE registered[m]]
    /\ loaded' = [m \in Modules |-> IF m \in Package THEN status[m] # "off" ELSE loaded[m]]
    /\ UNCHANGED <<runtimeVars, status, installed, oldLoad, shutdown, torn, faults>>
    /\ JobsKept /\ Still

Rows(some) == [m \in Modules |-> IF m \in Package THEN some[m] ELSE status[m]]
NoRows == [m \in Modules |-> "absent"]

DeleteStatuses(o) == Statement(o, "deleting", "inserting", Rows(NoRows))

InsertStatuses(o) ==
    Statement(o, "inserting", "inserted", Rows([m \in Modules |-> StatusOf(loaded[m])]))

StatementFails(o) ==
    /\ Fault("database")
    /\ (At(o, "deleting") \/ At(o, "inserting"))
    /\ Goes(o, "restoring")
    /\ UNCHANGED <<schedulerVars, runtimeVars, moduleVars, queueOwner, cancelled>> /\ Alone

Reconciled(o) ==
    /\ Body(o, "inserted", "preparing")
    /\ Reconcile(Package, loaded, registered)
    /\ UNCHANGED <<runtimeVars, moduleVars>>

PrepareFails(o) ==
    /\ Fault("build")
    /\ At(o, "preparing") /\ Goes(o, "restoring")
    /\ UNCHANGED <<schedulerVars, runtimeVars, moduleVars, queueOwner, cancelled>> /\ Alone
------------------------------------------------------------------------------
(* The commit, and what follows it.                                         *)

Commit(o) ==
    /\ Body(o, "preparing", "stopping")
    /\ Replace(Package, loaded)
    /\ UNCHANGED <<installed, moduleVars>>

OldStopped(o) ==
    /\ stopping = {}
    /\ Body(o, "stopping", "switching") \/ Body(o, "stoppingCut", "switching")
    /\ UNCHANGED <<installed, runtimeVars, moduleVars>>

(* The new database context is published, and the old one closed under the  *)
(* poll lock.                                                               *)
SwitchDatabase(o) ==
    /\ Body(o, "switching", "closing")
    /\ UNCHANGED <<installed, runtimeVars, moduleVars>>

PollLockTimesOut(o) ==
    /\ Fault("slow")
    /\ At(o, "switching") /\ Goes(o, "restoring") /\ torn' = TRUE
    /\ UNCHANGED <<schedulerVars, runtimeVars, moduleVars, queueOwner, cancelled,
                   oldLoad, undo, shutdown>>

Committed(o) ==
    /\ At(o, "closing") \/ At(o, "closingCut")
    /\ Ends(o)
    /\ UNCHANGED <<runtimeVars, moduleVars, installed, faults>> /\ JobsKept /\ Alone
------------------------------------------------------------------------------
(* The roll-back of a reload that had not finished.                         *)

RestoreDelete(o) == Statement(o, "restoring", "reinserting", Rows(NoRows))
RestoreInsert(o) == Statement(o, "reinserting", "restored", Rows(undo.status))

(* It is logged when the statuses cannot be restored, and the rest is.      *)
RestoreFails(o) ==
    /\ Fault("database")
    /\ At(o, "restoring") \/ At(o, "reinserting")
    /\ Goes(o, "restored") /\ torn' = TRUE
    /\ UNCHANGED <<schedulerVars, runtimeVars, moduleVars, queueOwner, cancelled,
                   oldLoad, undo, shutdown>>

(* Mutant of Restored: the jobs of the new code stay. *)
RestoredButJobs(o) ==
    /\ At(o, "restored") /\ Ends(o)
    /\ registered' = undo.registered /\ loaded' = undo.loaded
    /\ Unstage
    /\ UNCHANGED <<status, installed, current, active, spawned, resource, stopping, faults>>
    /\ JobsKept /\ Alone

Restored(o) ==
    /\ At(o, "restored") /\ Ends(o)
    /\ registered' = undo.registered /\ loaded' = undo.loaded
    /\ Install(Package, undo.installed)
    /\ Unstage
    /\ UNCHANGED <<status, current, active, spawned, resource, stopping, faults>>
    /\ JobsKept /\ Alone
------------------------------------------------------------------------------
(* Cancellation, by a deadline or by the shutdown.                          *)

DeadlinePasses(o) ==
    /\ Fault("cancel")
    /\ o \in Busy \ cancelled
    /\ cancelled' = cancelled \cup {o}
    /\ UNCHANGED <<schedulerVars, runtimeVars, moduleVars, pc, oldLoad, undo, queueOwner>>
    /\ UNCHANGED <<shutdown, torn>>

Cut(o) == o \in cancelled /\ UNCHANGED <<oldLoad, undo, shutdown, faults>>

CancelledTo(o, to) ==
    /\ Goes(o, to) /\ cancelled' = cancelled \ {o}
    /\ UNCHANGED <<schedulerVars, queueOwner, moduleVars>>

(* Before its body an operation just ends; the drain passes the             *)
(* cancellation on to those it waits for.                                   *)
CancelledWaiting(o) ==
    /\ Cut(o) /\ UNCHANGED <<runtimeVars, moduleVars, torn>>
    /\ \/ /\ pc[o] \in {"queueing", "locking", "quieting"} /\ Ends(o)
          /\ UNCHANGED installed /\ JobsKept
       \/ /\ pc[o] = "draining" /\ Goes(o, "expired")
          /\ cancelled' = Busy \ {o}
          /\ UNCHANGED <<schedulerVars, queueOwner>>
       \/ pc[o] = "expired" /\ CancelledTo(o, "expired")

(* A load or unload goes to its roll-back; stop() comes to its end first,   *)
(* unless it is cancelled twice.                                            *)
CancelledSwitching(o) ==
    /\ Cut(o) /\ UNCHANGED <<current, staging, active, spawned, resource, moduleVars, torn>>
    /\ \/ pc[o] \in {"writing", "written"} /\ CancelledTo(o, "undoing") /\ UNCHANGED stopping
       \/ pc[o] = "suspending" /\ CancelledTo(o, "suspendingCut") /\ UNCHANGED stopping
       \/ pc[o] = "suspendingCut" /\ CancelledTo(o, "undoing") /\ stopping' = {}
       \/ pc[o] = "resuspending" /\ CancelledTo(o, "resuspending") /\ UNCHANGED stopping

(* The roll-back of a load or unload is itself cancelled: it ends there.    *)
CancelledUndoing(o) ==
    /\ Cut(o) /\ pc[o] \in {"undoing", "undone"}
    /\ Ends(o) /\ torn' = TRUE
    /\ UNCHANGED <<runtimeVars, moduleVars, installed>> /\ JobsKept

CancelledReading(o) ==
    /\ Cut(o) /\ pc[o] = "reading"
    /\ Ends(o) /\ Unstage
    /\ UNCHANGED <<current, active, spawned, resource, stopping, moduleVars, installed, torn>>
    /\ JobsKept

CancelledBuilding(o) ==
    /\ Cut(o) /\ pc[o] \in Building \ {"reading"} /\ CancelledTo(o, "restoring")
    /\ UNCHANGED <<runtimeVars, moduleVars, torn>>

(* Mutant of CancelledCommitting: the commit is not shielded. *)
CancelledCommittingAtOnce(o) ==
    /\ Cut(o) /\ pc[o] \in Committing
    /\ CancelledTo(o, "restoring") /\ stopping' = {}
    /\ UNCHANGED <<current, staging, active, spawned, resource, moduleVars, torn>>

(* The commit and the closing of the old database context are shielded from *)
(* a first cancellation, which comes out at the end, and not from a second. *)
(* While the poll lock is waited for in between, the reload does not count  *)
(* as committed: it is rolled back.                                         *)
CancelledCommitting(o) ==
    /\ Cut(o) /\ UNCHANGED <<current, staging, active, spawned, resource, moduleVars>>
    /\ \/ pc[o] = "stopping" /\ CancelledTo(o, "stoppingCut") /\ UNCHANGED <<stopping, torn>>
       \/ pc[o] = "closing" /\ CancelledTo(o, "closingCut") /\ UNCHANGED <<stopping, torn>>
       \/ /\ pc[o] \in {"stoppingCut", "switching", "closingCut"}
          /\ CancelledTo(o, "restoring")
          /\ stopping' = {} /\ torn' = TRUE

(* A roll-back that is cancelled does not restore what is left.             *)
CancelledRestoring(o) ==
    /\ Cut(o) /\ pc[o] \in Restoring
    /\ Ends(o) /\ torn' = TRUE
    /\ UNCHANGED <<runtimeVars, moduleVars, installed>> /\ JobsKept
------------------------------------------------------------------------------
(* cleanup_sessions().                                                      *)

Stops(from, to) ==
    /\ shutdown = from /\ shutdown' = to
    /\ UNCHANGED <<moduleVars, pc, oldLoad, undo, queueOwner, torn, faults>>

BeginShutdown ==
    /\ Stops("none", "queue") /\ CloseEntrance
    /\ UNCHANGED <<runtimeVars, cancelled>>

(* The queue takes no more requests; its handlers are cancelled.            *)
CancelOperations ==
    /\ Stops("queue", "waiting") /\ cancelled' = Busy
    /\ UNCHANGED <<schedulerVars, runtimeVars>>

OperationsGone ==
    /\ Busy = {} \/ "slow" \in Failures
    /\ Stops("waiting", "locking")
    /\ UNCHANGED <<schedulerVars, runtimeVars, cancelled>>

(* SchedulerLifecycle.shutdown().                                           *)
TakeForShutdown ==
    /\ Stops("locking", "quieting") /\ LockForShutdown
    /\ UNCHANGED <<runtimeVars, cancelled>>

SchedulerStopped ==
    /\ Stops("quieting", "stopping") /\ ClearJobs
    /\ Stop(Of(Modules, current))
    /\ UNCHANGED cancelled

(* ModuleRuntimeManager.shutdown().                                         *)
CurrentStopped ==
    /\ Stops("stopping", "staged") /\ stopping = {}
    /\ Stop(Of({m \in Modules : staging[m] # Unstaged}, staging))
    /\ UNCHANGED <<schedulerVars, cancelled>>

StagedStopped ==
    /\ Stops("staged", "done") /\ stopping = {}
    /\ Unstage
    /\ UNCHANGED <<schedulerVars, current, active, spawned, resource, stopping, cancelled>>
------------------------------------------------------------------------------
Cancelled(o) ==
    \/ CancelledWaiting(o) \/ CancelledSwitching(o) \/ CancelledUndoing(o)
    \/ CancelledReading(o) \/ CancelledBuilding(o) \/ CancelledCommitting(o)
    \/ CancelledRestoring(o)

SwitchStep(o) ==
    \/ StartSwitch(o) \/ WriteStatus(o) \/ Loaded(o) \/ Unloaded(o) \/ Suspended(o)
    \/ UndoWrite(o) \/ Undone(o) \/ Resuspended(o)

ReloadStep(o) ==
    \/ Prepare(o) \/ Import(o) \/ DeleteStatuses(o) \/ InsertStatuses(o) \/ Reconciled(o)
    \/ Commit(o) \/ OldStopped(o) \/ SwitchDatabase(o) \/ Committed(o)
    \/ RestoreDelete(o) \/ RestoreInsert(o) \/ Restored(o)

Step(o) ==
    \/ TakeQueue(o) \/ Drained(o) \/ DrainTimesOut(o) \/ DrainExpired(o) \/ TakeWindow(o)
    \/ SwitchStep(o) \/ ReloadStep(o) \/ Cancelled(o)

Failing(o) ==
    \/ WriteFails(o) \/ UndoFails(o) \/ BuildFails(o) \/ StatementFails(o)
    \/ PrepareFails(o) \/ PollLockTimesOut(o) \/ RestoreFails(o) \/ DeadlinePasses(o)

RuntimeStep(r) == BeginStop(r) \/ EndStop(r) \/ ResourceMade(r) \/ TaskEnds(r)
RuntimeUse(r) == GetResource(r) \/ Spawn(r)

ShutdownStep ==
    \/ CancelOperations \/ OperationsGone \/ TakeForShutdown \/ SchedulerStopped
    \/ CurrentStopped \/ StagedStopped

JobAlone == UNCHANGED <<runtimeVars, moduleVars, operationVars, shutdown, torn, faults>>
RuntimeAlone ==
    UNCHANGED <<schedulerVars, moduleVars, operationVars, shutdown, torn, faults>>

Next ==
    \/ \E o \in Operations : Begin(o) \/ Step(o) \/ Failing(o)
    \/ (\E m \in Modules : Launch(m) \/ JobEnds(m)) /\ JobAlone
    \/ (\E r \in Runtimes : RuntimeStep(r)) /\ RuntimeAlone
    \/ (\E r \in Users \X Generations : RuntimeUse(r)) /\ RuntimeAlone
    \/ BeginShutdown \/ ShutdownStep

Spec == Init /\ [][Next]_vars

(* Coroutines run on, jobs and tasks end once they are cancelled, and a     *)
(* factory returns or is timed out.                                         *)
Fairness ==
    /\ \A o \in Operations : WF_vars(Step(o))
    /\ \A m \in Modules : WF_vars(JobEnds(m) /\ JobAlone)
    /\ \A r \in Runtimes :
          /\ WF_vars((BeginStop(r) \/ EndStop(r)) /\ RuntimeAlone)
          /\ WF_vars(ResourceMade(r) /\ RuntimeAlone)
          /\ WF_vars(TaskEnds(r) /\ RuntimeAlone)
    /\ WF_vars(ShutdownStep)

FairSpec == Spec /\ Fairness
------------------------------------------------------------------------------
(* When no operation is under way and the Server is not stopping, the row,  *)
(* the registration, the job and the runtime of every module tell the same  *)
(* story, whatever failed or was cancelled on the way, unless a roll-back   *)
(* itself was cut short or came too late (loader.py).                       *)
AtRest == Busy = {} /\ ~shuttingDown /\ ~torn

AgreeAtRest ==
    AtRest => \A m \in Modules :
        /\ (status[m] = "on") <=> loaded[m]
        /\ installed[m] = IF loaded[m] THEN registered[m] ELSE None
        /\ registered[m] = current[m] /\ staging[m] = Unstaged
        /\ \A g \in Generations : <<m, g>> \in active <=> loaded[m] /\ g = current[m]

(* Between the opening of a scheduler window and its end no job of a module *)
(* it covers runs, so that no old code sees a half-replaced module, and     *)
(* outside of it none runs the code of an earlier registration.             *)
WindowQuiet ==
    /\ \A o \in Operations : pc[o] \in InBody =>
          owner = o /\ \A m \in Scope(o) : executing[m] = None
    /\ \A m \in Modules : ~torn => executing[m] \in {None, registered[m]}

(* A runtime that was stopped keeps neither a task nor a resource, even one *)
(* whose creation was under way when it was stopped.  A stop() that a       *)
(* second cancellation broke off is mended by the roll-back that follows,   *)
(* unless this finds no more than a resource that is still being made.      *)
StoppedIsClosed ==
    ~torn /\ (\A o \in Operations : pc[o] \notin {"undoing", "undone"}) =>
        \A r \in Runtimes : r \notin active \cup stopping =>
            r \notin spawned /\ resource[r] = "closed"

(* From the first step of a stop on no job may start, whatever window is    *)
(* left meanwhile; when the scheduler is shut down none runs, and after the *)
(* runtimes are nothing of any module is alive: also when an operation did  *)
(* not end in time.                                                         *)
QuietAfterShutdown ==
    /\ shuttingDown => ~accepting
    /\ shutdown \in {"stopping", "staged", "done"} =>
          \A m \in Modules : executing[m] = None
    /\ shutdown = "done" /\ ~torn => active = {} /\ spawned = {}

(* Every load, unload and reload comes to an end, also when several of them *)
(* wait for each other in the windows.                                      *)
OperationsEnd == \A o \in Operations : (o \in Busy) ~> (o \notin Busy)

(* What a reload has committed is not rolled back (the comment at the       *)
(* commit in loader.py): at rest the registration is that of the runtime.   *)
CommitIsFinal ==
    Busy = {} /\ ~shuttingDown => \A m \in Modules : registered[m] = current[m]
==============================================================================
