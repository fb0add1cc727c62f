-------------------------- MODULE ModuleReloadProofs --------------------------
(***************************************************************************)
(* Proofs about ModuleReload, for any number of operations on any modules,  *)
(* with every kind of failure and cancellation, and the shutdown beside.    *)
(***************************************************************************)
EXTENDS ModuleReload, TLAPS

USE DEF schedulerVars, runtimeVars, moduleVars, operationVars

(* What a step of an operation does to the windows: it stays inside, enters *)
(* the window of the scheduler, leaves everything, or stays outside.        *)
InWindow == {"quieting"} \cup InBody
OpStep(o) == Begin(o) \/ Step(o) \/ Failing(o)

Inside(o) ==
    /\ pc[o] \in InWindow /\ pc'[o] \in InWindow
    /\ UNCHANGED <<accepting, owner, saved>>
Enters(o) ==
    /\ pc[o] = "locking" /\ pc'[o] = "quieting" /\ o \notin cancelled
    /\ owner = Free /\ owner' = o /\ saved' = accepting /\ accepting' = FALSE
Leaves(o) ==
    /\ pc[o] \in InWindow \cup {"queueing", "locking", "expired"}
    /\ pc'[o] = "ended" /\ saved' = saved
    /\ IF owner = o THEN CloseWindow ELSE UNCHANGED <<accepting, owner>>
StaysOut(o) ==
    /\ pc[o] \notin InWindow /\ pc'[o] \notin InWindow
    /\ UNCHANGED <<accepting, owner, saved>>

Control(o) ==
    /\ \A p \in Operations \ {o} :
          /\ pc'[p] = pc[p]
          /\ p \in cancelled /\ p \in Busy => p \in cancelled'
    /\ UNCHANGED <<executing, shuttingDown, shutdown>>
    /\ Inside(o) \/ Enters(o) \/ Leaves(o) \/ StaysOut(o)
    /\ pc'[o] \in Waiting \ {"expired"} =>
          \/ pc[o] = "idle" /\ shutdown \in {"none", "queue"}
          \/ /\ pc[o] \in Waiting \ {"expired"}
             /\ o \notin cancelled \/ o \in cancelled'
    /\ pc'[o] \in InBody => pc[o] \in InWindow

PcStates == Ended \cup Waiting \cup InBody
PcOK == pc \in [Operations -> PcStates]

LEMMA GoesTo ==
    ASSUME PcOK, NEW o \in Operations, NEW to, Goes(o, to)
    PROVE  pc'[o] = to /\ \A p \in Operations \ {o} : pc'[p] = pc[p]
BY DEF PcOK, Goes

LEMMA StatementControl ==
    ASSUME PcOK, NEW o \in Operations, NEW from \in InBody, NEW to \in InBody, NEW rows,
           Statement(o, from, to, rows)
    PROVE  Control(o)
BY GoesTo DEF Statement, Control, Inside, InWindow, Alone, Waiting, InBody,
   Switching, Building, Committing, Restoring

LEMMA BodyControl ==
    ASSUME PcOK, NEW o \in Operations, NEW from \in InWindow, NEW to \in InBody,
           Body(o, from, to)
    PROVE  Control(o)
BY GoesTo DEF Body, At, Control, Inside, InWindow, Alone, Still, JobsKept, Waiting, InBody,
   Switching, Building, Committing, Restoring

LEMMA EndsControl ==
    ASSUME PcOK, NEW o \in Operations, Ends(o), JobsKept, UNCHANGED shutdown,
           pc[o] \in InWindow \cup {"queueing", "locking", "expired"}
    PROVE  Control(o)
<1>1. pc'[o] = "ended" /\ \A p \in Operations \ {o} : pc'[p] = pc[p]
  BY GoesTo DEF Ends
<1>2. Leaves(o)
  BY <1>1 DEF Ends, Leaves, JobsKept, CloseWindow
<1> QED
  BY <1>1, <1>2 DEF Ends, Control, JobsKept, Waiting, InBody,
     Switching, Building, Committing, Restoring

(* A step within the body that leaves the windows alone.                     *)
LEMMA MoveControl ==
    ASSUME PcOK, NEW o \in Operations, NEW to \in InBody, Goes(o, to),
           pc[o] \in InWindow,
           UNCHANGED <<accepting, owner, saved, executing, shuttingDown, shutdown>>,
           cancelled' = cancelled \/ cancelled' = cancelled \ {o}
    PROVE  Control(o)
BY GoesTo DEF Control, Inside, InWindow, Waiting, InBody,
   Switching, Building, Committing, Restoring

LEMMA WaitControl ==
    ASSUME PcOK, NEW o \in Operations,
           \/ Begin(o) \/ TakeQueue(o) \/ Drained(o) \/ DrainTimesOut(o) \/ DrainExpired(o)
           \/ TakeWindow(o) \/ CancelledWaiting(o) \/ DeadlinePasses(o)
    PROVE  Control(o)
<1> USE DEF InWindow, Waiting, InBody, Switching, Building, Committing, Restoring
<1>1. CASE Begin(o)
  <2>1. /\ pc[o] = "idle" /\ shutdown \in {"none", "queue"}
        /\ pc'[o] \in {"locking", "ended", "queueing"}
        /\ \A p \in Operations \ {o} : pc'[p] = pc[p]
        /\ UNCHANGED <<schedulerVars, cancelled, shutdown>>
    BY <1>1, GoesTo DEF Begin
  <2> QED
    BY <2>1 DEF Control, StaysOut
<1>2. CASE TakeQueue(o) \/ Drained(o) \/ DrainTimesOut(o)
  <2>1. \/ pc[o] = "queueing" /\ pc'[o] = "draining" /\ cancelled' = cancelled /\ o \notin cancelled
        \/ pc[o] = "draining" /\ pc'[o] = "locking" /\ cancelled' = cancelled /\ o \notin cancelled
        \/ pc[o] = "draining" /\ pc'[o] = "expired" /\ cancelled' = Busy \ {o}
    BY <1>2, GoesTo DEF TakeQueue, Drained, DrainTimesOut, WaitsOnly, At
  <2>2. /\ \A p \in Operations \ {o} : pc'[p] = pc[p]
        /\ UNCHANGED <<schedulerVars, shutdown>>
    BY <1>2, GoesTo DEF TakeQueue, Drained, DrainTimesOut, WaitsOnly, Alone
  <2> QED
    BY <2>1, <2>2 DEF Control, StaysOut
<1>3. CASE DrainExpired(o)
  BY <1>3, EndsControl DEF DrainExpired, At, Alone
<1>4. CASE TakeWindow(o)
  <2>1. pc[o] = "locking" /\ pc'[o] = "quieting" /\ \A p \in Operations \ {o} : pc'[p] = pc[p]
    BY <1>4, GoesTo DEF TakeWindow, At
  <2> QED
    BY <1>4, <2>1 DEF TakeWindow, At, OpenWindow, Alone, Control, Enters
<1>5. CASE CancelledWaiting(o)
  <2>1. CASE pc[o] \in {"queueing", "locking", "quieting"}
    BY <1>5, <2>1, EndsControl DEF CancelledWaiting, Cut
  <2>2. CASE pc[o] = "draining"
    <3>1. pc'[o] = "expired" /\ \A p \in Operations \ {o} : pc'[p] = pc[p]
      BY <1>5, <2>2, GoesTo DEF CancelledWaiting
    <3> QED
      BY <1>5, <2>2, <3>1 DEF CancelledWaiting, Cut, Control, StaysOut
  <2>3. CASE pc[o] = "expired"
    <3>1. pc'[o] = "expired" /\ \A p \in Operations \ {o} : pc'[p] = pc[p]
      BY <1>5, <2>3, GoesTo DEF CancelledWaiting, CancelledTo
    <3> QED
      BY <1>5, <2>3, <3>1 DEF CancelledWaiting, CancelledTo, Cut, Control, StaysOut
  <2> QED
    BY <1>5, <2>1, <2>2, <2>3 DEF CancelledWaiting
<1>6. CASE DeadlinePasses(o)
  BY <1>6 DEF DeadlinePasses, Control, StaysOut, Inside, PcOK
<1> QED
  BY <1>1, <1>2, <1>3, <1>4, <1>5, <1>6

LEMMA SwitchControl ==
    ASSUME PcOK, NEW o \in Operations,
           \/ SwitchStep(o) \/ WriteFails(o) \/ UndoFails(o)
           \/ CancelledSwitching(o) \/ CancelledUndoing(o)
    PROVE  Control(o)
<1>s. /\ Switching \cup {"quieting"} \subseteq InWindow /\ Switching \subseteq InBody
  BY DEF InWindow, InBody
<1> USE DEF Switching
<1>1. CASE StartSwitch(o)
  BY <1>1, <1>s, BodyControl DEF StartSwitch
<1>2. CASE WriteStatus(o) \/ UndoWrite(o)
  BY <1>2, <1>s, StatementControl DEF WriteStatus, UndoWrite
<1>3. CASE Unloaded(o)
  BY <1>3, <1>s, BodyControl DEF Unloaded
<1>4. CASE Loaded(o) \/ Resuspended(o) \/ UndoFails(o) \/ CancelledUndoing(o)
  BY <1>4, <1>s, EndsControl DEF Loaded, Resuspended, UndoFails, CancelledUndoing, At, Cut, Alone
<1>5. CASE Suspended(o)
  BY <1>5, <1>s, EndsControl, MoveControl DEF Suspended, At, Alone, JobsKept, Still
<1>6. CASE Undone(o)
  BY <1>6, <1>s, EndsControl, MoveControl DEF Undone, At, Alone, JobsKept, Still
<1>7. CASE WriteFails(o)
  BY <1>7, <1>s, MoveControl DEF WriteFails, At, Alone
<1>8. CASE CancelledSwitching(o)
  BY <1>8, <1>s, MoveControl DEF CancelledSwitching, CancelledTo, Cut
<1> QED
  BY <1>1, <1>2, <1>3, <1>4, <1>5, <1>6, <1>7, <1>8 DEF SwitchStep

LEMMA ReloadControl ==
    ASSUME PcOK, NEW o \in Operations,
           \/ ReloadStep(o) \/ BuildFails(o) \/ StatementFails(o) \/ PrepareFails(o)
           \/ PollLockTimesOut(o) \/ RestoreFails(o) \/ CancelledReading(o)
           \/ CancelledBuilding(o) \/ CancelledCommitting(o) \/ CancelledRestoring(o)
    PROVE  Control(o)
<1>s. /\ {"quieting"} \cup InBody \subseteq InWindow
      /\ Building \cup Committing \cup Restoring \subseteq InBody
  BY DEF InWindow, InBody
<1> USE DEF Building, Committing, Restoring
<1>1. CASE Prepare(o) \/ Reconciled(o) \/ Commit(o) \/ OldStopped(o) \/ SwitchDatabase(o)
  BY <1>1, <1>s, BodyControl DEF Prepare, Reconciled, Commit, OldStopped, SwitchDatabase
<1>2. CASE DeleteStatuses(o) \/ InsertStatuses(o)
  BY <1>2, <1>s, StatementControl DEF DeleteStatuses, InsertStatuses
<1>3. CASE RestoreDelete(o) \/ RestoreInsert(o)
  BY <1>3, <1>s, StatementControl DEF RestoreDelete, RestoreInsert
<1>4. CASE Import(o)
  BY <1>4, <1>s, MoveControl DEF Import, At, JobsKept, Still
<1>5. CASE Committed(o) \/ Restored(o) \/ BuildFails(o) \/ CancelledReading(o) \/ CancelledRestoring(o)
  BY <1>5, <1>s, EndsControl DEF Committed, Restored, BuildFails, Abort, CancelledReading,
     CancelledRestoring, At, Cut, Alone
<1>6. CASE StatementFails(o) \/ PrepareFails(o) \/ PollLockTimesOut(o) \/ RestoreFails(o)
  BY <1>6, <1>s, MoveControl DEF StatementFails, PrepareFails, PollLockTimesOut, RestoreFails,
     At, Alone
<1>7. CASE CancelledBuilding(o) \/ CancelledCommitting(o)
  BY <1>7, <1>s, MoveControl DEF CancelledBuilding, CancelledCommitting, CancelledTo, Cut
<1> QED
  BY <1>1, <1>2, <1>3, <1>4, <1>5, <1>6, <1>7 DEF ReloadStep

LEMMA OpControl ==
    ASSUME PcOK, NEW o \in Operations, OpStep(o)
    PROVE  Control(o)
BY WaitControl, SwitchControl, ReloadControl DEF OpStep, Step, Failing, Cancelled
------------------------------------------------------------------------------
(* The inductive invariant, part by part.  The scheduler window belongs to   *)
(* the operation that stands inside it, and to the shutdown while this waits *)
(* for the jobs; once the queue is closed nobody else gets inside.           *)
Stopped == {"stopping", "staged", "done"}

LockInv ==
    /\ \A o \in Operations : pc[o] \in InWindow <=> owner = o
    /\ shutdown = "quieting" <=> owner = Shutdown
    /\ owner \in Operations => shutdown \in {"none", "queue", "waiting", "locking"}
    /\ shutdown \notin {"none", "queue"} =>
          \A o \in Operations : pc[o] \in Waiting \ {"expired"} => o \in cancelled

(* No job is launched inside a window, nor since the shutdown began.         *)
GateInv ==
    /\ shuttingDown <=> shutdown # "none"
    /\ owner # Free \/ shuttingDown => ~accepting
    /\ shutdown \in Stopped => \A m \in Modules : executing[m] = None

KindInv ==
    \A o \in Operations :
       /\ pc[o] \in Switching => Kind[o] # "reload"
       /\ pc[o] \in InBody \ Switching => Kind[o] = "reload"

StageInv ==
    \A o \in Operations : pc[o] \in Building =>
       \A m \in Package : staging[m] = current[m] + 1 /\ staging[m] \in Generations
------------------------------------------------------------------------------
(* Types.                                                                    *)
LEMMA TypeInit == Init => TypeOK
<1> SUFFICES ASSUME Init PROVE TypeOK
  OBVIOUS
<1>1. 1 \in Generations /\ 1 \in Nat /\ 0 \in Nat /\ Generations \subseteq Nat
  BY ReloadAssumption
<1>2. SchedulerTypeOK
  BY <1>1 DEF Init, SchedulerInit, SchedulerTypeOK, Free, None
<1>3. RuntimesTypeOK
  BY <1>1 DEF Init, RuntimesInit, RuntimesTypeOK, Runtimes, Unstaged
<1>4. /\ status \in [Modules -> Statuses] /\ loaded \in [Modules -> BOOLEAN]
      /\ registered \in [Modules -> Generations] /\ installed \in [Modules -> Nat]
  BY <1>1, <1>2 DEF Init, Statuses, SchedulerTypeOK
<1>5. undo \in [status : [Modules -> Statuses], loaded : [Modules -> BOOLEAN],
                 registered : [Modules -> Generations], installed : [Modules -> Nat]]
  BY <1>4 DEF Init
<1>6. pc \in [Operations -> PcStates] /\ oldLoad \in [Operations -> BOOLEAN]
  BY DEF Init, PcStates, Ended
<1>7. faults \in 0 .. MaxFaults
  BY ReloadAssumption DEF Init
<1> QED
  BY <1>2, <1>3, <1>4, <1>5, <1>6, <1>7 DEF Init, TypeOK, PcStates

LEMMA TypePc == TypeOK => PcOK
BY DEF TypeOK, PcOK, PcStates

LEMMA TargetType == \A o \in Operations : Target[o] \in Modules
BY ReloadAssumption

LEMMA OfType ==
    ASSUME NEW S \in SUBSET Modules, NEW f, \A m \in S : f[m] \in Generations
    PROVE  Of(S, f) \subseteq Runtimes
BY DEF Of, Runtimes

LEMMA SetsType ==
    ASSUME TypeOK, NEW o \in Operations, NEW load \in BOOLEAN, Sets(o, load)
    PROVE  /\ RuntimesTypeOK'
           /\ loaded' \in [Modules -> BOOLEAN] /\ installed' \in [Modules -> Nat]
           /\ UNCHANGED <<status, registered>>
<1>1. loaded' \in [Modules -> BOOLEAN] /\ UNCHANGED <<status, registered>>
  BY TargetType DEF Sets, TypeOK
<1>2. installed' \in [Modules -> Nat]
  BY ReloadAssumption DEF Sets, Reconcile, Install, TypeOK, SchedulerTypeOK, None
<1>3. Of({Target[o]}, current) \subseteq Runtimes
  BY TargetType, OfType DEF TypeOK, RuntimesTypeOK
<1>4. RuntimesTypeOK'
  BY <1>3 DEF Sets, Activate, Stop, ToStop, TypeOK, RuntimesTypeOK
<1> QED
  BY <1>1, <1>2, <1>4

LEMMA EndsType ==
    ASSUME TypeOK, NEW o \in Operations, Ends(o)
    PROVE  /\ pc' \in [Operations -> PcStates]
           /\ accepting' \in BOOLEAN /\ owner' \in Operations \cup {Free, Shutdown}
           /\ queueOwner' \in Operations \cup {Free} /\ cancelled' \subseteq Operations
BY DEF Ends, Goes, CloseWindow, TypeOK, SchedulerTypeOK, PcStates, Ended

LEMMA GoesType ==
    ASSUME TypeOK, NEW o \in Operations, NEW to \in PcStates, Goes(o, to)
    PROVE  pc' \in [Operations -> PcStates]
BY DEF Goes, TypeOK, PcStates

LEMMA WaitType ==
    ASSUME TypeOK, NEW o \in Operations,
           \/ Begin(o) \/ TakeQueue(o) \/ Drained(o) \/ DrainTimesOut(o) \/ DrainExpired(o)
           \/ TakeWindow(o) \/ CancelledWaiting(o) \/ DeadlinePasses(o)
    PROVE  TypeOK'
<1>s. {"ended", "locking", "queueing", "draining", "expired", "quieting"} \subseteq PcStates
  BY DEF PcStates, Ended, Waiting
<1>b. Busy \subseteq Operations
  BY DEF Busy
<1>1. CASE Begin(o)
  <2>1. pc' \in [Operations -> PcStates] /\ oldLoad' \in [Operations -> BOOLEAN]
    BY <1>1, <1>s, GoesType, TargetType DEF Begin, TypeOK
  <2> QED
    BY <1>1, <2>1 DEF Begin, TypeOK, PcStates, SchedulerTypeOK, RuntimesTypeOK
<1>2. CASE TakeQueue(o) \/ Drained(o) \/ DrainTimesOut(o)
  <2>1. /\ pc' \in [Operations -> PcStates] /\ queueOwner' \in Operations \cup {Free}
        /\ cancelled' \subseteq Operations
        /\ UNCHANGED <<schedulerVars, runtimeVars, moduleVars, faults, oldLoad, undo, shutdown, torn>>
    BY <1>2, <1>s, <1>b, GoesType DEF TakeQueue, Drained, DrainTimesOut, WaitsOnly, Alone, TypeOK
  <2> QED
    BY <2>1 DEF TypeOK, PcStates, SchedulerTypeOK, RuntimesTypeOK
<1>3. CASE DrainExpired(o)
  BY <1>3, EndsType DEF DrainExpired, JobsKept, Alone, TypeOK, PcStates, SchedulerTypeOK, RuntimesTypeOK
<1>4. CASE TakeWindow(o)
  <2>1. pc' \in [Operations -> PcStates]
    BY <1>4, <1>s, GoesType DEF TakeWindow
  <2> QED
    BY <1>4, <2>1 DEF TakeWindow, OpenWindow, Alone, TypeOK, PcStates, SchedulerTypeOK, RuntimesTypeOK
<1>5. CASE CancelledWaiting(o)
  <2>1. CASE pc[o] \in {"queueing", "locking", "quieting"} /\ Ends(o) /\ UNCHANGED installed /\ JobsKept
    BY <1>5, <2>1, EndsType DEF CancelledWaiting, Cut, JobsKept, TypeOK, PcStates,
       SchedulerTypeOK, RuntimesTypeOK
  <2>2. CASE /\ Goes(o, "expired") /\ cancelled' \in {Busy \ {o}, cancelled \ {o}}
             /\ UNCHANGED <<schedulerVars, queueOwner>>
    <3>1. pc' \in [Operations -> PcStates] /\ cancelled' \subseteq Operations
      BY <1>s, <1>b, <2>2, GoesType DEF TypeOK
    <3> QED
      BY <1>5, <2>2, <3>1 DEF CancelledWaiting, Cut, TypeOK, PcStates, SchedulerTypeOK, RuntimesTypeOK
  <2> QED
    BY <1>5, <2>1, <2>2 DEF CancelledWaiting, CancelledTo
<1>6. CASE DeadlinePasses(o)
  <2>1. faults' \in 0 .. MaxFaults
    BY <1>6, ReloadAssumption DEF DeadlinePasses, Fault, TypeOK
  <2> QED
    BY <1>6, <2>1 DEF DeadlinePasses, TypeOK, SchedulerTypeOK, RuntimesTypeOK
<1> QED
  BY <1>1, <1>2, <1>3, <1>4, <1>5, <1>6

LEMMA StatementType ==
    ASSUME TypeOK, NEW o \in Operations, NEW from, NEW to \in PcStates,
           NEW rows \in [Modules -> Statuses], Statement(o, from, to, rows)
    PROVE  TypeOK'
<1>1. pc' \in [Operations -> PcStates]
  BY GoesType DEF Statement
<1> QED
  BY <1>1 DEF Statement, Alone, TypeOK, PcStates, SchedulerTypeOK, RuntimesTypeOK

(* A step that moves an operation and counts a failure, or marks the history.*)
LEMMA MoveType ==
    ASSUME TypeOK, NEW o \in Operations, NEW to \in PcStates, Goes(o, to),
           torn' \in BOOLEAN, faults' \in 0 .. MaxFaults,
           cancelled' = cancelled \/ cancelled' = cancelled \ {o},
           stopping' = stopping \/ stopping' = {},
           UNCHANGED <<current, staging, active, spawned, resource,
                       schedulerVars, moduleVars, oldLoad, undo, queueOwner, shutdown>>
    PROVE  TypeOK'
<1>1. pc' \in [Operations -> PcStates]
  BY GoesType
<1> QED
  BY <1>1 DEF TypeOK, PcStates, SchedulerTypeOK, RuntimesTypeOK

(* The end of an operation that changes no runtime but staging, no module.   *)
LEMMA EndType ==
    ASSUME TypeOK, NEW o \in Operations, Ends(o), JobsKept,
           torn' \in BOOLEAN, faults' \in 0 .. MaxFaults,
           staging' = staging \/ Unstage,
           UNCHANGED <<current, active, spawned, resource, stopping,
                       moduleVars, installed, oldLoad, undo, shutdown>>
    PROVE  TypeOK'
<1>1. staging' \in [Modules -> Generations \cup {Unstaged}]
  BY DEF Unstage, TypeOK, RuntimesTypeOK
<1> QED
  BY <1>1, EndsType DEF JobsKept, TypeOK, PcStates, SchedulerTypeOK, RuntimesTypeOK

LEMMA FaultType ==
    ASSUME TypeOK, NEW kind, Fault(kind)
    PROVE  faults' \in 0 .. MaxFaults
BY ReloadAssumption DEF Fault, TypeOK

LEMMA RowTypes ==
    ASSUME TypeOK, NEW o \in Operations
    PROVE  /\ [status EXCEPT ![Target[o]] = StatusOf(Kind[o] = "load")] \in [Modules -> Statuses]
           /\ [status EXCEPT ![Target[o]] = StatusOf(oldLoad[o])] \in [Modules -> Statuses]
           /\ Rows(NoRows) \in [Modules -> Statuses]
           /\ Rows([m \in Modules |-> StatusOf(loaded[m])]) \in [Modules -> Statuses]
           /\ Rows(undo.status) \in [Modules -> Statuses]
BY DEF Rows, NoRows, StatusOf, Statuses, TypeOK

LEMMA SwitchType ==
    ASSUME TypeOK, NEW o \in Operations,
           \/ SwitchStep(o) \/ WriteFails(o) \/ UndoFails(o)
           \/ CancelledSwitching(o) \/ CancelledUndoing(o)
    PROVE  TypeOK'
<1>s. Switching \cup {"ended"} \subseteq PcStates
  BY DEF PcStates, InBody, Ended
<1>t. torn \in BOOLEAN /\ faults \in 0 .. MaxFaults
  BY DEF TypeOK
<1> USE DEF Switching
<1>1. CASE StartSwitch(o)
  BY <1>1, <1>s, <1>t, MoveType DEF StartSwitch, Body, JobsKept, Still, Alone
<1>2. CASE WriteStatus(o) \/ UndoWrite(o)
  BY <1>2, <1>s, RowTypes, StatementType DEF WriteStatus, UndoWrite
<1>3. CASE Unloaded(o)
  <2>1. pc' \in [Operations -> PcStates]
    BY <1>3, <1>s, GoesType DEF Unloaded, Body
  <2> QED
    BY <1>3, <2>1, SetsType DEF Unloaded, Body, JobsKept, Still, Alone, TypeOK, PcStates,
       SchedulerTypeOK
<1>4. CASE Loaded(o)
  BY <1>4, SetsType, EndsType DEF Loaded, JobsKept, Alone, TypeOK, PcStates, SchedulerTypeOK
<1>5. CASE Suspended(o) /\ Ends(o)
  BY <1>5, <1>t, EndType DEF Suspended, Alone
<1>6. CASE Suspended(o) /\ Goes(o, "undoing") /\ Still
  BY <1>6, <1>s, <1>t, MoveType DEF Suspended, JobsKept, Still, Alone
<1>7. CASE UndoFails(o) \/ CancelledUndoing(o) \/ Resuspended(o)
  BY <1>7, <1>t, EndType, FaultType DEF UndoFails, CancelledUndoing, Resuspended, Cut, Alone
<1>8. CASE Undone(o)
  <2>1. oldLoad[o] \in BOOLEAN /\ torn' \in BOOLEAN
    BY <1>8, <1>t DEF Undone, TypeOK
  <2>2. /\ RuntimesTypeOK'
        /\ loaded' \in [Modules -> BOOLEAN] /\ installed' \in [Modules -> Nat]
        /\ UNCHANGED <<status, registered>>
    BY <1>8, <2>1, SetsType DEF Undone
  <2>3. /\ pc' \in [Operations -> PcStates]
        /\ accepting' \in BOOLEAN /\ owner' \in Operations \cup {Free, Shutdown}
        /\ queueOwner' \in Operations \cup {Free} /\ cancelled' \subseteq Operations
    <3>1. CASE Ends(o)
      BY <3>1, EndsType
    <3>2. CASE Goes(o, "resuspending") /\ Still
      BY <1>s, <3>2, GoesType DEF Still, TypeOK, SchedulerTypeOK
    <3> QED
      BY <1>8, <3>1, <3>2 DEF Undone
  <2> QED
    BY <1>8, <2>1, <2>2, <2>3 DEF Undone, JobsKept, TypeOK, PcStates, SchedulerTypeOK
<1>9. CASE WriteFails(o)
  BY <1>9, <1>s, <1>t, MoveType, FaultType DEF WriteFails, Alone
<1>10. CASE CancelledSwitching(o)
  <2>1. \E to \in Switching : CancelledTo(o, to)
    BY <1>10 DEF CancelledSwitching
  <2> QED
    BY <1>10, <1>s, <1>t, <2>1, MoveType DEF CancelledSwitching, CancelledTo, Cut
<1> QED
  BY <1>1, <1>2, <1>3, <1>4, <1>5, <1>6, <1>7, <1>8, <1>9, <1>10 DEF SwitchStep, Suspended

LEMMA ReloadType ==
    ASSUME TypeOK, StageInv, NEW o \in Operations,
           \/ ReloadStep(o) \/ BuildFails(o) \/ StatementFails(o) \/ PrepareFails(o)
           \/ PollLockTimesOut(o) \/ RestoreFails(o) \/ CancelledReading(o)
           \/ CancelledBuilding(o) \/ CancelledCommitting(o) \/ CancelledRestoring(o)
    PROVE  TypeOK'
<1>s. Building \cup Committing \cup Restoring \subseteq PcStates
  BY DEF PcStates, InBody
<1>t. torn \in BOOLEAN /\ faults \in 0 .. MaxFaults
  BY DEF TypeOK
<1>p. pc[o] \in Building => \A m \in Package : staging[m] \in Generations
  BY DEF StageInv
<1> USE DEF Building, Committing, Restoring
<1>1. CASE Prepare(o)
  <2>1. pc' \in [Operations -> PcStates]
    BY <1>1, <1>s, GoesType DEF Prepare, Body
  <2>2. staging' \in [Modules -> Generations \cup {Unstaged}]
    BY <1>1 DEF Prepare, Stage, TypeOK, RuntimesTypeOK
  <2> QED
    BY <1>1, <2>1, <2>2 DEF Prepare, Body, Stage, JobsKept, Still, Alone, TypeOK, PcStates,
       SchedulerTypeOK, RuntimesTypeOK
<1>2. CASE Import(o)
  <2>1. pc' \in [Operations -> PcStates]
    BY <1>2, <1>s, GoesType DEF Import
  <2>2. registered' \in [Modules -> Generations] /\ loaded' \in [Modules -> BOOLEAN]
    BY <1>2, <1>p DEF Import, At, TypeOK
  <2>3. undo' \in [status : [Modules -> Statuses], loaded : [Modules -> BOOLEAN],
                   registered : [Modules -> Generations], installed : [Modules -> Nat]]
    BY <1>2 DEF Import, TypeOK, SchedulerTypeOK
  <2> QED
    BY <1>2, <2>1, <2>2, <2>3 DEF Import, JobsKept, Still, TypeOK, PcStates,
       SchedulerTypeOK, RuntimesTypeOK
<1>3. CASE DeleteStatuses(o) \/ InsertStatuses(o) \/ RestoreDelete(o) \/ RestoreInsert(o)
  BY <1>3, <1>s, RowTypes, StatementType
     DEF DeleteStatuses, InsertStatuses, RestoreDelete, RestoreInsert
<1>4. CASE Reconciled(o)
  <2>1. pc' \in [Operations -> PcStates]
    BY <1>4, <1>s, GoesType DEF Reconciled, Body
  <2>2. installed' \in [Modules -> Nat]
    BY <1>4, ReloadAssumption DEF Reconciled, Reconcile, Install, TypeOK, SchedulerTypeOK, None
  <2> QED
    BY <1>4, <2>1, <2>2 DEF Reconciled, Body, JobsKept, Still, Alone, TypeOK, PcStates,
       SchedulerTypeOK, RuntimesTypeOK
<1>5. CASE Commit(o)
  <2>1. pc' \in [Operations -> PcStates]
    BY <1>5, <1>s, GoesType DEF Commit, Body
  <2>2. \A m \in Package : staging[m] \in Generations
    BY <1>5, <1>p DEF Commit, Body, At
  <2>3. {m \in Package : loaded[m]} \subseteq Modules /\ Package \subseteq Modules
    BY ReloadAssumption
  <2>4. /\ Of({m \in Package : loaded[m]}, staging) \subseteq Runtimes
        /\ Of(Package, current) \subseteq Runtimes
    BY <2>2, <2>3, OfType DEF TypeOK, RuntimesTypeOK
  <2>5. RuntimesTypeOK'
    BY <1>5, <2>2, <2>4 DEF Commit, Replace, ToStop, TypeOK, RuntimesTypeOK
  <2> QED
    BY <1>5, <2>1, <2>5 DEF Commit, Replace, Body, JobsKept, Still, Alone, TypeOK, PcStates,
       SchedulerTypeOK
<1>6. CASE OldStopped(o) \/ SwitchDatabase(o)
  BY <1>6, <1>s, <1>t, MoveType DEF OldStopped, SwitchDatabase, Body, JobsKept, Still, Alone
<1>7. CASE Committed(o) \/ CancelledRestoring(o)
  BY <1>7, <1>t, EndType DEF Committed, CancelledRestoring, Cut, Alone
<1>8. CASE BuildFails(o) \/ CancelledReading(o)
  <2>1. faults' \in 0 .. MaxFaults
    BY <1>8, <1>t, FaultType DEF BuildFails, CancelledReading, Cut
  <2> QED
    BY <1>8, <1>t, <2>1, EndType DEF BuildFails, Abort, CancelledReading, Cut, Alone
<1>9. CASE Restored(o)
  <2>1. registered' \in [Modules -> Generations] /\ loaded' \in [Modules -> BOOLEAN]
    BY <1>9 DEF Restored, TypeOK
  <2>2. installed' \in [Modules -> Nat]
    BY <1>9 DEF Restored, Install, TypeOK, SchedulerTypeOK
  <2>3. staging' \in [Modules -> Generations \cup {Unstaged}]
    BY <1>9 DEF Restored, Unstage
  <2> QED
    BY <1>9, <2>1, <2>2, <2>3, EndsType DEF Restored, JobsKept, Alone, TypeOK, PcStates,
       SchedulerTypeOK, RuntimesTypeOK
<1>10. CASE StatementFails(o) \/ PrepareFails(o) \/ PollLockTimesOut(o) \/ RestoreFails(o)
  BY <1>10, <1>s, <1>t, MoveType, FaultType DEF StatementFails, PrepareFails, PollLockTimesOut,
     RestoreFails, Alone
<1>11. CASE CancelledBuilding(o) \/ CancelledCommitting(o)
  <2>1. \E to \in Committing \cup Restoring : CancelledTo(o, to)
    BY <1>11 DEF CancelledBuilding, CancelledCommitting
  <2> QED
    BY <1>11, <1>s, <1>t, <2>1, MoveType DEF CancelledBuilding, CancelledCommitting,
       CancelledTo, Cut
<1> QED
  BY <1>1, <1>2, <1>3, <1>4, <1>5, <1>6, <1>7, <1>8, <1>9, <1>10, <1>11 DEF ReloadStep

(* The steps of the jobs and of the runtimes, and of the shutdown.           *)
JobStep == (\E m \in Modules : Launch(m) \/ JobEnds(m)) /\ JobAlone
RuntimeMoves ==
    \/ \E r \in Runtimes : RuntimeStep(r)
    \/ \E r \in Users \X Generations : RuntimeUse(r)

LEMMA NextSteps ==
    ASSUME Next
    PROVE  \/ \E o \in Operations : OpStep(o)
           \/ JobStep
           \/ RuntimeMoves /\ RuntimeAlone
           \/ BeginShutdown \/ ShutdownStep
BY DEF Next, OpStep, JobStep, RuntimeMoves

LEMMA RuntimeMovesType ==
    ASSUME TypeOK, RuntimeMoves
    PROVE  RuntimesTypeOK'
<1>1. \A r \in Users \X Generations : r \in Runtimes
  BY ReloadAssumption DEF Runtimes
<1>2. ASSUME NEW r \in Runtimes, RuntimeStep(r) \/ RuntimeUse(r)
      PROVE  RuntimesTypeOK'
  <2>1. CASE BeginStop(r) \/ EndStop(r)
    BY <2>1 DEF BeginStop, EndStop, TypeOK, RuntimesTypeOK
  <2>2. CASE ResourceMade(r) \/ GetResource(r)
    BY <2>2 DEF ResourceMade, GetResource, TypeOK, RuntimesTypeOK
  <2>3. CASE TaskEnds(r) \/ Spawn(r)
    BY <2>3 DEF TaskEnds, Spawn, TypeOK, RuntimesTypeOK
  <2> QED
    BY <1>2, <2>1, <2>2, <2>3 DEF RuntimeStep, RuntimeUse
<1> QED
  BY <1>1, <1>2 DEF RuntimeMoves

LEMMA ShutdownType ==
    ASSUME TypeOK, BeginShutdown \/ ShutdownStep
    PROVE  TypeOK'
<1> USE DEF Stops
<1>1. CASE BeginShutdown
  BY <1>1 DEF BeginShutdown, CloseEntrance, TypeOK, SchedulerTypeOK, RuntimesTypeOK
<1>2. CASE CancelOperations \/ OperationsGone
  <2>1. cancelled' \subseteq Operations
    BY <1>2 DEF CancelOperations, OperationsGone, Busy, TypeOK
  <2> QED
    BY <1>2, <2>1 DEF CancelOperations, OperationsGone, TypeOK, SchedulerTypeOK, RuntimesTypeOK
<1>3. CASE TakeForShutdown
  BY <1>3 DEF TakeForShutdown, LockForShutdown, TypeOK, SchedulerTypeOK, RuntimesTypeOK
<1>4. CASE SchedulerStopped
  <2>1. Of(Modules, current) \subseteq Runtimes
    BY OfType DEF TypeOK, RuntimesTypeOK
  <2>2. RuntimesTypeOK'
    BY <1>4, <2>1 DEF SchedulerStopped, Stop, ToStop, TypeOK, RuntimesTypeOK
  <2> QED
    BY <1>4, <2>2 DEF SchedulerStopped, Stop, ClearJobs, TypeOK, SchedulerTypeOK, None
<1>5. CASE CurrentStopped
  <2>1. Of({m \in Modules : staging[m] # Unstaged}, staging) \subseteq Runtimes
    BY OfType DEF TypeOK, RuntimesTypeOK
  <2>2. RuntimesTypeOK'
    BY <1>5, <2>1 DEF CurrentStopped, Stop, ToStop, TypeOK, RuntimesTypeOK
  <2> QED
    BY <1>5, <2>2 DEF CurrentStopped, Stop, TypeOK, SchedulerTypeOK
<1>6. CASE StagedStopped
  BY <1>6 DEF StagedStopped, Unstage, TypeOK, SchedulerTypeOK, RuntimesTypeOK
<1> QED
  BY <1>1, <1>2, <1>3, <1>4, <1>5, <1>6 DEF ShutdownStep

LEMMA JobType ==
    ASSUME TypeOK, JobStep
    PROVE  TypeOK'
<1>1. executing' \in [Modules -> Nat] /\ UNCHANGED <<accepting, owner, saved, shuttingDown, installed>>
  BY DEF JobStep, Launch, JobEnds, None, TypeOK, SchedulerTypeOK
<1> QED
  BY <1>1 DEF JobStep, JobAlone, TypeOK, SchedulerTypeOK, RuntimesTypeOK

LEMMA TypeStep ==
    ASSUME TypeOK, StageInv, [Next]_vars
    PROVE  TypeOK'
<1>1. CASE UNCHANGED vars
  BY <1>1 DEF vars, TypeOK, SchedulerTypeOK, RuntimesTypeOK
<1>2. ASSUME NEW o \in Operations, OpStep(o)
      PROVE  TypeOK'
  BY <1>2, WaitType, SwitchType, ReloadType DEF OpStep, Step, Failing, Cancelled
<1>3. CASE RuntimeMoves /\ RuntimeAlone
  BY <1>3, RuntimeMovesType DEF RuntimeAlone, TypeOK, SchedulerTypeOK
<1> QED
  BY <1>1, <1>2, <1>3, JobType, ShutdownType, NextSteps
------------------------------------------------------------------------------
(* The windows and the entrance for jobs.                                    *)
LEMMA OpLocks ==
    ASSUME TypeOK, LockInv, GateInv, NEW o \in Operations, OpStep(o)
    PROVE  LockInv' /\ GateInv'
<1>1. /\ \A p \in Operations \ {o} : pc'[p] = pc[p] /\ (p \in cancelled /\ p \in Busy => p \in cancelled')
      /\ UNCHANGED <<executing, shuttingDown, shutdown>>
      /\ Inside(o) \/ Enters(o) \/ Leaves(o) \/ StaysOut(o)
      /\ pc'[o] \in Waiting \ {"expired"} =>
            \/ pc[o] = "idle" /\ shutdown \in {"none", "queue"}
            \/ /\ pc[o] \in Waiting \ {"expired"}
               /\ o \notin cancelled \/ o \in cancelled'
  BY OpControl, TypePc DEF Control
<1>f. Free # Shutdown /\ \A p \in Operations : p # Free /\ p # Shutdown
  BY ReloadAssumption DEF Free, Shutdown
<1>w. /\ "quieting" \in InWindow /\ "locking" \in Waiting \ {"expired"}
      /\ {"ended", "queueing", "locking", "expired"} \cap InWindow = {}
      /\ \A p \in Operations : pc[p] \in Waiting => p \in Busy
  BY DEF InWindow, InBody, Waiting, Switching, Building, Committing, Restoring, Busy, Ended
<1>2. \A p \in Operations : pc[p] \in InWindow <=> owner = p
  BY DEF LockInv
<1>3. /\ \A p \in Operations : pc'[p] \in InWindow <=> owner' = p
      /\ owner' \in Operations => owner \in Operations \/ Enters(o)
      /\ owner' = Shutdown <=> owner = Shutdown
      /\ owner' # Free \/ shuttingDown => ~accepting'
  <2>1. CASE Inside(o) \/ StaysOut(o)
    BY <1>1, <1>2, <2>1 DEF Inside, StaysOut, GateInv
  <2>2. CASE Enters(o)
    BY <1>1, <1>2, <1>f, <1>w, <2>2 DEF Enters
  <2>3. CASE Leaves(o)
    <3>1. CASE owner = o
      <4>1. pc'[o] = "ended" /\ owner' = Free /\ (shuttingDown => accepting' = accepting)
        BY <2>3, <3>1 DEF Leaves, CloseWindow
      <4>2. shuttingDown => ~accepting'
        BY <4>1 DEF GateInv
      <4>3. owner' # Shutdown /\ owner # Shutdown /\ owner' \notin Operations
        BY <1>f, <3>1, <4>1 DEF Free, Shutdown
      <4> QED
        BY <1>1, <1>2, <1>f, <1>w, <3>1, <4>1, <4>2, <4>3
    <3>2. CASE owner # o
      BY <1>1, <1>2, <1>f, <1>w, <2>3, <3>2 DEF Leaves, GateInv
    <3> QED
      BY <3>1, <3>2
  <2> QED
    BY <1>1, <2>1, <2>2, <2>3
<1>4. shutdown \notin {"none", "queue"} =>
         \A p \in Operations : pc'[p] \in Waiting \ {"expired"} => p \in cancelled'
  BY <1>1, <1>w DEF LockInv
<1>5. owner' \in Operations => shutdown \in {"none", "queue", "waiting", "locking"}
  BY <1>3, <1>w DEF LockInv, Enters
<1> QED
  BY <1>1, <1>3, <1>4, <1>5 DEF LockInv, GateInv

LEMMA ShutdownLocks ==
    ASSUME TypeOK, LockInv, GateInv, BeginShutdown \/ ShutdownStep
    PROVE  LockInv' /\ GateInv'
<1> USE DEF Stops
<1>f. /\ \A p \in Operations : p # Free /\ p # Shutdown
      /\ Free # Shutdown
      /\ \A p \in Operations : pc[p] \in Waiting => p \in Busy
  BY ReloadAssumption DEF Waiting, Busy, Ended, Free, Shutdown
<1>1. CASE BeginShutdown
  BY <1>1 DEF BeginShutdown, CloseEntrance, LockInv, GateInv, Stopped
<1>2. CASE CancelOperations \/ OperationsGone
  BY <1>2, <1>f DEF CancelOperations, OperationsGone, LockInv, GateInv, Stopped
<1>3. CASE TakeForShutdown
  BY <1>3, <1>f DEF TakeForShutdown, LockForShutdown, LockInv, GateInv, Stopped
<1>4. CASE SchedulerStopped
  BY <1>4, <1>f DEF SchedulerStopped, ClearJobs, LockInv, GateInv, Stopped
<1>5. CASE CurrentStopped \/ StagedStopped
  BY <1>5, <1>f DEF CurrentStopped, StagedStopped, LockInv, GateInv, Stopped
<1> QED
  BY <1>1, <1>2, <1>3, <1>4, <1>5 DEF ShutdownStep

LEMMA StepLocks ==
    ASSUME TypeOK, LockInv, GateInv, [Next]_vars
    PROVE  LockInv' /\ GateInv'
<1>1. CASE UNCHANGED vars
  BY <1>1 DEF vars, LockInv, GateInv
<1>2. CASE JobStep
  <2>1. /\ UNCHANGED <<accepting, owner, shuttingDown, pc, cancelled, shutdown>>
        /\ ~accepting => \A m \in Modules : executing'[m] \in {executing[m], None}
    BY <1>2 DEF JobStep, JobAlone, Launch, JobEnds, TypeOK, SchedulerTypeOK
  <2>2. shutdown \in Stopped => ~accepting
    BY DEF GateInv, Stopped
  <2> QED
    BY <2>1, <2>2 DEF LockInv, GateInv
<1>3. CASE RuntimeMoves /\ RuntimeAlone
  BY <1>3 DEF RuntimeAlone, LockInv, GateInv
<1> QED
  BY <1>1, <1>2, <1>3, OpLocks, ShutdownLocks, NextSteps
------------------------------------------------------------------------------
(* An operation changes modules, runtimes and the history only from inside.  *)
SwitchMove(o) ==
    \/ SwitchStep(o) \/ WriteFails(o) \/ UndoFails(o)
    \/ CancelledSwitching(o) \/ CancelledUndoing(o)
ReloadMove(o) ==
    \/ ReloadStep(o) \/ BuildFails(o) \/ StatementFails(o) \/ PrepareFails(o)
    \/ PollLockTimesOut(o) \/ RestoreFails(o) \/ CancelledReading(o)
    \/ CancelledBuilding(o) \/ CancelledCommitting(o) \/ CancelledRestoring(o)
WaitMove(o) ==
    \/ Begin(o) \/ TakeQueue(o) \/ Drained(o) \/ DrainTimesOut(o) \/ DrainExpired(o)
    \/ TakeWindow(o) \/ CancelledWaiting(o) \/ DeadlinePasses(o)

LEMMA OpMoves ==
    ASSUME NEW o \in Operations, OpStep(o)
    PROVE  WaitMove(o) \/ SwitchMove(o) \/ ReloadMove(o)
BY DEF OpStep, Step, Failing, Cancelled, WaitMove, SwitchMove, ReloadMove

Untouched == UNCHANGED <<runtimeVars, moduleVars, installed, torn, undo>>

LEMMA WaitKeeps ==
    ASSUME TypeOK, NEW o \in Operations, WaitMove(o)
    PROVE  /\ Untouched
           /\ \A p \in Operations \ {o} : oldLoad'[p] = oldLoad[p]
           /\ pc[o] \in InBody \/ pc'[o] \in InBody => pc'[o] = pc[o] /\ oldLoad'[o] = oldLoad[o]
<1>s. {"idle", "ended", "queueing", "draining", "expired", "locking", "quieting"} \cap InBody = {}
  BY DEF InBody, Switching, Building, Committing, Restoring
<1>p. PcOK
  BY TypePc
<1>1. CASE Begin(o)
  <2>1. pc[o] = "idle" /\ pc'[o] \in {"locking", "ended", "queueing"}
    BY <1>1, <1>p, GoesTo DEF Begin
  <2> QED
    BY <1>1, <1>s, <2>1 DEF Begin, Untouched, TypeOK
<1>2. CASE TakeQueue(o) \/ Drained(o) \/ DrainTimesOut(o)
  <2>1. /\ pc[o] \in {"queueing", "draining"} /\ pc'[o] \in {"draining", "expired", "locking"}
        /\ Untouched /\ oldLoad' = oldLoad
    BY <1>2, <1>p, GoesTo DEF TakeQueue, Drained, DrainTimesOut, WaitsOnly, At, Alone, Untouched
  <2> QED
    BY <1>s, <2>1
<1>3. CASE DrainExpired(o)
  <2>1. pc[o] = "expired" /\ pc'[o] = "ended"
    BY <1>3, <1>p, GoesTo DEF DrainExpired, At, Ends
  <2> QED
    BY <1>3, <1>s, <2>1 DEF DrainExpired, Alone, Untouched
<1>4. CASE TakeWindow(o)
  <2>1. pc[o] = "locking" /\ pc'[o] = "quieting"
    BY <1>4, <1>p, GoesTo DEF TakeWindow, At
  <2> QED
    BY <1>4, <1>s, <2>1 DEF TakeWindow, OpenWindow, Alone, Untouched
<1>5. CASE CancelledWaiting(o)
  <2>1. pc[o] \in {"queueing", "locking", "quieting", "draining", "expired"}
    BY <1>5 DEF CancelledWaiting
  <2>2. pc'[o] \in {"ended", "expired"}
    BY <1>5, <1>p, GoesTo DEF CancelledWaiting, CancelledTo, Ends
  <2> QED
    BY <1>5, <1>s, <2>1, <2>2 DEF CancelledWaiting, CancelledTo, Cut, Untouched
<1>6. CASE DeadlinePasses(o)
  BY <1>6 DEF DeadlinePasses, Untouched
<1> QED
  BY <1>1, <1>2, <1>3, <1>4, <1>5, <1>6 DEF WaitMove

LEMMA MovesInside ==
    ASSUME NEW o \in Operations, SwitchMove(o) \/ ReloadMove(o)
    PROVE  /\ pc[o] \in InWindow
           /\ SwitchMove(o) => pc[o] \in Switching \/ (pc[o] = "quieting" /\ StartSwitch(o))
           /\ ReloadMove(o) => pc[o] \in InBody \ Switching \/ (pc[o] = "quieting" /\ Prepare(o))
<1>1. ASSUME SwitchMove(o)
      PROVE  pc[o] \in Switching \/ (pc[o] = "quieting" /\ StartSwitch(o))
  BY <1>1 DEF SwitchMove, SwitchStep, StartSwitch, WriteStatus, Loaded, Unloaded, Suspended,
     UndoWrite, Undone, Resuspended, WriteFails, UndoFails, CancelledSwitching, CancelledUndoing,
     Statement, Body, At, Switching
<1>2. ASSUME ReloadMove(o)
      PROVE  pc[o] \in Building \cup Committing \cup Restoring \/ (pc[o] = "quieting" /\ Prepare(o))
  <2>1. CASE ReloadStep(o)
    BY <2>1 DEF ReloadStep, Prepare, Import, DeleteStatuses, InsertStatuses, Reconciled, Commit,
       OldStopped, SwitchDatabase, Committed, RestoreDelete, RestoreInsert, Restored,
       Statement, Body, At, Building, Committing, Restoring
  <2>2. CASE ~ReloadStep(o)
    BY <1>2, <2>2 DEF ReloadMove, BuildFails, StatementFails, PrepareFails, PollLockTimesOut,
       RestoreFails, CancelledReading, CancelledBuilding, CancelledCommitting,
       CancelledRestoring, At, Building, Committing, Restoring
  <2> QED
    BY <2>1, <2>2
<1>3. /\ (Building \cup Committing \cup Restoring) \cap Switching = {}
      /\ Building \cup Committing \cup Restoring \subseteq InBody
      /\ Switching \cup {"quieting"} \subseteq InWindow /\ InBody \subseteq InWindow
  BY DEF InWindow, InBody, Switching, Building, Committing, Restoring
<1> QED
  BY <1>1, <1>2, <1>3

(* Where the steps of the body lead, and what they leave of the stage.       *)
LEMMA SwitchLeads ==
    ASSUME TypeOK, NEW o \in Operations, SwitchMove(o)
    PROVE  /\ pc'[o] \in Switching \cup {"ended"} /\ (pc[o] = "quieting" => Kind[o] # "reload")
           /\ UNCHANGED <<current, staging>> /\ (torn => torn')
           /\ \A p \in Operations : oldLoad'[p] = oldLoad[p]
<1> USE TypePc, GoesTo DEF Switching, SwitchMove
<1>1. CASE StartSwitch(o)
  BY <1>1 DEF StartSwitch, Body, Alone
<1>2. CASE WriteStatus(o) \/ UndoWrite(o)
  BY <1>2 DEF WriteStatus, UndoWrite, Statement, Alone
<1>3. CASE Loaded(o) \/ Unloaded(o)
  BY <1>3 DEF Loaded, Unloaded, Body, At, Sets, Activate, Stop, Ends, Alone
<1>4. CASE Undone(o)
  BY <1>4 DEF Undone, At, Sets, Activate, Stop, Ends
<1>5. CASE Suspended(o) \/ Resuspended(o) \/ UndoFails(o) \/ CancelledUndoing(o)
  BY <1>5 DEF Suspended, Resuspended, UndoFails, CancelledUndoing, At, Cut, Ends, Alone
<1>6. CASE WriteFails(o) \/ CancelledSwitching(o)
  BY <1>6 DEF WriteFails, CancelledSwitching, CancelledTo, At, Cut, Alone
<1> QED
  BY <1>1, <1>2, <1>3, <1>4, <1>5, <1>6 DEF SwitchStep

LEMMA ReloadLeads ==
    ASSUME TypeOK, NEW o \in Operations, ReloadMove(o)
    PROVE  /\ pc'[o] \in Building \cup Committing \cup Restoring \cup {"ended"}
           /\ pc[o] = "quieting" => Kind[o] = "reload"
           /\ pc'[o] \in Building =>
                 \/ pc[o] = "quieting" /\ Stage(Package)
                 \/ pc[o] \in Building /\ UNCHANGED <<current, staging>>
           /\ torn => torn'
           /\ oldLoad' = oldLoad
<1> USE TypePc, GoesTo DEF Building, Committing, Restoring, ReloadMove
<1>1. CASE Prepare(o)
  BY <1>1 DEF Prepare, Body, At, Alone
<1>2. CASE Import(o)
  BY <1>2 DEF Import, At
<1>3. CASE DeleteStatuses(o) \/ InsertStatuses(o) \/ RestoreDelete(o) \/ RestoreInsert(o)
  BY <1>3 DEF DeleteStatuses, InsertStatuses, RestoreDelete, RestoreInsert, Statement, Alone
<1>4. CASE Reconciled(o) \/ Commit(o) \/ OldStopped(o) \/ SwitchDatabase(o)
  BY <1>4 DEF Reconciled, Commit, OldStopped, SwitchDatabase, Body, At, Alone
<1>5. CASE Committed(o) \/ Restored(o) \/ BuildFails(o) \/ CancelledReading(o) \/ CancelledRestoring(o)
  BY <1>5 DEF Committed, Restored, BuildFails, Abort, CancelledReading, CancelledRestoring,
     At, Cut, Ends, Alone
<1>6. CASE StatementFails(o) \/ PrepareFails(o) \/ PollLockTimesOut(o) \/ RestoreFails(o)
  BY <1>6 DEF StatementFails, PrepareFails, PollLockTimesOut, RestoreFails, At, Alone
<1>7. CASE CancelledBuilding(o) \/ CancelledCommitting(o)
  BY <1>7 DEF CancelledBuilding, CancelledCommitting, CancelledTo, At, Cut
<1> QED
  BY <1>1, <1>2, <1>3, <1>4, <1>5, <1>6, <1>7 DEF ReloadStep

LEMMA OneInside ==
    ASSUME LockInv, NEW o \in Operations, pc[o] \in InWindow, NEW p \in Operations \ {o}
    PROVE  pc[p] \notin InWindow
BY DEF LockInv

(* At the step of one operation nobody else is inside, before or after.      *)
LEMMA OthersOut ==
    ASSUME TypeOK, LockInv, NEW o \in Operations, SwitchMove(o) \/ ReloadMove(o)
    PROVE  /\ pc[o] \in InWindow
           /\ \A p \in Operations \ {o} : pc'[p] = pc[p] /\ pc[p] \notin InWindow
           /\ \A p \in Operations \ {o} : pc[p] \notin InBody
<1>1. OpStep(o)
  BY DEF SwitchMove, ReloadMove, OpStep, Step, Failing, Cancelled
<1>2. \A p \in Operations \ {o} : pc'[p] = pc[p]
  BY <1>1, OpControl, TypePc DEF Control
<1> QED
  BY <1>2, MovesInside, OneInside DEF InWindow

LEMMA StepStage ==
    ASSUME TypeOK, LockInv, KindInv, StageInv, [Next]_vars
    PROVE  KindInv' /\ StageInv'
<1>b. /\ Building \subseteq InBody /\ InBody \subseteq InWindow
      /\ Switching \cap (Building \cup Committing \cup Restoring) = {}
      /\ InBody = Switching \cup Building \cup Committing \cup Restoring
      /\ "ended" \notin InBody /\ "quieting" \notin InBody
  BY DEF InWindow, InBody, Switching, Building, Committing, Restoring
<1>1. ASSUME UNCHANGED <<pc, current, staging>>
      PROVE  KindInv' /\ StageInv'
  BY <1>1 DEF KindInv, StageInv
<1>2. ASSUME NEW o \in Operations, WaitMove(o)
      PROVE  KindInv' /\ StageInv'
  <2>1. \A p \in Operations \ {o} : pc'[p] = pc[p]
    BY <1>2, OpControl, TypePc DEF Control, WaitMove, OpStep, Step, Failing, Cancelled
  <2>2. UNCHANGED <<current, staging>> /\ (pc'[o] \in InBody => pc'[o] = pc[o])
    BY <1>2, WaitKeeps DEF Untouched
  <2> QED
    BY <1>b, <2>1, <2>2 DEF KindInv, StageInv
<1>3. ASSUME NEW o \in Operations, SwitchMove(o)
      PROVE  KindInv' /\ StageInv'
  <2>1. pc'[o] \in Switching \cup {"ended"} /\ (pc[o] = "quieting" => Kind[o] # "reload")
    BY <1>3, SwitchLeads
  <2>2. pc[o] \in Switching \/ pc[o] = "quieting"
    BY <1>3, MovesInside
  <2>3. \A p \in Operations \ {o} : pc'[p] = pc[p] /\ pc[p] \notin InBody
    BY <1>3, OthersOut
  <2> QED
    BY <1>b, <2>1, <2>2, <2>3 DEF KindInv, StageInv
<1>4. ASSUME NEW o \in Operations, ReloadMove(o)
      PROVE  KindInv' /\ StageInv'
  <2>1. /\ pc'[o] \in Building \cup Committing \cup Restoring \cup {"ended"}
        /\ pc[o] = "quieting" => Kind[o] = "reload"
        /\ pc'[o] \in Building =>
              (pc[o] = "quieting" /\ Stage(Package)) \/ (pc[o] \in Building /\ UNCHANGED <<current, staging>>)
    BY <1>4, ReloadLeads
  <2>2. pc[o] \in InBody \ Switching \/ pc[o] = "quieting"
    BY <1>4, MovesInside
  <2>3. \A p \in Operations \ {o} : pc'[p] = pc[p] /\ pc[p] \notin InBody
    BY <1>4, OthersOut
  <2>4. KindInv'
    BY <1>b, <2>1, <2>2, <2>3 DEF KindInv
  <2>5. pc'[o] \in Building => \A m \in Package : staging'[m] = current'[m] + 1 /\ staging'[m] \in Generations
    BY <2>1, ReloadAssumption DEF StageInv, Stage
  <2> QED
    BY <1>b, <2>3, <2>4, <2>5 DEF StageInv
<1>5. CASE UNCHANGED vars \/ JobStep
  BY <1>1, <1>5 DEF vars, JobStep, JobAlone
<1>6. CASE RuntimeMoves /\ RuntimeAlone
  <2>1. UNCHANGED <<current, staging>>
    BY <1>6 DEF RuntimeMoves, RuntimeStep, RuntimeUse, BeginStop, EndStop, ResourceMade, TaskEnds,
       GetResource, Spawn
  <2> QED
    BY <1>1, <1>6, <2>1 DEF RuntimeAlone
<1>7. CASE (BeginShutdown \/ ShutdownStep) /\ ~StagedStopped
  BY <1>1, <1>7 DEF BeginShutdown, ShutdownStep, CancelOperations, OperationsGone, TakeForShutdown,
     SchedulerStopped, CurrentStopped, Stop, Stops
<1>8. CASE StagedStopped
  <2>1. \A o \in Operations : pc[o] \notin InBody
    BY <1>b, <1>8 DEF StagedStopped, Stops, LockInv
  <2> QED
    BY <1>b, <1>8, <2>1 DEF StagedStopped, Stops, KindInv, StageInv
<1> QED
  BY <1>2, <1>3, <1>4, <1>5, <1>6, <1>7, <1>8, OpMoves, NextSteps
------------------------------------------------------------------------------
(* The jobs.  Their code is that of the registration unless the history is   *)
(* torn, and none runs of a module without a job.                            *)
JobInv ==
    /\ \A m \in Modules : installed[m] = None => executing[m] = None
    /\ WindowQuiet

(* What the row, the registration, the job and the runtime of a module say.  *)
RowOf(m) == status[m] = StatusOf(loaded[m])
JobOf(m) == installed[m] = IF loaded[m] THEN registered[m] ELSE None
Unmoved(m) == registered[m] = current[m] /\ staging[m] = Unstaged
RunsOne(m) == \A g \in Generations : <<m, g>> \in active <=> loaded[m] /\ g = current[m]
WindsUp(m) ==
    \A g \in Generations : <<m, g>> \in active => g = current[m] /\ <<m, g>> \in stopping
AtMostOne(m) == \A g \in Generations : <<m, g>> \in active => g = current[m]
Agrees(m) == RowOf(m) /\ JobOf(m) /\ Unmoved(m) /\ RunsOne(m)

(* How far they agree at each point of a load or unload ...                  *)
SwitchAgrees(o, m) ==
    /\ pc[o] = "writing" => Agrees(m)
    /\ pc[o] = "written" =>
          status[m] = StatusOf(Kind[o] = "load") /\ JobOf(m) /\ Unmoved(m) /\ RunsOne(m)
    /\ pc[o] \in {"suspending", "suspendingCut", "resuspending"} =>
          RowOf(m) /\ JobOf(m) /\ Unmoved(m) /\ ~loaded[m] /\ WindsUp(m)
    /\ pc[o] \in {"undoing", "undone"} => Unmoved(m) /\ AtMostOne(m)
    /\ pc[o] = "undone" => status[m] = StatusOf(oldLoad[o])

(* ... and of a reload, where what it would restore agrees from the import   *)
(* to the commit.                                                            *)
UndoAgrees(m) ==
    /\ undo.status[m] = StatusOf(undo.loaded[m])
    /\ undo.installed[m] = IF undo.loaded[m] THEN undo.registered[m] ELSE None
    /\ undo.registered[m] = current[m]
    /\ \A g \in Generations : <<m, g>> \in active <=> undo.loaded[m] /\ g = current[m]

Rebuilding == Building \ {"reading"}
Imported == Rebuilding \cup Restoring

ReloadAgrees(o, m) ==
    /\ pc[o] = "reading" =>
          RowOf(m) /\ JobOf(m) /\ registered[m] = current[m] /\ RunsOne(m)
    /\ pc[o] \in Imported => UndoAgrees(m)
    /\ pc[o] \in Rebuilding => registered[m] = staging[m] /\ loaded[m] = undo.loaded[m]
    /\ pc[o] \in {"inserted", "preparing"} => RowOf(m)
    /\ pc[o] = "preparing" => JobOf(m)
    /\ pc[o] \in {"stopping", "stoppingCut"} =>
          /\ RowOf(m) /\ JobOf(m) /\ Unmoved(m)
          /\ loaded[m] => <<m, current[m]>> \in active
          /\ <<m, current[m]>> \notin stopping
          /\ \A g \in Generations : <<m, g>> \in active =>
                (loaded[m] /\ g = current[m]) \/ <<m, g>> \in stopping
    /\ pc[o] \in {"switching", "closing", "closingCut"} => Agrees(m)
    /\ pc[o] = "restored" => status[m] = undo.status[m]

(* What an operation does not change agrees throughout.                      *)
Changes(o) == IF Kind[o] = "reload" THEN Package ELSE {Target[o]}
Elsewhere(o, m) ==
    /\ Agrees(m)
    /\ pc[o] \in Imported => undo.registered[m] = registered[m] /\ undo.loaded[m] = loaded[m]

AllAgree == \A m \in Modules : Agrees(m)
BodyAgrees(o) ==
    /\ \A m \in Changes(o) : SwitchAgrees(o, m) /\ ReloadAgrees(o, m)
    /\ \A m \in Modules \ Changes(o) : Elsewhere(o, m)

AgreeInv ==
    ~torn /\ shutdown \notin Stopped =>
       /\ (\A o \in Operations : pc[o] \notin InBody) => AllAgree
       /\ \A o \in Operations : pc[o] \in InBody => BodyAgrees(o)

LEMMA OpJobs ==
    ASSUME TypeOK, KindInv, NEW o \in Operations, SwitchMove(o) \/ ReloadMove(o), NEW m \in Modules
    PROVE  \/ installed'[m] = installed[m] /\ registered'[m] = registered[m]
           \/ pc[o] \in InBody /\ m \in Scope(o)
<1>1. CASE SwitchMove(o)
  <2>1. registered' = registered /\ (m # Target[o] => installed'[m] = installed[m])
    BY <1>1 DEF SwitchMove, SwitchStep, StartSwitch, WriteStatus, UndoWrite, Statement, Loaded,
       Unloaded, Undone, Sets, Reconcile, Install, Suspended, Resuspended, UndoFails,
       CancelledUndoing, WriteFails, CancelledSwitching, CancelledTo, Body
  <2>2. pc[o] \in Switching \/ (pc[o] = "quieting" /\ StartSwitch(o))
    BY <1>1, MovesInside
  <2>3. StartSwitch(o) => installed' = installed
    BY DEF StartSwitch
  <2>4. pc[o] \in Switching => pc[o] \in InBody /\ Scope(o) = {Target[o]}
    BY DEF KindInv, Scope, InBody
  <2> QED
    BY <2>1, <2>2, <2>3, <2>4
<1>2. CASE ReloadMove(o)
  <2>1. pc[o] \in InBody \ Switching \/ (pc[o] = "quieting" /\ Prepare(o))
    BY <1>2, MovesInside
  <2>2. pc[o] \in InBody \ Switching => Scope(o) = Modules
    BY DEF KindInv, Scope
  <2>3. Prepare(o) => UNCHANGED <<installed, registered>>
    BY DEF Prepare
  <2> QED
    BY <2>1, <2>2, <2>3
<1> QED
  BY <1>1, <1>2

LEMMA StepJobs ==
    ASSUME TypeOK, LockInv, GateInv, KindInv, JobInv, AgreeInv, LockInv', [Next]_vars
    PROVE  JobInv'
<1>b. /\ InBody \subseteq InWindow /\ "quieting" \notin InBody /\ "ended" \notin InBody
      /\ Switching \subseteq InBody
  BY DEF InWindow, InBody, Switching, Building, Committing, Restoring
<1>1. CASE UNCHANGED vars
  BY <1>1 DEF vars, JobInv, WindowQuiet
<1>2. ASSUME NEW o \in Operations, WaitMove(o)
      PROVE  JobInv'
  <2>1. /\ executing' = executing
        /\ \A p \in Operations \ {o} : pc'[p] = pc[p]
    BY <1>2, OpControl, TypePc DEF Control, WaitMove, OpStep, Step, Failing, Cancelled
  <2>2. Untouched /\ (pc'[o] \in InBody => pc'[o] = pc[o])
    BY <1>2, WaitKeeps
  <2>3. \A p \in Operations : pc'[p] \in InBody => pc[p] \in InBody /\ owner' = p
    BY <1>b, <2>1, <2>2 DEF LockInv
  <2> QED
    BY <2>1, <2>2, <2>3 DEF JobInv, WindowQuiet, Untouched, Scope
<1>3. ASSUME NEW o \in Operations, SwitchMove(o) \/ ReloadMove(o)
      PROVE  JobInv'
  <2>1. executing' = executing
    BY <1>3, OpControl, TypePc DEF Control, SwitchMove, ReloadMove, OpStep, Step, Failing, Cancelled
  <2>2. /\ \A p \in Operations \ {o} : pc'[p] = pc[p] /\ pc[p] \notin InBody
        /\ torn => torn'
    BY <1>3, OthersOut, SwitchLeads, ReloadLeads
  <2>3. pc[o] \in InBody => \A m \in Scope(o) : executing[m] = None
    BY DEF JobInv, WindowQuiet
  <2>4. \A m \in Modules : /\ installed'[m] = None => executing[m] = None
                           /\ ~torn' => executing[m] \in {None, registered'[m]}
    BY <1>3, <2>2, <2>3, OpJobs DEF JobInv, WindowQuiet
  <2>5. pc'[o] \in InBody => \A m \in Scope(o) : executing[m] = None
    <3>1. CASE pc[o] \in InBody
      BY <2>3, <3>1
    <3>2. CASE pc[o] \notin InBody
      <4>1. StartSwitch(o) \/ Prepare(o)
        BY <1>3, <1>b, <3>2, MovesInside
      <4>2. Quiet(Scope(o)) /\ Scope(o) \subseteq Modules
        BY <4>1, TargetType DEF StartSwitch, Prepare, Scope
      <4>3. \A m \in Scope(o) : installed[m] # None => executing[m] = None
        BY <4>2 DEF Quiet
      <4> QED
        BY <4>2, <4>3 DEF JobInv
    <3> QED
      BY <3>1, <3>2
  <2>6. \A p \in Operations : pc'[p] \in InBody => p = o /\ owner' = p
    BY <1>b, <2>2 DEF LockInv
  <2> QED
    BY <2>1, <2>4, <2>5, <2>6 DEF JobInv, WindowQuiet, Scope
<1>4. CASE JobStep
  <2>1. UNCHANGED <<accepting, owner, pc, installed, registered, torn>>
    BY <1>4 DEF JobStep, JobAlone, Launch, JobEnds
  <2>2. ASSUME NEW m \in Modules
        PROVE  \/ executing'[m] \in {executing[m], None}
               \/ accepting /\ installed[m] # None /\ executing'[m] = installed[m]
    BY <1>4 DEF JobStep, Launch, JobEnds, TypeOK, SchedulerTypeOK
  <2>3. accepting /\ ~torn => \A m \in Modules : installed[m] \in {None, registered[m]}
    <3>1. accepting => shutdown = "none" /\ \A o \in Operations : pc[o] \notin InBody
      <4>1. \A o \in Operations : o # Free
        BY ReloadAssumption
      <4> QED
        BY <1>b, <4>1 DEF GateInv, LockInv
    <3> QED
      BY <3>1 DEF AgreeInv, AllAgree, Agrees, JobOf, Stopped
  <2>4. ASSUME NEW o \in Operations, pc[o] \in InBody
        PROVE  owner = o /\ ~accepting /\ \A m \in Scope(o) : m \in Modules /\ executing[m] = None
    <3>1. owner = o /\ o # Free
      BY <1>b, <2>4, ReloadAssumption DEF LockInv
    <3> QED
      BY <2>4, <3>1, TargetType DEF GateInv, JobInv, WindowQuiet, Scope
  <2>5. \A m \in Modules : installed'[m] = None => executing'[m] = None
    BY <2>1, <2>2 DEF JobInv
  <2>6. \A m \in Modules : ~torn' => executing'[m] \in {None, registered'[m]}
    BY <2>1, <2>2, <2>3 DEF JobInv, WindowQuiet
  <2>7. \A o \in Operations : pc'[o] \in InBody =>
           owner' = o /\ \A m \in Scope(o) : executing'[m] = None
    BY <2>1, <2>2, <2>4
  <2> QED
    BY <2>5, <2>6, <2>7 DEF JobInv, WindowQuiet, Scope
<1>5. CASE RuntimeMoves /\ RuntimeAlone
  BY <1>5 DEF RuntimeAlone, JobInv, WindowQuiet, Scope
<1>6. CASE (BeginShutdown \/ ShutdownStep) /\ ~SchedulerStopped
  <2>1. UNCHANGED <<installed, executing, registered, pc, torn>>
    BY <1>6 DEF BeginShutdown, CloseEntrance, ShutdownStep, CancelOperations, OperationsGone,
       TakeForShutdown, LockForShutdown, CurrentStopped, StagedStopped, Stops
  <2>2. \A o \in Operations : pc'[o] \in InBody => owner' = o
    BY <1>b DEF LockInv
  <2> QED
    BY <2>1, <2>2 DEF JobInv, WindowQuiet, Scope
<1>7. CASE SchedulerStopped
  <2>1. /\ \A m \in Modules : executing[m] = None
        /\ UNCHANGED <<executing, registered, pc, torn>>
    BY <1>7 DEF SchedulerStopped, ClearJobs, Stops
  <2>2. \A o \in Operations : pc'[o] \in InBody => owner' = o
    BY <1>b DEF LockInv
  <2>3. \A o \in Operations : Scope(o) \subseteq Modules
    BY TargetType DEF Scope
  <2> QED
    BY <2>1, <2>2, <2>3 DEF JobInv, WindowQuiet, Scope
<1> QED
  BY <1>1, <1>2, <1>3, <1>4, <1>5, <1>6, <1>7, OpMoves, NextSteps
------------------------------------------------------------------------------
(* The runtimes to be stopped are those of the operation that waits for      *)
(* their end, or of the shutdown.                                            *)
StopsNow == {"suspending", "suspendingCut", "resuspending", "stopping", "stoppingCut"}

StopInv ==
    /\ stopping # {} =>
          shutdown \in {"stopping", "staged"} \/ \E o \in Operations : pc[o] \in StopsNow
    /\ \A o \in Operations :
          /\ pc[o] \in Switching => stopping \subseteq Of({Target[o]}, current)
          /\ pc[o] \in {"stopping", "stoppingCut"} => stopping \subseteq Package \X Generations

LEMMA Calm ==
    ASSUME LockInv, StopInv, NEW o \in Operations, pc[o] \in InWindow \ StopsNow
    PROVE  stopping = {}
<1>1. owner = o /\ shutdown \notin {"stopping", "staged"}
  BY DEF LockInv
<1>2. StopsNow \subseteq InWindow
  BY DEF StopsNow, InWindow, InBody, Switching, Committing
<1>3. \A p \in Operations \ {o} : pc[p] \notin StopsNow
  BY <1>2, OneInside
<1> QED
  BY <1>1, <1>3 DEF StopInv

LEMMA ToStopSubset == \A S : ToStop(S) \subseteq S
BY DEF ToStop

LEMMA SwitchStops ==
    ASSUME TypeOK, LockInv, StopInv, NEW o \in Operations, SwitchMove(o)
    PROVE  \/ stopping' = {}
           \/ /\ pc'[o] \in {"suspending", "suspendingCut", "resuspending"}
              /\ stopping' \subseteq Of({Target[o]}, current)
<1> USE TypePc, GoesTo DEF SwitchMove
<1>c. pc[o] \in {"quieting", "writing", "written", "undoing", "undone"} => stopping = {}
  BY Calm DEF InWindow, InBody, Switching, StopsNow
<1>s. pc[o] \in Switching => stopping \subseteq Of({Target[o]}, current)
  BY DEF StopInv
<1>1. CASE StartSwitch(o) \/ WriteStatus(o) \/ UndoWrite(o) \/ WriteFails(o)
  BY <1>1, <1>c DEF StartSwitch, WriteStatus, UndoWrite, WriteFails, Statement, Body, At
<1>2. CASE Loaded(o)
  BY <1>2, <1>c DEF Loaded, Sets, Activate, At
<1>3. CASE Unloaded(o)
  BY <1>3, ToStopSubset DEF Unloaded, Sets, Stop, Body
<1>4. CASE Undone(o)
  BY <1>4, <1>c, ToStopSubset DEF Undone, Sets, Activate, Stop, At
<1>5. CASE Suspended(o) \/ Resuspended(o)
  BY <1>5 DEF Suspended, Resuspended
<1>6. CASE UndoFails(o) \/ CancelledUndoing(o)
  BY <1>6, <1>c DEF UndoFails, CancelledUndoing, At
<1>7. CASE CancelledSwitching(o)
  BY <1>7, <1>c, <1>s DEF CancelledSwitching, CancelledTo, Switching
<1> QED
  BY <1>1, <1>2, <1>3, <1>4, <1>5, <1>6, <1>7 DEF SwitchStep

LEMMA ReloadStops ==
    ASSUME TypeOK, LockInv, StopInv, NEW o \in Operations, ReloadMove(o)
    PROVE  \/ stopping' = {}
           \/ /\ pc'[o] \in {"stopping", "stoppingCut"}
              /\ stopping' \subseteq Package \X Generations
<1> USE TypePc, GoesTo DEF ReloadMove
<1>c. pc[o] \in {"quieting", "switching", "closing", "closingCut"} \cup Building \cup Restoring =>
         stopping = {}
  BY Calm DEF InWindow, InBody, Building, Committing, Restoring, StopsNow
<1>s. pc[o] \in {"stopping", "stoppingCut"} => stopping \subseteq Package \X Generations
  BY DEF StopInv
<1>1. CASE Prepare(o) \/ Import(o) \/ DeleteStatuses(o) \/ InsertStatuses(o) \/ Reconciled(o)
  BY <1>1, <1>c DEF Prepare, Stage, Import, DeleteStatuses, InsertStatuses, Reconciled,
     Statement, Body, At, Building
<1>2. CASE Commit(o)
  <2>1. Of(Package, current) \subseteq Package \X Generations
    BY ReloadAssumption DEF Of, TypeOK, RuntimesTypeOK
  <2> QED
    BY <1>2, <2>1, ToStopSubset DEF Commit, Replace, Body
<1>3. CASE OldStopped(o)
  BY <1>3 DEF OldStopped
<1>4. CASE SwitchDatabase(o) \/ Committed(o) \/ PollLockTimesOut(o)
  BY <1>4, <1>c DEF SwitchDatabase, Committed, PollLockTimesOut, Body, At
<1>5. CASE RestoreDelete(o) \/ RestoreInsert(o) \/ Restored(o) \/ RestoreFails(o) \/ CancelledRestoring(o)
  BY <1>5, <1>c DEF RestoreDelete, RestoreInsert, Restored, RestoreFails, CancelledRestoring,
     Statement, At, Restoring
<1>6. CASE BuildFails(o) \/ CancelledReading(o) \/ CancelledBuilding(o) \/ StatementFails(o) \/ PrepareFails(o)
  BY <1>6, <1>c DEF BuildFails, Abort, CancelledReading, CancelledBuilding, StatementFails,
     PrepareFails, At, Building
<1>7. CASE CancelledCommitting(o)
  BY <1>7, <1>c, <1>s DEF CancelledCommitting, CancelledTo
<1> QED
  BY <1>1, <1>2, <1>3, <1>4, <1>5, <1>6, <1>7 DEF ReloadStep

LEMMA RuntimeMoveEffect ==
    ASSUME TypeOK, RuntimeMoves
    PROVE  /\ UNCHANGED <<current, staging>>
           /\ stopping' \subseteq stopping /\ active' \subseteq active
           /\ \A r \in active : r \in active' \/ r \in stopping'
           /\ \A r \in active : r \in stopping => r \in stopping'
           /\ \A r \in active \ active' : r \in stopping
<1>1. ASSUME NEW r, RuntimeStep(r) \/ RuntimeUse(r)
      PROVE  /\ UNCHANGED <<current, staging>>
             /\ stopping' \subseteq stopping /\ active' \subseteq active
             /\ \A q \in active : q \in active' \/ q \in stopping'
             /\ \A q \in active : q \in stopping => q \in stopping'
             /\ \A q \in active \ active' : q \in stopping
  BY <1>1 DEF RuntimeStep, RuntimeUse, BeginStop, EndStop, ResourceMade, TaskEnds, GetResource, Spawn
<1> QED
  BY <1>1 DEF RuntimeMoves

LEMMA StepStops ==
    ASSUME TypeOK, LockInv, StopInv, [Next]_vars
    PROVE  StopInv'
<1>b. /\ StopsNow \subseteq InBody /\ InBody \subseteq InWindow /\ "ended" \notin InBody
      /\ {"stopping", "stoppingCut"} \cap Switching = {} /\ Switching \subseteq InBody
      /\ {"stopping", "stoppingCut"} \subseteq StopsNow
  BY DEF InWindow, InBody, Switching, Building, Committing, Restoring, StopsNow
<1>1. ASSUME UNCHANGED <<pc, current, shutdown>>, stopping' \subseteq stopping
      PROVE  StopInv'
  BY <1>1 DEF StopInv
<1>2. ASSUME NEW o \in Operations, WaitMove(o)
      PROVE  StopInv'
  <2>1. (\A p \in Operations \ {o} : pc'[p] = pc[p]) /\ shutdown' = shutdown
    BY <1>2, OpControl, TypePc DEF Control, WaitMove, OpStep, Step, Failing, Cancelled
  <2>2. UNCHANGED <<current, stopping>> /\ (pc[o] \in InBody \/ pc'[o] \in InBody => pc'[o] = pc[o])
    BY <1>2, WaitKeeps DEF Untouched
  <2>3. \A p \in Operations : pc'[p] \in InBody \/ pc[p] \in InBody => pc'[p] = pc[p]
    BY <2>1, <2>2
  <2> QED
    BY <1>b, <2>1, <2>2, <2>3 DEF StopInv
<1>3. ASSUME NEW o \in Operations, SwitchMove(o) \/ ReloadMove(o)
      PROVE  StopInv'
  <2>1. \A p \in Operations \ {o} : pc'[p] = pc[p] /\ pc[p] \notin InBody
    BY <1>3, OthersOut
  <2>2. \/ stopping' = {}
        \/ SwitchMove(o) /\ pc'[o] \in StopsNow /\ stopping' \subseteq Of({Target[o]}, current)
              /\ pc'[o] \notin {"stopping", "stoppingCut"} /\ current' = current
        \/ pc'[o] \in {"stopping", "stoppingCut"} /\ stopping' \subseteq Package \X Generations
    BY <1>3, SwitchStops, ReloadStops, SwitchLeads DEF StopsNow
  <2> QED
    BY <1>b, <2>1, <2>2 DEF StopInv
<1>4. CASE UNCHANGED vars \/ JobStep
  BY <1>1, <1>4 DEF vars, JobStep, JobAlone
<1>5. CASE RuntimeMoves /\ RuntimeAlone
  BY <1>1, <1>5, RuntimeMoveEffect DEF RuntimeAlone
<1>6. CASE BeginShutdown \/ CancelOperations \/ OperationsGone \/ TakeForShutdown
  BY <1>6 DEF BeginShutdown, CancelOperations, OperationsGone, TakeForShutdown, Stops, StopInv
<1>7. CASE SchedulerStopped \/ CurrentStopped \/ StagedStopped
  <2>1. \A o \in Operations : pc[o] \notin InBody
    <3>1. shutdown = "quieting" \/ shutdown \in {"stopping", "staged"}
      BY <1>7 DEF SchedulerStopped, CurrentStopped, StagedStopped, Stops
    <3> QED
      BY <3>1, <1>b DEF LockInv
  <2>2. shutdown' \in {"stopping", "staged"} \/ stopping' = {}
    BY <1>7 DEF SchedulerStopped, CurrentStopped, StagedStopped, Stops
  <2>3. pc' = pc
    BY <1>7 DEF SchedulerStopped, CurrentStopped, StagedStopped, Stops
  <2> QED
    BY <1>b, <2>1, <2>2, <2>3 DEF StopInv
<1> QED
  BY <1>2, <1>3, <1>4, <1>5, <1>6, <1>7, OpMoves, NextSteps DEF ShutdownStep
------------------------------------------------------------------------------
(* A load or unload: the module it names ...                                 *)
LEMMA SwitchTarget ==
    ASSUME TypeOK, LockInv, KindInv, StopInv, NEW o \in Operations, SwitchMove(o), ~torn',
           NEW t, t = Target[o],
           pc[o] = "quieting" => Agrees(t),
           pc[o] \in Switching => SwitchAgrees(o, t)
    PROVE  /\ pc'[o] \in Switching => SwitchAgrees(o, t)'
           /\ pc'[o] = "ended" => Agrees(t)'
<1> USE TypePc, GoesTo DEF SwitchMove, Unmoved
<1>t. t \in Modules
  BY TargetType
<1>a. current[t] \in Generations
  BY <1>t DEF TypeOK, RuntimesTypeOK
<1>1. CASE StartSwitch(o)
  <2>1. pc[o] = "quieting" /\ pc'[o] = "writing" /\ UNCHANGED <<moduleVars, runtimeVars, installed>>
    BY <1>1 DEF StartSwitch, Body, At
  <2> QED
    BY <2>1 DEF SwitchAgrees, Agrees, RowOf, JobOf, RunsOne
<1>2. CASE WriteStatus(o)
  <2>1. /\ pc[o] = "writing" /\ pc'[o] = "written" /\ status'[t] = StatusOf(Kind[o] = "load")
        /\ UNCHANGED <<loaded, registered, runtimeVars, installed>>
    BY <1>2, <1>t DEF WriteStatus, Statement, TypeOK
  <2> QED
    BY <2>1 DEF SwitchAgrees, Agrees, JobOf, RunsOne, Switching
<1>3. CASE WriteFails(o)
  <2>1. pc[o] = "writing" /\ pc'[o] = "undoing" /\ UNCHANGED <<registered, runtimeVars>>
    BY <1>3 DEF WriteFails, At
  <2> QED
    BY <2>1 DEF SwitchAgrees, Agrees, RunsOne, AtMostOne, Switching
<1>4. CASE Loaded(o)
  <2>1. /\ pc[o] = "written" /\ Kind[o] = "load" /\ pc'[o] = "ended"
        /\ loaded'[t] = TRUE /\ installed'[t] = registered[t]
        /\ active' = active \cup {<<t, current[t]>>}
        /\ UNCHANGED <<status, registered, current, staging>>
    BY <1>4, <1>t DEF Loaded, At, Ends, Sets, Reconcile, Install, Activate, Of, TypeOK
  <2>2. status[t] = StatusOf(TRUE) /\ JobOf(t) /\ Unmoved(t) /\ RunsOne(t)
    BY <2>1 DEF SwitchAgrees, Switching
  <2>3. RowOf(t)' /\ JobOf(t)' /\ Unmoved(t)'
    BY <2>1, <2>2 DEF RowOf, JobOf
  <2>4. RunsOne(t)'
    BY <2>1, <2>2, <1>a DEF RunsOne
  <2> QED
    BY <2>1, <2>3, <2>4 DEF Agrees, Switching
<1>5. CASE Unloaded(o)
  <2>1. /\ pc[o] = "written" /\ Kind[o] = "unload" /\ pc'[o] = "suspending"
        /\ loaded'[t] = FALSE /\ installed'[t] = None
        /\ stopping' = ToStop({<<t, current[t]>>})
        /\ UNCHANGED <<status, registered, current, staging, active>>
    <3>1. pc[o] = "written" /\ Kind[o] = "unload" /\ pc'[o] = "suspending" /\ Sets(o, FALSE)
      BY <1>5 DEF Unloaded, Body, At
    <3>2. /\ loaded'[t] = FALSE /\ installed'[t] = None
          /\ UNCHANGED <<status, registered>>
      BY <3>1, <1>t DEF Sets, Reconcile, Install, TypeOK
    <3>3. /\ stopping' = ToStop({<<t, current[t]>>})
          /\ UNCHANGED <<current, staging, active>>
      BY <3>1 DEF Sets, Stop, Of
    <3> QED
      BY <3>1, <3>2, <3>3
  <2>2. status[t] = StatusOf(FALSE) /\ Unmoved(t) /\ RunsOne(t)
    BY <2>1 DEF SwitchAgrees, Switching
  <2>3. RowOf(t)' /\ JobOf(t)' /\ Unmoved(t)'
    BY <2>1, <2>2 DEF RowOf, JobOf
  <2>4. WindsUp(t)'
    BY <2>1, <2>2 DEF RunsOne, WindsUp, ToStop
  <2> QED
    BY <2>1, <2>3, <2>4 DEF SwitchAgrees
<1>6. CASE Suspended(o) \/ Resuspended(o)
  <2>1. /\ pc[o] \in {"suspending", "suspendingCut", "resuspending"} /\ stopping = {}
        /\ pc'[o] \in {"ended", "undoing"}
        /\ UNCHANGED <<moduleVars, runtimeVars, installed>>
    BY <1>6 DEF Suspended, Resuspended, At, Ends
  <2>2. RowOf(t) /\ JobOf(t) /\ Unmoved(t) /\ ~loaded[t] /\ WindsUp(t)
    BY <2>1 DEF SwitchAgrees, Switching
  <2>3. RowOf(t)' /\ JobOf(t)' /\ Unmoved(t)' /\ RunsOne(t)' /\ AtMostOne(t)'
    BY <2>1, <2>2 DEF RowOf, JobOf, WindsUp, RunsOne, AtMostOne
  <2> QED
    BY <2>1, <2>3 DEF Agrees, SwitchAgrees, Switching
<1>7. CASE UndoWrite(o)
  <2>1. /\ pc[o] = "undoing" /\ pc'[o] = "undone" /\ status'[t] = StatusOf(oldLoad[o])
        /\ UNCHANGED <<registered, runtimeVars, oldLoad>>
    BY <1>7, <1>t DEF UndoWrite, Statement, Alone, TypeOK
  <2> QED
    BY <2>1 DEF SwitchAgrees, AtMostOne, Switching
<1>8. CASE Undone(o)
  <2>1. /\ pc[o] = "undone"
        /\ loaded'[t] = oldLoad[o]
        /\ installed'[t] = IF oldLoad[o] THEN registered[t] ELSE None
        /\ UNCHANGED <<status, registered, current, staging>>
    BY <1>8, <1>t DEF Undone, At, Sets, Reconcile, Install, Activate, Stop, TypeOK
  <2>2. status[t] = StatusOf(oldLoad[o]) /\ Unmoved(t) /\ AtMostOne(t)
    BY <2>1 DEF SwitchAgrees, Switching
  <2>3. RowOf(t)' /\ JobOf(t)' /\ Unmoved(t)'
    BY <2>1, <2>2 DEF RowOf, JobOf
  <2>4. CASE oldLoad[o]
    <3>1. pc'[o] = "ended" /\ active' = active \cup {<<t, current[t]>>}
      BY <1>8, <2>4 DEF Undone, Ends, Sets, Activate, Of
    <3>2. RunsOne(t)'
      BY <2>1, <2>2, <2>4, <3>1, <1>a DEF RunsOne, AtMostOne
    <3> QED
      BY <2>3, <3>1, <3>2 DEF Agrees, Switching
  <2>5. CASE ~oldLoad[o]
    <3>1. /\ pc'[o] = "resuspending" /\ active' = active
          /\ stopping' = ToStop({<<t, current[t]>>})
      BY <1>8, <2>5 DEF Undone, Sets, Stop, Of
    <3>2. WindsUp(t)' /\ ~loaded'[t]
      BY <2>1, <2>2, <2>5, <3>1 DEF WindsUp, AtMostOne, ToStop
    <3> QED
      BY <2>3, <3>1, <3>2 DEF SwitchAgrees
  <2> QED
    BY <2>4, <2>5
<1>9. CASE UndoFails(o) \/ CancelledUndoing(o)
  BY <1>9 DEF UndoFails, CancelledUndoing
<1>10. CASE CancelledSwitching(o)
  <2>1. /\ UNCHANGED <<moduleVars, installed, current, staging, active>>
        /\ \/ pc[o] \in {"writing", "written", "suspendingCut"} /\ pc'[o] = "undoing"
           \/ pc[o] = "suspending" /\ pc'[o] = "suspendingCut" /\ stopping' = stopping
           \/ pc[o] = "resuspending" /\ pc'[o] = "resuspending" /\ stopping' = stopping
    BY <1>10 DEF CancelledSwitching, CancelledTo
  <2>2. CASE pc'[o] = "undoing"
    <3>1. Unmoved(t) /\ AtMostOne(t)
      BY <2>1, <2>2 DEF SwitchAgrees, Switching, Agrees, RunsOne, WindsUp, AtMostOne
    <3> QED
      BY <2>1, <2>2, <3>1 DEF SwitchAgrees, AtMostOne
  <2>3. CASE pc'[o] \in {"suspendingCut", "resuspending"}
    <3>1. RowOf(t) /\ JobOf(t) /\ Unmoved(t) /\ ~loaded[t] /\ WindsUp(t)
      BY <2>1, <2>3 DEF SwitchAgrees, Switching
    <3>2. RowOf(t)' /\ JobOf(t)' /\ Unmoved(t)' /\ ~loaded'[t] /\ WindsUp(t)'
      BY <2>1, <2>3, <3>1 DEF RowOf, JobOf, WindsUp
    <3> QED
      BY <2>3, <3>2 DEF SwitchAgrees
  <2> QED
    BY <2>1, <2>2, <2>3
<1> QED
  BY <1>1, <1>2, <1>3, <1>4, <1>5, <1>6, <1>7, <1>8, <1>9, <1>10 DEF SwitchStep

(* ... and the others.                                                       *)
SameModule(m) ==
    /\ status'[m] = status[m] /\ loaded'[m] = loaded[m] /\ registered'[m] = registered[m]
    /\ installed'[m] = installed[m] /\ current'[m] = current[m] /\ staging'[m] = staging[m]
    /\ \A g \in Generations : <<m, g>> \in active' <=> <<m, g>> \in active

LEMMA SameAgrees ==
    ASSUME NEW m, SameModule(m), Agrees(m)
    PROVE  Agrees(m)'
BY DEF SameModule, Agrees, RowOf, JobOf, Unmoved, RunsOne

LEMMA SwitchOthers ==
    ASSUME TypeOK, NEW o \in Operations, SwitchMove(o), NEW m \in Modules \ {Target[o]}
    PROVE  SameModule(m)
<1> USE TargetType DEF SameModule, SwitchMove
<1>1. CASE StartSwitch(o) \/ Suspended(o) \/ Resuspended(o) \/ UndoFails(o) \/ CancelledUndoing(o)
  BY <1>1 DEF StartSwitch, Suspended, Resuspended, UndoFails, CancelledUndoing
<1>2. CASE WriteStatus(o) \/ UndoWrite(o)
  BY <1>2 DEF WriteStatus, UndoWrite, Statement, TypeOK
<1>3. CASE Loaded(o) \/ Unloaded(o) \/ Undone(o)
  <2>1. \E load \in {TRUE, FALSE, oldLoad[o]} : Sets(o, load)
    BY <1>3 DEF Loaded, Unloaded, Undone
  <2>2. active' = active \/ active' = active \cup {<<Target[o], current[Target[o]]>>}
    BY <2>1 DEF Sets, Activate, Stop, Of
  <2>3. /\ loaded'[m] = loaded[m] /\ installed'[m] = installed[m]
        /\ UNCHANGED <<status, registered, current, staging>>
    BY <2>1 DEF Sets, Reconcile, Install, Activate, Stop, TypeOK, SchedulerTypeOK
  <2> QED
    BY <2>2, <2>3
<1>4. CASE WriteFails(o) \/ CancelledSwitching(o)
  BY <1>4 DEF WriteFails, CancelledSwitching, CancelledTo
<1> QED
  BY <1>1, <1>2, <1>3, <1>4 DEF SwitchStep

(* A reload: a module that it replaces ...                                   *)
LEMMA ReloadTarget ==
    ASSUME TypeOK, LockInv, KindInv, StageInv, StopInv,
           NEW o \in Operations, ReloadMove(o), ~torn', NEW m \in Package,
           pc[o] = "quieting" => Agrees(m),
           pc[o] \in InBody \ Switching => ReloadAgrees(o, m)
    PROVE  /\ pc'[o] \in InBody => ReloadAgrees(o, m)'
           /\ pc'[o] = "ended" => Agrees(m)'
<1>m. m \in Modules
  BY ReloadAssumption
<1>b. /\ Building \cup Committing \cup Restoring \subseteq InBody \ Switching
      /\ "ended" \notin InBody
  BY DEF InBody, Switching, Building, Committing, Restoring
<1>g. pc[o] \in Building =>
         staging[m] = current[m] + 1 /\ staging[m] \in Generations /\ current[m] \in Generations
  BY <1>m DEF StageInv, TypeOK, RuntimesTypeOK
<1> USE TypePc, GoesTo DEF ReloadMove, Unmoved, Building, Committing, Restoring, Rebuilding, Imported
<1>1. CASE Prepare(o)
  <2>1. /\ pc[o] = "quieting" /\ pc'[o] = "reading"
        /\ UNCHANGED <<moduleVars, installed, current, active>>
    BY <1>1 DEF Prepare, Body, At, Stage
  <2> QED
    BY <2>1 DEF ReloadAgrees, Agrees, RowOf, JobOf, RunsOne
<1>2. CASE BuildFails(o) \/ CancelledReading(o)
  <2>1. /\ pc[o] = "reading" /\ pc'[o] = "ended" /\ staging' = [n \in Modules |-> Unstaged]
        /\ UNCHANGED <<moduleVars, installed, current, active>>
    BY <1>2 DEF BuildFails, CancelledReading, Abort, At, Ends, Unstage
  <2>2. RowOf(m) /\ JobOf(m) /\ registered[m] = current[m] /\ RunsOne(m)
    BY <1>b, <2>1 DEF ReloadAgrees
  <2> QED
    BY <1>b, <1>m, <2>1, <2>2 DEF Agrees, RowOf, JobOf, RunsOne
<1>3. CASE Import(o)
  <2>1. /\ pc[o] = "reading" /\ pc'[o] = "deleting"
        /\ UNCHANGED <<status, installed, runtimeVars>>
    BY <1>3 DEF Import, At
  <2>2. /\ registered'[m] = staging[m] /\ loaded'[m] = (status[m] # "off")
        /\ undo'.status = status /\ undo'.loaded = loaded
        /\ undo'.registered = registered /\ undo'.installed = installed
    BY <1>3, <1>m DEF Import
  <2>3. RowOf(m) /\ JobOf(m) /\ registered[m] = current[m] /\ RunsOne(m)
    BY <1>b, <2>1 DEF ReloadAgrees
  <2>4. loaded'[m] = loaded[m]
    <3>1. loaded[m] \in BOOLEAN
      BY <1>m DEF TypeOK
    <3>2. CASE loaded[m] = TRUE
      BY <2>2, <2>3, <3>2 DEF RowOf, StatusOf
    <3>3. CASE loaded[m] = FALSE
      BY <2>2, <2>3, <3>3 DEF RowOf, StatusOf
    <3> QED
      BY <3>1, <3>2, <3>3
  <2>5. UndoAgrees(m)'
    BY <2>1, <2>2, <2>3 DEF UndoAgrees, RowOf, JobOf, RunsOne
  <2> QED
    BY <2>1, <2>2, <2>4, <2>5 DEF ReloadAgrees
<1>4. CASE DeleteStatuses(o) \/ InsertStatuses(o)
  <2>1. /\ \/ pc[o] = "deleting" /\ pc'[o] = "inserting"
           \/ pc[o] = "inserting" /\ pc'[o] = "inserted" /\ status'[m] = StatusOf(loaded[m])
        /\ UNCHANGED <<loaded, registered, undo, runtimeVars, installed>>
    BY <1>4, <1>m DEF DeleteStatuses, InsertStatuses, Statement, Rows, Alone
  <2>2. UndoAgrees(m) /\ registered[m] = staging[m] /\ loaded[m] = undo.loaded[m]
    BY <1>b, <2>1 DEF ReloadAgrees
  <2>3. UndoAgrees(m)'
    BY <2>1, <2>2 DEF UndoAgrees
  <2> QED
    BY <2>1, <2>2, <2>3 DEF ReloadAgrees, RowOf
<1>5. CASE StatementFails(o) \/ PrepareFails(o) \/ CancelledBuilding(o)
  <2>1. /\ pc[o] \in Rebuilding /\ pc'[o] = "restoring"
        /\ UNCHANGED <<undo, runtimeVars>>
    BY <1>5 DEF StatementFails, PrepareFails, CancelledBuilding, CancelledTo, At, Cut, Alone
  <2>2. UndoAgrees(m)
    BY <1>b, <2>1 DEF ReloadAgrees
  <2>3. UndoAgrees(m)'
    BY <2>1, <2>2 DEF UndoAgrees
  <2> QED
    BY <2>1, <2>3 DEF ReloadAgrees
<1>6. CASE Reconciled(o)
  <2>1. /\ pc[o] = "inserted" /\ pc'[o] = "preparing"
        /\ installed'[m] = IF loaded[m] THEN registered[m] ELSE None
        /\ UNCHANGED <<moduleVars, undo, runtimeVars>>
    BY <1>6, <1>m DEF Reconciled, Reconcile, Install, Body, At, Alone
  <2>2. UndoAgrees(m) /\ registered[m] = staging[m] /\ loaded[m] = undo.loaded[m] /\ RowOf(m)
    BY <1>b, <2>1 DEF ReloadAgrees
  <2>3. UndoAgrees(m)' /\ RowOf(m)' /\ JobOf(m)'
    BY <2>1, <2>2 DEF UndoAgrees, RowOf, JobOf
  <2> QED
    BY <2>1, <2>2, <2>3 DEF ReloadAgrees
<1>7. CASE Commit(o)
  <2>1. /\ pc[o] = "preparing" /\ pc'[o] = "stopping"
        /\ UNCHANGED <<moduleVars, installed>>
    BY <1>7 DEF Commit, Body, At
  <2>2. /\ current'[m] = staging[m] /\ staging'[m] = Unstaged
        /\ active' = active \cup Of({n \in Package : loaded[n]}, staging)
        /\ stopping' = ToStop(Of(Package, current))
    BY <1>7, <1>m DEF Commit, Replace
  <2>3. /\ UndoAgrees(m) /\ registered[m] = staging[m] /\ loaded[m] = undo.loaded[m]
        /\ RowOf(m) /\ JobOf(m)
    BY <1>b, <2>1 DEF ReloadAgrees
  <2>4. staging[m] # current[m]
    <3>1. staging[m] = current[m] + 1 /\ current[m] \in Generations
      BY <1>g, <2>1
    <3>2. current[m] \in Nat
      BY <3>1, ReloadAssumption
    <3> QED
      BY <3>1, <3>2
  <2>5. RowOf(m)' /\ JobOf(m)' /\ Unmoved(m)'
    BY <2>1, <2>2, <2>3 DEF RowOf, JobOf
  <2>6. loaded'[m] => <<m, current'[m]>> \in active'
    BY <2>1, <2>2 DEF Of
  <2>7. <<m, current'[m]>> \notin stopping'
    BY <2>2, <2>4 DEF Of, ToStop
  <2>8. ASSUME NEW g \in Generations, <<m, g>> \in active'
        PROVE  (loaded'[m] /\ g = current'[m]) \/ <<m, g>> \in stopping'
    <3>1. CASE <<m, g>> \in active
      <4>1. g = current[m]
        BY <2>3, <3>1 DEF UndoAgrees
      <4> QED
        BY <2>2, <3>1, <4>1 DEF Of, ToStop
    <3>2. CASE <<m, g>> \notin active
      <4>1. <<m, g>> \in Of({n \in Package : loaded[n]}, staging)
        BY <2>2, <2>8, <3>2
      <4> QED
        BY <2>1, <2>2, <4>1 DEF Of
    <3> QED
      BY <3>1, <3>2
  <2> QED
    BY <2>1, <2>5, <2>6, <2>7, <2>8 DEF ReloadAgrees
<1>8. CASE OldStopped(o)
  <2>1. /\ pc[o] \in {"stopping", "stoppingCut"} /\ pc'[o] = "switching" /\ stopping = {}
        /\ UNCHANGED <<moduleVars, installed, runtimeVars>>
    BY <1>8 DEF OldStopped, Body, At
  <2>2. /\ RowOf(m) /\ JobOf(m) /\ Unmoved(m)
        /\ loaded[m] => <<m, current[m]>> \in active
        /\ \A g \in Generations : <<m, g>> \in active => loaded[m] /\ g = current[m]
    BY <1>b, <2>1 DEF ReloadAgrees
  <2>3. RowOf(m)' /\ JobOf(m)' /\ Unmoved(m)' /\ RunsOne(m)'
    BY <2>1, <2>2 DEF RowOf, JobOf, RunsOne
  <2> QED
    BY <2>1, <2>3 DEF ReloadAgrees, Agrees
<1>9. CASE SwitchDatabase(o) \/ Committed(o)
  <2>1. /\ pc[o] \in {"switching", "closing", "closingCut"} /\ pc'[o] \in {"closing", "ended"}
        /\ UNCHANGED <<moduleVars, installed, runtimeVars>>
    BY <1>9 DEF SwitchDatabase, Committed, Body, At, Ends
  <2>2. Agrees(m)
    BY <1>b, <2>1 DEF ReloadAgrees
  <2>3. Agrees(m)'
    BY <2>1, <2>2 DEF Agrees, RowOf, JobOf, RunsOne
  <2> QED
    BY <2>1, <2>3 DEF ReloadAgrees
<1>10. CASE RestoreDelete(o) \/ RestoreInsert(o)
  <2>1. /\ \/ pc[o] = "restoring" /\ pc'[o] = "reinserting"
           \/ pc[o] = "reinserting" /\ pc'[o] = "restored" /\ status'[m] = undo.status[m]
        /\ UNCHANGED <<undo, runtimeVars>>
    BY <1>10, <1>m DEF RestoreDelete, RestoreInsert, Statement, Rows, Alone
  <2>2. UndoAgrees(m)
    BY <1>b, <2>1 DEF ReloadAgrees
  <2>3. UndoAgrees(m)'
    BY <2>1, <2>2 DEF UndoAgrees
  <2> QED
    BY <2>1, <2>3 DEF ReloadAgrees
<1>11. CASE Restored(o)
  <2>1. /\ pc[o] = "restored" /\ pc'[o] = "ended"
        /\ UNCHANGED <<status, current, active>>
    BY <1>11 DEF Restored, At, Ends
  <2>2. /\ registered'[m] = undo.registered[m] /\ loaded'[m] = undo.loaded[m]
        /\ installed'[m] = undo.installed[m] /\ staging'[m] = Unstaged
    BY <1>11, <1>m DEF Restored, Install, Unstage
  <2>3. UndoAgrees(m) /\ status[m] = undo.status[m]
    BY <1>b, <2>1 DEF ReloadAgrees
  <2>4. RowOf(m)' /\ JobOf(m)' /\ Unmoved(m)' /\ RunsOne(m)'
    BY <2>1, <2>2, <2>3 DEF UndoAgrees, RowOf, JobOf, RunsOne
  <2> QED
    BY <1>b, <2>1, <2>4 DEF Agrees
<1>12. CASE PollLockTimesOut(o) \/ RestoreFails(o) \/ CancelledRestoring(o)
  BY <1>12 DEF PollLockTimesOut, RestoreFails, CancelledRestoring
<1>13. CASE CancelledCommitting(o)
  <2>1. /\ \/ pc[o] = "stopping" /\ pc'[o] = "stoppingCut"
           \/ pc[o] = "closing" /\ pc'[o] = "closingCut"
        /\ UNCHANGED <<moduleVars, installed, runtimeVars>>
    BY <1>13 DEF CancelledCommitting, CancelledTo
  <2>2. ReloadAgrees(o, m)
    BY <1>b, <2>1
  <2>3. CASE pc[o] = "closing"
    BY <2>1, <2>2, <2>3 DEF ReloadAgrees, Agrees, RowOf, JobOf, RunsOne
  <2>4. CASE pc[o] = "stopping"
    BY <2>1, <2>2, <2>4 DEF ReloadAgrees, RowOf, JobOf
  <2> QED
    BY <2>1, <2>3, <2>4
<1> QED
  BY <1>1, <1>2, <1>3, <1>4, <1>5, <1>6, <1>7, <1>8, <1>9, <1>10, <1>11, <1>12, <1>13
     DEF ReloadStep

(* ... and the others.                                                       *)
LEMMA ReloadOthers ==
    ASSUME TypeOK, NEW o \in Operations, ReloadMove(o), ~torn', NEW m \in Modules \ Package,
           pc[o] = "quieting" => Agrees(m),
           pc[o] \in InBody \ Switching => Elsewhere(o, m)
    PROVE  SameModule(m) /\ Elsewhere(o, m)'
<1>b. /\ Building \cup Committing \cup Restoring \subseteq InBody \ Switching
      /\ "ended" \notin Imported /\ "reading" \notin Imported
      /\ Imported \subseteq InBody \ Switching
  BY DEF InBody, Switching, Building, Committing, Restoring, Imported, Rebuilding
<1>1. pc[o] = "quieting" \/ pc[o] \in InBody \ Switching
  BY MovesInside
<1>2. Agrees(m)
  BY <1>1 DEF Elsewhere
<1>3. staging[m] = Unstaged
  BY <1>2 DEF Agrees, Unmoved
<1> USE DEF ReloadMove, SameModule
<1>4. CASE Import(o)
  <2>1. /\ SameModule(m)
        /\ undo'.registered = registered /\ undo'.loaded = loaded
    BY <1>4 DEF Import
  <2> QED
    BY <1>2, <2>1, SameAgrees DEF Elsewhere
<1>5. CASE Restored(o)
  <2>1. pc[o] \in Imported /\ pc'[o] = "ended"
    BY <1>5, TypePc, GoesTo DEF Restored, At, Ends, Imported, Restoring
  <2>2. undo.registered[m] = registered[m] /\ undo.loaded[m] = loaded[m]
    BY <1>b, <2>1 DEF Elsewhere
  <2>3. SameModule(m)
    BY <1>3, <1>5, <2>2 DEF Restored, Install, Unstage
  <2> QED
    BY <1>2, <1>b, <2>1, <2>3, SameAgrees DEF Elsewhere
<1>6. CASE ~Import(o) /\ ~Restored(o)
  <2>1. CASE Prepare(o) \/ BuildFails(o) \/ CancelledReading(o)
    <3>1. SameModule(m)
      BY <1>3, <2>1 DEF Prepare, Body, Stage, BuildFails, CancelledReading, Abort, Unstage
    <3>2. pc'[o] \in {"reading", "ended"}
      BY <2>1, TypePc, GoesTo DEF Prepare, Body, BuildFails, CancelledReading, Abort, Ends
    <3> QED
      BY <1>2, <1>b, <3>1, <3>2, SameAgrees DEF Elsewhere
  <2>2. CASE DeleteStatuses(o) \/ InsertStatuses(o) \/ RestoreDelete(o) \/ RestoreInsert(o)
    <3>1. SameModule(m) /\ undo' = undo /\ pc[o] \in Imported
      BY <2>2 DEF DeleteStatuses, InsertStatuses, RestoreDelete, RestoreInsert, Statement, Rows,
         Alone, Imported, Rebuilding, Building, Restoring
    <3>2. undo.registered[m] = registered[m] /\ undo.loaded[m] = loaded[m]
      BY <1>b, <3>1 DEF Elsewhere
    <3> QED
      BY <1>2, <3>1, <3>2, SameAgrees DEF Elsewhere
  <2>3. CASE Commit(o)
    <3>1. /\ pc'[o] = "stopping"
          /\ active' = active \cup Of({n \in Package : loaded[n]}, staging)
          /\ current'[m] = current[m] /\ staging'[m] = staging[m]
          /\ UNCHANGED <<moduleVars, installed>>
      BY <2>3, TypePc, GoesTo DEF Commit, Body, Replace
    <3>2. \A g \in Generations : <<m, g>> \notin Of({n \in Package : loaded[n]}, staging)
      BY DEF Of
    <3>3. SameModule(m)
      BY <3>1, <3>2
    <3>4. pc'[o] \notin Imported
      BY <3>1 DEF Imported, Rebuilding, Building, Restoring
    <3> QED
      BY <1>2, <3>3, <3>4, SameAgrees DEF Elsewhere
  <2>4. CASE Committed(o) \/ OldStopped(o) \/ SwitchDatabase(o)
    <3>1. SameModule(m)
      BY <2>4 DEF Committed, OldStopped, SwitchDatabase
    <3>2. pc'[o] \in {"ended", "switching", "closing"}
      BY <2>4, TypePc, GoesTo DEF Committed, OldStopped, SwitchDatabase, Body, Ends
    <3>3. pc'[o] \notin Imported
      BY <3>2 DEF Imported, Rebuilding, Building, Restoring
    <3> QED
      BY <1>2, <3>1, <3>3, SameAgrees DEF Elsewhere
  <2>5. CASE Reconciled(o) \/ StatementFails(o) \/ PrepareFails(o) \/ CancelledBuilding(o)
    <3>1. SameModule(m) /\ undo' = undo
      BY <2>5 DEF Reconciled, Reconcile, Install, Body, StatementFails, PrepareFails,
         CancelledBuilding, CancelledTo, Cut, Alone
    <3>2. pc[o] \in Imported
      BY <2>5 DEF Reconciled, Body, StatementFails, PrepareFails,
         CancelledBuilding, At, Imported, Rebuilding, Building, Restoring
    <3>3. undo.registered[m] = registered[m] /\ undo.loaded[m] = loaded[m]
      BY <1>b, <3>2 DEF Elsewhere
    <3> QED
      BY <1>2, <3>1, <3>3, SameAgrees DEF Elsewhere
  <2>6. CASE PollLockTimesOut(o) \/ RestoreFails(o) \/ CancelledRestoring(o)
    BY <2>6 DEF PollLockTimesOut, RestoreFails, CancelledRestoring
  <2>7. CASE CancelledCommitting(o)
    <3>1. SameModule(m) /\ pc'[o] \in {"stoppingCut", "closingCut"}
      BY <2>7, TypePc, GoesTo DEF CancelledCommitting, CancelledTo
    <3>2. pc'[o] \notin Imported
      BY <3>1 DEF Imported, Rebuilding, Building, Restoring
    <3> QED
      BY <1>2, <3>1, <3>2, SameAgrees DEF Elsewhere
  <2> QED
    BY <1>6, <2>1, <2>2, <2>3, <2>4, <2>5, <2>6, <2>7 DEF ReloadStep
<1> QED
  BY <1>4, <1>5, <1>6

(* A step that touches nothing of a module or of an operation in its body.   *)
LEMMA AgreesStays ==
    ASSUME AgreeInv, UNCHANGED <<moduleVars, installed, current, staging, active, stopping, torn, undo>>,
           shutdown \in Stopped => shutdown' \in Stopped,
           \A o \in Operations : pc[o] \in InBody \/ pc'[o] \in InBody =>
              pc'[o] = pc[o] /\ oldLoad'[o] = oldLoad[o]
    PROVE  AgreeInv'
<1>1. \A m \in Modules : Agrees(m) => Agrees(m)'
  BY DEF Agrees, RowOf, JobOf, Unmoved, RunsOne
<1>2. ASSUME NEW o \in Operations, pc'[o] \in InBody, BodyAgrees(o)
      PROVE  BodyAgrees(o)'
  <2>1. pc'[o] = pc[o] /\ oldLoad'[o] = oldLoad[o]
    BY <1>2
  <2>2. \A m \in Changes(o) : SwitchAgrees(o, m)'
    BY <1>2, <2>1 DEF BodyAgrees, SwitchAgrees, Agrees, RowOf, JobOf, Unmoved, RunsOne, WindsUp, AtMostOne
  <2>3. \A m \in Changes(o) : ReloadAgrees(o, m)'
    BY <1>2, <2>1 DEF BodyAgrees, ReloadAgrees, UndoAgrees, Agrees, RowOf, JobOf, Unmoved, RunsOne
  <2>4. \A m \in Modules \ Changes(o) : Elsewhere(o, m)'
    BY <1>1, <1>2, <2>1 DEF BodyAgrees, Elsewhere
  <2> QED
    BY <2>2, <2>3, <2>4 DEF BodyAgrees, Changes
<1> QED
  BY <1>1, <1>2 DEF AgreeInv, AllAgree

(* Of the two parts of BodyAgrees one is void, by the kind of the operation. *)
LEMMA Phases ==
    ASSUME NEW o \in Operations
    PROVE  /\ pc[o] \in Switching => \A m : ReloadAgrees(o, m)
           /\ pc[o] \in InBody \ Switching => \A m : SwitchAgrees(o, m)
           /\ pc'[o] \in Switching => \A m : ReloadAgrees(o, m)'
           /\ pc'[o] \in InBody \ Switching => \A m : SwitchAgrees(o, m)'
           /\ pc'[o] \in Switching => pc'[o] \notin Imported
BY DEF Switching, InBody, Building, Committing, Restoring, Rebuilding, Imported,
   SwitchAgrees, ReloadAgrees

LEMMA BodyStart ==
    ASSUME LockInv, AgreeInv, ~torn, shutdown \notin Stopped,
           NEW o \in Operations, pc[o] \in InWindow
    PROVE  /\ pc[o] = "quieting" => AllAgree
           /\ pc[o] \in InBody => BodyAgrees(o)
<1>1. \A p \in Operations \ {o} : pc[p] \notin InBody
  BY OneInside DEF InWindow
<1>2. "quieting" \notin InBody
  BY DEF InBody, Switching, Building, Committing, Restoring
<1> QED
  BY <1>1, <1>2 DEF AgreeInv

LEMMA SwitchKeeps ==
    ASSUME TypeOK, LockInv, KindInv, StopInv, AgreeInv, ~torn, ~torn', shutdown \notin Stopped,
           NEW o \in Operations, SwitchMove(o)
    PROVE  /\ pc'[o] \notin InBody => AllAgree'
           /\ pc'[o] \in InBody => BodyAgrees(o)'
<1> DEFINE t == Target[o]
<1>1. /\ pc[o] \in Switching \/ pc[o] = "quieting"
      /\ pc'[o] \in Switching \cup {"ended"} /\ Kind[o] # "reload" /\ t \in Modules
      /\ Switching \subseteq InBody /\ InBody \subseteq InWindow
      /\ "ended" \notin InBody /\ "quieting" \notin InBody /\ "quieting" \in InWindow
  BY MovesInside, SwitchLeads, TargetType
     DEF KindInv, InWindow, InBody, Switching, Building, Committing, Restoring
<1>2. Changes(o) = {t}
  BY <1>1 DEF Changes
<1>3. /\ pc[o] = "quieting" => AllAgree
      /\ pc[o] \in Switching => SwitchAgrees(o, t) /\ \A m \in Modules \ {t} : Agrees(m)
  BY <1>1, <1>2, BodyStart DEF BodyAgrees, Elsewhere
<1>4. /\ pc'[o] \in Switching => SwitchAgrees(o, t)'
      /\ pc'[o] = "ended" => Agrees(t)'
  BY <1>1, <1>3, SwitchTarget DEF AllAgree
<1>5. \A m \in Modules \ {t} : Agrees(m)'
  BY <1>1, <1>3, SwitchOthers, SameAgrees DEF AllAgree
<1>6. pc'[o] \in Switching => BodyAgrees(o)'
  <2>1. SUFFICES ASSUME pc'[o] \in Switching PROVE BodyAgrees(o)'
    OBVIOUS
  <2>2. (\A m : ReloadAgrees(o, m)') /\ pc'[o] \notin Imported
    BY <2>1, Phases
  <2>3. \A m \in Changes(o) : SwitchAgrees(o, m)' /\ ReloadAgrees(o, m)'
    BY <1>2, <1>4, <2>1, <2>2
  <2>4. \A m \in Modules \ Changes(o) : Elsewhere(o, m)'
    BY <1>2, <1>5, <2>2 DEF Elsewhere
  <2> QED
    BY <2>3, <2>4 DEF BodyAgrees, Changes
<1> QED
  BY <1>1, <1>4, <1>5, <1>6 DEF AllAgree

LEMMA ReloadKeeps ==
    ASSUME TypeOK, LockInv, KindInv, StageInv, StopInv, AgreeInv, ~torn, ~torn', shutdown \notin Stopped,
           NEW o \in Operations, ReloadMove(o)
    PROVE  /\ pc'[o] \notin InBody => AllAgree'
           /\ pc'[o] \in InBody => BodyAgrees(o)'
<1>1. /\ pc[o] \in InBody \ Switching \/ pc[o] = "quieting"
      /\ pc'[o] \in (InBody \ Switching) \cup {"ended"} /\ Kind[o] = "reload"
      /\ InBody \subseteq InWindow
      /\ "ended" \notin InBody /\ "quieting" \notin InBody /\ "quieting" \in InWindow
  BY MovesInside, ReloadLeads
     DEF KindInv, InWindow, InBody, Switching, Building, Committing, Restoring
<1>2. Changes(o) = Package /\ Package \subseteq Modules
  BY <1>1, ReloadAssumption DEF Changes
<1>3. /\ pc[o] = "quieting" => AllAgree
      /\ pc[o] \in InBody \ Switching =>
            /\ \A m \in Package : ReloadAgrees(o, m)
            /\ \A m \in Modules \ Package : Elsewhere(o, m)
  BY <1>1, <1>2, BodyStart DEF BodyAgrees
<1>4. ASSUME NEW m \in Package
      PROVE  /\ pc'[o] \in InBody => ReloadAgrees(o, m)'
             /\ pc'[o] = "ended" => Agrees(m)'
  BY <1>2, <1>3, ReloadTarget DEF AllAgree
<1>5. \A m \in Modules \ Package : Elsewhere(o, m)'
  BY <1>3, ReloadOthers DEF AllAgree
<1>6. pc'[o] \in InBody => BodyAgrees(o)'
  <2>1. SUFFICES ASSUME pc'[o] \in InBody PROVE BodyAgrees(o)'
    OBVIOUS
  <2>2. \A m : SwitchAgrees(o, m)'
    BY <1>1, <2>1, Phases
  <2>3. \A m \in Changes(o) : SwitchAgrees(o, m)' /\ ReloadAgrees(o, m)'
    BY <1>2, <1>4, <2>1, <2>2
  <2>4. \A m \in Modules \ Changes(o) : Elsewhere(o, m)'
    BY <1>2, <1>5
  <2> QED
    BY <2>3, <2>4 DEF BodyAgrees, Changes
<1>7. \A m \in Modules \ Package : Agrees(m)'
  BY <1>5 DEF Elsewhere
<1> QED
  BY <1>1, <1>4, <1>6, <1>7 DEF AllAgree

(* A runtime may lose its flag only in the hands of whoever stops it.        *)
LEMMA RuntimeKeeps ==
    ASSUME TypeOK, LockInv, KindInv, StopInv, AgreeInv, RuntimeMoves, RuntimeAlone
    PROVE  AgreeInv'
<1>1. /\ UNCHANGED <<current, staging>>
      /\ stopping' \subseteq stopping /\ active' \subseteq active
      /\ \A r \in active : r \in active' \/ r \in stopping'
      /\ \A r \in active : r \in stopping => r \in stopping'
      /\ \A r \in active \ active' : r \in stopping
  BY RuntimeMoveEffect
<1>2. /\ UNCHANGED <<pc, oldLoad, undo, torn, shutdown>>
      /\ UNCHANGED <<moduleVars, installed>>
  BY DEF RuntimeAlone
<1>3. CASE stopping = {}
  <2>1. UNCHANGED <<active, stopping>>
    BY <1>1, <1>3
  <2> QED
    BY <1>1, <1>2, <2>1, AgreesStays
<1>4. CASE torn \/ shutdown \in Stopped
  BY <1>2, <1>4 DEF AgreeInv
<1>5. CASE stopping # {} /\ ~torn /\ shutdown \notin Stopped
  <2>1. PICK o \in Operations : pc[o] \in StopsNow
    BY <1>5 DEF StopInv, Stopped
  <2>2. /\ pc[o] \in InBody /\ pc[o] \in InWindow
        /\ pc[o] \in {"suspending", "suspendingCut", "resuspending"} => pc[o] \in Switching
        /\ pc[o] \in {"stopping", "stoppingCut"} => pc[o] \in InBody \ Switching
        /\ pc[o] \notin Imported
    BY <2>1 DEF StopsNow, InWindow, InBody, Switching, Building, Committing, Restoring,
       Imported, Rebuilding
  <2>3. \A p \in Operations \ {o} : pc[p] \notin InBody
    BY <2>2, OneInside DEF InWindow
  <2>4. BodyAgrees(o)
    BY <1>5, <2>2 DEF AgreeInv
  <2>5. ASSUME NEW m \in Modules \ Changes(o)
        PROVE  Elsewhere(o, m)'
    <3>1. \A g \in Generations : <<m, g>> \notin stopping
      <4>1. CASE pc[o] \in {"suspending", "suspendingCut", "resuspending"}
        <5>1. stopping \subseteq Of({Target[o]}, current) /\ m # Target[o]
          BY <2>2, <4>1 DEF StopInv, KindInv, Changes
        <5> QED
          BY <5>1 DEF Of
      <4>2. CASE pc[o] \in {"stopping", "stoppingCut"}
        BY <2>2, <4>2 DEF StopInv, KindInv, Changes
      <4> QED
        BY <2>1, <4>1, <4>2 DEF StopsNow
    <3>2. SameModule(m)
      BY <1>1, <1>2, <3>1 DEF SameModule
    <3>3. Agrees(m)
      BY <2>4 DEF BodyAgrees, Elsewhere
    <3> QED
      BY <1>2, <2>2, <3>2, <3>3, SameAgrees DEF Elsewhere
  <2>6. ASSUME NEW m \in Changes(o)
        PROVE  SwitchAgrees(o, m)' /\ ReloadAgrees(o, m)'
    <3>1. SwitchAgrees(o, m) /\ ReloadAgrees(o, m)
      BY <2>4 DEF BodyAgrees
    <3>2. CASE pc[o] \in {"suspending", "suspendingCut", "resuspending"}
      <4>1. RowOf(m) /\ JobOf(m) /\ Unmoved(m) /\ ~loaded[m] /\ WindsUp(m)
        BY <3>1, <3>2 DEF SwitchAgrees
      <4>2. RowOf(m)' /\ JobOf(m)' /\ Unmoved(m)' /\ ~loaded'[m] /\ WindsUp(m)'
        BY <1>1, <1>2, <4>1 DEF RowOf, JobOf, Unmoved, WindsUp
      <4>3. SwitchAgrees(o, m)'
        BY <1>2, <3>2, <4>2 DEF SwitchAgrees
      <4> QED
        BY <1>2, <2>2, <3>2, <4>3, Phases
    <3>3. CASE pc[o] \in {"stopping", "stoppingCut"}
      <4>1. /\ RowOf(m) /\ JobOf(m) /\ Unmoved(m)
            /\ loaded[m] => <<m, current[m]>> \in active
            /\ <<m, current[m]>> \notin stopping
            /\ \A g \in Generations : <<m, g>> \in active =>
                  (loaded[m] /\ g = current[m]) \/ <<m, g>> \in stopping
        BY <3>1, <3>3 DEF ReloadAgrees
      <4>2. RowOf(m)' /\ JobOf(m)' /\ Unmoved(m)'
        BY <1>1, <1>2, <4>1 DEF RowOf, JobOf, Unmoved
      <4>3. /\ loaded'[m] => <<m, current'[m]>> \in active'
            /\ <<m, current'[m]>> \notin stopping'
            /\ \A g \in Generations : <<m, g>> \in active' =>
                  (loaded'[m] /\ g = current'[m]) \/ <<m, g>> \in stopping'
        BY <1>1, <1>2, <4>1
      <4>4. ReloadAgrees(o, m)'
        BY <1>2, <3>3, <4>2, <4>3 DEF ReloadAgrees, Imported, Rebuilding, Building, Restoring
      <4> QED
        BY <1>2, <2>2, <3>3, <4>4, Phases
    <3> QED
      BY <2>1, <3>2, <3>3 DEF StopsNow
  <2>7. BodyAgrees(o)'
    BY <2>5, <2>6 DEF BodyAgrees, Changes
  <2> QED
    BY <1>2, <2>2, <2>3, <2>7 DEF AgreeInv
<1> QED
  BY <1>3, <1>4, <1>5

LEMMA StepAgrees ==
    ASSUME TypeOK, LockInv, KindInv, StageInv, StopInv, AgreeInv, [Next]_vars
    PROVE  AgreeInv'
<1>1. CASE UNCHANGED vars
  BY <1>1, AgreesStays DEF vars
<1>2. ASSUME NEW o \in Operations, WaitMove(o)
      PROVE  AgreeInv'
  <2>1. (\A p \in Operations \ {o} : pc'[p] = pc[p]) /\ shutdown' = shutdown
    BY <1>2, OpControl, TypePc DEF Control, WaitMove, OpStep, Step, Failing, Cancelled
  <2>2. /\ Untouched
        /\ \A p \in Operations \ {o} : oldLoad'[p] = oldLoad[p]
        /\ pc[o] \in InBody \/ pc'[o] \in InBody => pc'[o] = pc[o] /\ oldLoad'[o] = oldLoad[o]
    BY <1>2, WaitKeeps
  <2> QED
    BY <2>1, <2>2, AgreesStays DEF Untouched
<1>3. ASSUME NEW o \in Operations, SwitchMove(o) \/ ReloadMove(o)
      PROVE  AgreeInv'
  <2>1. /\ \A p \in Operations \ {o} : pc'[p] = pc[p] /\ pc[p] \notin InBody
        /\ torn => torn'
    BY <1>3, OthersOut, SwitchLeads, ReloadLeads
  <2>2. shutdown' = shutdown
    BY <1>3, OpControl, TypePc DEF Control, SwitchMove, ReloadMove, OpStep, Step, Failing, Cancelled
  <2>3. CASE torn' \/ shutdown' \in Stopped
    BY <2>3 DEF AgreeInv
  <2>4. CASE ~torn' /\ shutdown' \notin Stopped
    <3>1. /\ pc'[o] \notin InBody => AllAgree'
          /\ pc'[o] \in InBody => BodyAgrees(o)'
      BY <1>3, <2>1, <2>2, <2>4, SwitchKeeps, ReloadKeeps
    <3> QED
      BY <2>1, <3>1 DEF AgreeInv
  <2> QED
    BY <2>3, <2>4
<1>4. CASE JobStep
  <2>1. UNCHANGED <<runtimeVars, moduleVars, operationVars, shutdown, torn, installed>>
    BY <1>4 DEF JobStep, JobAlone, Launch, JobEnds
  <2> QED
    BY <2>1, AgreesStays
<1>5. CASE RuntimeMoves /\ RuntimeAlone
  BY <1>5, RuntimeKeeps
<1>6. CASE BeginShutdown \/ CancelOperations \/ OperationsGone \/ TakeForShutdown
  <2>1. /\ UNCHANGED <<runtimeVars, moduleVars, pc, oldLoad, undo, torn, installed>>
        /\ shutdown \notin Stopped
    BY <1>6 DEF BeginShutdown, CloseEntrance, CancelOperations, OperationsGone, TakeForShutdown,
       LockForShutdown, Stops, Stopped
  <2> QED
    BY <2>1, AgreesStays
<1>7. CASE SchedulerStopped \/ CurrentStopped \/ StagedStopped
  BY <1>7 DEF SchedulerStopped, CurrentStopped, StagedStopped, Stops, Stopped, AgreeInv
<1> QED
  BY <1>1, <1>2, <1>3, <1>4, <1>5, <1>6, <1>7, OpMoves, NextSteps DEF ShutdownStep
------------------------------------------------------------------------------
(* What was stopped is closed, but for the runtime whose stop() was broken   *)
(* off while the roll-back that mends it is under way.                       *)
Broken(o) == IF pc[o] \in {"undoing", "undone"} THEN Of({Target[o]}, current) ELSE {}
IsClosed(r) == r \notin spawned /\ resource[r] = "closed"
Gone == Runtimes \ (active \cup stopping)

ClosedInv ==
    /\ ~torn => \A r \in Gone : IsClosed(r) \/ \E o \in Operations : r \in Broken(o)
    /\ ~torn /\ shutdown \in Stopped => active \subseteq stopping

LEMMA ClosedStays ==
    ASSUME ClosedInv, UNCHANGED <<current, spawned, resource>>,
           active \subseteq active', stopping \subseteq stopping', torn => torn',
           \A o \in Operations : pc[o] \in InBody \/ pc'[o] \in InBody => pc'[o] = pc[o],
           ~torn' /\ shutdown' \in Stopped => active' \subseteq stopping'
    PROVE  ClosedInv'
<1>1. \A o \in Operations : Broken(o)' = Broken(o)
  BY DEF Broken, InBody, Switching
<1>2. Gone' \subseteq Gone
  BY DEF Gone, Runtimes
<1> QED
  BY <1>1, <1>2 DEF ClosedInv, IsClosed

(* What a step of an operation takes out of the hands of the runtimes.       *)
LEMMA SwitchCloses ==
    ASSUME TypeOK, LockInv, StopInv, NEW o \in Operations, SwitchMove(o), ~torn',
           NEW r \in Gone'
    PROVE  /\ UNCHANGED <<spawned, resource, current>>
           /\ \/ r \in Gone /\ (r \in Broken(o) => r \in Broken(o)')
              \/ IsClosed(r)
              \/ r \in Broken(o)'
<1> DEFINE x == <<Target[o], current[Target[o]]>>
<1>o. Of({Target[o]}, current) = {x}
  BY DEF Of
<1>c. pc[o] \in {"quieting", "writing", "written", "undoing", "undone"} => stopping = {}
  BY Calm DEF InWindow, InBody, Switching, StopsNow
<1>s. pc[o] \in Switching => stopping \subseteq {x}
  BY <1>o DEF StopInv
<1>r. r \in Runtimes /\ r \notin active' /\ r \notin stopping'
  BY DEF Gone, Runtimes
<1> USE TypePc, GoesTo DEF SwitchMove
<1>1. CASE StartSwitch(o) \/ WriteFails(o) \/ WriteStatus(o) \/ Suspended(o) \/ Resuspended(o)
  <2>1. UNCHANGED runtimeVars /\ pc[o] \notin {"undoing", "undone"}
    BY <1>1 DEF StartSwitch, WriteFails, WriteStatus, Suspended, Resuspended, Statement, Body, At
  <2> QED
    BY <1>r, <2>1 DEF Gone, Broken
<1>2. CASE UndoWrite(o)
  <2>1. UNCHANGED runtimeVars /\ pc'[o] = "undone"
    BY <1>2 DEF UndoWrite, Statement
  <2> QED
    BY <1>r, <2>1 DEF Gone, Broken
<1>3. CASE Loaded(o) \/ Unloaded(o)
  <2>1. /\ active \subseteq active' /\ stopping \subseteq stopping'
        /\ UNCHANGED <<spawned, resource, current>> /\ pc[o] = "written"
    BY <1>3, <1>c DEF Loaded, Unloaded, Body, At, Sets, Activate, Stop
  <2> QED
    BY <1>r, <2>1 DEF Gone, Broken
<1>4. CASE Undone(o)
  <2>1. pc[o] = "undone" /\ stopping = {} /\ ~Overlooked(o)
    BY <1>4, <1>c DEF Undone, At
  <2>2. UNCHANGED <<spawned, resource, current>>
    BY <1>4 DEF Undone, Sets, Activate, Stop
  <2>3. CASE oldLoad[o]
    <3>1. active' = active \cup {x} /\ stopping' = stopping
      BY <1>4, <1>o, <2>3 DEF Undone, Sets, Activate
    <3>2. r \in Gone /\ r \notin Broken(o)
      BY <1>o, <1>r, <2>1, <3>1 DEF Gone, Broken
    <3> QED
      BY <2>2, <3>2
  <2>4. CASE ~oldLoad[o]
    <3>1. active' = active /\ stopping' = ToStop({x})
      BY <1>4, <1>o, <2>4 DEF Undone, Sets, Stop
    <3>2. CASE r = x
      <4>1. r \notin active /\ r \notin spawned /\ resource[r] # "open"
        BY <1>r, <3>1, <3>2 DEF ToStop
      <4>2. resource[r] # "creating"
        BY <1>o, <1>r, <2>1, <2>4, <3>2, <4>1 DEF Overlooked
      <4>3. resource[r] \in {"closed", "creating", "open"}
        BY <1>r DEF TypeOK, RuntimesTypeOK
      <4> QED
        BY <2>2, <4>1, <4>2, <4>3 DEF IsClosed
    <3>3. CASE r # x
      <4>1. r \in Gone /\ r \notin Broken(o)
        BY <1>o, <1>r, <2>1, <3>1, <3>3 DEF Gone, Broken
      <4> QED
        BY <2>2, <4>1
    <3> QED
      BY <3>2, <3>3
  <2> QED
    BY <2>3, <2>4
<1>5. CASE UndoFails(o) \/ CancelledUndoing(o)
  BY <1>5 DEF UndoFails, CancelledUndoing
<1>6. CASE CancelledSwitching(o)
  <2>1. /\ UNCHANGED <<active, spawned, resource, current>>
        /\ pc[o] \in Switching /\ pc[o] \notin {"undoing", "undone"}
        /\ stopping' = stopping \/ (stopping' = {} /\ pc'[o] = "undoing")
    <3>1. /\ UNCHANGED <<active, spawned, resource, current>>
          /\ pc[o] \in {"writing", "written", "suspending", "suspendingCut", "resuspending"}
      BY <1>6 DEF CancelledSwitching
    <3>2. stopping' = stopping \/ (stopping' = {} /\ pc'[o] = "undoing")
      BY <1>6 DEF CancelledSwitching, CancelledTo
    <3> QED
      BY <3>1, <3>2 DEF Switching
  <2>2. CASE stopping' = stopping
    BY <1>r, <2>1, <2>2 DEF Gone, Broken
  <2>3. CASE pc'[o] = "undoing"
    <3>1. Broken(o)' = {x}
      BY <1>o, <2>1, <2>3 DEF Broken, Of
    <3>2. r = x \/ r \in Gone
      BY <1>r, <1>s, <2>1 DEF Gone
    <3>3. Broken(o) = {}
      BY <2>1 DEF Broken
    <3> QED
      BY <2>1, <3>1, <3>2, <3>3
  <2> QED
    BY <2>1, <2>2, <2>3
<1> QED
  BY <1>1, <1>2, <1>3, <1>4, <1>5, <1>6 DEF SwitchStep

LEMMA ReloadCloses ==
    ASSUME TypeOK, LockInv, StopInv, NEW o \in Operations, ReloadMove(o), ~torn'
    PROVE  UNCHANGED <<spawned, resource>> /\ Gone' \subseteq Gone
<1>c. pc[o] = "preparing" => stopping = {}
  BY Calm DEF InWindow, InBody, Building, StopsNow
<1> USE DEF ReloadMove
<1>1. CASE Commit(o)
  <2>1. active \subseteq active' /\ stopping = {} /\ UNCHANGED <<spawned, resource>>
    BY <1>1, <1>c DEF Commit, Replace, Body, At
  <2> QED
    BY <2>1 DEF Gone, Runtimes
<1>2. CASE PollLockTimesOut(o) \/ RestoreFails(o) \/ CancelledRestoring(o)
  BY <1>2 DEF PollLockTimesOut, RestoreFails, CancelledRestoring
<1>3. CASE CancelledCommitting(o)
  BY <1>3 DEF CancelledCommitting, Gone, Runtimes
<1>4. CASE /\ ~Commit(o) /\ ~CancelledCommitting(o)
           /\ ~PollLockTimesOut(o) /\ ~RestoreFails(o) /\ ~CancelledRestoring(o)
  <2>1. CASE ReloadStep(o)
    <3>1. UNCHANGED <<active, spawned, resource, stopping>>
      BY <1>4, <2>1 DEF ReloadStep, Prepare, Stage, Import, DeleteStatuses, InsertStatuses, Reconciled,
         OldStopped, SwitchDatabase, Committed, RestoreDelete, RestoreInsert, Restored, Statement
    <3> QED
      BY <3>1 DEF Gone, Runtimes
  <2>2. CASE ~ReloadStep(o)
    <3>1. UNCHANGED <<active, spawned, resource, stopping>>
      BY <1>4, <2>2 DEF BuildFails, Abort, CancelledReading, StatementFails, PrepareFails,
         CancelledBuilding
    <3> QED
      BY <3>1 DEF Gone, Runtimes
  <2> QED
    BY <2>1, <2>2
<1> QED
  BY <1>1, <1>2, <1>3, <1>4

LEMMA RuntimeCloses ==
    ASSUME TypeOK, RuntimeMoves, NEW r \in Gone'
    PROVE  IsClosed(r)' \/ (r \in Gone /\ (IsClosed(r) => IsClosed(r)'))
<1>1. r \in Runtimes /\ r \notin active' /\ r \notin stopping'
  BY DEF Gone, Runtimes
<1>2. ASSUME NEW q, RuntimeStep(q) \/ RuntimeUse(q)
      PROVE  IsClosed(r)' \/ (r \in Gone /\ (IsClosed(r) => IsClosed(r)'))
  <2>1. resource \in [Runtimes -> {"closed", "creating", "open"}]
    BY DEF TypeOK, RuntimesTypeOK
  <2>2. CASE BeginStop(q)
    BY <1>1, <2>2 DEF BeginStop, Gone, IsClosed
  <2>3. CASE EndStop(q)
    <3>1. CASE q = r
      BY <1>1, <2>1, <2>3, <3>1 DEF EndStop, IsClosed
    <3>2. CASE q # r
      BY <1>1, <2>1, <2>3, <3>2 DEF EndStop, Gone, IsClosed
    <3> QED
      BY <3>1, <3>2
  <2>4. CASE ResourceMade(q)
    BY <1>1, <2>1, <2>4 DEF ResourceMade, Gone, IsClosed
  <2>5. CASE TaskEnds(q)
    BY <1>1, <2>5 DEF TaskEnds, Gone, IsClosed
  <2>6. CASE GetResource(q)
    BY <1>1, <2>1, <2>6 DEF GetResource, Gone, IsClosed
  <2>7. CASE Spawn(q)
    BY <1>1, <2>7 DEF Spawn, Gone, IsClosed
  <2> QED
    BY <1>2, <2>2, <2>3, <2>4, <2>5, <2>6, <2>7 DEF RuntimeStep, RuntimeUse
<1> QED
  BY <1>2 DEF RuntimeMoves

LEMMA StepCloses ==
    ASSUME TypeOK, LockInv, StopInv, AgreeInv, ClosedInv, [Next]_vars
    PROVE  ClosedInv'
<1>b. InBody \subseteq InWindow /\ {"undoing", "undone"} \subseteq InBody
  BY DEF InWindow, InBody, Switching
<1>s. ASSUME shutdown \in Stopped \cup {"quieting"}
      PROVE  \A o \in Operations : pc[o] \notin InWindow
  BY <1>s DEF LockInv, Stopped
<1>1. CASE UNCHANGED vars \/ JobStep
  <2>1. UNCHANGED <<runtimeVars, pc, torn, shutdown>>
    BY <1>1 DEF vars, JobStep, JobAlone
  <2> QED
    BY <2>1, ClosedStays DEF ClosedInv
<1>2. ASSUME NEW o \in Operations, WaitMove(o)
      PROVE  ClosedInv'
  <2>1. (\A p \in Operations \ {o} : pc'[p] = pc[p]) /\ shutdown' = shutdown
    BY <1>2, OpControl, TypePc DEF Control, WaitMove, OpStep, Step, Failing, Cancelled
  <2>2. Untouched /\ (pc[o] \in InBody \/ pc'[o] \in InBody => pc'[o] = pc[o])
    BY <1>2, WaitKeeps
  <2> QED
    BY <2>1, <2>2, ClosedStays DEF Untouched, ClosedInv
<1>3. ASSUME NEW o \in Operations, SwitchMove(o) \/ ReloadMove(o)
      PROVE  ClosedInv'
  <2>1. /\ pc[o] \in InWindow /\ (torn => torn')
        /\ \A p \in Operations \ {o} : pc'[p] = pc[p] /\ pc[p] \notin InBody
    BY <1>3, OthersOut, SwitchLeads, ReloadLeads
  <2>2. shutdown' = shutdown
    BY <1>3, OpControl, TypePc DEF Control, SwitchMove, ReloadMove, OpStep, Step, Failing, Cancelled
  <2>3. shutdown' \notin Stopped
    BY <1>s, <2>1, <2>2
  <2>4. ASSUME ~torn', NEW r \in Gone'
        PROVE  IsClosed(r)' \/ \E p \in Operations : r \in Broken(p)'
    <3>1. \A p \in Operations \ {o} : Broken(p) = {}
      BY <1>b, <2>1 DEF Broken
    <3>2. r \in Gone => IsClosed(r) \/ r \in Broken(o)
      BY <2>1, <2>4, <3>1 DEF ClosedInv
    <3>3. CASE SwitchMove(o)
      <4>1. /\ UNCHANGED <<spawned, resource>>
            /\ \/ r \in Gone /\ (r \in Broken(o) => r \in Broken(o)')
               \/ IsClosed(r)
               \/ r \in Broken(o)'
        BY <2>4, <3>3, SwitchCloses
      <4> QED
        BY <3>2, <4>1 DEF IsClosed
    <3>4. CASE ReloadMove(o)
      <4>1. UNCHANGED <<spawned, resource>> /\ r \in Gone
        BY <2>4, <3>4, ReloadCloses
      <4>2. Broken(o) = {}
        BY <3>4, MovesInside DEF Broken, InBody, Switching
      <4> QED
        BY <3>2, <4>1, <4>2 DEF IsClosed
    <3> QED
      BY <1>3, <3>3, <3>4
  <2> QED
    BY <2>3, <2>4 DEF ClosedInv
<1>4. CASE RuntimeMoves /\ RuntimeAlone
  <2>1. UNCHANGED <<pc, torn, shutdown, current>>
    BY <1>4, RuntimeMoveEffect DEF RuntimeAlone
  <2>2. \A o \in Operations : Broken(o)' = Broken(o)
    BY <2>1 DEF Broken, Of
  <2>3. \A r \in Gone' : IsClosed(r)' \/ (r \in Gone /\ (IsClosed(r) => IsClosed(r)'))
    BY <1>4, RuntimeCloses
  <2>4. active \subseteq stopping => active' \subseteq stopping'
    BY <1>4, RuntimeMoveEffect
  <2> QED
    BY <2>1, <2>2, <2>3, <2>4 DEF ClosedInv
<1>5. CASE BeginShutdown \/ CancelOperations \/ OperationsGone \/ TakeForShutdown
  <2>1. UNCHANGED <<runtimeVars, pc, torn>> /\ shutdown' \notin Stopped
    BY <1>5 DEF BeginShutdown, CancelOperations, OperationsGone, TakeForShutdown, Stops, Stopped
  <2> QED
    BY <2>1, ClosedStays
<1>6. CASE SchedulerStopped
  <2>1. /\ shutdown = "quieting" /\ stopping' = ToStop(Of(Modules, current))
        /\ UNCHANGED <<pc, torn, current, active, spawned, resource>>
    BY <1>6 DEF SchedulerStopped, Stops, Stop
  <2>2. \A o \in Operations : pc[o] \notin InBody
    BY <1>b, <1>s, <2>1
  <2>3. stopping = {}
    BY <2>1, <2>2 DEF StopInv, StopsNow, InBody, Switching, Committing
  <2>4. ~torn => active \subseteq stopping'
    <3>1. ASSUME ~torn, NEW r \in active
          PROVE  r \in Of(Modules, current)
      <4>1. AllAgree
        BY <2>1, <2>2, <3>1 DEF AgreeInv, Stopped
      <4>2. PICK m \in Modules, g \in Generations : r = <<m, g>>
        BY <3>1 DEF TypeOK, RuntimesTypeOK, Runtimes
      <4>3. g = current[m]
        BY <3>1, <4>1, <4>2 DEF AllAgree, Agrees, RunsOne
      <4> QED
        BY <4>2, <4>3 DEF Of
    <3> QED
      BY <2>1, <3>1 DEF ToStop
  <2> QED
    BY <2>1, <2>3, <2>4, ClosedStays
<1>7. CASE CurrentStopped \/ StagedStopped
  <2>1. /\ shutdown \in Stopped /\ stopping = {}
        /\ UNCHANGED <<pc, torn, current, active, spawned, resource>>
    BY <1>7 DEF CurrentStopped, StagedStopped, Stops, Stop, Stopped
  <2>2. ~torn => active = {}
    BY <2>1 DEF ClosedInv
  <2> QED
    BY <2>1, <2>2, ClosedStays
<1> QED
  BY <1>1, <1>2, <1>3, <1>4, <1>5, <1>6, <1>7, OpMoves, NextSteps DEF ShutdownStep
------------------------------------------------------------------------------
IInv ==
    /\ TypeOK /\ LockInv /\ GateInv /\ KindInv /\ StageInv
    /\ JobInv /\ StopInv /\ AgreeInv /\ ClosedInv

LEMMA InvInit == Init => IInv
<1> SUFFICES ASSUME Init PROVE IInv
  OBVIOUS
<1>t. TypeOK
  BY TypeInit
<1>p. \A o \in Operations : pc[o] = "idle"
  BY DEF Init
<1>b. /\ "idle" \notin InWindow /\ "idle" \notin Waiting
      /\ InBody \subseteq InWindow /\ Switching \subseteq InBody /\ Building \subseteq InBody
      /\ StopsNow \subseteq InBody
  BY DEF InWindow, InBody, Waiting, Switching, Building, Committing, Restoring, StopsNow
<1>f. Free # Shutdown /\ \A o \in Operations : o # Free
  BY ReloadAssumption DEF Free, Shutdown
<1>1. LockInv /\ GateInv
  BY <1>p, <1>b, <1>f DEF Init, SchedulerInit, LockInv, GateInv, Stopped
<1>2. KindInv /\ StageInv
  BY <1>p, <1>b DEF KindInv, StageInv
<1>3. stopping = {} /\ shutdown = "none"
  BY DEF Init, RuntimesInit
<1>4. StopInv
  BY <1>p, <1>b, <1>3 DEF StopInv
<1>5. JobInv
  BY <1>p, <1>b DEF JobInv, WindowQuiet, Init, SchedulerInit
<1>6. AllAgree
  <2>1. SUFFICES ASSUME NEW m \in Modules PROVE Agrees(m)
    BY DEF AllAgree
  <2>2. RowOf(m) /\ JobOf(m) /\ Unmoved(m)
    BY DEF Init, SchedulerInit, RuntimesInit, RowOf, JobOf, Unmoved, StatusOf
  <2>3. RunsOne(m)
    BY DEF Init, RuntimesInit, RunsOne
  <2> QED
    BY <2>2, <2>3 DEF Agrees
<1>7. AgreeInv
  BY <1>p, <1>b, <1>6 DEF AgreeInv
<1>8. ClosedInv
  BY <1>3 DEF ClosedInv, Gone, IsClosed, Init, RuntimesInit, Stopped
<1> QED
  BY <1>t, <1>1, <1>2, <1>4, <1>5, <1>7, <1>8 DEF IInv

LEMMA InvNext == IInv /\ [Next]_vars => IInv'
<1> SUFFICES ASSUME IInv, [Next]_vars PROVE IInv'
  OBVIOUS
<1> USE DEF IInv
<1>1. TypeOK'
  BY TypeStep
<1>2. LockInv' /\ GateInv'
  BY StepLocks
<1>3. KindInv' /\ StageInv'
  BY StepStage
<1>4. JobInv'
  BY <1>2, StepJobs
<1>5. StopInv'
  BY StepStops
<1>6. AgreeInv'
  BY StepAgrees
<1>7. ClosedInv'
  BY StepCloses
<1> QED
  BY <1>1, <1>2, <1>3, <1>4, <1>5, <1>6, <1>7

(* Every reachable state satisfies the inductive invariant: who is inside    *)
(* the windows, which jobs and runtimes may be touched from there, and how   *)
(* far row, registration, job and runtime agree at each point.               *)
THEOREM Invariant == Spec => []IInv
<1>1. Init => IInv
  BY InvInit
<1>2. IInv /\ [Next]_vars => IInv'
  BY InvNext
<1> QED
  BY <1>1, <1>2, PTL DEF Spec

(* The variables keep their types: the rows, registrations, stages and       *)
(* runtimes that load, unload and reload write are always well formed.       *)
THEOREM TypeCorrect == Spec => []TypeOK
<1>1. IInv => TypeOK
  BY DEF IInv
<1> QED
  BY <1>1, Invariant, PTL

(* No job of a module runs while a load, unload or reload is between the     *)
(* opening of its scheduler window and its end, and no job runs the code of  *)
(* an earlier registration.                                                  *)
THEOREM WindowsQuiet == Spec => []WindowQuiet
<1>1. IInv => WindowQuiet
  BY DEF IInv, JobInv
<1> QED
  BY <1>1, Invariant, PTL

(* When no operation is under way and the Server is not stopping, the row,   *)
(* the registration, the job and the runtime of every module agree, whatever *)
(* failed or was cancelled before, unless a roll-back was itself broken.     *)
THEOREM AgreesAtRest == Spec => []AgreeAtRest
<1>1. IInv => AgreeAtRest
  <2> SUFFICES ASSUME IInv, AtRest, NEW m \in Modules
               PROVE  /\ (status[m] = "on") <=> loaded[m]
                      /\ installed[m] = IF loaded[m] THEN registered[m] ELSE None
                      /\ registered[m] = current[m] /\ staging[m] = Unstaged
                      /\ \A g \in Generations : <<m, g>> \in active <=> loaded[m] /\ g = current[m]
    BY DEF AgreeAtRest
  <2>1. \A o \in Operations : pc[o] \notin InBody
    BY DEF AtRest, Busy, Ended, InBody, Switching, Building, Committing, Restoring
  <2>2. shutdown \notin Stopped /\ ~torn
    BY DEF AtRest, IInv, GateInv, Stopped
  <2>3. Agrees(m)
    BY <2>1, <2>2 DEF IInv, AgreeInv, AllAgree
  <2>4. (status[m] = "on") <=> loaded[m]
    <3>1. loaded[m] \in BOOLEAN /\ status[m] = StatusOf(loaded[m])
      BY <2>3 DEF Agrees, RowOf, IInv, TypeOK
    <3>2. CASE loaded[m] = TRUE
      BY <3>1, <3>2 DEF StatusOf
    <3>3. CASE loaded[m] = FALSE
      BY <3>1, <3>3 DEF StatusOf
    <3> QED
      BY <3>1, <3>2, <3>3
  <2> QED
    BY <2>3, <2>4 DEF Agrees, JobOf, Unmoved, RunsOne
<1> QED
  BY <1>1, Invariant, PTL

(* A runtime that was stopped has neither a task nor a resource, also one    *)
(* whose creation was under way, unless a roll-back came too late for it.    *)
THEOREM StoppedClosed == Spec => []StoppedIsClosed
<1>1. IInv => StoppedIsClosed
  <2> SUFFICES ASSUME IInv, ~torn, \A o \in Operations : pc[o] \notin {"undoing", "undone"},
                      NEW r \in Runtimes, r \notin active \cup stopping
               PROVE  r \notin spawned /\ resource[r] = "closed"
    BY DEF StoppedIsClosed
  <2>1. \A o \in Operations : Broken(o) = {}
    BY DEF Broken
  <2> QED
    BY <2>1 DEF IInv, ClosedInv, Gone, IsClosed
<1> QED
  BY <1>1, Invariant, PTL

(* From the first step of the shutdown on no job may start, whatever window  *)
(* is left meanwhile; past the scheduler none runs, and at the end neither a *)
(* runtime nor a task is alive.                                              *)
THEOREM ShutdownsQuiet == Spec => []QuietAfterShutdown
<1>1. IInv => QuietAfterShutdown
  <2> SUFFICES ASSUME IInv PROVE QuietAfterShutdown
    OBVIOUS
  <2>1. /\ shuttingDown => ~accepting
        /\ shutdown \in Stopped => \A m \in Modules : executing[m] = None
    BY DEF IInv, GateInv
  <2>2. ASSUME shutdown = "done", ~torn
        PROVE  active = {} /\ spawned = {}
    <3>1. \A o \in Operations : pc[o] \notin InBody
      BY <2>2 DEF IInv, LockInv, InWindow
    <3>2. stopping = {}
      BY <2>2, <3>1 DEF IInv, StopInv, StopsNow, InBody, Switching, Committing
    <3>3. active = {}
      BY <2>2, <3>2 DEF IInv, ClosedInv, Stopped
    <3>4. \A o \in Operations : Broken(o) = {}
      BY <3>1 DEF Broken, InBody, Switching
    <3>5. \A r \in Runtimes : r \notin spawned
      BY <2>2, <3>2, <3>3, <3>4 DEF IInv, ClosedInv, Gone, IsClosed
    <3>6. spawned \subseteq Runtimes
      BY DEF IInv, TypeOK, RuntimesTypeOK
    <3> QED
      BY <3>3, <3>5, <3>6
  <2> QED
    BY <2>1, <2>2 DEF QuietAfterShutdown, Stopped
<1> QED
  BY <1>1, Invariant, PTL
==============================================================================
