-------------------------- MODULE SchedulerLifecycle --------------------------
(***************************************************************************)
(* The scheduled jobs of the Server and the maintenance windows that stop   *)
(* them.  A job is known by the generation of the module whose code it      *)
(* runs; of one module at most one job is installed, and max_instances is   *)
(* one.  accepting stands for _accepting_jobs and for the state of the      *)
(* APScheduler, which every window and the shutdown set together.  The      *)
(* operations that open windows are in ModuleReload.                        *)
(***************************************************************************)
EXTENDS Naturals, ModuleRuntimes

CONSTANT
    Operations        \* tasks that open a maintenance window

VARIABLES
    accepting,        \* _accepting_jobs, and the scheduler is not paused
    owner,            \* the holder of _maintenance_lock
    saved,            \* old_accepting of the window that is open
    shuttingDown,     \* _shutting_down
    installed,        \* _job_specs: the code of the job of each module
    executing         \* _active_tasks: the code of the job that runs

schedulerVars == <<accepting, owner, saved, shuttingDown, installed, executing>>

None == 0
Free == "free"
Shutdown == "shutdown"

SchedulerTypeOK ==
    /\ accepting \in BOOLEAN /\ saved \in BOOLEAN /\ shuttingDown \in BOOLEAN
    /\ owner \in Operations \cup {Free, Shutdown}
    /\ installed \in [Modules -> Nat]
    /\ executing \in [Modules -> Nat]

SchedulerInit(code) ==
    /\ accepting = TRUE /\ owner = Free /\ saved = TRUE /\ shuttingDown = FALSE
    /\ installed = code
    /\ executing = [m \in Modules |-> None]

(* A submitted job passes the launch lock and enters its function.  Nothing *)
(* is awaited between the submission and the check of _accepting_jobs, nor  *)
(* after it.                                                                *)
Launch(m) ==
    /\ accepting
    /\ installed[m] # None /\ executing[m] = None
    /\ executing' = [executing EXCEPT ![m] = installed[m]]
    /\ UNCHANGED <<accepting, owner, saved, shuttingDown, installed>>

JobEnds(m) ==
    /\ executing[m] # None
    /\ executing' = [executing EXCEPT ![m] = None]
    /\ UNCHANGED <<accepting, owner, saved, shuttingDown, installed>>

OpenWindow(o) ==
    /\ owner = Free /\ owner' = o
    /\ saved' = accepting /\ accepting' = FALSE
    /\ UNCHANGED <<shuttingDown, installed, executing>>

(* Mutant of Quiet: the window opens while the cancelled jobs wind up. *)
QuietAtOnce(scope) == TRUE

(* _cancel_active_tasks() has cancelled the jobs it found, those of single  *)
(* modules through _module_job_ids, and its gather() is over.               *)
Quiet(scope) ==
    \A m \in scope : scope = Modules \/ installed[m] # None => executing[m] = None

(* Mutant of CloseWindow: it restores what it found, shutdown or not. *)
CloseWindowAlways ==
    /\ owner' = Free
    /\ accepting' = saved

(* The finally of maintenance_window().                                     *)
CloseWindow ==
    /\ owner' = Free
    /\ accepting' = IF shuttingDown THEN accepting ELSE saved

(* reconcile_modules() and restore_modules(), without the window around.    *)
Install(scope, code) ==
    installed' = [m \in Modules |-> IF m \in scope THEN code[m] ELSE installed[m]]

CloseEntrance ==
    /\ shuttingDown' = TRUE /\ accepting' = FALSE
    /\ UNCHANGED <<owner, saved, installed, executing>>

LockForShutdown ==
    /\ owner = Free /\ owner' = Shutdown
    /\ accepting' = FALSE
    /\ UNCHANGED <<saved, shuttingDown, installed, executing>>

ClearJobs ==
    /\ \A m \in Modules : executing[m] = None
    /\ installed' = [m \in Modules |-> None]
    /\ owner' = Free
    /\ UNCHANGED <<accepting, saved, shuttingDown, executing>>
==============================================================================
