---------------------------- MODULE ModuleRuntimes ----------------------------
(***************************************************************************)
(* The runtimes of the modules, one for each generation of their code, with *)
(* the tasks and the lazily created resource that belong to a runtime.      *)
(* A runtime is a pair of a module and the number of the reload that made   *)
(* it.  stopping holds the runtimes that the stop() calls of one caller     *)
(* have still to do, one after the other; callers exclude each other by the *)
(* windows of ModuleReload.                                                 *)
(***************************************************************************)
EXTENDS Naturals

CONSTANTS
    Modules,          \* the names of the modules
    Generations       \* numbers of reloads, from 1

VARIABLES
    current,          \* _current: the generation of each module
    staging,          \* _staging: its next one while it is reloaded
    active,           \* the runtimes whose flag active is set
    spawned,          \* those with a task of spawn() that has not ended
    resource,         \* where the resource of each runtime stands
    stopping          \* those the present round of stop() has to do

runtimeVars == <<current, staging, active, spawned, resource, stopping>>

Runtimes == Modules \X Generations
Unstaged == 0
Of(S, generation) == {<<m, generation[m]>> : m \in S}

RuntimesTypeOK ==
    /\ current \in [Modules -> Generations]
    /\ staging \in [Modules -> Generations \cup {Unstaged}]
    /\ active \subseteq Runtimes
    /\ spawned \subseteq Runtimes
    /\ resource \in [Runtimes -> {"closed", "creating", "open"}]
    /\ stopping \subseteq Runtimes

RuntimesInit ==
    /\ current = [m \in Modules |-> 1]
    /\ staging = [m \in Modules |-> Unstaged]
    /\ active = Modules \X {1}
    /\ spawned = {}
    /\ resource = [r \in Runtimes |-> "closed"]
    /\ stopping = {}

(* Mutant of GetResource: the flag of the runtime is not looked at. *)
GetResourceAnyTime(r) ==
    /\ resource[r] = "closed"
    /\ resource' = [resource EXCEPT ![r] = "creating"]
    /\ UNCHANGED <<current, staging, active, spawned, stopping>>

(* get() by whoever holds the handle: a job, a handler or a task.           *)
GetResource(r) ==
    /\ r \in active /\ resource[r] = "closed"
    /\ resource' = [resource EXCEPT ![r] = "creating"]
    /\ UNCHANGED <<current, staging, active, spawned, stopping>>

(* The factory returns, or fails; the runtime is not looked at again.       *)
ResourceMade(r) ==
    /\ resource[r] = "creating"
    /\ \E outcome \in {"open", "closed"} : resource' = [resource EXCEPT ![r] = outcome]
    /\ UNCHANGED <<current, staging, active, spawned, stopping>>

Spawn(r) ==
    /\ r \in active \ spawned
    /\ spawned' = spawned \cup {r}
    /\ UNCHANGED <<current, staging, active, resource, stopping>>

TaskEnds(r) ==
    /\ r \in spawned
    /\ spawned' = spawned \ {r}
    /\ UNCHANGED <<current, staging, active, resource, stopping>>

(* stop() of the next runtime clears its flag and cancels its tasks ...     *)
BeginStop(r) ==
    /\ r \in stopping \cap active /\ stopping \ {r} \subseteq active
    /\ active' = active \ {r}
    /\ UNCHANGED <<current, staging, spawned, resource, stopping>>

(* Mutant of EndStop: close() does not wait for the lock of the resource. *)
EndStopUnlocked(r) ==
    /\ r \in stopping \ active
    /\ r \notin spawned
    /\ resource' = [resource EXCEPT ![r] = IF @ = "open" THEN "closed" ELSE @]
    /\ stopping' = stopping \ {r}
    /\ UNCHANGED <<current, staging, active, spawned>>

(* ... and when these have ended closes the resource, under the lock that   *)
(* a get() in progress holds.                                               *)
EndStop(r) ==
    /\ r \in stopping \ active
    /\ r \notin spawned /\ resource[r] # "creating"
    /\ resource' = [resource EXCEPT ![r] = "closed"]
    /\ stopping' = stopping \ {r}
    /\ UNCHANGED <<current, staging, active, spawned>>

(* stop() of a runtime with nothing to stop returns at once, even while the *)
(* resource is being made.                                                  *)
ToStop(S) == {r \in S : r \in active \cup spawned \/ resource[r] = "open"}

(* prepare_reload(): next_generation() counts on from the current one.      *)
Stage(S) ==
    /\ \A m \in S : current[m] + 1 \in Generations
    /\ staging' = [m \in Modules |-> IF m \in S THEN current[m] + 1 ELSE staging[m]]
    /\ UNCHANGED <<current, active, spawned, resource, stopping>>

(* abort_reload(): the staged runtimes were never active, so that their     *)
(* stop() has nothing to do.                                                *)
Unstage == staging' = [m \in Modules |-> Unstaged]

(* commit_reload() up to its first await: the runtimes in S are replaced,   *)
(* those of loaded modules activated, and the old ones are to be stopped.   *)
Replace(S, loaded) ==
    /\ current' = [m \in Modules |-> IF m \in S THEN staging[m] ELSE current[m]]
    /\ staging' = [m \in Modules |-> IF m \in S THEN Unstaged ELSE staging[m]]
    /\ active' = active \cup Of({m \in S : loaded[m]}, staging)
    /\ stopping' = ToStop(Of(S, current))
    /\ UNCHANGED <<spawned, resource>>

Activate(S) ==
    /\ active' = active \cup Of(S, current)
    /\ UNCHANGED <<current, staging, spawned, resource, stopping>>

Stop(S) ==
    /\ stopping' = ToStop(S)
    /\ UNCHANGED <<current, staging, active, spawned, resource>>
==============================================================================
