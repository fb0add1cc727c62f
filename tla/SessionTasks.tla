------------------------------ MODULE SessionTasks ------------------------------
(***************************************************************************)
(* Commands that wait for an answer of the user, the messages that may be   *)
(* one, and the callbacks of sent messages (SessionTaskManager, the wait_*  *)
(* methods of MessageSession, ContextManager on the side of the platform).  *)
(*                                                                          *)
(* Every message is a coroutine that runs check() and, unless a wait or a   *)
(* callback consumed it, goes on to the parser; every waiting command is    *)
(* one too.  A step is what one of them does between two awaits.  Holding   *)
(* and releasing a context are calls to the platform, which may fail before *)
(* or after they took effect there.                                         *)
(***************************************************************************)
EXTENDS Naturals, FiniteSets

CONSTANTS
    Waits,            \* commands that wait once
    Messages,         \* incoming messages
    Callbacks,        \* callbacks of messages that were sent
    WaitType,         \* "confirm", "next" (wait_anyone() too) or "reply"
    Reach,            \* the waits whose users and scenes a message belongs to
    Confirms,         \* messages with a word of confirm_command
    Refers,           \* what a message may refer to: a prompt, a callback, None
    None,
    Failures,         \* which failures happen, see FailureKinds
    MaxFaults         \* bound on the failures of one behaviour

(* platform: a call between Server and platform fails.  cancel: a command   *)
(* is cancelled.                                                            *)
FailureKinds == {"platform", "cancel"}

ASSUME SessionAssumption ==
    /\ WaitType \in [Waits -> {"confirm", "next", "reply"}]
    /\ Reach \in [Messages -> SUBSET Waits]
    /\ Confirms \subseteq Messages
    /\ Refers \in [Messages -> SUBSET (Waits \cup Callbacks \cup {None})]
    /\ \A m \in Messages : \A w \in Refers[m] \cap Waits : WaitType[w] = "reply"
    /\ Waits \cap Callbacks = {} /\ None \notin Waits \cup Callbacks \cup Messages
    /\ Failures \subseteq FailureKinds /\ MaxFaults \in Nat

VARIABLES
    wait,             \* where each waiting command stands
    active,           \* the tasks in _task_list with active set
    sequence,         \* _task_sequence
    order,            \* the number of each task in _task_list
    ready,            \* those whose reply_ready is set
    known,            \* those of them whose reply is filled in
    flag,             \* those whose flag is set
    result,           \* the message each task has as its result
    held,             \* held_contexts of the command
    check,            \* where each message stands
    replyTo,          \* what it refers to: a prompt, a callback, or None
    chosen,           \* the task it was matched with
    pending,          \* the tasks whose reply_ready it waits for
    consumed,         \* the messages that a wait has kept from the parser
    registered,       \* _callback_list
    once,             \* the callbacks in it that are for one run
    runs,             \* history: how often those for one run were run
    context,          \* platform: the messages whose context exists
    marks,            \* platform: context_marks_hold
    lost,             \* history: holds that a failed call left behind
    faults            \* how many failures have happened

waitVars == <<wait, active, sequence, order, ready, known, flag, result, held>>
checkVars == <<check, replyTo, chosen, pending, consumed>>
callbackVars == <<once, registered, runs>>
platformVars == <<context, marks, lost>>
vars == <<waitVars, checkVars, callbackVars, platformVars, faults>>

Listed == {"sending", "waiting", "deleting"}
Done == {"answered", "failed"}
IsReply(w) == WaitType[w] = "reply"
Fallthrough(w) == WaitType[w] = "next"

TypeOK ==
    /\ wait \in [Waits -> {"idle", "ended"} \cup Listed \cup Done]
    /\ sequence \in Nat /\ order \in [Waits -> Nat]
    /\ {active, ready, known, flag} \subseteq SUBSET Waits
    /\ result \in [Waits -> Messages \cup {None}]
    /\ held \in [Waits -> SUBSET Messages]
    /\ check \in [Messages -> {"idle", "looking", "pending", "holding", "held", "releasing",
                               "routing", "queueing", "running", "ended"}]
    /\ replyTo \in [Messages -> Waits \cup Callbacks \cup {None}]
    /\ chosen \in [Messages -> Waits \cup {None}] /\ consumed \subseteq Messages
    /\ pending \in [Messages -> SUBSET Waits]
    /\ registered \subseteq Callbacks /\ once \subseteq registered
    /\ runs \in [Callbacks -> Nat]
    /\ context \subseteq Messages
    /\ marks \in [Messages -> Nat] /\ lost \in [Messages -> Nat]
    /\ faults \in 0 .. MaxFaults

Init ==
    /\ wait = [w \in Waits |-> "idle"]
    /\ active = {} /\ sequence = 0 /\ order = [w \in Waits |-> 0]
    /\ ready = {} /\ known = {} /\ flag = {}
    /\ result = [w \in Waits |-> None] /\ held = [w \in Waits |-> {}]
    /\ check = [m \in Messages |-> "idle"] /\ chosen = [m \in Messages |-> None]
    /\ replyTo = [m \in Messages |-> None]
    /\ pending = [m \in Messages |-> {}] /\ consumed = {}
    /\ once \in SUBSET Callbacks
    /\ registered = Callbacks /\ runs = [c \in Callbacks |-> 0]
    /\ context = {} /\ marks = [m \in Messages |-> 0] /\ lost = [m \in Messages |-> 0]
    /\ faults = 0

Fault(kind) == kind \in Failures /\ faults < MaxFaults /\ faults' = faults + 1
------------------------------------------------------------------------------
(* The waiting commands.                                                    *)

WaitMoves(w, from, to) == wait[w] \in from /\ wait' = [wait EXCEPT ![w] = to]
WaitAlone == UNCHANGED <<checkVars, callbackVars, platformVars>>

(* add_task(), before the prompt is sent.                                   *)
Register(w) ==
    /\ WaitMoves(w, {"idle"}, "sending")
    /\ active' = active \cup {w}
    /\ sequence' = sequence + 1 /\ order' = [order EXCEPT ![w] = sequence']
    /\ ready' = IF IsReply(w) THEN ready ELSE ready \cup {w}
    /\ UNCHANGED <<known, flag, result, held, faults>> /\ WaitAlone

(* The prompt was sent; set_task_reply() fills in the identifier.           *)
Sent(w) ==
    /\ IsReply(w) => w \in active
    /\ WaitMoves(w, {"sending"}, "waiting")
    /\ ready' = ready \cup {w}
    /\ known' = IF IsReply(w) THEN known \cup {w} ELSE known
    /\ UNCHANGED <<active, sequence, order, flag, result, held, faults>> /\ WaitAlone

(* Mutant of Unlist: the messages that wait for the prompt are not told. *)
UnlistSilently(w) ==
    /\ active' = active \ {w} /\ known' = known \ {w} /\ flag' = flag \ {w}
    /\ order' = [order EXCEPT ![w] = 0]
    /\ UNCHANGED <<ready, sequence, result, held>>

(* remove_task().                                                           *)
Unlist(w) ==
    /\ active' = active \ {w} /\ known' = known \ {w} /\ flag' = flag \ {w}
    /\ order' = [order EXCEPT ![w] = 0]
    /\ ready' = ready \cup {w}
    /\ UNCHANGED <<sequence, result, held>>

(* The command goes on with what it was given.                              *)
Wakes(w) ==
    /\ w \in flag
    /\ WaitMoves(w, {"waiting"}, IF result[w] # None THEN "answered" ELSE "failed")
    /\ Unlist(w) /\ UNCHANGED faults /\ WaitAlone

(* wait_reply() times the sending too, and uses an answer that came at the  *)
(* last moment.  The others still delete their prompt, and the task stays   *)
(* in the list meanwhile.                                                   *)
ReplyTimesOut(w) ==
    /\ IsReply(w)
    /\ WaitMoves(w, {"sending", "waiting"}, IF result[w] # None THEN "answered" ELSE "failed")
    /\ Unlist(w) /\ UNCHANGED faults /\ WaitAlone

TimesOut(w) ==
    /\ ~IsReply(w) /\ WaitMoves(w, {"waiting"}, "deleting")
    /\ UNCHANGED <<active, sequence, order, ready, known, flag, result, held, faults>> /\ WaitAlone

PromptDeleted(w) ==
    /\ WaitMoves(w, {"deleting"}, "failed")
    /\ Unlist(w) /\ UNCHANGED faults /\ WaitAlone

(* The prompt cannot be sent, was sent for a task that is no longer active, *)
(* or the command is cancelled.                                             *)
WaitFails(w) ==
    /\ \/ (\E kind \in FailureKinds : Fault(kind)) /\ WaitMoves(w, {"sending"}, "failed")
       \/ Fault("cancel") /\ WaitMoves(w, {"waiting", "deleting"}, "failed")
       \/ IsReply(w) /\ w \notin active /\ UNCHANGED faults /\ WaitMoves(w, {"sending"}, "failed")
    /\ Unlist(w) /\ WaitAlone

(* bg_check() finds a task that is older than its timeout.                  *)
HourlyCheck(w) ==
    /\ w \in active
    /\ active' = active \ {w} /\ ready' = ready \cup {w} /\ flag' = flag \cup {w}
    /\ UNCHANGED <<wait, sequence, order, known, result, held, faults>> /\ WaitAlone
------------------------------------------------------------------------------
(* The platform.                                                            *)

(* hold_context() refuses when the context is gone.                         *)
Hold(m) ==
    /\ m \in context
    /\ marks' = [marks EXCEPT ![m] = @ + 1]
    /\ UNCHANGED <<context, lost>>

(* release_context() drops the context with the last mark.                  *)
Release(S) ==
    /\ marks' = [m \in Messages |-> IF m \in S /\ marks[m] > 0 THEN marks[m] - 1 ELSE marks[m]]
    /\ context' = context \ {m \in S : marks[m] = 1}
    /\ UNCHANGED lost

(* The platform has its answer about the message, or its call failed.       *)
Answered(m) ==
    \/ check[m] = "ended" /\ UNCHANGED faults
    \/ check[m] # "idle" /\ Fault("platform")

(* Mutant of DropContext: it does not look at the marks. *)
DropContextAnyway(m) ==
    /\ Answered(m) /\ m \in context
    /\ context' = context \ {m}
    /\ UNCHANGED <<waitVars, checkVars, callbackVars, marks, lost>>

(* del_context().                                                           *)
DropContext(m) ==
    /\ Answered(m) /\ m \in context /\ marks[m] = 0
    /\ context' = context \ {m}
    /\ UNCHANGED <<waitVars, checkVars, callbackVars, marks, lost>>

(* release_execution_resources(): what was held is released, with a second  *)
(* attempt for what failed.                                                 *)
ReleaseHeld(w) ==
    /\ WaitMoves(w, Done, "ended")
    /\ Release(held[w]) /\ held' = [held EXCEPT ![w] = {}]
    /\ UNCHANGED <<active, sequence, order, ready, known, flag, result, faults, checkVars, callbackVars>>

ReleaseHeldFails(w) ==
    /\ Fault("platform") /\ WaitMoves(w, Done, "ended")
    /\ lost' = [m \in Messages |-> IF m \in held[w] THEN lost[m] + 1 ELSE lost[m]]
    /\ held' = [held EXCEPT ![w] = {}]
    /\ UNCHANGED <<active, sequence, order, ready, known, flag, result, checkVars, callbackVars>>
    /\ UNCHANGED <<context, marks>>
------------------------------------------------------------------------------
(* The messages: check() as far as the waits go.                            *)

CheckMoves(m, from, to) == check[m] = from /\ check' = [check EXCEPT ![m] = to]
Matched(m, w) == chosen' = [chosen EXCEPT ![m] = w]
Forget(m) == replyTo' = [replyTo EXCEPT ![m] = None]
CheckAlone == UNCHANGED <<waitVars, replyTo, consumed, callbackVars, platformVars, faults>>

Arrive(m) ==
    /\ CheckMoves(m, "idle", "looking")
    /\ \E what \in Refers[m] : replyTo' = [replyTo EXCEPT ![m] = what]
    /\ context' = context \cup {m}
    /\ UNCHANGED <<waitVars, chosen, pending, consumed, callbackVars, marks, lost, faults>>

Candidates(m) == Reach[m] \cap active
Exact(m) == {w \in Candidates(m) : IsReply(w) /\ w \in known /\ replyTo[m] = w}
Unsent(m) == {w \in Candidates(m) : replyTo[m] # None /\ IsReply(w) /\ w \notin ready}
Plain(m) == {w \in Candidates(m) : ~IsReply(w) /\ (WaitType[w] = "confirm" => m \in Confirms)}
Oldest(w, S) == w \in S /\ \A v \in S : order[w] <= order[v]

(* The prompt that is referred to comes first; while prompts are unsent one *)
(* of them may be it; then the oldest wait that takes the message.          *)
Look(m) ==
    /\ check[m] = "looking"
    /\ \/ /\ Exact(m) # {}
          /\ \E w \in Waits : Oldest(w, Exact(m)) /\ Matched(m, w)
          /\ CheckMoves(m, "looking", "holding")
          /\ UNCHANGED pending
       \/ /\ Exact(m) = {} /\ Unsent(m) # {}
          /\ pending' = [pending EXCEPT ![m] = Unsent(m)] /\ CheckMoves(m, "looking", "pending")
          /\ UNCHANGED chosen
       \/ /\ Exact(m) \cup Unsent(m) = {} /\ Plain(m) # {}
          /\ \E w \in Waits : Oldest(w, Plain(m)) /\ Matched(m, w)
          /\ CheckMoves(m, "looking", "holding")
          /\ UNCHANGED pending
       \/ /\ Exact(m) \cup Unsent(m) \cup Plain(m) = {}
          /\ CheckMoves(m, "looking", "routing")
          /\ UNCHANGED <<chosen, pending>>
    /\ CheckAlone

LookAgain(m) ==
    /\ pending[m] \cap ready # {}
    /\ CheckMoves(m, "pending", "looking")
    /\ pending' = [pending EXCEPT ![m] = {}]
    /\ UNCHANGED chosen /\ CheckAlone

HoldAnswer(m) ==
    /\ CheckMoves(m, "holding", "held") /\ Hold(m)
    /\ UNCHANGED <<waitVars, replyTo, chosen, pending, consumed, callbackVars, faults>>

(* hold_context() refuses a context that is gone; the call may fail before  *)
(* or after it took effect.  Either is only logged.                         *)
HoldRefused(m) ==
    /\ m \notin context /\ CheckMoves(m, "holding", "routing") /\ Matched(m, None)
    /\ UNCHANGED <<waitVars, replyTo, pending, consumed, callbackVars, platformVars, faults>>

HoldFails(m) ==
    /\ Fault("platform") /\ m \in context
    /\ CheckMoves(m, "holding", "routing") /\ Matched(m, None)
    /\ \/ UNCHANGED <<marks, lost>>
       \/ marks' = [marks EXCEPT ![m] = @ + 1] /\ lost' = [lost EXCEPT ![m] = @ + 1]
    /\ UNCHANGED <<waitVars, replyTo, pending, consumed, callbackVars, context>>

(* The message is the result of the task.  A wait for the next message lets *)
(* it pass on to the parser all the same.                                   *)
Complete(m, w) ==
    /\ result' = [result EXCEPT ![w] = m]
    /\ held' = [held EXCEPT ![w] = @ \cup {m}]
    /\ active' = active \ {w} /\ flag' = flag \cup {w}
    /\ IF Fallthrough(w) THEN CheckMoves(m, "held", "routing") /\ UNCHANGED <<consumed, replyTo>>
       ELSE CheckMoves(m, "held", "ended") /\ consumed' = consumed \cup {m} /\ Forget(m)
    /\ UNCHANGED <<wait, sequence, order, ready, known>>

(* Mutant of Adopt: the task is not looked at again after the hold. *)
AdoptUnseen(m) ==
    /\ check[m] = "held" /\ Complete(m, chosen[m])
    /\ Matched(m, None)
    /\ UNCHANGED <<pending, callbackVars, platformVars, faults>>

(* Mutant of Adopt: what came too late is not released. *)
AdoptOrForget(m) ==
    /\ check[m] = "held"
    /\ IF chosen[m] \in active THEN Complete(m, chosen[m])
       ELSE CheckMoves(m, "held", "routing") /\ UNCHANGED <<waitVars, consumed, replyTo>>
    /\ Matched(m, None)
    /\ UNCHANGED <<pending, callbackVars, platformVars, faults>>

(* The rest of _complete_wait_task(): the task may have ended meanwhile.    *)
Adopt(m) ==
    /\ check[m] = "held"
    /\ IF chosen[m] \in active THEN Complete(m, chosen[m])
       ELSE CheckMoves(m, "held", "releasing") /\ UNCHANGED <<waitVars, consumed, replyTo>>
    /\ Matched(m, None)
    /\ UNCHANGED <<pending, callbackVars, platformVars, faults>>

ReleaseAnswer(m) ==
    /\ CheckMoves(m, "releasing", "routing") /\ Release({m})
    /\ UNCHANGED <<waitVars, replyTo, chosen, pending, consumed, callbackVars, faults>>

ReleaseFails(m) ==
    /\ Fault("platform") /\ CheckMoves(m, "releasing", "routing")
    /\ lost' = [lost EXCEPT ![m] = @ + 1]
    /\ UNCHANGED <<waitVars, replyTo, chosen, pending, consumed, callbackVars, context, marks>>
------------------------------------------------------------------------------
(* The callbacks.                                                           *)

Running(c) == {m \in Messages : check[m] = "running" /\ replyTo[m] = c}
Found(m) == replyTo[m] \in registered
OnlyRouted == UNCHANGED <<waitVars, chosen, pending, consumed, platformVars, faults>>
Pop(c) == registered' = registered \ {c} /\ once' = once \ {c}
Counts(c) == runs' = [runs EXCEPT ![c] = @ + 1]

(* Mutant of RouteOnce: it is removed when it has run. *)
RouteOnceAndKeep(m) ==
    /\ CheckMoves(m, "routing", "running")
    /\ Found(m) /\ replyTo[m] \in once
    /\ Counts(replyTo[m]) /\ UNCHANGED <<once, registered, replyTo>> /\ OnlyRouted

(* A callback for one run is removed before anything is awaited ...         *)
RouteOnce(m) ==
    /\ CheckMoves(m, "routing", "running")
    /\ Found(m) /\ replyTo[m] \in once
    /\ Counts(replyTo[m]) /\ Pop(replyTo[m])
    /\ UNCHANGED replyTo /\ OnlyRouted

(* ... others wait for their lock ...                                       *)
RouteRepeatable(m) ==
    /\ CheckMoves(m, "routing", "queueing")
    /\ Found(m) /\ replyTo[m] \notin once
    /\ UNCHANGED <<callbackVars, replyTo>> /\ OnlyRouted

(* The rest is the parser's, after which the platform has its answer.       *)
RouteToParser(m) ==
    /\ CheckMoves(m, "routing", "ended") /\ ~Found(m) /\ Forget(m)
    /\ UNCHANGED callbackVars /\ OnlyRouted

(* Mutant of RunCallback: the lock is not waited for. *)
RunCallbackUnlocked(m) ==
    /\ IF Found(m) THEN CheckMoves(m, "queueing", "running") /\ UNCHANGED replyTo
       ELSE CheckMoves(m, "queueing", "ended") /\ Forget(m)
    /\ UNCHANGED callbackVars /\ OnlyRouted

(* ... and have been removed by then, or not.                               *)
RunCallback(m) ==
    /\ Running(replyTo[m]) = {}
    /\ IF Found(m) THEN CheckMoves(m, "queueing", "running") /\ UNCHANGED replyTo
       ELSE CheckMoves(m, "queueing", "ended") /\ Forget(m)
    /\ UNCHANGED callbackVars /\ OnlyRouted

CallbackEnds(m) ==
    /\ CheckMoves(m, "running", "ended") /\ Forget(m)
    /\ UNCHANGED callbackVars /\ OnlyRouted

(* remove_callback(), or its time is over.                                  *)
RemoveCallback(c) ==
    /\ c \in registered /\ Pop(c)
    /\ UNCHANGED <<waitVars, checkVars, runs, platformVars, faults>>
------------------------------------------------------------------------------
WaitStep(w) ==
    \/ Sent(w) \/ Wakes(w) \/ ReplyTimesOut(w) \/ TimesOut(w) \/ PromptDeleted(w)
    \/ ReleaseHeld(w)

CheckStep(m) ==
    \/ Look(m) \/ LookAgain(m) \/ HoldAnswer(m) \/ HoldRefused(m)
    \/ Adopt(m) \/ ReleaseAnswer(m)
    \/ RouteOnce(m) \/ RouteRepeatable(m) \/ RouteToParser(m)
    \/ RunCallback(m) \/ CallbackEnds(m)

Next ==
    \/ \E w \in Waits : \/ Register(w) \/ WaitStep(w) \/ WaitFails(w) \/ HourlyCheck(w)
                        \/ ReleaseHeldFails(w)
    \/ \E m \in Messages : \/ Arrive(m) \/ CheckStep(m) \/ DropContext(m)
                           \/ HoldFails(m) \/ ReleaseFails(m)
    \/ \E c \in Callbacks : RemoveCallback(c)

Spec == Init /\ [][Next]_vars

(* A prompt is sent or its wait times out; calls return; callbacks and      *)
(* commands end; a lock is FIFO.                                            *)
Fairness ==
    /\ \A w \in Waits : WF_vars(WaitStep(w))
    /\ \A m \in Messages : WF_vars(CheckStep(m))

FairSpec == Spec /\ Fairness
------------------------------------------------------------------------------
(* A message that a wait keeps from the parser and from the callbacks is    *)
(* the answer of that wait, also when several messages are matched with it  *)
(* at once, or its time runs out while a context is being held.             *)
ConsumedIsAnswer ==
    /\ \A m \in consumed : \E w \in Waits : result[w] = m
    /\ \A w \in Waits : held[w] \subseteq {result[w]}

(* Every mark on a context is that of a check in progress or of a command   *)
(* that keeps the answer, but for those a failed call left behind; and an   *)
(* answer a command keeps can be used as long as the command runs.          *)
Counted(m) ==
    Cardinality({w \in Waits : m \in held[w]}) + lost[m]
        + (IF check[m] \in {"held", "releasing"} THEN 1 ELSE 0) = marks[m]

HeldContexts ==
    /\ \A m \in Messages : Counted(m)
    /\ \A w \in Waits : held[w] \subseteq context

(* A callback for one run runs once, and none beside itself.                *)
CallbackAlone ==
    \A c \in Callbacks : runs[c] <= 1 /\ \A m, o \in Running(c) : m = o

(* The check of a message comes to its end, also of one that waits for the  *)
(* identifiers of prompts which are never sent.                             *)
CheckEnds ==
    (\E m \in Messages : check[m] \notin {"idle", "ended"}) ~>
        (\A m \in Messages : check[m] \in {"idle", "ended"})
==============================================================================
