-------------------------- MODULE SessionTasksProofs --------------------------
(* Proofs about SessionTasks, for every set of waits, messages and          *)
(* callbacks, every relation between them, and every number of failures.    *)
EXTENDS SessionTasks, FiniteSetTheorems, TLAPS

USE DEF waitVars, checkVars, callbackVars, platformVars

WaitStates == {"idle", "ended"} \cup Listed \cup Done
CheckStates == {"idle", "looking", "pending", "holding", "held", "releasing",
                "routing", "queueing", "running", "ended"}

LEMMA FaultType ==
    ASSUME TypeOK, NEW kind, Fault(kind)
    PROVE  faults' \in 0 .. MaxFaults
BY SessionAssumption DEF Fault, TypeOK

LEMMA WaitMovesType ==
    ASSUME TypeOK, NEW w \in Waits, NEW from, NEW to \in WaitStates, WaitMoves(w, from, to)
    PROVE  wait' \in [Waits -> WaitStates]
BY DEF WaitMoves, TypeOK, WaitStates

LEMMA CheckMovesType ==
    ASSUME TypeOK, NEW m \in Messages, NEW from, NEW to \in CheckStates, CheckMoves(m, from, to)
    PROVE  check' \in [Messages -> CheckStates]
BY DEF CheckMoves, TypeOK, CheckStates

LEMMA UnlistType ==
    ASSUME TypeOK, NEW w \in Waits, Unlist(w)
    PROVE  /\ sequence' \in Nat /\ order' \in [Waits -> Nat]
           /\ active' \subseteq active /\ ready' \subseteq Waits /\ known' \subseteq Waits
           /\ flag' \subseteq Waits
           /\ UNCHANGED <<result, held>>
BY DEF Unlist, TypeOK

LEMMA ReleaseType ==
    ASSUME TypeOK, NEW S, Release(S)
    PROVE  /\ marks' \in [Messages -> Nat] /\ lost' = lost
           /\ context' \subseteq context
<1>1. \A m \in Messages : marks[m] > 0 => marks[m] - 1 \in Nat
  BY DEF TypeOK
<1> QED
  BY <1>1 DEF Release, TypeOK

LEMMA TypeInit == Init => TypeOK
BY SessionAssumption DEF Init, TypeOK, Listed, Done

LEMMA WaitTypeStep ==
    ASSUME TypeOK, NEW w \in Waits,
           \/ Register(w) \/ WaitStep(w) \/ WaitFails(w) \/ HourlyCheck(w) \/ ReleaseHeldFails(w)
    PROVE  TypeOK'
<1> USE DEF WaitAlone
<1>s. {"sending", "waiting", "deleting", "answered", "failed", "ended"} \subseteq WaitStates
  BY DEF WaitStates, Listed, Done
<1>1. CASE Register(w)
  <2>1. wait' \in [Waits -> WaitStates]
    BY <1>1, <1>s, WaitMovesType DEF Register
  <2>2. sequence' \in Nat /\ order' \in [Waits -> Nat]
    BY <1>1 DEF Register, TypeOK
  <2>3. active' \subseteq Waits /\ ready' \subseteq Waits
    BY <1>1 DEF Register, TypeOK
  <2> QED
    BY <1>1, <2>1, <2>2, <2>3 DEF Register, TypeOK, WaitStates
<1>2. CASE Sent(w)
  <2>1. wait' \in [Waits -> WaitStates]
    BY <1>2, <1>s, WaitMovesType DEF Sent
  <2>2. ready' \subseteq Waits /\ known' \subseteq Waits
    BY <1>2 DEF Sent, TypeOK
  <2> QED
    BY <1>2, <2>1, <2>2 DEF Sent, TypeOK, WaitStates
<1>3. CASE Wakes(w) \/ ReplyTimesOut(w) \/ PromptDeleted(w)
  <2>1. wait' \in [Waits -> WaitStates]
    BY <1>3, <1>s, WaitMovesType DEF Wakes, ReplyTimesOut, PromptDeleted
  <2>2. Unlist(w) /\ UNCHANGED <<faults, checkVars, callbackVars, platformVars>>
    BY <1>3 DEF Wakes, ReplyTimesOut, PromptDeleted
  <2> QED
    BY <2>1, <2>2, UnlistType DEF TypeOK, WaitStates
<1>4. CASE TimesOut(w)
  <2>1. wait' \in [Waits -> WaitStates]
    BY <1>4, <1>s, WaitMovesType DEF TimesOut
  <2> QED
    BY <1>4, <2>1 DEF TimesOut, TypeOK, WaitStates
<1>5. CASE WaitFails(w)
  <2>1. wait' \in [Waits -> WaitStates] /\ faults' \in 0 .. MaxFaults
    BY <1>5, <1>s, WaitMovesType, FaultType DEF WaitFails, TypeOK
  <2> QED
    BY <1>5, <2>1, UnlistType DEF WaitFails, TypeOK, WaitStates
<1>6. CASE HourlyCheck(w)
  BY <1>6 DEF HourlyCheck, TypeOK
<1>7. CASE ReleaseHeld(w)
  <2>1. wait' \in [Waits -> WaitStates]
    BY <1>7, <1>s, WaitMovesType DEF ReleaseHeld
  <2> QED
    BY <1>7, <2>1, ReleaseType DEF ReleaseHeld, TypeOK, WaitStates
<1>8. CASE ReleaseHeldFails(w)
  <2>1. wait' \in [Waits -> WaitStates] /\ faults' \in 0 .. MaxFaults
    BY <1>8, <1>s, WaitMovesType, FaultType DEF ReleaseHeldFails
  <2>2. lost' \in [Messages -> Nat]
    BY <1>8 DEF ReleaseHeldFails, TypeOK
  <2> QED
    BY <1>8, <2>1, <2>2 DEF ReleaseHeldFails, TypeOK, WaitStates
<1> QED
  BY <1>1, <1>2, <1>3, <1>4, <1>5, <1>6, <1>7, <1>8 DEF WaitStep

LEMMA LookTypeStep ==
    ASSUME TypeOK, NEW m \in Messages, Look(m) \/ LookAgain(m)
    PROVE  TypeOK'
<1> USE DEF CheckAlone
<1>s. {"holding", "pending", "routing", "looking"} \subseteq CheckStates
  BY DEF CheckStates
<1>1. check' \in [Messages -> CheckStates]
  BY <1>s, CheckMovesType DEF Look, LookAgain
<1>2. chosen' \in [Messages -> Waits \cup {None}]
  BY DEF Look, LookAgain, Matched, TypeOK
<1>3. pending' \in [Messages -> SUBSET Waits]
  BY DEF Look, LookAgain, Unsent, Candidates, TypeOK
<1> QED
  BY <1>1, <1>2, <1>3 DEF Look, LookAgain, TypeOK, CheckStates

LEMMA CompleteType ==
    ASSUME TypeOK, NEW m \in Messages, NEW w \in Waits, Complete(m, w)
    PROVE  /\ wait' = wait /\ sequence' = sequence /\ order' = order
           /\ ready' = ready /\ known' = known
           /\ active' \subseteq Waits /\ flag' \subseteq Waits
           /\ result' \in [Waits -> Messages \cup {None}]
           /\ held' \in [Waits -> SUBSET Messages]
           /\ check' \in [Messages -> CheckStates]
           /\ replyTo' \in [Messages -> Waits \cup Callbacks \cup {None}]
           /\ consumed' \subseteq Messages
<1>1. check' \in [Messages -> CheckStates]
  BY CheckMovesType DEF Complete, CheckStates
<1> QED
  BY <1>1 DEF Complete, Forget, TypeOK

LEMMA AnswerTypeStep ==
    ASSUME TypeOK, NEW m \in Messages,
           \/ HoldAnswer(m) \/ HoldRefused(m) \/ HoldFails(m)
           \/ Adopt(m) \/ ReleaseAnswer(m) \/ ReleaseFails(m)
    PROVE  TypeOK'
<1>s. {"held", "routing", "releasing"} \subseteq CheckStates
  BY DEF CheckStates
<1>1. CASE HoldAnswer(m)
  <2>1. check' \in [Messages -> CheckStates]
    BY <1>1, <1>s, CheckMovesType DEF HoldAnswer
  <2>2. marks' \in [Messages -> Nat] /\ UNCHANGED <<context, lost>>
    BY <1>1 DEF HoldAnswer, Hold, TypeOK
  <2> QED
    BY <1>1, <2>1, <2>2 DEF HoldAnswer, TypeOK, CheckStates
<1>2. CASE HoldRefused(m)
  <2>1. check' \in [Messages -> CheckStates]
    BY <1>2, <1>s, CheckMovesType DEF HoldRefused
  <2> QED
    BY <1>2, <2>1 DEF HoldRefused, Matched, TypeOK, CheckStates
<1>3. CASE HoldFails(m)
  <2>1. check' \in [Messages -> CheckStates] /\ faults' \in 0 .. MaxFaults
    BY <1>3, <1>s, CheckMovesType, FaultType DEF HoldFails
  <2>2. marks' \in [Messages -> Nat] /\ lost' \in [Messages -> Nat]
    BY <1>3 DEF HoldFails, TypeOK
  <2> QED
    BY <1>3, <2>1, <2>2 DEF HoldFails, Matched, TypeOK, CheckStates
<1>4. CASE Adopt(m) /\ chosen[m] \in active
  <2>1. chosen[m] \in Waits /\ Complete(m, chosen[m])
    BY <1>4 DEF Adopt, TypeOK
  <2> QED
    BY <1>4, <2>1, CompleteType DEF Adopt, Matched, TypeOK, CheckStates
<1>5. CASE Adopt(m) /\ chosen[m] \notin active
  <2>1. check' \in [Messages -> CheckStates]
    BY <1>5, <1>s, CheckMovesType DEF Adopt
  <2> QED
    BY <1>5, <2>1 DEF Adopt, Matched, TypeOK, CheckStates
<1>6. CASE ReleaseAnswer(m)
  <2>1. check' \in [Messages -> CheckStates]
    BY <1>6, <1>s, CheckMovesType DEF ReleaseAnswer
  <2> QED
    BY <1>6, <2>1, ReleaseType DEF ReleaseAnswer, TypeOK, CheckStates
<1>7. CASE ReleaseFails(m)
  <2>1. check' \in [Messages -> CheckStates] /\ faults' \in 0 .. MaxFaults
    BY <1>7, <1>s, CheckMovesType, FaultType DEF ReleaseFails
  <2>2. lost' \in [Messages -> Nat]
    BY <1>7 DEF ReleaseFails, TypeOK
  <2> QED
    BY <1>7, <2>1, <2>2 DEF ReleaseFails, TypeOK, CheckStates
<1> QED
  BY <1>1, <1>2, <1>3, <1>4, <1>5, <1>6, <1>7

LEMMA RouteTypeStep ==
    ASSUME TypeOK, NEW m \in Messages,
           \/ RouteOnce(m) \/ RouteRepeatable(m) \/ RouteToParser(m)
           \/ RunCallback(m) \/ CallbackEnds(m)
    PROVE  TypeOK'
<1> USE DEF OnlyRouted
<1>s. {"running", "queueing", "ended"} \subseteq CheckStates
  BY DEF CheckStates
<1>1. check' \in [Messages -> CheckStates]
  BY <1>s, CheckMovesType DEF RouteOnce, RouteRepeatable, RouteToParser, RunCallback, CallbackEnds
<1>2. replyTo' \in [Messages -> Waits \cup Callbacks \cup {None}]
  BY DEF RouteOnce, RouteRepeatable, RouteToParser, RunCallback, CallbackEnds, Forget, TypeOK
<1>3. /\ registered' \subseteq Callbacks /\ once' \subseteq registered'
      /\ runs' \in [Callbacks -> Nat]
  <2>1. CASE RouteOnce(m)
    <3>1. runs' \in [Callbacks -> Nat]
      BY <2>1 DEF RouteOnce, Counts, TypeOK
    <3> QED
      BY <2>1, <3>1 DEF RouteOnce, Pop, TypeOK
  <2>2. CASE UNCHANGED callbackVars
    BY <2>2 DEF TypeOK
  <2> QED
    BY <2>1, <2>2 DEF RouteRepeatable, RouteToParser, RunCallback, CallbackEnds
<1> QED
  BY <1>1, <1>2, <1>3 DEF RouteOnce, RouteRepeatable, RouteToParser, RunCallback,
     CallbackEnds, TypeOK, CheckStates

LEMMA TypeStep ==
    ASSUME TypeOK, [Next]_vars
    PROVE  TypeOK'
<1>1. CASE UNCHANGED vars
  BY <1>1 DEF vars, TypeOK
<1>2. ASSUME NEW m \in Messages, Arrive(m)
      PROVE  TypeOK'
  <2>1. check' \in [Messages -> CheckStates]
    BY <1>2, CheckMovesType DEF Arrive, CheckStates
  <2>2. replyTo' \in [Messages -> Waits \cup Callbacks \cup {None}]
    <3>1. Refers[m] \subseteq Waits \cup Callbacks \cup {None}
      BY SessionAssumption
    <3> QED
      BY <1>2, <3>1 DEF Arrive, TypeOK
  <2> QED
    BY <1>2, <2>1, <2>2 DEF Arrive, TypeOK, CheckStates
<1>3. ASSUME NEW m \in Messages, DropContext(m)
      PROVE  TypeOK'
  <2>1. faults' \in 0 .. MaxFaults
    BY <1>3, FaultType DEF DropContext, Answered, TypeOK
  <2> QED
    BY <1>3, <2>1 DEF DropContext, TypeOK
<1>4. ASSUME NEW c \in Callbacks, RemoveCallback(c)
      PROVE  TypeOK'
  BY <1>4 DEF RemoveCallback, Pop, TypeOK
<1> QED
  BY <1>1, <1>2, <1>3, <1>4, WaitTypeStep, LookTypeStep, AnswerTypeStep, RouteTypeStep
     DEF Next, CheckStep

(* Every variable stays in its type. *)
THEOREM TypeCorrect == Spec => []TypeOK
BY TypeInit, TypeStep, PTL DEF Spec
-------------------------------------------------------------------------------
(* The inductive invariant.  A task takes its result while it is active and  *)
(* only once; a message that is a result has left the checks for good, so    *)
(* that it is the result of one task and held by no other.  Then marks can   *)
(* be counted: one for the check that has the message in hand, or one for    *)
(* the task it answered.  A callback for one run has neither run nor been    *)
(* given to a message as long as it is in the list.                          *)
Settled == {"routing", "queueing", "running", "ended"}
InHand(m) == check[m] \in {"held", "releasing"}
Kept(m) == \E w \in Waits : m \in held[w]

WaitInv ==
    \A w \in Waits :
        /\ w \in active => wait[w] \in Listed /\ result[w] = None
        /\ wait[w] = "idle" => result[w] = None
        /\ held[w] \subseteq {result[w]}

AnswerInv ==
    /\ \A w \in Waits : result[w] # None => check[result[w]] \in Settled
    /\ \A v, w \in Waits : result[v] # None /\ result[v] = result[w] => v = w
    /\ \A m \in consumed : \E w \in Waits : result[w] = m

MarkOf(m) ==
    /\ marks[m] = lost[m] + (IF Kept(m) THEN 1 ELSE 0) + (IF InHand(m) THEN 1 ELSE 0)
    /\ Kept(m) \/ InHand(m) => m \in context

MarkInv == \A m \in Messages : MarkOf(m)

CallbackInv ==
    /\ \A c \in Callbacks : runs[c] <= 1 /\ (c \in once => runs[c] = 0)
    /\ \A m \in Messages : check[m] \in {"queueing", "running"} => replyTo[m] \notin once
    /\ \A m, o \in Messages :
           check[m] = "running" /\ check[o] = "running" /\ replyTo[m] = replyTo[o] => m = o

IInv == TypeOK /\ WaitInv /\ AnswerInv /\ MarkInv /\ CallbackInv

LEMMA InitIInv == Init => IInv
<1> SUFFICES ASSUME Init PROVE IInv
  OBVIOUS
<1>1. WaitInv /\ AnswerInv /\ CallbackInv
  BY DEF Init, WaitInv, AnswerInv, CallbackInv
<1>2. MarkInv
  BY DEF Init, MarkInv, MarkOf, Kept, InHand
<1> QED
  BY <1>1, <1>2, TypeInit DEF IInv
-------------------------------------------------------------------------------
(* The steps that give no task a result, and the one that does.              *)
NoResult ==
    /\ UNCHANGED <<result, consumed>>
    /\ \A m \in Messages : check[m] \in Settled => check'[m] \in Settled

LEMMA CheckMovesSettled ==
    ASSUME TypeOK, NEW m \in Messages, NEW from, NEW to, CheckMoves(m, from, to),
           from \in Settled => to \in Settled
    PROVE  \A o \in Messages : check[o] \in Settled => check'[o] \in Settled
BY DEF CheckMoves, TypeOK

LEMMA AdoptKinds ==
    ASSUME TypeOK, NEW m \in Messages, Adopt(m)
    PROVE  \/ chosen[m] \in active /\ chosen[m] \in Waits /\ Complete(m, chosen[m])
           \/ CheckMoves(m, "held", "releasing") /\ UNCHANGED <<waitVars, consumed, replyTo>>
BY DEF Adopt, TypeOK

LEMMA CheckKinds ==
    ASSUME TypeOK, NEW m \in Messages,
           Arrive(m) \/ CheckStep(m) \/ DropContext(m) \/ HoldFails(m) \/ ReleaseFails(m)
    PROVE  \/ UNCHANGED waitVars /\ NoResult
           \/ \E w \in active : w \in Waits /\ Complete(m, w)
<1>1. CASE Look(m) \/ LookAgain(m)
  <2>1. \/ \E to : CheckMoves(m, "looking", to)
        \/ CheckMoves(m, "pending", "looking")
    BY <1>1 DEF Look, LookAgain
  <2> QED
    BY <1>1, <2>1, CheckMovesSettled DEF Look, LookAgain, CheckAlone, NoResult, Settled
<1>2. CASE Arrive(m)
  BY <1>2, CheckMovesSettled DEF Arrive, NoResult, Settled
<1>3. CASE DropContext(m)
  BY <1>3 DEF DropContext, NoResult
<1>4. CASE HoldAnswer(m) \/ HoldRefused(m) \/ HoldFails(m)
  BY <1>4, CheckMovesSettled DEF HoldAnswer, HoldRefused, HoldFails, NoResult, Settled
<1>5. CASE Adopt(m)
  BY <1>5, AdoptKinds, CheckMovesSettled DEF NoResult, Settled
<1>6. CASE ReleaseAnswer(m) \/ ReleaseFails(m)
  BY <1>6, CheckMovesSettled DEF ReleaseAnswer, ReleaseFails, NoResult, Settled
<1>7. CASE RouteOnce(m) \/ RouteRepeatable(m) \/ RouteToParser(m)
  BY <1>7, CheckMovesSettled DEF RouteOnce, RouteRepeatable, RouteToParser,
     OnlyRouted, NoResult, Settled
<1>8. CASE RunCallback(m) \/ CallbackEnds(m)
  BY <1>8, CheckMovesSettled DEF RunCallback, CallbackEnds, OnlyRouted, NoResult, Settled
<1> QED
  BY <1>1, <1>2, <1>3, <1>4, <1>5, <1>6, <1>7, <1>8 DEF CheckStep

LEMMA WaitKinds ==
    ASSUME TypeOK, NEW w \in Waits,
           \/ Register(w) \/ WaitStep(w) \/ WaitFails(w) \/ HourlyCheck(w) \/ ReleaseHeldFails(w)
    PROVE  UNCHANGED checkVars /\ UNCHANGED callbackVars /\ NoResult
<1> USE DEF WaitAlone, NoResult, Unlist
<1>1. CASE Register(w) \/ Sent(w) \/ Wakes(w) \/ ReplyTimesOut(w)
  BY <1>1 DEF Register, Sent, Wakes, ReplyTimesOut
<1>2. CASE TimesOut(w) \/ PromptDeleted(w) \/ WaitFails(w) \/ HourlyCheck(w)
  BY <1>2 DEF TimesOut, PromptDeleted, WaitFails, HourlyCheck
<1>3. CASE ReleaseHeld(w) \/ ReleaseHeldFails(w)
  BY <1>3 DEF ReleaseHeld, ReleaseHeldFails
<1> QED
  BY <1>1, <1>2, <1>3 DEF WaitStep
-------------------------------------------------------------------------------
(* A task that gets a result is active, has none, and has no context.        *)
LEMMA CompleteAnswer ==
    ASSUME IInv, NEW m \in Messages, NEW w \in Waits, w \in active, Complete(m, w)
    PROVE  /\ WaitInv' /\ AnswerInv'
           /\ ~Kept(m) /\ held[w] = {} /\ held' = [held EXCEPT ![w] = {m}]
<1>1. check[m] = "held" /\ check'[m] \in Settled /\ \A o \in Messages \ {m} : check'[o] = check[o]
  BY DEF Complete, CheckMoves, IInv, TypeOK, Settled
<1>2. result[w] = None /\ held[w] = {}
  <2>1. held[w] \subseteq {None} /\ held[w] \subseteq Messages /\ result[w] = None
    BY DEF IInv, TypeOK, WaitInv
  <2> QED
    BY <2>1, SessionAssumption
<1>3. \A v \in Waits : result[v] # m
  BY <1>1, SessionAssumption DEF IInv, AnswerInv, Settled
<1>4. m # None
  BY SessionAssumption
<1>5. result' = [result EXCEPT ![w] = m] /\ held' = [held EXCEPT ![w] = {m}]
      /\ active' = active \ {w} /\ wait' = wait
  BY <1>2 DEF Complete
<1>6. WaitInv'
  BY <1>2, <1>5 DEF IInv, TypeOK, WaitInv, Listed
<1>7. AnswerInv'
  <2>1. \A v \in Waits : result'[v] # None => check'[result'[v]] \in Settled
    BY <1>1, <1>3, <1>5 DEF IInv, TypeOK, AnswerInv
  <2>2. \A u, v \in Waits : result'[u] # None /\ result'[u] = result'[v] => u = v
    BY <1>3, <1>5 DEF IInv, TypeOK, AnswerInv
  <2>3. consumed' \subseteq consumed \cup {m}
    BY DEF Complete
  <2>4. ASSUME NEW o \in consumed' PROVE \E v \in Waits : result'[v] = o
    <3>1. CASE o = m
      BY <3>1, <1>5 DEF IInv, TypeOK
    <3>2. CASE o # m
      <4>1. PICK v \in Waits : result[v] = o
        BY <3>2, <2>3, <2>4 DEF IInv, AnswerInv
      <4>2. v # w
        BY <4>1, <1>2, <2>3, <2>4, <3>2, SessionAssumption DEF IInv, TypeOK
      <4> QED
        BY <4>1, <4>2, <1>5 DEF IInv, TypeOK
    <3> QED
      BY <3>1, <3>2
  <2> QED
    BY <2>1, <2>2, <2>4 DEF AnswerInv
<1>8. ~Kept(m)
  BY <1>3 DEF Kept, IInv, WaitInv
<1> QED
  BY <1>2, <1>5, <1>6, <1>7, <1>8

LEMMA NoResultAnswer ==
    ASSUME IInv, NoResult
    PROVE  AnswerInv'
<1>1. \A w \in Waits : result[w] # None => result[w] \in Messages
  BY DEF IInv, TypeOK
<1> QED
  BY <1>1 DEF IInv, AnswerInv, NoResult

LEMMA UnlistWait ==
    ASSUME IInv, NEW w \in Waits, NEW from, NEW to, WaitMoves(w, from, to), to # "idle", Unlist(w)
    PROVE  WaitInv'
BY DEF IInv, TypeOK, WaitInv, WaitMoves, Unlist

LEMMA WaitStepWait ==
    ASSUME IInv, NEW w \in Waits,
           \/ Register(w) \/ WaitStep(w) \/ WaitFails(w) \/ HourlyCheck(w) \/ ReleaseHeldFails(w)
    PROVE  WaitInv'
<1>1. CASE Register(w)
  BY <1>1 DEF Register, WaitMoves, IInv, TypeOK, WaitInv, Listed
<1>2. CASE Sent(w)
  BY <1>2 DEF Sent, WaitMoves, IInv, TypeOK, WaitInv, Listed
<1>3. CASE Wakes(w) \/ ReplyTimesOut(w) \/ PromptDeleted(w)
  <2>1. \E from, to : WaitMoves(w, from, to) /\ to # "idle"
    BY <1>3 DEF Wakes, ReplyTimesOut, PromptDeleted
  <2> QED
    BY <1>3, <2>1, UnlistWait DEF Wakes, ReplyTimesOut, PromptDeleted
<1>4. CASE TimesOut(w)
  BY <1>4 DEF TimesOut, WaitMoves, IInv, TypeOK, WaitInv, Listed
<1>5. CASE WaitFails(w)
  <2>1. \E from : WaitMoves(w, from, "failed")
    BY <1>5 DEF WaitFails
  <2> QED
    BY <1>5, <2>1, UnlistWait DEF WaitFails
<1>6. CASE HourlyCheck(w)
  BY <1>6 DEF HourlyCheck, IInv, WaitInv
<1>7. CASE ReleaseHeld(w) \/ ReleaseHeldFails(w)
  <2>1. /\ WaitMoves(w, Done, "ended") /\ held' = [held EXCEPT ![w] = {}]
        /\ UNCHANGED <<active, result>>
    BY <1>7 DEF ReleaseHeld, ReleaseHeldFails
  <2> QED
    BY <2>1 DEF WaitMoves, IInv, TypeOK, WaitInv, Listed, Done
<1> QED
  BY <1>1, <1>2, <1>3, <1>4, <1>5, <1>6, <1>7 DEF WaitStep
-------------------------------------------------------------------------------
(* The marks: a step counts the same for every message it is not about.      *)
SameMarks(m) ==
    /\ marks'[m] = marks[m] /\ lost'[m] = lost[m]
    /\ Kept(m)' <=> Kept(m)
    /\ InHand(m)' <=> InHand(m)
    /\ m \in context => m \in context'

LEMMA SameMarkOf ==
    ASSUME NEW m \in Messages, MarkOf(m), SameMarks(m)
    PROVE  MarkOf(m)'
BY DEF MarkOf, SameMarks

LEMMA HoldMarks ==
    ASSUME IInv, NEW m \in Messages,
           HoldAnswer(m) \/ HoldRefused(m) \/ HoldFails(m)
    PROVE  MarkInv'
<1>1. \A o \in Messages : Kept(o)' <=> Kept(o)
  BY DEF HoldAnswer, HoldRefused, HoldFails, Kept
<1>2. \A o \in Messages \ {m} : InHand(o)' <=> InHand(o)
  BY DEF HoldAnswer, HoldRefused, HoldFails, CheckMoves, InHand, IInv, TypeOK
<1>3. ASSUME NEW o \in Messages \ {m} PROVE SameMarks(o)
  BY <1>1, <1>2 DEF HoldAnswer, HoldRefused, HoldFails, Hold, SameMarks, IInv, TypeOK
<1>4. MarkOf(m) /\ marks[m] \in Nat /\ lost[m] \in Nat
  BY DEF IInv, TypeOK, MarkInv
<1>5. ~InHand(m) /\ (InHand(m)' <=> HoldAnswer(m))
  BY DEF HoldAnswer, HoldRefused, HoldFails, CheckMoves, InHand, IInv, TypeOK
<1>6. MarkOf(m)'
  <2>1. CASE HoldAnswer(m)
    <3>1. marks'[m] = marks[m] + 1 /\ lost'[m] = lost[m] /\ m \in context'
      BY <2>1 DEF HoldAnswer, Hold, IInv, TypeOK
    <3> QED
      BY <2>1, <3>1, <1>1, <1>4, <1>5 DEF MarkOf
  <2>2. CASE ~HoldAnswer(m)
    <3>1. /\ \/ marks'[m] = marks[m] /\ lost'[m] = lost[m]
             \/ marks'[m] = marks[m] + 1 /\ lost'[m] = lost[m] + 1
          /\ context' = context
      BY <2>2 DEF HoldRefused, HoldFails, IInv, TypeOK
    <3> QED
      BY <2>2, <3>1, <1>1, <1>4, <1>5 DEF MarkOf
  <2> QED
    BY <2>1, <2>2
<1> QED
  BY <1>3, <1>6, SameMarkOf DEF MarkInv, IInv

LEMMA AdoptMarks ==
    ASSUME IInv, NEW m \in Messages, Adopt(m)
    PROVE  MarkInv'
<1>1. UNCHANGED platformVars
  BY DEF Adopt
<1>2. check[m] = "held" /\ \A o \in Messages \ {m} : InHand(o)' <=> InHand(o)
  BY DEF Adopt, Complete, CheckMoves, InHand, IInv, TypeOK
<1>3. CASE ~(chosen[m] \in active)
  <2>1. InHand(m)' /\ \A o \in Messages : Kept(o)' <=> Kept(o)
    BY <1>3 DEF Adopt, CheckMoves, InHand, Kept, IInv, TypeOK
  <2>2. InHand(m)
    BY <1>2 DEF InHand
  <2>3. \A o \in Messages : SameMarks(o)
    BY <1>1, <1>2, <2>1, <2>2 DEF SameMarks
  <2> QED
    BY <2>3, SameMarkOf DEF MarkInv, IInv
<1>4. CASE chosen[m] \in active
  <2> DEFINE w == chosen[m]
  <2>1. w \in Waits /\ Complete(m, w)
    BY <1>4 DEF Adopt, IInv, TypeOK
  <2>2. ~Kept(m) /\ held[w] = {} /\ held' = [held EXCEPT ![w] = {m}]
    BY <1>4, <2>1, CompleteAnswer
  <2>3. Kept(m)' /\ \A o \in Messages \ {m} : Kept(o)' <=> Kept(o)
    BY <2>1, <2>2 DEF Kept, IInv, TypeOK
  <2>4. InHand(m) /\ ~InHand(m)'
    BY <1>2, <2>1 DEF InHand, Complete, CheckMoves, IInv, TypeOK
  <2>5. \A o \in Messages \ {m} : SameMarks(o)
    BY <1>1, <1>2, <2>3 DEF SameMarks
  <2>6. MarkOf(m)'
    <3>1. MarkOf(m) /\ marks[m] \in Nat /\ lost[m] \in Nat
      BY DEF IInv, TypeOK, MarkInv
    <3> QED
      BY <1>1, <2>2, <2>3, <2>4, <3>1 DEF MarkOf
  <2> QED
    BY <2>5, <2>6, SameMarkOf DEF MarkInv, IInv
<1> QED
  BY <1>3, <1>4

LEMMA ReleaseMarks ==
    ASSUME IInv, NEW m \in Messages, ReleaseAnswer(m) \/ ReleaseFails(m)
    PROVE  MarkInv'
<1>1. \A o \in Messages : Kept(o)' <=> Kept(o)
  BY DEF ReleaseAnswer, ReleaseFails, Kept
<1>2. /\ InHand(m) /\ ~InHand(m)'
      /\ \A o \in Messages \ {m} : InHand(o)' <=> InHand(o)
  BY DEF ReleaseAnswer, ReleaseFails, CheckMoves, InHand, IInv, TypeOK
<1>3. MarkOf(m) /\ marks[m] \in Nat /\ lost[m] \in Nat
  BY DEF IInv, TypeOK, MarkInv
<1>4. \A o \in Messages \ {m} : SameMarks(o)
  BY <1>1, <1>2 DEF ReleaseAnswer, ReleaseFails, Release, SameMarks, IInv, TypeOK
<1>5. MarkOf(m)'
  <2>1. CASE ReleaseAnswer(m)
    <3>1. /\ marks'[m] = IF marks[m] > 0 THEN marks[m] - 1 ELSE marks[m]
          /\ lost'[m] = lost[m]
          /\ m \in context /\ marks[m] # 1 => m \in context'
      BY <2>1 DEF ReleaseAnswer, Release
    <3> QED
      BY <3>1, <1>1, <1>2, <1>3 DEF MarkOf
  <2>2. CASE ReleaseFails(m)
    <3>1. marks' = marks /\ lost'[m] = lost[m] + 1 /\ context' = context
      BY <2>2 DEF ReleaseFails, IInv, TypeOK
    <3> QED
      BY <3>1, <1>1, <1>2, <1>3 DEF MarkOf
  <2> QED
    BY <2>1, <2>2
<1> QED
  BY <1>4, <1>5, SameMarkOf DEF MarkInv, IInv

LEMMA EndMarks ==
    ASSUME IInv, NEW w \in Waits, ReleaseHeld(w) \/ ReleaseHeldFails(w)
    PROVE  MarkInv'
<1>1. held' = [held EXCEPT ![w] = {}] /\ check' = check
  BY DEF ReleaseHeld, ReleaseHeldFails
<1>2. \A o \in Messages : InHand(o)' <=> InHand(o)
  BY <1>1 DEF InHand
<1>3. ASSUME NEW o \in Messages, o \in held[w]
      PROVE  Kept(o) /\ ~Kept(o)'
  <2>1. Kept(o)
    BY <1>3 DEF Kept
  <2>2. ASSUME NEW v \in Waits, o \in held[v] PROVE v = w
    <3>1. result[v] = o /\ result[w] = o /\ o # None
      BY <1>3, <2>2, SessionAssumption DEF IInv, WaitInv
    <3> QED
      BY <3>1 DEF IInv, AnswerInv
  <2> QED
    BY <1>1, <2>1, <2>2 DEF Kept, IInv, TypeOK
<1>4. ASSUME NEW o \in Messages, o \notin held[w]
      PROVE  Kept(o)' <=> Kept(o)
  BY <1>1, <1>4 DEF Kept, IInv, TypeOK
<1>5. ASSUME NEW o \in Messages
      PROVE  MarkOf(o)'
  <2>1. MarkOf(o) /\ marks[o] \in Nat /\ lost[o] \in Nat
    BY DEF IInv, TypeOK, MarkInv
  <2>2. CASE o \notin held[w]
    <3>1. marks'[o] = marks[o] /\ lost'[o] = lost[o] /\ (o \in context => o \in context')
      BY <2>2 DEF ReleaseHeld, ReleaseHeldFails, Release, IInv, TypeOK
    <3> QED
      BY <1>2, <1>4, <2>1, <2>2, <3>1, SameMarkOf DEF SameMarks
  <2>3. CASE o \in held[w] /\ ReleaseHeld(w)
    <3>1. /\ marks'[o] = IF marks[o] > 0 THEN marks[o] - 1 ELSE marks[o]
          /\ lost'[o] = lost[o]
          /\ o \in context /\ marks[o] # 1 => o \in context'
      BY <2>3 DEF ReleaseHeld, Release
    <3> QED
      BY <1>2, <1>3, <2>1, <2>3, <3>1 DEF MarkOf
  <2>4. CASE o \in held[w] /\ ReleaseHeldFails(w)
    <3>1. marks' = marks /\ lost'[o] = lost[o] + 1 /\ context' = context
      BY <2>4 DEF ReleaseHeldFails
    <3> QED
      BY <1>2, <1>3, <2>1, <2>4, <3>1 DEF MarkOf
  <2> QED
    BY <2>2, <2>3, <2>4
<1> QED
  BY <1>5 DEF MarkInv

LEMMA DropMarks ==
    ASSUME IInv, NEW m \in Messages, DropContext(m)
    PROVE  MarkInv'
<1>1. \A o \in Messages : (Kept(o)' <=> Kept(o)) /\ (InHand(o)' <=> InHand(o))
  BY DEF DropContext, Kept, InHand
<1>2. \A o \in Messages \ {m} : SameMarks(o)
  BY <1>1 DEF DropContext, SameMarks
<1>3. MarkOf(m) /\ marks[m] = 0 /\ lost[m] \in Nat /\ UNCHANGED <<marks, lost>>
  BY DEF DropContext, IInv, TypeOK, MarkInv
<1>4. MarkOf(m)'
  BY <1>1, <1>3 DEF MarkOf
<1> QED
  BY <1>2, <1>4, SameMarkOf DEF MarkInv, IInv

(* The steps that neither hold nor release.                                  *)
LEMMA OtherMarks ==
    ASSUME IInv, UNCHANGED <<held, marks, lost>>, context \subseteq context',
           \A o \in Messages : InHand(o)' <=> InHand(o)
    PROVE  MarkInv'
<1>1. \A o \in Messages : SameMarks(o)
  BY DEF SameMarks, Kept
<1> QED
  BY <1>1, SameMarkOf DEF MarkInv, IInv
-------------------------------------------------------------------------------
(* The callbacks.  Most steps bring no message nearer to one.                *)
AtCallback(m) == check[m] \in {"queueing", "running"}

LEMMA NoCallback ==
    ASSUME IInv, UNCHANGED runs, once' \subseteq once,
           \A o \in Messages : AtCallback(o)' => check'[o] = check[o] /\ replyTo'[o] = replyTo[o]
    PROVE  CallbackInv'
BY DEF IInv, CallbackInv, AtCallback

LEMMA CompleteCallback ==
    ASSUME IInv, NEW m \in Messages, NEW w, Complete(m, w), UNCHANGED callbackVars
    PROVE  CallbackInv'
<1>1. check'[m] \in {"routing", "ended"} /\ \A o \in Messages \ {m} : check'[o] = check[o]
  BY DEF Complete, CheckMoves, IInv, TypeOK
<1>2. \A o \in Messages \ {m} : replyTo'[o] = replyTo[o]
  BY DEF Complete, Forget, IInv, TypeOK
<1> QED
  BY <1>1, <1>2, NoCallback DEF AtCallback

LEMMA MovesCallback ==
    ASSUME IInv, NEW m \in Messages, NEW from, NEW to, CheckMoves(m, from, to),
           to \notin {"queueing", "running"}, UNCHANGED callbackVars,
           \A o \in Messages \ {m} : replyTo'[o] = replyTo[o]
    PROVE  CallbackInv'
<1>1. check'[m] = to /\ \A o \in Messages \ {m} : check'[o] = check[o]
  BY DEF CheckMoves, IInv, TypeOK
<1> QED
  BY <1>1, NoCallback DEF AtCallback

LEMMA RunsCallback ==
    ASSUME IInv, NEW m \in Messages, NEW from, CheckMoves(m, from, "running"),
           UNCHANGED replyTo, replyTo[m] \notin once', once' \subseteq once,
           \A o \in Messages : ~(check[o] = "running" /\ replyTo[o] = replyTo[m]),
           \A c \in Callbacks : runs'[c] <= 1 /\ (c \in once' => runs'[c] = 0)
    PROVE  CallbackInv'
<1>1. check'[m] = "running" /\ \A o \in Messages \ {m} : check'[o] = check[o]
  BY DEF CheckMoves, IInv, TypeOK
<1> QED
  BY <1>1 DEF IInv, CallbackInv

LEMMA CheckStepCallback ==
    ASSUME IInv, NEW m \in Messages,
           Arrive(m) \/ CheckStep(m) \/ DropContext(m) \/ HoldFails(m) \/ ReleaseFails(m)
    PROVE  CallbackInv'
<1>1. CASE Look(m) \/ LookAgain(m)
  <2>1. \E from, to : CheckMoves(m, from, to) /\ to \notin {"queueing", "running"}
    BY <1>1 DEF Look, LookAgain
  <2> QED
    BY <1>1, <2>1, MovesCallback DEF Look, LookAgain, CheckAlone
<1>2. CASE Arrive(m)
  <2>1. \A o \in Messages \ {m} : replyTo'[o] = replyTo[o]
    BY <1>2 DEF Arrive, IInv, TypeOK
  <2> QED
    BY <1>2, <2>1, MovesCallback DEF Arrive
<1>3. CASE DropContext(m)
  BY <1>3, NoCallback DEF DropContext
<1>4. CASE HoldAnswer(m) \/ HoldRefused(m) \/ HoldFails(m) \/ ReleaseAnswer(m) \/ ReleaseFails(m)
  BY <1>4, MovesCallback DEF HoldAnswer, HoldRefused, HoldFails, ReleaseAnswer, ReleaseFails
<1>5. CASE Adopt(m)
  <2>1. TypeOK /\ UNCHANGED callbackVars
    BY <1>5 DEF IInv, Adopt
  <2> QED
    BY <1>5, <2>1, AdoptKinds, CompleteCallback, MovesCallback
<1>6. CASE RouteOnce(m)
  <2> DEFINE c == replyTo[m]
  <2>1. c \in Callbacks /\ c \in once /\ runs[c] = 0
    BY <1>6 DEF RouteOnce, IInv, TypeOK, CallbackInv
  <2>2. \A o \in Messages : ~(check[o] = "running" /\ replyTo[o] = c)
    BY <2>1 DEF IInv, CallbackInv
  <2>3. once' = once \ {c} /\ runs' = [runs EXCEPT ![c] = 1]
    BY <1>6, <2>1 DEF RouteOnce, Counts, Pop
  <2>4. \A d \in Callbacks : runs'[d] <= 1 /\ (d \in once' => runs'[d] = 0)
    BY <2>1, <2>3 DEF IInv, TypeOK, CallbackInv
  <2> QED
    BY <1>6, <2>2, <2>3, <2>4, RunsCallback DEF RouteOnce
<1>7. CASE RouteRepeatable(m)
  <2>1. check'[m] = "queueing" /\ \A o \in Messages \ {m} : check'[o] = check[o]
    BY <1>7 DEF RouteRepeatable, CheckMoves, IInv, TypeOK
  <2> QED
    BY <1>7, <2>1 DEF RouteRepeatable, IInv, CallbackInv
<1>8. CASE RouteToParser(m) \/ CallbackEnds(m)
  <2>1. \A o \in Messages \ {m} : replyTo'[o] = replyTo[o]
    BY <1>8 DEF RouteToParser, CallbackEnds, Forget, IInv, TypeOK
  <2> QED
    BY <1>8, <2>1, MovesCallback DEF RouteToParser, CallbackEnds
<1>9. CASE RunCallback(m) /\ Found(m)
  <2>1. CheckMoves(m, "queueing", "running") /\ UNCHANGED replyTo /\ UNCHANGED callbackVars
    BY <1>9 DEF RunCallback
  <2>2. replyTo[m] \notin once
    BY <2>1 DEF CheckMoves, IInv, CallbackInv
  <2>3. \A o \in Messages : ~(check[o] = "running" /\ replyTo[o] = replyTo[m])
    BY <1>9 DEF RunCallback, Running
  <2>4. \A c \in Callbacks : runs'[c] <= 1 /\ (c \in once' => runs'[c] = 0)
    BY <2>1 DEF IInv, CallbackInv
  <2> QED
    BY <2>1, <2>2, <2>3, <2>4, RunsCallback
<1>10. CASE RunCallback(m) /\ ~Found(m)
  <2>1. \A o \in Messages \ {m} : replyTo'[o] = replyTo[o]
    BY <1>10 DEF RunCallback, Forget, IInv, TypeOK
  <2> QED
    BY <1>10, <2>1, MovesCallback DEF RunCallback
<1> QED
  BY <1>1, <1>2, <1>3, <1>4, <1>5, <1>6, <1>7, <1>8, <1>9, <1>10 DEF CheckStep
-------------------------------------------------------------------------------
LEMMA WaitStepIInv ==
    ASSUME IInv, NEW w \in Waits,
           \/ Register(w) \/ WaitStep(w) \/ WaitFails(w) \/ HourlyCheck(w) \/ ReleaseHeldFails(w)
    PROVE  IInv'
<1>1. TypeOK /\ TypeOK'
  BY WaitTypeStep DEF IInv
<1>2. UNCHANGED checkVars /\ UNCHANGED callbackVars /\ NoResult
  BY <1>1, WaitKinds
<1>3. MarkInv'
  <2>1. CASE ReleaseHeld(w) \/ ReleaseHeldFails(w)
    BY <2>1, EndMarks
  <2>2. CASE ~(ReleaseHeld(w) \/ ReleaseHeldFails(w))
    <3>1. UNCHANGED <<held, platformVars>>
      BY <2>2 DEF WaitStep, Register, Sent, Wakes, ReplyTimesOut, TimesOut, PromptDeleted,
         WaitFails, HourlyCheck, Unlist, WaitAlone
    <3> QED
      BY <1>2, <3>1, OtherMarks DEF InHand
  <2> QED
    BY <2>1, <2>2
<1>4. CallbackInv'
  BY <1>2, NoCallback DEF AtCallback
<1>5. WaitInv' /\ AnswerInv'
  BY <1>2, WaitStepWait, NoResultAnswer
<1> QED
  BY <1>1, <1>3, <1>4, <1>5 DEF IInv

LEMMA CheckStepMarks ==
    ASSUME IInv, NEW m \in Messages,
           Arrive(m) \/ CheckStep(m) \/ DropContext(m) \/ HoldFails(m) \/ ReleaseFails(m)
    PROVE  MarkInv'
<1>1. CASE Look(m) \/ LookAgain(m)
  <2>1. \E from, to \in CheckStates \ {"held", "releasing"} : CheckMoves(m, from, to)
    BY <1>1 DEF Look, LookAgain, CheckStates
  <2>2. \A o \in Messages : InHand(o)' <=> InHand(o)
    BY <2>1 DEF CheckMoves, InHand, IInv, TypeOK
  <2> QED
    BY <1>1, <2>2, OtherMarks DEF Look, LookAgain, CheckAlone
<1>2. CASE Arrive(m)
  <2>1. \A o \in Messages : InHand(o)' <=> InHand(o)
    BY <1>2 DEF Arrive, CheckMoves, InHand, IInv, TypeOK
  <2> QED
    BY <1>2, <2>1, OtherMarks DEF Arrive
<1>3. CASE RouteOnce(m) \/ RouteRepeatable(m) \/ RouteToParser(m) \/ RunCallback(m)
           \/ CallbackEnds(m)
  <2>1. OnlyRouted /\ \E from, to \in CheckStates \ {"held", "releasing"} : CheckMoves(m, from, to)
    BY <1>3 DEF RouteOnce, RouteRepeatable, RouteToParser, RunCallback, CallbackEnds, CheckStates
  <2>2. \A o \in Messages : InHand(o)' <=> InHand(o)
    BY <2>1 DEF CheckMoves, InHand, IInv, TypeOK
  <2> QED
    BY <2>1, <2>2, OtherMarks DEF OnlyRouted
<1> QED
  BY <1>1, <1>2, <1>3, HoldMarks, AdoptMarks, ReleaseMarks, DropMarks DEF CheckStep

LEMMA CheckStepIInv ==
    ASSUME IInv, NEW m \in Messages,
           Arrive(m) \/ CheckStep(m) \/ DropContext(m) \/ HoldFails(m) \/ ReleaseFails(m)
    PROVE  IInv'
<1>1. TypeOK /\ TypeOK'
  <2>1. [Next]_vars
    BY DEF Next
  <2> QED
    BY <2>1, TypeStep DEF IInv
<1>2. WaitInv' /\ AnswerInv'
  <2>1. CASE UNCHANGED waitVars /\ NoResult
    BY <2>1, NoResultAnswer DEF IInv, WaitInv
  <2>2. CASE \E w \in active : w \in Waits /\ Complete(m, w)
    BY <2>2, CompleteAnswer
  <2> QED
    BY <1>1, <2>1, <2>2, CheckKinds
<1> QED
  BY <1>1, <1>2, CheckStepMarks, CheckStepCallback DEF IInv

LEMMA StepIInv ==
    ASSUME IInv, [Next]_vars
    PROVE  IInv'
<1>1. TypeOK'
  BY TypeStep DEF IInv
<1>2. CASE UNCHANGED vars
  <2>1. WaitInv' /\ AnswerInv' /\ CallbackInv'
    BY <1>2 DEF vars, IInv, WaitInv, AnswerInv, CallbackInv
  <2>2. MarkInv'
    BY <1>2 DEF vars, IInv, MarkInv, MarkOf, Kept, InHand
  <2> QED
    BY <1>1, <2>1, <2>2 DEF IInv
<1>3. ASSUME NEW c \in Callbacks, RemoveCallback(c)
      PROVE  IInv'
  <2>1. UNCHANGED <<waitVars, checkVars, runs, platformVars>> /\ once' \subseteq once
    BY <1>3 DEF RemoveCallback, Pop
  <2>2. WaitInv' /\ AnswerInv'
    BY <2>1 DEF IInv, WaitInv, AnswerInv
  <2>3. MarkInv'
    BY <2>1, OtherMarks DEF InHand
  <2>4. CallbackInv'
    BY <2>1, NoCallback DEF AtCallback
  <2> QED
    BY <1>1, <2>2, <2>3, <2>4 DEF IInv
<1> QED
  BY <1>2, <1>3, WaitStepIInv, CheckStepIInv DEF Next

(* The inductive invariant: results, holds and callbacks are accounted for. *)
THEOREM Invariant == Spec => []IInv
BY InitIInv, StepIInv, PTL DEF Spec

LEMMA HoldersCounted ==
    ASSUME IInv, NEW m \in Messages
    PROVE  Cardinality({w \in Waits : m \in held[w]}) = IF Kept(m) THEN 1 ELSE 0
<1>1. CASE Kept(m)
  <2>1. PICK w \in Waits : m \in held[w]
    BY <1>1 DEF Kept
  <2>2. ASSUME NEW v \in Waits, m \in held[v] PROVE v = w
    <3>1. result[v] = m /\ result[w] = m /\ m # None
      BY <2>1, <2>2, SessionAssumption DEF IInv, WaitInv
    <3> QED
      BY <3>1 DEF IInv, AnswerInv
  <2>3. {v \in Waits : m \in held[v]} = {w}
    BY <2>1, <2>2
  <2> QED
    BY <1>1, <2>3, FS_Singleton
<1>2. CASE ~Kept(m)
  <2>1. {v \in Waits : m \in held[v]} = {}
    BY <1>2 DEF Kept
  <2> QED
    BY <1>2, <2>1, FS_EmptySet
<1> QED
  BY <1>1, <1>2

(* A message a wait keeps from the parser is the answer of that wait, and a  *)
(* command holds no context but that of its answer.                          *)
THEOREM ConsumedAreAnswers == Spec => []ConsumedIsAnswer
<1>1. IInv => ConsumedIsAnswer
  BY DEF IInv, WaitInv, AnswerInv, ConsumedIsAnswer
<1> QED
  BY <1>1, Invariant, PTL

(* Marks on contexts are balanced, and what a command holds is there.        *)
THEOREM ContextsHeld == Spec => []HeldContexts
<1>1. IInv => HeldContexts
  <2> SUFFICES ASSUME IInv PROVE HeldContexts
    OBVIOUS
  <2>1. ASSUME NEW m \in Messages PROVE Counted(m)
    <3>1. /\ MarkOf(m) /\ lost[m] \in Nat
          /\ Cardinality({w \in Waits : m \in held[w]}) = IF Kept(m) THEN 1 ELSE 0
      BY HoldersCounted DEF IInv, MarkInv, TypeOK
    <3> QED
      BY <3>1 DEF MarkOf, Counted, InHand
  <2>2. \A w \in Waits : held[w] \subseteq context
    BY DEF IInv, TypeOK, MarkInv, MarkOf, Kept
  <2> QED
    BY <2>1, <2>2 DEF HeldContexts
<1> QED
  BY <1>1, Invariant, PTL

(* A callback for one run runs once, and no callback beside itself.          *)
THEOREM CallbacksAlone == Spec => []CallbackAlone
<1>1. IInv => CallbackAlone
  BY DEF IInv, CallbackInv, CallbackAlone, Running
<1> QED
  BY <1>1, Invariant, PTL
===============================================================================
