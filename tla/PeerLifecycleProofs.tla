------------------------- MODULE PeerLifecycleProofs -------------------------
(* Proofs about PeerLifecycle, for every set of handlers and other tasks    *)
(* that open maintenance windows, and every kind of failure.                *)
EXTENDS PeerLifecycle, TLAPS

USE DEF handlerVars, windowVars, flags, Frame, Others, Elsewhere

LEMMA TypeInit == Init => TypeOK
BY DEF Init, TypeOK, PollerStates, WindowStates, ShutdownStates, RowStates

LEMMA ReleaseType ==
    ASSUME TypeOK, NEW holder, Release(holder)
    PROVE  pollLock' \in {"free", "poller", "shutdown"} \cup Workers
BY DEF Release, TypeOK

LEMMA PollerStopsType ==
    ASSUME TypeOK, PollerStops
    PROVE  /\ poller' \in PollerStates /\ active' \in BOOLEAN
           /\ pollLock' \in {"free", "poller", "shutdown"} \cup Workers
BY ReleaseType DEF PollerStops, TypeOK, PollerStates, Stopping

LEMMA SpawnType ==
    ASSUME TypeOK, NEW S \in SUBSET New, Spawn(S)
    PROVE  /\ handler' \in [Handlers -> {"none", "running", "late", "done"}]
           /\ cancelled' = cancelled
BY DEF Spawn, TypeOK

LEMMA PollerStepType ==
    ASSUME TypeOK, PollerStep \/ PollerFails \/ StopFails
    PROVE  TypeOK'
<1> USE DEF PollerMoves
<1>s. /\ Starting \cup InRound \cup Stopping \cup {"off", "idle", "ended"} \subseteq PollerStates
      /\ Ended \in PollerStates
  BY DEF PollerStates, Ended
<1>1. CASE StartPoller \/ PeerReady \/ RenewMisses
  BY <1>1, <1>s DEF StartPoller, PeerReady, RenewMisses, PollerOnly, TypeOK, Starting, InRound
<1>2. CASE CommitStarting \/ CommitReady \/ StopDrains \/ StopUnregisters
  BY <1>2, <1>s DEF CommitStarting, CommitReady, StopDrains, StopUnregisters,
     PollerCommits, TypeOK, Starting, Stopping, RowStates
<1>3. CASE Registered
  BY <1>3, <1>s DEF Registered, TypeOK, Starting
<1>4. CASE BeginRound
  BY <1>4, <1>s DEF BeginRound, StartRound, TypeOK, InRound
<1>5. ASSUME NEW S \in SUBSET New, EndRound(S) \/ HeartbeatDue(S)
      PROVE  TypeOK'
  <2>1. handler' \in [Handlers -> {"none", "running", "late", "done"}] /\ cancelled' = cancelled
    BY <1>5, SpawnType DEF EndRound, HeartbeatDue
  <2>2. pollLock' \in {"free", "poller", "shutdown"} \cup Workers
    BY <1>5, ReleaseType DEF EndRound, HeartbeatDue, TypeOK
  <2> QED
    BY <1>5, <1>s, <2>1, <2>2 DEF EndRound, HeartbeatDue, TypeOK, InRound
<1>6. CASE Renew \/ RegisterAgain
  <2>1. pollLock' \in {"free", "poller", "shutdown"} \cup Workers
    BY <1>6, ReleaseType DEF Renew, RegisterAgain, LeaseRound
  <2> QED
    BY <1>6, <1>s, <2>1 DEF Renew, RegisterAgain, LeaseRound, TypeOK, RowStates
<1>7. CASE RollBack \/ PeerStopped \/ StopRetries
  BY <1>7, <1>s DEF RollBack, PeerStopped, StopRetries, TypeOK, RowStates
<1>8. CASE PollerFails
  BY <1>8, PollerStopsType DEF PollerFails, TypeOK
<1>9. CASE StopFails
  BY <1>9, <1>s DEF StopFails, TypeOK, Stopping
<1> QED
  BY <1>1, <1>2, <1>3, <1>4, <1>5, <1>6, <1>7, <1>8, <1>9 DEF PollerStep

LEMMA HandlerStepType ==
    ASSUME TypeOK, NEW h \in Handlers, HandlerEnds(h) \/ DeadlinePasses(h)
    PROVE  TypeOK'
BY DEF HandlerEnds, DeadlinePasses, TypeOK

LEMMA WindowMovesType ==
    ASSUME TypeOK, NEW m \in Workers, NEW to \in WindowStates, WindowMoves(m, to)
    PROVE  window' \in [Workers -> WindowStates]
BY DEF WindowMoves, TypeOK

LEMMA CloseWindowType ==
    ASSUME TypeOK, NEW m \in Workers, CloseWindow(m)
    PROVE  /\ window' \in [Workers -> WindowStates]
           /\ windowLock' \in {"free"} \cup Workers
           /\ pause' \in BOOLEAN /\ active' \in BOOLEAN
<1>1. {"resuming", "left"} \subseteq WindowStates
  BY DEF WindowStates
<1> QED
  BY <1>1, WindowMovesType DEF CloseWindow, Reopen, TypeOK

LEMMA StartDrainingType ==
    ASSUME TypeOK, NEW m \in Workers, StartDraining(m)
    PROVE  window' \in [Workers -> WindowStates] /\ waits' \subseteq Handlers
BY WindowMovesType DEF StartDraining, Running, WindowStates, Entry

LEMMA DrainExpiresType ==
    ASSUME TypeOK, NEW m \in Workers, DrainExpires(m)
    PROVE  /\ window' \in [Workers -> WindowStates] /\ cancelled' \subseteq Handlers
           /\ UNCHANGED <<windowLock, pollLock, pause, active>>
BY WindowMovesType DEF DrainExpires, WindowStates, Entry, TypeOK

LEMMA WindowStepType ==
    ASSUME TypeOK, NEW m \in Workers, WindowStep(m) \/ WindowOther(m)
    PROVE  TypeOK'
<1>s. Entry \cup Body \cup {"none", "locking", "resuming", "resumed", "left"} \subseteq WindowStates
  BY DEF WindowStates
<1>1. CASE OpenWindow(m) \/ Upgrade(m) \/ Drained(m)
  <2>1. \E from, to \in WindowStates : WindowOnly(m, from, to)
    BY <1>1, <1>s DEF OpenWindow, Upgrade, Drained, EnterBody, Entry, Body
  <2> QED
    BY <2>1, WindowMovesType DEF WindowOnly, TypeOK
<1>2. CASE TakeWindow(m)
  <2>1. window' \in [Workers -> WindowStates]
    BY <1>2, <1>s, WindowMovesType DEF TakeWindow, Entry
  <2> QED
    BY <1>2, <2>1 DEF TakeWindow, TypeOK
<1>3. CASE PassBarrier(m)
  <2>1. window' \in [Workers -> WindowStates] /\ waits' \subseteq Handlers
    BY <1>3, <1>s, WindowMovesType, StartDrainingType
       DEF PassBarrier, BeginMaintenance, Entry, TypeOK
  <2> QED
    BY <1>3, <2>1 DEF PassBarrier, BeginMaintenance, TypeOK
<1>4. CASE CommitMaintenance(m) \/ CommitResume(m)
  <2>1. window' \in [Workers -> WindowStates]
    BY <1>4, <1>s, WindowMovesType DEF CommitMaintenance, CommitResume, Entry
  <2> QED
    BY <1>4, <2>1 DEF CommitMaintenance, CommitResume, TypeOK, RowStates
<1>5. CASE EnterFails(m) \/ Announced(m)
  <2>1. window' \in [Workers -> WindowStates] /\ waits' \subseteq Handlers
    BY <1>5, StartDrainingType DEF EnterFails, Announced
  <2> QED
    BY <1>5, <2>1 DEF EnterFails, Announced, TypeOK
<1>6. CASE Entered(m)
  <2>1. window' \in [Workers -> WindowStates]
    BY <1>6, <1>s, WindowMovesType DEF Entered, Entry
  <2> QED
    BY <1>6, <2>1 DEF Entered, TypeOK
<1>7. CASE GrantPollLock(m) \/ EndNested(m)
  <2>1. window' \in [Workers -> WindowStates]
    BY <1>7, <1>s, WindowMovesType DEF GrantPollLock, EndNested, Body
  <2>2. pollLock' \in {"free", "poller", "shutdown"} \cup Workers
    BY <1>7, ReleaseType DEF GrantPollLock, EndNested
  <2> QED
    BY <1>7, <2>1, <2>2 DEF GrantPollLock, EndNested, TypeOK
<1>8. CASE EndBody(m)
  BY <1>8, CloseWindowType, ReleaseType DEF EndBody, TypeOK
<1>9. CASE Resumed(m)
  <2>1. window' \in [Workers -> WindowStates]
    BY <1>9, <1>s, WindowMovesType DEF Resumed, Reopen
  <2> QED
    BY <1>9, <2>1 DEF Resumed, Reopen, TypeOK
<1>10. CASE LockTimesOut(m) \/ EnteringTimesOut(m) \/ Expired(m)
  BY <1>10, CloseWindowType DEF LockTimesOut, EnteringTimesOut, Expired, TypeOK
<1>11. CASE DrainExpires(m) /\ UNCHANGED <<started, waits, reg>> /\ Others
  BY <1>11, DrainExpiresType DEF TypeOK
<1>12. CASE WindowCancelled(m)
  <2>1. /\ window' \in [Workers -> WindowStates] /\ cancelled' \subseteq Handlers
        /\ windowLock' \in {"free"} \cup Workers /\ pause' \in BOOLEAN /\ active' \in BOOLEAN
        /\ pollLock' \in {"free", "poller", "shutdown"} \cup Workers
    <3>1. CASE window[m] \in {"lock", "resuming", "resumed"}
      BY <1>12, <3>1, <1>s, WindowMovesType DEF WindowCancelled, Delivered, TypeOK, Body
    <3>2. CASE window[m] = "drain"
      BY <1>12, <3>2, DrainExpiresType DEF WindowCancelled, TypeOK, Body
    <3>3. CASE window[m] = "expired"
      BY <1>12, <3>3 DEF WindowCancelled, Delivered, TypeOK, Body
    <3>4. CASE window[m] \in {"barrier", "entering", "entered", "announcing", "locking"} \cup Body
      <4>1. CloseWindow(m) /\ Release(m) /\ Delivered(m)
        BY <1>12, <3>4 DEF WindowCancelled, Body
      <4> QED
        BY <4>1, CloseWindowType, ReleaseType DEF Delivered, TypeOK
    <3> QED
      BY <1>12, <3>1, <3>2, <3>3, <3>4 DEF WindowCancelled
  <2> QED
    BY <1>12, <2>1 DEF WindowCancelled, TypeOK
<1> QED
  BY <1>1, <1>2, <1>3, <1>4, <1>5, <1>6, <1>7, <1>8, <1>9, <1>10, <1>11, <1>12
     DEF WindowStep, WindowOther, EnterTimesOut

LEMMA ShutdownStepType ==
    ASSUME TypeOK, BeginShutdown \/ ShutdownStep
    PROVE  TypeOK'
<1> USE DEF ShutdownMoves
<1>1. CASE BeginShutdown
  BY <1>1 DEF BeginShutdown, TypeOK, ShutdownStates
<1>2. CASE ShutdownBarrier \/ ShutdownBarrierTimesOut \/ HandlersGone
  BY <1>2 DEF ShutdownBarrier, ShutdownBarrierTimesOut, HandlersGone, ShutdownOnly,
     TypeOK, ShutdownStates
<1>3. CASE CommitDraining
  BY <1>3 DEF CommitDraining, TypeOK, ShutdownStates, RowStates
<1>4. CASE CancelHandlers
  BY <1>4 DEF CancelHandlers, Running, TypeOK, ShutdownStates
<1>5. CASE LockForShutdown
  BY <1>5 DEF LockForShutdown, TypeOK, ShutdownStates
<1>6. CASE StopJobQueue
  BY <1>6, PollerStopsType DEF StopJobQueue, Cancel, TypeOK, ShutdownStates, PollerStates
<1>7. CASE EndShutdown
  BY <1>7, ReleaseType DEF EndShutdown, TypeOK, ShutdownStates
<1> QED
  BY <1>1, <1>2, <1>3, <1>4, <1>5, <1>6, <1>7 DEF ShutdownStep

LEMMA TypeStep ==
    ASSUME TypeOK, [Next]_vars
    PROVE  TypeOK'
<1>1. CASE UNCHANGED vars
  BY <1>1 DEF vars, TypeOK
<1> QED
  BY <1>1, PollerStepType, HandlerStepType, WindowStepType, ShutdownStepType DEF Next

(* Every variable stays in its type. *)
THEOREM TypeCorrect == Spec => []TypeOK
BY TypeInit, TypeStep, PTL DEF Spec
------------------------------------------------------------------------------
(* The inductive invariant.  A worker is inside its window exactly while it *)
(* holds the maintenance lock; the poller is in a round exactly while it    *)
(* holds the poll lock; once the window has passed its barrier, no round    *)
(* that may claim is left, and none can begin, as pause_event is cleared:   *)
(* so that the handlers it waits for are all there are.                     *)
Holding == WindowStates \ {"none", "lock", "left"}
Alone == {"locking"} \cup Body
Inside == {"entering", "entered", "announcing", "drain"} \cup Alone
ClaimsNow == poller = "polling" /\ claiming

LockInv ==
    /\ poller \in InRound <=> pollLock = "poller"
    /\ \A m \in Workers : /\ window[m] \in Holding <=> windowLock = m
                          /\ window[m] \in Locked => pollLock = m

FlagInv ==
    /\ shuttingDown <=> shutdown \notin {"none", "done"}
    /\ shuttingDown => ~pause
    /\ windowLock # "free" => ~pause \/ shutdown = "done"
    /\ shutdown = "done" => poller \in NoTask
    /\ poller \in {"readying", "announcing", "idle"} \cup InRound => registered
    /\ ActiveHasOwner

DrainInv ==
    \A m \in Workers :
       /\ window[m] \in Inside => ~ClaimsNow
       /\ window[m] = "drain" => Running \subseteq waits \cup {m}
       /\ window[m] \in {"drain", "expired"} => m \notin waits
       /\ window[m] \in Alone => Running \subseteq {m}

IInv == TypeOK /\ LockInv /\ FlagInv /\ DrainInv

LEMMA InitIInv == Init => IInv
<1> SUFFICES ASSUME Init PROVE IInv
  OBVIOUS
<1>1. LockInv
  BY ConstantsAssumption DEF Init, LockInv, Holding, Locked, InRound
<1>2. FlagInv
  BY DEF Init, FlagInv, ActiveHasOwner, InRound
<1>3. DrainInv
  BY DEF Init, DrainInv, Inside, Alone, Body
<1> QED
  BY <1>1, <1>2, <1>3, TypeInit DEF IInv
------------------------------------------------------------------------------
(* What the steps of a window do to what it shares with others.             *)
LEMMA CloseWindowEffect ==
    ASSUME TypeOK, NEW m \in Workers, CloseWindow(m)
    PROVE  /\ \A o \in Workers \ {m} : window'[o] = window[o]
           /\ \/ window'[m] = "resuming" /\ UNCHANGED <<windowLock, pause, active>>
              \/ /\ window'[m] = "left" /\ windowLock' = "free" /\ active' = FALSE
                 /\ pause' = (pause \/ ~shuttingDown)
BY DEF CloseWindow, Reopen, WindowMoves, TypeOK

Kept(m) == window'[m] \in Holding /\ UNCHANGED <<windowLock, pause>>
Leaves(m) ==
    /\ window'[m] = "left" /\ windowLock' = "free" /\ active' = FALSE
    /\ \/ pause' = (pause \/ ~shuttingDown)
       \/ m \in cancelled /\ window[m] \in {"resuming", "resumed"} /\ pause' = pause

LEMMA WindowOwnership ==
    ASSUME TypeOK, NEW m \in Workers, WindowStep(m) \/ WindowOther(m)
    PROVE  /\ \A o \in Workers \ {m} : window'[o] = window[o]
           /\ \/ window[m] = "none" /\ window'[m] = "lock" /\ UNCHANGED <<windowLock, pause, active>>
              \/ window[m] = "lock" /\ window'[m] = "left" /\ UNCHANGED <<windowLock, pause, active>>
              \/ /\ window[m] = "lock" /\ window'[m] = "barrier" /\ m \notin cancelled
                 /\ windowLock = "free" /\ windowLock' = m /\ pause' = FALSE /\ active' = active
              \/ window[m] \in Holding /\ Kept(m)
              \/ window[m] \in Holding /\ Leaves(m)
<1> USE DEF WindowMoves, WindowOnly, At
<1>h. /\ {"barrier", "entering", "entered", "announcing", "drain", "expired", "locking",
           "resuming", "resumed"} \subseteq Holding
      /\ Body \subseteq Holding
  BY DEF Holding, WindowStates, Entry, Body
<1>1. CASE OpenWindow(m)
  BY <1>1 DEF OpenWindow, TypeOK
<1>2. CASE TakeWindow(m)
  BY <1>2 DEF TakeWindow, TypeOK
<1>3. CASE PassBarrier(m)
  BY <1>3, <1>h DEF PassBarrier, BeginMaintenance, StartDraining, TypeOK, Kept
<1>4. CASE CommitMaintenance(m) \/ CommitResume(m) \/ Entered(m)
  BY <1>4, <1>h DEF CommitMaintenance, CommitResume, Entered, TypeOK, Kept
<1>5. CASE EnterFails(m) \/ Announced(m)
  BY <1>5, <1>h DEF EnterFails, Announced, StartDraining, TypeOK, Kept
<1>6. CASE Drained(m) \/ Upgrade(m)
  BY <1>6, <1>h DEF Drained, EnterBody, Upgrade, TypeOK, Kept, Body
<1>7. CASE GrantPollLock(m) \/ EndNested(m)
  BY <1>7, <1>h DEF GrantPollLock, EndNested, TypeOK, Kept, Body
<1>8. CASE EndBody(m) \/ LockTimesOut(m) \/ EnteringTimesOut(m) \/ Expired(m)
  <2>1. CloseWindow(m) /\ window[m] \in Holding
    BY <1>8, <1>h DEF EndBody, LockTimesOut, EnteringTimesOut, Expired, Body
  <2> QED
    BY <2>1, <1>h, CloseWindowEffect DEF Kept, Leaves
<1>9. CASE Resumed(m)
  BY <1>9, <1>h DEF Resumed, Reopen, Leaves, TypeOK
<1>10. CASE window[m] = "drain" /\ DrainExpires(m)
  BY <1>10, <1>h DEF DrainExpires, TypeOK, Kept
<1>11. CASE WindowCancelled(m)
  <2>1. CASE window[m] \in {"barrier", "entering", "entered", "announcing", "locking"} \cup Body
    <3>1. CloseWindow(m) /\ window[m] \in Holding
      BY <1>11, <2>1, <1>h DEF WindowCancelled, Body
    <3> QED
      BY <3>1, <1>h, CloseWindowEffect DEF Kept, Leaves
  <2>2. CASE window[m] \in {"lock", "expired", "resuming", "resumed"}
    BY <1>11, <2>2, <1>h DEF WindowCancelled, Leaves, Kept, TypeOK, Body
  <2>3. CASE window[m] = "drain"
    BY <1>10, <1>11, <2>3 DEF WindowCancelled, Body
  <2> QED
    BY <1>11, <2>1, <2>2, <2>3 DEF WindowCancelled
<1> QED
  BY <1>1, <1>2, <1>3, <1>4, <1>5, <1>6, <1>7, <1>8, <1>9, <1>10, <1>11
     DEF WindowStep, WindowOther, EnterTimesOut

LEMMA WindowPollLock ==
    ASSUME TypeOK, NEW m \in Workers, WindowStep(m) \/ WindowOther(m)
    PROVE  /\ UNCHANGED <<poller, claiming, handler, shutdown, registered, shuttingDown>>
           /\ \/ pollLock' = pollLock
              \/ pollLock = "free" /\ pollLock' = m
              \/ pollLock = m /\ pollLock' = "free"
           /\ window'[m] \in Locked => pollLock' = m
<1> USE DEF WindowMoves, WindowOnly, At, Locked
<1>1. CASE OpenWindow(m) \/ TakeWindow(m) \/ Upgrade(m) \/ Drained(m)
  BY <1>1 DEF OpenWindow, TakeWindow, Upgrade, Drained, EnterBody, TypeOK
<1>2. CASE PassBarrier(m) \/ EnterFails(m) \/ Announced(m) \/ Entered(m)
  BY <1>2 DEF PassBarrier, BeginMaintenance, EnterFails, Announced, Entered,
     StartDraining, TypeOK
<1>3. CASE CommitMaintenance(m) \/ CommitResume(m)
  BY <1>3 DEF CommitMaintenance, CommitResume, TypeOK
<1>4. CASE GrantPollLock(m) \/ EndNested(m)
  BY <1>4 DEF GrantPollLock, EndNested, Release, TypeOK
<1>5. CASE EndBody(m) \/ LockTimesOut(m) \/ EnteringTimesOut(m) \/ Expired(m)
  <2>1. CloseWindow(m)
    BY <1>5 DEF EndBody, LockTimesOut, EnteringTimesOut, Expired
  <2>2. window'[m] \in {"resuming", "left"}
    BY <2>1, CloseWindowEffect
  <2> QED
    BY <1>5, <2>2 DEF EndBody, LockTimesOut, EnteringTimesOut, Expired, Release
<1>6. CASE Resumed(m)
  BY <1>6 DEF Resumed, Reopen, TypeOK
<1>7. CASE DrainExpires(m) /\ Others
  BY <1>7 DEF DrainExpires, TypeOK
<1>8. CASE WindowCancelled(m)
  <2>1. CASE window[m] \in {"barrier", "entering", "entered", "announcing", "locking"} \cup Body
    <3>1. CloseWindow(m) /\ Release(m)
      BY <1>8, <2>1 DEF WindowCancelled, Body
    <3> QED
      BY <1>8, <3>1, CloseWindowEffect DEF WindowCancelled, Release
  <2>2. CASE window[m] \notin {"barrier", "entering", "entered", "announcing", "locking"} \cup Body
    BY <1>8, <2>2 DEF WindowCancelled, DrainExpires, TypeOK
  <2> QED
    BY <2>1, <2>2
<1> QED
  BY <1>1, <1>2, <1>3, <1>4, <1>5, <1>6, <1>7, <1>8 DEF WindowStep, WindowOther, EnterTimesOut

LEMMA WindowEntrance ==
    ASSUME TypeOK, NEW m \in Workers, WindowStep(m) \/ WindowOther(m)
    PROVE  /\ window'[m] \in Inside =>
                 window[m] \in Inside \/ (window[m] = "barrier" /\ pollLock = "free")
           /\ window'[m] \in Alone =>
                 window[m] \in Alone \/ (window[m] = "drain" /\ waits \cap Running = {})
           /\ window'[m] = "drain" => waits' = Running \ {m}
           /\ window'[m] = "expired" => window[m] \in {"drain", "expired"} /\ waits' = waits
           /\ waits' = waits \/ (window'[m] = "drain" /\ window[m] \in Holding)
<1> USE DEF WindowMoves, WindowOnly, At, Inside, Alone, Body
<1>h. {"barrier", "entering", "entered", "announcing"} \subseteq Holding
  BY DEF Holding, WindowStates, Entry
<1>1. CASE OpenWindow(m) \/ TakeWindow(m) \/ Upgrade(m) \/ Drained(m)
  BY <1>1 DEF OpenWindow, TakeWindow, Upgrade, Drained, EnterBody, TypeOK
<1>2. CASE PassBarrier(m) \/ EnterFails(m) \/ Announced(m) \/ Entered(m)
  BY <1>2, <1>h DEF PassBarrier, BeginMaintenance, EnterFails, Announced, Entered,
     StartDraining, TypeOK
<1>3. CASE CommitMaintenance(m) \/ CommitResume(m)
  BY <1>3 DEF CommitMaintenance, CommitResume, TypeOK
<1>4. CASE GrantPollLock(m) \/ EndNested(m)
  BY <1>4 DEF GrantPollLock, EndNested, TypeOK
<1>5. CASE EndBody(m) \/ LockTimesOut(m) \/ EnteringTimesOut(m) \/ Expired(m)
  <2>1. CloseWindow(m) /\ waits' = waits
    BY <1>5 DEF EndBody, LockTimesOut, EnteringTimesOut, Expired
  <2> QED
    BY <2>1, CloseWindowEffect
<1>6. CASE Resumed(m)
  BY <1>6 DEF Resumed, Reopen, TypeOK
<1>7. CASE window[m] = "drain" /\ DrainExpires(m) /\ waits' = waits
  BY <1>7 DEF DrainExpires, TypeOK
<1>8. CASE WindowCancelled(m)
  <2>1. CASE window[m] \in {"barrier", "entering", "entered", "announcing", "locking"} \cup Body
    <3>1. CloseWindow(m) /\ waits' = waits
      BY <1>8, <2>1 DEF WindowCancelled
    <3> QED
      BY <3>1, CloseWindowEffect
  <2>2. CASE window[m] \notin {"barrier", "entering", "entered", "announcing", "locking"} \cup Body
    BY <1>8, <2>2 DEF WindowCancelled, DrainExpires, TypeOK
  <2> QED
    BY <2>1, <2>2
<1> QED
  BY <1>1, <1>2, <1>3, <1>4, <1>5, <1>6, <1>7, <1>8 DEF WindowStep, WindowOther, EnterTimesOut
------------------------------------------------------------------------------
LEMMA WindowStepInv ==
    ASSUME IInv, NEW m \in Workers, WindowStep(m) \/ WindowOther(m)
    PROVE  LockInv' /\ FlagInv' /\ DrainInv'
<1>1. TypeOK
  BY DEF IInv
<1>2. \A o \in Workers \ {m} : window'[o] = window[o]
  BY <1>1, WindowOwnership
<1>3. /\ UNCHANGED <<poller, claiming, handler, shutdown, registered, shuttingDown>>
      /\ \/ pollLock' = pollLock
         \/ pollLock = "free" /\ pollLock' = m
         \/ pollLock = m /\ pollLock' = "free"
      /\ window'[m] \in Locked => pollLock' = m
  BY <1>1, WindowPollLock
<1>f. \A o \in Workers : o \notin {"free", "poller", "shutdown"}
  BY ConstantsAssumption
<1>h. {"none", "lock", "left"} \cap Holding = {} /\ "barrier" \in Holding
  BY DEF Holding, WindowStates, Entry
<1>4. \A o \in Workers : window[o] \in Holding <=> windowLock = o
  BY DEF IInv, LockInv
<1>5. /\ window'[m] \in Holding <=> windowLock' = m
      /\ \A o \in Workers \ {m} : windowLock' = o <=> windowLock = o
  BY <1>1, <1>4, <1>f, <1>h, WindowOwnership DEF Kept, Leaves
<1>6. LockInv'
  <2>1. \A o \in Workers : window'[o] \in Holding <=> windowLock' = o
    BY <1>2, <1>4, <1>5
  <2>2. \A o \in Workers : window'[o] \in Locked => pollLock' = o
    BY <1>2, <1>3, <1>f DEF IInv, LockInv
  <2>3. poller' \in InRound <=> pollLock' = "poller"
    BY <1>3, <1>f DEF IInv, LockInv
  <2> QED
    BY <2>1, <2>2, <2>3 DEF LockInv
<1>7. FlagInv'
  <2>1. windowLock' # "free" => ~pause' \/ shutdown = "done"
    BY <1>1, <1>4, <1>f, <1>h, WindowOwnership DEF IInv, FlagInv, Kept, Leaves
  <2>2. shuttingDown => ~pause'
    BY <1>1, WindowOwnership DEF IInv, FlagInv, Kept, Leaves
  <2>3. active' => windowLock' # "free"
    <3>1. ActiveHasOwner
      BY DEF IInv, FlagInv
    <3> QED
      BY <1>1, <1>4, <1>f, <1>h, <3>1, WindowOwnership DEF ActiveHasOwner, Kept, Leaves
  <2> QED
    BY <1>3, <2>1, <2>2, <2>3 DEF IInv, FlagInv, ActiveHasOwner
<1>8. DrainInv'
  <2>1. /\ window'[m] \in Inside =>
             window[m] \in Inside \/ (window[m] = "barrier" /\ pollLock = "free")
        /\ window'[m] \in Alone =>
             window[m] \in Alone \/ (window[m] = "drain" /\ waits \cap Running = {})
        /\ window'[m] = "drain" => waits' = Running \ {m}
        /\ window'[m] = "expired" => window[m] \in {"drain", "expired"} /\ waits' = waits
        /\ waits' = waits \/ (window'[m] = "drain" /\ window[m] \in Holding)
    BY <1>1, WindowEntrance
  <2>2. Running' = Running /\ (ClaimsNow' <=> ClaimsNow)
    BY <1>3 DEF Running, ClaimsNow
  <2>3. pollLock = "free" => ~ClaimsNow
    BY DEF ClaimsNow, IInv, LockInv, InRound
  <2>4. window[m] \in Inside => ~ClaimsNow
    BY DEF IInv, DrainInv
  <2>5. /\ window[m] = "drain" => Running \subseteq waits \cup {m}
        /\ window[m] \in {"drain", "expired"} => m \notin waits
        /\ window[m] \in Alone => Running \subseteq {m}
    BY DEF IInv, DrainInv
  <2>6. /\ window'[m] \in Inside => ~ClaimsNow
        /\ window'[m] = "drain" => Running \subseteq waits' \cup {m}
        /\ window'[m] \in {"drain", "expired"} => m \notin waits'
        /\ window'[m] \in Alone => Running \subseteq {m}
    BY <2>1, <2>3, <2>4, <2>5
  <2>7. ASSUME NEW o \in Workers \ {m}
        PROVE  window'[o] \in {"drain", "expired"} => waits' = waits
    <3>1. "drain" \in Holding /\ "expired" \in Holding
      BY DEF Holding, WindowStates, Entry
    <3> QED
      BY <1>2, <1>4, <2>1, <3>1
  <2>8. ASSUME NEW o \in Workers \ {m}
        PROVE  /\ window'[o] \in Inside => ~ClaimsNow
               /\ window'[o] = "drain" => Running \subseteq waits' \cup {o}
               /\ window'[o] \in {"drain", "expired"} => o \notin waits'
               /\ window'[o] \in Alone => Running \subseteq {o}
    BY <1>2, <2>7 DEF IInv, DrainInv
  <2> QED
    BY <2>2, <2>6, <2>8 DEF DrainInv
<1> QED
  BY <1>6, <1>7, <1>8
------------------------------------------------------------------------------
LEMMA SpawnRunning ==
    ASSUME TypeOK, NEW S \in SUBSET New, Spawn(S)
    PROVE  claiming \/ Running' = Running
BY DEF Spawn, Running, TypeOK

LEMMA PollerStopsEffect ==
    ASSUME TypeOK, poller \in InRound <=> pollLock = "poller", PollerStops
    PROVE  /\ poller' \notin InRound /\ poller' \notin {"readying", "announcing", "idle"}
           /\ pollLock' # "poller" /\ (pollLock # "poller" => pollLock' = pollLock)
           /\ active' => active
           /\ poller \notin NoTask
BY DEF PollerStops, Release, TypeOK, Starting, InRound, Stopping, NoTask

(* The poller neither opens the entrance nor passes a window; its rounds     *)
(* claim only if they began while pause_event was set.                       *)
PollerKeeps ==
    /\ UNCHANGED <<windowVars, shutdown, pause, shuttingDown>>
    /\ active' => active
    /\ poller' \in InRound <=> pollLock' = "poller"
    /\ \A m \in Workers : pollLock = m => pollLock' = m
    /\ ClaimsNow' => ClaimsNow \/ pause
    /\ Running' \subseteq Running \/ ClaimsNow
    /\ poller \in NoTask => shutdown = "none"
    /\ poller' \in {"readying", "announcing", "idle"} \cup InRound => registered'

LEMMA PollerEffect ==
    ASSUME IInv, PollerStep \/ PollerFails \/ StopFails
    PROVE  PollerKeeps
<1> USE DEF PollerMoves, PollerKeeps, ClaimsNow, NoTask
<1>1. /\ TypeOK /\ (poller \in InRound <=> pollLock = "poller")
      /\ poller \in {"readying", "announcing", "idle"} \cup InRound => registered
      /\ \A m \in Workers : m \notin {"free", "poller"}
  BY ConstantsAssumption DEF IInv, LockInv, FlagInv
<1>2. CASE StartPoller \/ PeerReady \/ RenewMisses
  BY <1>1, <1>2 DEF StartPoller, PeerReady, RenewMisses, PollerOnly, Running, InRound
<1>3. CASE CommitStarting \/ CommitReady \/ StopDrains \/ StopUnregisters
  BY <1>1, <1>3 DEF CommitStarting, CommitReady, StopDrains, StopUnregisters,
     PollerCommits, Running, InRound
<1>4. CASE Registered
  BY <1>1, <1>4 DEF Registered, Running, InRound
<1>5. CASE BeginRound
  BY <1>1, <1>5 DEF BeginRound, StartRound, Running, InRound
<1>6. ASSUME NEW S \in SUBSET New, EndRound(S) \/ HeartbeatDue(S)
      PROVE  PollerKeeps
  <2>1. claiming \/ Running' = Running
    BY <1>1, <1>6, SpawnRunning DEF EndRound, HeartbeatDue
  <2>2. UNCHANGED <<windowVars, shutdown, pause, shuttingDown, active, registered>>
    BY <1>6 DEF EndRound, HeartbeatDue
  <2> QED
    BY <1>1, <1>6, <2>1, <2>2 DEF EndRound, HeartbeatDue, Release, InRound
<1>7. CASE Renew \/ RegisterAgain
  BY <1>1, <1>7 DEF Renew, RegisterAgain, LeaseRound, Release, Running, InRound
<1>8. CASE RollBack \/ PeerStopped \/ StopRetries
  BY <1>1, <1>8 DEF RollBack, PeerStopped, StopRetries, Ended, Running, InRound
<1>9. CASE PollerFails
  <2>1. PollerStops /\ UNCHANGED <<windowVars, shutdown, pause, shuttingDown, handler>>
    BY <1>9 DEF PollerFails
  <2>2. /\ poller' \notin InRound /\ poller' \notin {"readying", "announcing", "idle"}
        /\ pollLock' # "poller" /\ (pollLock # "poller" => pollLock' = pollLock)
        /\ active' => active
        /\ poller \notin NoTask
    BY <1>1, <2>1, PollerStopsEffect
  <2> QED
    BY <1>1, <2>1, <2>2 DEF Running, InRound
<1>10. CASE StopFails
  BY <1>1, <1>10 DEF StopFails, Running, InRound
<1> QED
  BY <1>2, <1>3, <1>4, <1>5, <1>6, <1>7, <1>8, <1>9, <1>10 DEF PollerStep

LEMMA PollerStepInv ==
    ASSUME IInv, PollerStep \/ PollerFails \/ StopFails
    PROVE  LockInv' /\ FlagInv' /\ DrainInv'
<1>1. PollerKeeps
  BY PollerEffect
<1>2. shutdown # "done"
  BY <1>1 DEF PollerKeeps, IInv, FlagInv
<1>3. LockInv'
  BY <1>1 DEF PollerKeeps, IInv, LockInv
<1>4. FlagInv'
  BY <1>1, <1>2 DEF PollerKeeps, IInv, FlagInv, ActiveHasOwner
<1>5. DrainInv'
  <2>1. \A m \in Workers : window[m] \in Inside => windowLock = m /\ windowLock # "free"
    <3>1. Inside \subseteq Holding
      BY DEF Inside, Holding, Alone, Body, WindowStates, Entry
    <3> QED
      BY <3>1, ConstantsAssumption DEF IInv, LockInv
  <2>2. \A m \in Workers : window[m] \in Inside => ~pause /\ ~ClaimsNow
    BY <1>2, <2>1 DEF IInv, FlagInv, DrainInv
  <2>3. Alone \cup {"drain"} \subseteq Inside
    BY DEF Inside
  <2> QED
    BY <1>1, <2>2, <2>3 DEF PollerKeeps, IInv, DrainInv
<1> QED
  BY <1>3, <1>4, <1>5

LEMMA HandlerStepInv ==
    ASSUME IInv, NEW h \in Handlers, HandlerEnds(h) \/ DeadlinePasses(h)
    PROVE  LockInv' /\ FlagInv' /\ DrainInv'
<1>1. UNCHANGED <<poller, claiming, windowVars, shutdown, pollLock, flags>>
  BY DEF HandlerEnds, DeadlinePasses
<1>2. Running' \subseteq Running
  BY DEF HandlerEnds, DeadlinePasses, Running, IInv, TypeOK
<1>3. LockInv' /\ FlagInv'
  BY <1>1 DEF IInv, LockInv, FlagInv, ActiveHasOwner
<1>4. DrainInv'
  BY <1>1, <1>2 DEF IInv, DrainInv, ClaimsNow
<1> QED
  BY <1>3, <1>4

(* The shutdown touches neither windows nor handlers.                        *)
LEMMA ShutdownEffect ==
    ASSUME IInv, BeginShutdown \/ ShutdownStep
    PROVE  /\ UNCHANGED <<claiming, handler, windowVars, registered>>
           /\ active' => active
           /\ poller' \in InRound <=> pollLock' = "poller"
           /\ \A m \in Workers : pollLock = m => pollLock' = m
           /\ ClaimsNow' => ClaimsNow
           /\ poller' \in {"readying", "announcing", "idle"} \cup InRound =>
                 poller' = poller
           /\ shuttingDown' <=> shutdown' \notin {"none", "done"}
           /\ \/ pause' = FALSE
              \/ shutdown # "none" /\ shutdown' # "done" /\ pause' = pause
              \/ shutdown' = "done" /\ poller' \in NoTask
<1> USE DEF ShutdownMoves, ClaimsNow
<1>1. /\ TypeOK /\ (poller \in InRound <=> pollLock = "poller")
      /\ shuttingDown <=> shutdown \notin {"none", "done"}
      /\ \A m \in Workers : m \notin {"free", "poller", "shutdown"}
  BY ConstantsAssumption DEF IInv, LockInv, FlagInv
<1>2. CASE BeginShutdown
  BY <1>1, <1>2 DEF BeginShutdown
<1>3. CASE ShutdownBarrier \/ ShutdownBarrierTimesOut \/ HandlersGone
  BY <1>1, <1>3 DEF ShutdownBarrier, ShutdownBarrierTimesOut, HandlersGone, ShutdownOnly
<1>4. CASE CommitDraining \/ CancelHandlers \/ LockForShutdown
  BY <1>1, <1>4 DEF CommitDraining, CancelHandlers, LockForShutdown
<1>5. CASE StopJobQueue
  <2>1. CASE PollerStops
    <3>1. /\ poller' \notin InRound /\ poller' \notin {"readying", "announcing", "idle"}
          /\ pollLock' # "poller" /\ (pollLock # "poller" => pollLock' = pollLock)
          /\ active' => active
      BY <1>1, <2>1, PollerStopsEffect
    <3> QED
      BY <1>1, <1>5, <3>1 DEF StopJobQueue, Cancel, InRound
  <2>2. CASE ~PollerStops
    BY <1>1, <1>5, <2>2 DEF StopJobQueue, Cancel, InRound
  <2> QED
    BY <2>1, <2>2
<1>6. CASE EndShutdown
  BY <1>1, <1>6 DEF EndShutdown, Release, NoTask, InRound
<1> QED
  BY <1>2, <1>3, <1>4, <1>5, <1>6 DEF ShutdownStep

LEMMA ShutdownStepInv ==
    ASSUME IInv, BeginShutdown \/ ShutdownStep
    PROVE  LockInv' /\ FlagInv' /\ DrainInv'
<1>1. LockInv'
  BY ShutdownEffect DEF IInv, LockInv
<1>2. FlagInv'
  <2>1. shutdown # "done"
    BY DEF BeginShutdown, ShutdownStep, ShutdownBarrier, ShutdownBarrierTimesOut, HandlersGone,
       ShutdownOnly, ShutdownMoves, CommitDraining, CancelHandlers, LockForShutdown,
       StopJobQueue, Cancel, EndShutdown
  <2>2. shuttingDown' => ~pause'
    BY ShutdownEffect, <2>1 DEF IInv, FlagInv
  <2>3. shutdown' = "done" => poller' \in NoTask
    BY ShutdownEffect DEF BeginShutdown, ShutdownStep, ShutdownBarrier, ShutdownBarrierTimesOut,
       HandlersGone, ShutdownOnly, ShutdownMoves, CommitDraining, CancelHandlers,
       LockForShutdown, StopJobQueue, Cancel, EndShutdown
  <2>4. windowLock' # "free" => ~pause' \/ shutdown' = "done"
    BY ShutdownEffect, <2>1 DEF IInv, FlagInv
  <2> QED
    BY ShutdownEffect, <2>2, <2>3, <2>4 DEF IInv, FlagInv, ActiveHasOwner
<1>3. DrainInv'
  BY ShutdownEffect DEF IInv, DrainInv, Running
<1> QED
  BY <1>1, <1>2, <1>3

LEMMA StepIInv ==
    ASSUME IInv, [Next]_vars
    PROVE  IInv'
<1>1. TypeOK'
  BY TypeStep DEF IInv
<1>2. CASE UNCHANGED vars
  <2>1. LockInv' /\ FlagInv' /\ DrainInv'
    BY <1>2 DEF vars, IInv, LockInv, FlagInv, ActiveHasOwner, DrainInv, ClaimsNow, Running
  <2> QED
    BY <1>1, <2>1 DEF IInv
<1>3. CASE Next
  <2>1. LockInv' /\ FlagInv' /\ DrainInv'
    BY <1>3, WindowStepInv, PollerStepInv, HandlerStepInv, ShutdownStepInv DEF Next
  <2> QED
    BY <1>1, <2>1 DEF IInv
<1> QED
  BY <1>2, <1>3

(* The inductive invariant: the locks, the flags and the drain.              *)
THEOREM Invariant == Spec => []IInv
BY InitIInv, StepIInv, PTL DEF Spec

(* While a body runs no other handler does, and the poller is not in a round *)
(* under an exclusive one.                                                   *)
THEOREM BodiesAlone == Spec => []BodyAlone
<1>1. IInv => BodyAlone
  <2>1. \A m \in Workers : m # "poller"
    BY ConstantsAssumption
  <2> QED
    BY <2>1 DEF IInv, LockInv, DrainInv, BodyAlone, Alone
<1> QED
  BY <1>1, Invariant, PTL

(* The flag that suspends heartbeats belongs to an open window.              *)
THEOREM ActiveOwned == Spec => []ActiveHasOwner
<1>1. IInv => ActiveHasOwner
  BY DEF IInv, FlagInv
<1> QED
  BY <1>1, Invariant, PTL
------------------------------------------------------------------------------
(* Where a shutdown is never kept waiting too long, once it has passed its   *)
(* barrier it has no round beside it that may claim, and once it has seen    *)
(* the handlers end there are none.                                          *)
Past == {"draining", "cancelling", "waiting", "locking", "stopping", "joining"}
StopInv == (shutdown \in Past => ~ClaimsNow) /\ QuietShutdown

LEMMA ShutdownStopInv ==
    ASSUME "stubborn" \notin Failures, IInv, StopInv, BeginShutdown \/ ShutdownStep
    PROVE  StopInv'
<1> USE DEF ShutdownMoves, Past
<1>1. UNCHANGED handler /\ (ClaimsNow' => ClaimsNow)
  BY ShutdownEffect
<1>2. Running' = Running
  BY <1>1 DEF Running
<1>3. shutdown' \in Past => ~ClaimsNow
  <2>1. CASE BeginShutdown
    BY <2>1 DEF BeginShutdown, IInv, FlagInv, ClaimsNow, InRound
  <2>2. CASE ShutdownBarrier
    BY <2>2 DEF ShutdownBarrier, IInv, LockInv, ClaimsNow, InRound
  <2>3. CASE ShutdownStep /\ ~ShutdownBarrier
    <3>1. shutdown \in Past
      BY <2>3 DEF ShutdownStep, ShutdownBarrierTimesOut, CommitDraining, CancelHandlers,
         HandlersGone, ShutdownOnly, LockForShutdown, StopJobQueue, Cancel, EndShutdown
    <3> QED
      BY <3>1 DEF StopInv
  <2> QED
    BY <2>1, <2>2, <2>3
<1>4. QuietShutdown'
  <2>1. CASE HandlersGone
    BY <1>2, <2>1 DEF HandlersGone, QuietShutdown
  <2>2. CASE ~HandlersGone
    <3>1. shutdown' \in {"locking", "stopping", "joining", "done"} =>
             shutdown \in {"locking", "stopping", "joining"}
      BY <2>2 DEF BeginShutdown, ShutdownStep, ShutdownBarrier, ShutdownBarrierTimesOut,
         CommitDraining, CancelHandlers, ShutdownOnly, LockForShutdown, StopJobQueue, Cancel, EndShutdown
    <3> QED
      BY <1>2, <3>1 DEF StopInv, QuietShutdown
  <2> QED
    BY <2>1, <2>2
<1> QED
  BY <1>1, <1>3, <1>4 DEF StopInv

LEMMA StepStopInv ==
    ASSUME "stubborn" \notin Failures, IInv, StopInv, [Next]_vars
    PROVE  StopInv'
<1>1. CASE UNCHANGED vars
  BY <1>1 DEF vars, StopInv, QuietShutdown, ClaimsNow, Running
<1>2. CASE PollerStep \/ PollerFails \/ StopFails
  <2>1. PollerKeeps
    BY <1>2, PollerEffect
  <2>2. shutdown # "done" /\ (shutdown \in Past => ~pause)
    BY <2>1 DEF PollerKeeps, IInv, FlagInv, Past
  <2>3. (shutdown \in Past => ~ClaimsNow) /\ QuietShutdown
    BY DEF StopInv
  <2>4. shutdown' \in Past => ~ClaimsNow'
    BY <2>1, <2>2, <2>3 DEF PollerKeeps
  <2>5. QuietShutdown'
    BY <2>1, <2>2, <2>3 DEF PollerKeeps, QuietShutdown, Past
  <2> QED
    BY <2>4, <2>5 DEF StopInv
<1>3. ASSUME NEW h \in Handlers, HandlerEnds(h) \/ DeadlinePasses(h)
      PROVE  StopInv'
  <2>1. UNCHANGED <<poller, claiming, shutdown>>
    BY <1>3 DEF HandlerEnds, DeadlinePasses
  <2>2. Running' \subseteq Running
    BY <1>3 DEF HandlerEnds, DeadlinePasses, Running, IInv, TypeOK
  <2> QED
    BY <2>1, <2>2 DEF StopInv, QuietShutdown, ClaimsNow
<1>4. ASSUME NEW m \in Workers, WindowStep(m) \/ WindowOther(m)
      PROVE  StopInv'
  <2>1. UNCHANGED <<poller, claiming, handler, shutdown>>
    BY <1>4, WindowPollLock DEF IInv
  <2> QED
    BY <2>1 DEF StopInv, QuietShutdown, ClaimsNow, Running
<1> QED
  BY <1>1, <1>2, <1>3, <1>4, ShutdownStopInv DEF Next

(* What a shutdown closes is used by no handler any more, unless waiting for *)
(* them was given up.                                                        *)
THEOREM ShutdownsQuiet ==
    ASSUME "stubborn" \notin Failures
    PROVE  Spec => []QuietShutdown
<1>1. Init => StopInv
  BY DEF Init, StopInv, QuietShutdown, Past
<1>2. IInv /\ StopInv /\ [Next]_vars => StopInv'
  BY StepStopInv
<1>3. StopInv => QuietShutdown
  BY DEF StopInv
<1> QED
  BY <1>1, <1>2, <1>3, Invariant, PTL DEF Spec
------------------------------------------------------------------------------
(* Without deadlines, a handler is cancelled while it holds the maintenance  *)
(* lock by the shutdown alone.                                               *)
CancelInv ==
    \A h \in Handlers :
       h \in cancelled /\ windowLock = h => shuttingDown \/ pause

LEMMA WindowCancels ==
    ASSUME TypeOK, NEW m \in Workers, WindowStep(m) \/ WindowOther(m)
    PROVE  \/ cancelled' \subseteq cancelled
           \/ window[m] = "drain" /\ cancelled' \subseteq cancelled \cup waits
<1>1. CASE OpenWindow(m) \/ TakeWindow(m) \/ PassBarrier(m) \/ CommitMaintenance(m)
  BY <1>1 DEF OpenWindow, WindowOnly, TakeWindow, PassBarrier, BeginMaintenance, CommitMaintenance
<1>2. CASE Entered(m) \/ EnterFails(m) \/ Announced(m) \/ Drained(m) \/ Upgrade(m)
  BY <1>2 DEF Entered, EnterFails, Announced, Drained, EnterBody, Upgrade, WindowOnly
<1>3. CASE GrantPollLock(m) \/ EndNested(m) \/ EndBody(m) \/ CommitResume(m) \/ Resumed(m)
  BY <1>3 DEF GrantPollLock, EndNested, EndBody, CommitResume, Resumed
<1>4. CASE LockTimesOut(m) \/ EnteringTimesOut(m) \/ Expired(m)
  BY <1>4 DEF LockTimesOut, EnteringTimesOut, Expired
<1>5. CASE At(m, {"drain"}) /\ DrainExpires(m)
  BY <1>5 DEF At, DrainExpires
<1>6. CASE WindowCancelled(m)
  BY <1>6 DEF WindowCancelled, DrainExpires, Delivered
<1> QED
  BY <1>1, <1>2, <1>3, <1>4, <1>5, <1>6 DEF WindowStep, WindowOther, EnterTimesOut

RestoreInv == CancelInv /\ ClaimingIsRestored

LEMMA StepRestoreInv ==
    ASSUME "deadline" \notin Failures, IInv, RestoreInv, [Next]_vars
    PROVE  RestoreInv'
<1> USE DEF RestoreInv, CancelInv, ClaimingIsRestored
<1>1. CASE UNCHANGED vars
  BY <1>1 DEF vars
<1>2. CASE PollerStep \/ PollerFails \/ StopFails
  <2>1. PollerKeeps /\ cancelled' = cancelled
    BY <1>2, PollerEffect DEF PollerStep, PollerFails, StopFails, StartPoller, PeerReady,
       RenewMisses, PollerOnly, CommitStarting, CommitReady, StopDrains, StopUnregisters,
       PollerCommits, Registered, BeginRound, StartRound, EndRound, HeartbeatDue, Spawn,
       Renew, RegisterAgain, LeaseRound, RollBack, PeerStopped, StopRetries
  <2> QED
    BY <2>1 DEF PollerKeeps
<1>3. ASSUME NEW h \in Handlers, HandlerEnds(h) \/ DeadlinePasses(h)
      PROVE  RestoreInv'
  BY <1>3 DEF HandlerEnds, DeadlinePasses
<1>4. ASSUME NEW m \in Workers, WindowStep(m) \/ WindowOther(m)
      PROVE  RestoreInv'
  <2>1. TypeOK /\ shuttingDown' = shuttingDown
    BY <1>4, WindowPollLock DEF IInv
  <2>2. \A o \in Workers : window[o] \in Holding <=> windowLock = o
    BY DEF IInv, LockInv
  <2>3. /\ "drain" \in Holding /\ {"none", "lock", "left"} \cap Holding = {}
        /\ \A o \in Workers : o # "free"
    BY ConstantsAssumption DEF Holding, WindowStates, Entry
  <2>4. /\ window[m] = "drain" => m \notin waits
        /\ \/ cancelled' \subseteq cancelled
           \/ window[m] = "drain" /\ cancelled' \subseteq cancelled \cup waits
    BY <1>4, <2>1, WindowCancels DEF IInv, DrainInv
  <2>5. CASE window[m] \in {"none", "lock"} /\ UNCHANGED <<windowLock, pause>>
    BY <2>1, <2>3, <2>4, <2>5
  <2>6. CASE /\ window[m] = "lock" /\ m \notin cancelled
             /\ windowLock' = m /\ pause' = FALSE
    BY <2>1, <2>3, <2>4, <2>6
  <2>7. CASE window[m] \in Holding /\ Kept(m)
    <3>1. windowLock = m
      BY <2>2, <2>7
    <3>2. m \in cancelled' => m \in cancelled
      BY <2>4
    <3> QED
      BY <2>1, <2>7, <3>1, <3>2 DEF Kept
  <2>8. CASE window[m] \in Holding /\ Leaves(m)
    <3>1. windowLock = m /\ m # "free"
      BY <2>2, <2>3, <2>8
    <3>2. ~pause' => shuttingDown
      <4>1. m \in Handlers \/ m \notin cancelled
        BY <2>1 DEF TypeOK
      <4>2. pause \in BOOLEAN /\ shuttingDown \in BOOLEAN
        BY <2>1 DEF TypeOK
      <4>3. CASE pause' = (pause \/ ~shuttingDown)
        BY <4>2, <4>3
      <4>4. CASE m \in cancelled /\ pause' = pause
        <5>1. shuttingDown \/ pause
          BY <3>1, <4>1, <4>4 DEF RestoreInv, CancelInv
        <5> QED
          BY <4>4, <5>1
      <4> QED
        BY <2>8, <4>3, <4>4 DEF Leaves
    <3>3. \A h \in Handlers : windowLock' # h
      BY <2>3, <2>8 DEF Leaves, Workers
    <3> QED
      BY <2>1, <3>2, <3>3
  <2> QED
    BY <1>4, <2>1, <2>5, <2>6, <2>7, <2>8, WindowOwnership
<1>5. CASE BeginShutdown \/ ShutdownStep
  BY <1>5 DEF BeginShutdown, ShutdownStep, ShutdownBarrier, ShutdownBarrierTimesOut,
     HandlersGone, ShutdownOnly, ShutdownMoves, CommitDraining, CancelHandlers,
     LockForShutdown, StopJobQueue, Cancel, EndShutdown, IInv, FlagInv
<1> QED
  BY <1>1, <1>2, <1>3, <1>4, <1>5 DEF Next

(* Without deadlines, requests are refused only while a window is open or    *)
(* the peer shuts down.                                                      *)
THEOREM ClaimingRestored ==
    ASSUME "deadline" \notin Failures
    PROVE  Spec => []ClaimingIsRestored
<1>1. Init => RestoreInv
  BY DEF Init, RestoreInv, CancelInv, ClaimingIsRestored
<1>2. IInv /\ RestoreInv /\ [Next]_vars => RestoreInv'
  BY StepRestoreInv
<1>3. RestoreInv => ClaimingIsRestored
  BY DEF RestoreInv
<1> QED
  BY <1>1, <1>2, <1>3, Invariant, PTL DEF Spec
------------------------------------------------------------------------------
(* No renewal of the lease is under way when a shutdown is about to say      *)
(* draining in the row, nor while the row says so; and before a shutdown it  *)
(* says so only while the poller itself goes down or has not registered      *)
(* again.                                                                    *)
Serving == {"registered", "readying", "announcing", "idle"} \cup InRound
LeaseLate == {"renewing", "missing"}

AdvertInv ==
    /\ shutdown = "draining" => poller \notin LeaseLate
    /\ reg = "draining" => poller \notin LeaseLate
    /\ reg = "draining" /\ shutdown = "none" => poller \notin Serving

LEMMA WindowAdverts ==
    ASSUME TypeOK, NEW m \in Workers, WindowStep(m) \/ WindowOther(m)
    PROVE  \/ reg' = reg
           \/ window[m] = "entering" /\ reg' = "maintenance"
           \/ window[m] = "resuming" /\ window'[m] = "resumed" /\ reg' = "ready"
<1>1. CASE OpenWindow(m) \/ TakeWindow(m) \/ PassBarrier(m) \/ Upgrade(m) \/ Drained(m)
  BY <1>1 DEF OpenWindow, WindowOnly, TakeWindow, PassBarrier, BeginMaintenance, Upgrade,
     Drained, EnterBody
<1>2. CASE CommitMaintenance(m) \/ CommitResume(m)
  BY <1>2 DEF CommitMaintenance, CommitResume, WindowMoves, TypeOK
<1>3. CASE Entered(m) \/ EnterFails(m) \/ Announced(m) \/ GrantPollLock(m) \/ EndNested(m)
  BY <1>3 DEF Entered, EnterFails, Announced, GrantPollLock, EndNested
<1>4. CASE EndBody(m) \/ Resumed(m) \/ LockTimesOut(m) \/ EnterTimesOut(m) \/ Expired(m)
  BY <1>4 DEF EndBody, Resumed, LockTimesOut, EnterTimesOut, EnteringTimesOut, Expired
<1>5. CASE WindowCancelled(m)
  BY <1>5 DEF WindowCancelled
<1> QED
  BY <1>1, <1>2, <1>3, <1>4, <1>5 DEF WindowStep, WindowOther

LEMMA PollerAdverts ==
    ASSUME IInv, AdvertInv, PollerStep \/ PollerFails \/ StopFails
    PROVE  AdvertInv' /\ OnlyInFlightReadvertises
<1> USE DEF PollerMoves, AdvertInv, OnlyInFlightReadvertises, Serving, LeaseLate,
            Starting, InRound
<1>1. /\ UNCHANGED <<shutdown, shuttingDown>> /\ shutdown # "done"
      /\ shuttingDown <=> shutdown \notin {"none", "done"}
  BY PollerEffect DEF PollerKeeps, IInv, FlagInv
<1>2. CASE StartPoller \/ PeerReady \/ RenewMisses
  BY <1>1, <1>2 DEF StartPoller, PeerReady, RenewMisses, PollerOnly
<1>3. CASE CommitStarting \/ CommitReady \/ StopDrains \/ StopUnregisters
  BY <1>1, <1>3 DEF CommitStarting, CommitReady, StopDrains, StopUnregisters, PollerCommits
<1>4. CASE Registered \/ BeginRound
  BY <1>1, <1>4 DEF Registered, BeginRound, StartRound
<1>5. ASSUME NEW S \in SUBSET New, EndRound(S) \/ HeartbeatDue(S)
      PROVE  AdvertInv' /\ OnlyInFlightReadvertises
  BY <1>1, <1>5 DEF EndRound, HeartbeatDue
<1>6. CASE Renew \/ RegisterAgain
  BY <1>1, <1>6 DEF Renew, RegisterAgain, LeaseRound
<1>7. CASE RollBack \/ PeerStopped \/ StopRetries \/ StopFails
  BY <1>1, <1>7 DEF RollBack, PeerStopped, StopRetries, StopFails, Ended
<1>8. CASE PollerFails
  BY <1>1, <1>8 DEF PollerFails, PollerStops, Stopping
<1> QED
  BY <1>2, <1>3, <1>4, <1>5, <1>6, <1>7, <1>8 DEF PollerStep

LEMMA ShutdownAdverts ==
    ASSUME IInv, AdvertInv, BeginShutdown \/ ShutdownStep
    PROVE  AdvertInv' /\ OnlyInFlightReadvertises
<1> USE DEF ShutdownMoves, AdvertInv, OnlyInFlightReadvertises, Serving, LeaseLate,
            Starting, InRound
<1>1. CASE BeginShutdown
  BY <1>1 DEF BeginShutdown
<1>2. CASE ShutdownBarrier
  BY <1>2 DEF ShutdownBarrier, ShutdownOnly, IInv, LockInv
<1>3. CASE ShutdownBarrierTimesOut \/ HandlersGone
  BY <1>3 DEF ShutdownBarrierTimesOut, HandlersGone, ShutdownOnly
<1>4. CASE CommitDraining \/ CancelHandlers \/ LockForShutdown \/ EndShutdown
  BY <1>4 DEF CommitDraining, CancelHandlers, LockForShutdown, EndShutdown
<1>5. CASE StopJobQueue
  BY <1>5 DEF StopJobQueue, Cancel, PollerStops, Stopping
<1> QED
  BY <1>1, <1>2, <1>3, <1>4, <1>5 DEF ShutdownStep

LEMMA StepAdverts ==
    ASSUME IInv, AdvertInv, [Next]_vars
    PROVE  AdvertInv' /\ OnlyInFlightReadvertises
<1> USE DEF AdvertInv, OnlyInFlightReadvertises
<1>1. CASE UNCHANGED vars
  BY <1>1 DEF vars
<1>2. ASSUME NEW h \in Handlers, HandlerEnds(h) \/ DeadlinePasses(h)
      PROVE  AdvertInv' /\ OnlyInFlightReadvertises
  BY <1>2 DEF HandlerEnds, DeadlinePasses
<1>3. ASSUME NEW m \in Workers, WindowStep(m) \/ WindowOther(m)
      PROVE  AdvertInv' /\ OnlyInFlightReadvertises
  <2>1. UNCHANGED <<poller, shutdown>>
    BY <1>3, WindowPollLock DEF IInv
  <2>2. \/ reg' = reg \/ reg' = "maintenance"
        \/ window[m] = "resuming" /\ window'[m] = "resumed" /\ reg' = "ready"
    BY <1>3, WindowAdverts DEF IInv
  <2> QED
    BY <2>1, <2>2
<1> QED
  BY <1>1, <1>2, <1>3, PollerAdverts, ShutdownAdverts DEF Next

(* Once a peer that shuts down says draining, only what was in flight when   *)
(* the shutdown began makes it say ready again: a window on its way out, or  *)
(* its own start.                                                            *)
THEOREM DrainingStands == Spec => DrainingStandsButForInFlight
<1>1. Init => AdvertInv
  BY DEF Init, AdvertInv, Starting, LeaseLate, Serving, InRound
<1>2. IInv /\ AdvertInv /\ [Next]_vars => AdvertInv'
  BY StepAdverts
<1>3. IInv /\ AdvertInv /\ [Next]_vars => [OnlyInFlightReadvertises]_vars
  BY StepAdverts
<1> QED
  BY <1>1, <1>2, <1>3, Invariant, PTL DEF Spec, DrainingStandsButForInFlight
==============================================================================
