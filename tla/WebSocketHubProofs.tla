-------------------------- MODULE WebSocketHubProofs --------------------------
(* Proofs about WebSocketHub, for every set of requests, callers and        *)
(* servers, every size of the queues and every number of failures.          *)
EXTENDS WebSocketHub, TLAPS

Frame == Results \cup Terminal \cup {None}

LEMMA OnlyType ==
    ASSUME NEW T, NEW f \in Frame
    PROVE  Only(T, f) \in [Tasks -> Frame]
BY DEF Only, Frame

LEMMA EnqueuedType ==
    ASSUME TypeOK, NEW frame \in [Tasks -> Frame], NEW lost
    PROVE  Enqueued(frame, lost) \in [Tasks -> Seq(Results \cup Terminal)]
<1> SUFFICES ASSUME NEW t \in Tasks, frame[t] # None
             PROVE  Append(down[t], frame[t]) \in Seq(Results \cup Terminal)
  BY DEF Enqueued, TypeOK
<1>1. frame[t] \in Results \cup Terminal
  BY DEF Frame
<1>2. down[t] \in Seq(Results \cup Terminal)
  BY DEF TypeOK
<1> QED
  BY <1>1, <1>2

LEMMA OverloadedType ==
    ASSUME TypeOK, NEW lost
    PROVE  Overloaded(lost) \in [Peers -> {None, "open", "closing"}]
BY DEF Overloaded, TypeOK

LEMMA CountedType ==
    ASSUME TypeOK, NEW frame, NEW lost \in Losses(frame)
    PROVE  Counted(lost) \in 0 .. MaxFaults
BY ConstantsAssumption DEF Counted, Losses, TypeOK

LEMMA EnqueueType ==
    ASSUME TypeOK, NEW frame \in [Tasks -> Frame], Enqueue(frame)
    PROVE  /\ down' \in [Tasks -> Seq(Results \cup Terminal)]
           /\ conn' \in [Peers -> {None, "open", "closing"}]
           /\ faults' \in 0 .. MaxFaults
BY EnqueuedType, OverloadedType, CountedType DEF Enqueue

LEMMA FaultType ==
    ASSUME TypeOK, NEW kind, Fault(kind)
    PROVE  faults' \in 0 .. MaxFaults
BY ConstantsAssumption DEF Fault, TypeOK

LEMMA TailType ==
    ASSUME NEW S, NEW q \in Seq(S), q # << >>
    PROVE  Head(q) \in S /\ Tail(q) \in Seq(S)
OBVIOUS

LEMMA TypeInit == Init => TypeOK
BY ConstantsAssumption DEF Init, TypeOK, JobStates, Terminal, Results, Pending, None
-----------------------------------------------------------------------------
LEMMA CommandType ==
    ASSUME TypeOK, NEW t \in Tasks, NEW op, NEW result \in Results,
           HandleCommand(t, op, result)
    PROVE  /\ up' \in [Tasks -> Seq({"send", "abandon"})]
           /\ due' \in [Tasks -> Results \cup {None}]
           /\ down' \in [Tasks -> Seq(Results \cup Terminal)]
           /\ conn' \in [Peers -> {None, "open", "closing"}]
           /\ faults' \in 0 .. MaxFaults
           /\ UNCHANGED <<state, back, link, callerVars, execution, expired>>
<1>1. Only(Expiring \cap Calls, "timeout") \in [Tasks -> Frame]
  BY OnlyType DEF Frame, Terminal
<1>2. Tail(up[t]) \in Seq({"send", "abandon"})
  BY TailType DEF TypeOK, HandleCommand
<1> QED
  BY <1>1, <1>2, EnqueueType DEF HandleCommand, TypeOK

LEMMA HubStepType ==
    ASSUME TypeOK, NEW t \in Tasks, HubStep(t)
    PROVE  TypeOK'
<1> USE DEF callerVars, jobVars, frames, hubVars
<1>1. ASSUME NEW s \in Servers, HubAccepts(t, s)
      PROVE  TypeOK'
  <2>1. "accepted" \in Results /\ "queued" \in JobStates
    BY DEF Results, JobStates
  <2> QED
    BY <1>1, <2>1, CommandType DEF HubAccepts, TypeOK, Expiring
<1>2. CASE HubRejects(t)
  <2>1. "rejected" \in Results
    BY DEF Results
  <2> QED
    BY <1>2, <2>1, CommandType DEF HubRejects, TypeOK
<1>3. CASE HubAbandons(t)
  <2>1. "abandoned" \in Results
    BY DEF Results
  <2> QED
    BY <1>3, <2>1, CommandType DEF HubAbandons, TypeOK
<1>4. CASE HubReplies(t)
  <2>1. Only({t}, due[t]) \in [Tasks -> Frame]
    BY OnlyType DEF Frame, TypeOK
  <2> QED
    BY <1>4, <2>1, EnqueueType DEF HubReplies, TypeOK
<1>5. CASE HubResponds(t)
  <2>1. Only({t} \cap delivery \cap Calls, back[t]) \in [Tasks -> Frame]
    BY OnlyType DEF Frame, TypeOK
  <2> QED
    BY <1>5, <2>1, EnqueueType DEF HubResponds, TypeOK
<1> QED
  BY <1>1, <1>2, <1>3, <1>4, <1>5 DEF HubStep
-----------------------------------------------------------------------------
LEMMA StatesType ==
    ASSUME TypeOK, NEW s \in Servers, NEW x \in {"ready", "away", "stopped"}
    PROVE  [state EXCEPT ![s] = x] \in [Servers -> {"ready", "away", "stopped"}]
BY DEF TypeOK

LEMMA ServerOtherType ==
    ASSUME TypeOK, NEW s \in Servers, ServerOther(s)
    PROVE  TypeOK'
<1> USE DEF callerVars, jobVars, frames, hubVars, PeerFrame
<1>1. Only(Expiring \cap Calls, "timeout") \in [Tasks -> Frame]
  BY OnlyType DEF Frame, Terminal
<1>2. CASE Register(s)
  BY <1>1, <1>2, EnqueueType, StatesType DEF Register, Declare, TypeOK
<1>3. CASE Leave(s)
  BY <1>1, <1>3, EnqueueType, StatesType DEF Leave, Declare, TypeOK
<1>4. CASE Unregister(s)
  <2>1. [t \in Tasks |-> IF t \in Expiring \cap Calls THEN "timeout"
                        ELSE IF t \in FailTarget(s) \cap Calls THEN "failed" ELSE None]
        \in [Tasks -> Frame]
    BY DEF Frame, Terminal
  <2> QED
    BY <1>4, <2>1, EnqueueType, StatesType DEF Unregister, Declare, TypeOK
<1>5. CASE LeaseRunsOut(s)
  <2> DEFINE frame == [t \in Tasks |-> IF t \in FailTarget(s) \cap Calls THEN "failed"
                                      ELSE IF t \in Expiring \cap Calls THEN "timeout" ELSE None]
  <2>1. frame \in [Tasks -> Frame]
    BY DEF Frame, Terminal
  <2> HIDE DEF frame
  <2>2. PICK lost \in Losses(frame) : down' = Enqueued(frame, lost) /\ conn' = Overloaded(lost)
    BY <1>5 DEF LeaseRunsOut, frame
  <2>3. faults' \in 0 .. MaxFaults
    BY <1>5, ConstantsAssumption DEF LeaseRunsOut, TypeOK
  <2>4. /\ state' = [state EXCEPT ![s] = "stopped"]
        /\ delivery' = delivery \ (Expiring \cup FailTarget(s))
        /\ UNCHANGED <<server, due, up, back, link, callerVars, jobVars, expired>>
    BY <1>5 DEF LeaseRunsOut
  <2> QED
    BY <2>1, <2>2, <2>3, <2>4, EnqueuedType, OverloadedType, StatesType DEF TypeOK
<1>6. CASE Crash(s)
  <2>1. faults' \in 0 .. MaxFaults
    BY <1>6, FaultType DEF Crash
  <2> QED
    BY <1>6, <2>1 DEF Crash, TypeOK, JobStates, Peers
<1> QED
  BY <1>2, <1>3, <1>4, <1>5, <1>6 DEF ServerOther

LEMMA LossType ==
    ASSUME TypeOK, NEW P, LoseFrames(P)
    PROVE  /\ up' \in [Tasks -> Seq({"send", "abandon"})]
           /\ due' \in [Tasks -> Results \cup {None}]
           /\ back' \in [Tasks -> Terminal \cup {None}]
           /\ job' \in [Tasks -> JobStates]
BY DEF LoseFrames, TypeOK, JobStates

LEMMA PeerStepType ==
    ASSUME TypeOK, NEW p \in Peers, PeerStep(p) \/ LinkBreaks(p)
    PROVE  TypeOK'
<1> USE DEF callerVars, jobVars, frames, hubVars
<1>1. CASE Connect(p)
  BY <1>1 DEF Connect, ConnectAgain, Drop, TypeOK
<1>2. CASE Disconnect(p)
  <2> DEFINE frame == Only((FailTarget(p) \cap Calls) \ Issued(p), "failed")
  <2>1. frame \in [Tasks -> Frame]
    BY OnlyType DEF Frame, Terminal
  <2> HIDE DEF frame
  <2>2. PICK lost \in Losses(frame) :
          /\ down' = Drop(Issued(p), << >>, Enqueued(frame, lost))
          /\ conn' = [Overloaded(lost) EXCEPT ![p] = None]
          /\ faults' = Counted(lost)
    BY <1>2 DEF Disconnect, frame
  <2>3. down' \in [Tasks -> Seq(Results \cup Terminal)]
    BY <2>1, <2>2, EnqueuedType DEF Drop
  <2>4. conn' \in [Peers -> {None, "open", "closing"}]
    BY <2>2, OverloadedType
  <2>5. faults' \in 0 .. MaxFaults
    BY <2>2, CountedType
  <2>6. /\ LoseFrames({p})
        /\ state' = [s \in Servers |-> IF s = p THEN "stopped" ELSE state[s]]
        /\ delivery' = delivery \ (FailTarget(p) \cup Issued(p))
        /\ UNCHANGED <<server, link, callerVars, execution, expired>>
    BY <1>2 DEF Disconnect
  <2> QED
    BY <2>3, <2>4, <2>5, <2>6, LossType DEF TypeOK
<1>3. CASE LinkEnds(p)
  BY <1>3 DEF LinkEnds, LinkLost, TypeOK
<1>4. CASE PollerStops(p)
  BY <1>4 DEF PollerStops, TypeOK, JobStates
<1>5. CASE LinkBreaks(p)
  BY <1>5, FaultType DEF LinkBreaks, LinkLost, TypeOK
<1> QED
  BY <1>1, <1>2, <1>3, <1>4, <1>5 DEF PeerStep

LEMMA ServerStepType ==
    ASSUME TypeOK, NEW t \in Tasks, ServerStep(t)
    PROVE  TypeOK'
<1> USE DEF callerVars, jobVars, hubVars, JobFrame, JobMoves
<1>1. CASE Deliver(t)
  <2>1. \/ JobMoves(t, "queued", "incoming") /\ UNCHANGED link
        \/ JobMoves(t, "queued", "lost") /\ link' = [link EXCEPT ![server[t]] = "broken"]
    BY <1>1 DEF Deliver
  <2>2. job' \in [Tasks -> JobStates]
    <3>1. \E x \in JobStates : job' = [job EXCEPT ![t] = x]
      BY <2>1 DEF JobStates
    <3> QED
      BY <3>1 DEF TypeOK
  <2>3. link' \in [Peers -> {"down", "up", "broken", "dead"}]
    BY <2>1 DEF TypeOK
  <2>4. UNCHANGED <<back, execution>> /\ JobFrame
    BY <1>1 DEF Deliver
  <2> QED
    BY <2>2, <2>3, <2>4 DEF TypeOK
<1>2. CASE Spawn(t)
  BY <1>2 DEF Spawn, TypeOK, JobStates
<1>3. CASE StartHandler(t)
  <2>1. \/ JobMoves(t, "spawned", "timedout") /\ UNCHANGED execution
        \/ /\ JobMoves(t, "spawned", "running")
           /\ execution' = [execution EXCEPT ![t] = "begun"]
    BY <1>3 DEF StartHandler
  <2>2. job' \in [Tasks -> JobStates]
    <3>1. \E x \in JobStates : job' = [job EXCEPT ![t] = x]
      BY <2>1 DEF JobStates, Ended
    <3> QED
      BY <3>1 DEF TypeOK
  <2>3. execution' \in [Tasks -> {None, "begun", "returned"}]
    <3>1. execution' = execution \/ execution' = [execution EXCEPT ![t] = "begun"]
      BY <2>1
    <3>2. execution \in [Tasks -> {None, "begun", "returned"}]
      BY DEF TypeOK
    <3> QED
      BY <3>1, <3>2
  <2>4. UNCHANGED <<back, link>> /\ JobFrame
    BY <1>3 DEF StartHandler
  <2> QED
    BY <2>2, <2>3, <2>4 DEF TypeOK
<1>4. CASE HandlerReturns(t)
  BY <1>4 DEF HandlerReturns, TypeOK, JobStates, Ended
<1>5. CASE HandlerFails(t)
  <2>1. PICK outcome \in {"raised", "timedout"} : job' = [job EXCEPT ![t] = outcome]
    BY <1>5 DEF HandlerFails
  <2>2. outcome \in JobStates
    BY DEF JobStates, Ended
  <2> QED
    BY <1>5, <2>1, <2>2 DEF HandlerFails, TypeOK
<1>6. CASE Respond(t)
  <2>1. StatusOf(job[t]) \subseteq Terminal
    BY DEF StatusOf, Terminal
  <2>2. \/ \E status \in StatusOf(job[t]) : back' = [back EXCEPT ![t] = status]
        \/ UNCHANGED back
    BY <1>6 DEF Respond
  <2>3. back' \in [Tasks -> Terminal \cup {None}]
    BY <2>1, <2>2 DEF TypeOK
  <2>4. job' \in [Tasks -> JobStates]
    BY <1>6 DEF Respond, TypeOK, JobStates
  <2> QED
    BY <1>6, <2>3, <2>4 DEF Respond, TypeOK
<1> QED
  BY <1>1, <1>2, <1>3, <1>4, <1>5, <1>6 DEF ServerStep
-----------------------------------------------------------------------------
LEMMA GaveUp ==
    ASSUME TypeOK, NEW t \in Tasks, NEW from, NEW a, GiveUp(t, from, a)
    PROVE  /\ up' = up \/ up' = [up EXCEPT ![t] = Append(up[t], "abandon")]
           /\ held' = held \/ held' = [held EXCEPT ![t] = None]
           /\ cleanup' = cleanup \/ cleanup' = [cleanup EXCEPT ![t] = "sent"]
<1>1. CASE t \in Calls /\ link[Source[t]] = "up"
  <2>1. Write(t, "abandon") /\ cleanup' = [cleanup EXCEPT ![t] = "sent"] /\ UNCHANGED held
    BY <1>1 DEF GiveUp
  <2> QED
    BY <2>1 DEF Write
<1>2. CASE ~(t \in Calls /\ link[Source[t]] = "up")
  BY <1>2 DEF GiveUp
<1> QED
  BY <1>1, <1>2

LEMMA GaveUpType ==
    ASSUME TypeOK, NEW t \in Tasks, NEW from, NEW a, GiveUp(t, from, a)
    PROVE  /\ up' \in [Tasks -> Seq({"send", "abandon"})]
           /\ held' \in [Tasks -> Terminal \cup {None}]
           /\ cleanup' \in [Tasks -> {None, "sent", "done", "unanswered"}]
<1>1. [up EXCEPT ![t] = Append(up[t], "abandon")] \in [Tasks -> Seq({"send", "abandon"})]
  <2>1. up[t] \in Seq({"send", "abandon"})
    BY DEF TypeOK
  <2>2. Append(up[t], "abandon") \in Seq({"send", "abandon"})
    BY <2>1
  <2> QED
    BY <2>2 DEF TypeOK
<1>2. [held EXCEPT ![t] = None] \in [Tasks -> Terminal \cup {None}]
  BY DEF TypeOK
<1>3. [cleanup EXCEPT ![t] = "sent"] \in [Tasks -> {None, "sent", "done", "unanswered"}]
  BY DEF TypeOK
<1>4. /\ up \in [Tasks -> Seq({"send", "abandon"})]
      /\ held \in [Tasks -> Terminal \cup {None}]
      /\ cleanup \in [Tasks -> {None, "sent", "done", "unanswered"}]
  BY DEF TypeOK
<1> QED
  BY <1>1, <1>2, <1>3, <1>4, GaveUp

LEMMA GiveUpType ==
    ASSUME TypeOK, NEW t \in Tasks, NEW from, NEW a \in {"error", "timeout", "unknown"},
           GiveUp(t, from, a), UNCHANGED down, faults' \in 0 .. MaxFaults
    PROVE  TypeOK'
<1>1. /\ up' \in [Tasks -> Seq({"send", "abandon"})]
      /\ held' \in [Tasks -> Terminal \cup {None}]
      /\ cleanup' \in [Tasks -> {None, "sent", "done", "unanswered"}]
  BY GaveUpType
<1>2. phase' \in [Tasks -> {"idle", "closed"} \cup Pending]
  BY DEF GiveUp, Moves, TypeOK
<1>3. answer' \in [Tasks -> {None, "value", "accepted", "error", "timeout", "unknown"}]
  BY DEF GiveUp, Tells, TypeOK
<1> QED
  BY <1>1, <1>2, <1>3
     DEF GiveUp, CallerFrame, TypeOK, hubVars, jobVars

LEMMA ReadsType ==
    ASSUME TypeOK, NEW t \in Tasks, NEW some, Reads(t, some)
    PROVE  /\ down' \in [Tasks -> Seq(Results \cup Terminal)]
           /\ Head(down[t]) \in Results \cup Terminal
           /\ UNCHANGED faults
BY TailType DEF Reads, TypeOK

LEMMA AbandonEndsType ==
    ASSUME TypeOK, NEW t \in Tasks, NEW how \in {"done", "unanswered"},
           AbandonEnds(t, how), down' \in [Tasks -> Seq(Results \cup Terminal)],
           faults' \in 0 .. MaxFaults
    PROVE  TypeOK'
BY DEF AbandonEnds, CallerFrame, TypeOK, hubVars, jobVars

LEMMA ClientStepType ==
    ASSUME TypeOK, NEW t \in Tasks,
           \/ ClientStep(t) \/ Send(t) \/ SendTimesOut(t)
           \/ AbandonTimesOut(t) \/ CallCancelled(t)
    PROVE  TypeOK'
<1> USE DEF callerVars, hubVars, jobVars, CallerFrame
<1>1. CASE ReadAccepted(t)
  <2>1. down' \in [Tasks -> Seq(Results \cup Terminal)] /\ UNCHANGED faults
    BY <1>1, ReadsType DEF ReadAccepted
  <2>2. \/ UNCHANGED <<phase, answer>>
        \/ Moves(t, {"sending"}, "waiting") /\ UNCHANGED answer
        \/ Moves(t, {"sending"}, "closed") /\ Tells(t, "accepted")
    BY <1>1 DEF ReadAccepted
  <2>3. phase' \in [Tasks -> {"idle", "closed"} \cup Pending]
    <3>1. \/ UNCHANGED phase
          \/ \E x \in {"closed"} \cup Pending : phase' = [phase EXCEPT ![t] = x]
      BY <2>2 DEF Moves, Pending
    <3> QED
      BY <3>1 DEF TypeOK
  <2>4. answer' \in [Tasks -> {None, "value", "accepted", "error", "timeout", "unknown"}]
    BY <2>2 DEF Tells, TypeOK
  <2> QED
    BY <1>1, <2>1, <2>3, <2>4 DEF ReadAccepted, TypeOK
<1>2. CASE ReadRejected(t)
  <2>1. down' \in [Tasks -> Seq(Results \cup Terminal)] /\ UNCHANGED faults
    BY <1>2, ReadsType DEF ReadRejected
  <2>2. CASE UNCHANGED <<up, callerVars>> /\ CallerFrame
    BY <2>1, <2>2 DEF TypeOK
  <2>3. CASE GiveUp(t, {"sending"}, "error")
    <3>1. /\ up' \in [Tasks -> Seq({"send", "abandon"})]
          /\ held' \in [Tasks -> Terminal \cup {None}]
          /\ cleanup' \in [Tasks -> {None, "sent", "done", "unanswered"}]
      BY <2>3, GaveUpType
    <3> QED
      BY <2>1, <2>3, <3>1 DEF GiveUp, Moves, Tells, TypeOK
  <2> QED
    BY <1>2, <2>2, <2>3 DEF ReadRejected
<1>3. CASE ReadResponse(t)
  <2>1. down' \in [Tasks -> Seq(Results \cup Terminal)] /\ UNCHANGED faults
    BY <1>3, ReadsType DEF ReadResponse
  <2>2. Head(down[t]) \in Terminal
    BY <1>3 DEF ReadResponse, Reads
  <2> QED
    BY <1>3, <2>1, <2>2 DEF ReadResponse, TypeOK
<1>4. CASE ReadAbandoned(t)
  <2>1. down' \in [Tasks -> Seq(Results \cup Terminal)] /\ faults' \in 0 .. MaxFaults
    BY <1>4, ReadsType DEF ReadAbandoned, TypeOK
  <2>2. CASE UNCHANGED <<up, callerVars>> /\ CallerFrame
    BY <2>1, <2>2 DEF TypeOK
  <2>3. CASE AbandonEnds(t, "done")
    BY <2>1, <2>3, AbandonEndsType
  <2> QED
    BY <1>4, <2>2, <2>3 DEF ReadAbandoned
<1>5. CASE Consume(t)
  BY <1>5 DEF Consume, TypeOK, Terminal
<1>6. CASE CallReturns(t)
  <2>1. Decode(reply[t]) \in {"value", "error", "timeout"}
    BY DEF Decode
  <2> QED
    BY <1>6, <2>1 DEF CallReturns, Moves, Tells, TypeOK
<1>7. CASE DeadlineFires(t) \/ SendFails(t) \/ SendTimesOut(t) \/ CallCancelled(t)
  <2>1. faults' \in 0 .. MaxFaults
    BY <1>7, FaultType DEF DeadlineFires, SendFails, SendTimesOut, CallCancelled, TypeOK
  <2> QED
    BY <1>7, <2>1, GiveUpType DEF DeadlineFires, SendFails, SendTimesOut, CallCancelled
<1>8. CASE AbandonFails(t) \/ AbandonTimesOut(t)
  <2>1. faults' \in 0 .. MaxFaults /\ down' \in [Tasks -> Seq(Results \cup Terminal)]
    BY <1>8, FaultType DEF AbandonFails, AbandonTimesOut, TypeOK
  <2> QED
    BY <1>8, <2>1, AbandonEndsType DEF AbandonFails, AbandonTimesOut
<1>9. CASE Send(t)
  BY <1>9 DEF Send, Moves, Write, TypeOK, Pending
<1> QED
  BY <1>1, <1>2, <1>3, <1>4, <1>5, <1>6, <1>7, <1>8, <1>9 DEF ClientStep

(* No step of the Hub, of a connection or of a caller leaves the types. *)
LEMMA TypeStep == TypeOK /\ [Next]_vars => TypeOK'
<1> SUFFICES ASSUME TypeOK, [Next]_vars
             PROVE  TypeOK'
  OBVIOUS
<1> USE DEF callerVars, hubVars, jobVars, frames
<1>1. CASE UNCHANGED vars
  BY <1>1 DEF vars, TypeOK
<1>2. CASE HubExpires
  <2>1. Only(Expiring \cap Calls, "timeout") \in [Tasks -> Frame]
    BY OnlyType DEF Frame, Terminal
  <2> QED
    BY <1>2, <2>1, EnqueueType DEF HubExpires, TypeOK
<1>3. CASE HubRestarts
  <2>1. LoseFrames(Peers) /\ faults' \in 0 .. MaxFaults
    BY <1>3, FaultType DEF HubRestarts
  <2> QED
    BY <1>3, <2>1, LossType DEF HubRestarts, TypeOK
<1>4. ASSUME NEW t \in Tasks, Expire(t)
      PROVE  TypeOK'
  BY <1>4 DEF Expire, TypeOK
<1> QED
  BY <1>1, <1>2, <1>3, <1>4, HubStepType, ClientStepType, ServerStepType, PeerStepType,
     ServerOtherType DEF Next

(* Every variable of the Hub, its peers, its callers and its servers stays  *)
(* in its type.                                                             *)
THEOREM TypeCorrect == Spec => []TypeOK
BY TypeInit, TypeStep, PTL DEF Spec
------------------------------------------------------------------------------
(* The deliveries of the Hub are never orphaned, and the WebSocket backend  *)
(* implements RpcContract, by the inductive invariant IInv.  The argument   *)
(* is per request u: most steps keep what the invariant says of u.          *)

EndsOf(u) ==
    /\ server[u] \in Servers /\ conn[server[u]] # None
    /\ state[server[u]] \in {"ready", "away"}
    /\ conn[Source[u]] # None

InHand(u) == back[u] # None \/ job[u] \notin {None, "over", "lost"}

Whole(p) == link[p] = "up" /\ conn[p] = "open"

DeliveryInv(u) == u \in delivery => EndsOf(u) /\ (Whole(server[u]) => InHand(u))

RequestsInv(u) == RequestInv(u) /\ JobInv(u) /\ ResultInv(u)

LEMMA InvByRequest ==
    IInv <=> /\ TypeOK
             /\ \A u \in Tasks : DeliveryInv(u) /\ RequestsInv(u)
<1>1. TypeOK => delivery \subseteq Tasks
  BY DEF TypeOK
<1> QED
  BY <1>1 DEF IInv, DeliveryHasEnds, DeliveryInHand, DeliveryInv, EndsOf, InHand, Whole,
              RequestsInv

LEMMA InvInit == Init => IInv
<1> SUFFICES ASSUME Init
             PROVE  IInv
  OBVIOUS
<1>1. \A u \in Tasks : DeliveryInv(u)
  BY DEF Init, DeliveryInv
<1>2. ASSUME NEW u \in Tasks
      PROVE  RequestInv(u) /\ JobInv(u)
  <2>1. /\ up[u] = << >> /\ job[u] = None /\ execution[u] = None /\ answer[u] = None
        /\ server[u] = NoServer
    BY DEF Init
  <2> QED
    BY <2>1 DEF RequestInv, JobInv, Has, None
<1>3. ASSUME NEW u \in Tasks
      PROVE  ResultInv(u)
  <2>1. Responses(u) = {None}
    BY DEF Init, Responses
  <2> QED
    BY <2>1 DEF ResultInv, None
<1> QED
  BY <1>1, <1>2, <1>3, TypeInit, InvByRequest DEF RequestsInv
-----------------------------------------------------------------------------
(* The deliveries.  A step keeps the delivery of u when its ends stay       *)
(* connected, its server neither stops nor connects again, and what its     *)
(* server has of it does not get lost on a connection that stays whole.     *)

Keeps(u) ==
    /\ server'[u] = server[u]
    /\ \A p \in {server[u], Source[u]} :
          conn[p] # None => conn'[p] # None /\ (conn'[p] = "open" => conn[p] = "open")
    /\ state'[server[u]] \in {"ready", "away"}
    /\ link'[server[u]] = "up" => link[server[u]] = "up" /\ (InHand(u) => InHand(u)')

LEMMA Kept ==
    ASSUME NEW u \in Tasks, u \in delivery, DeliveryInv(u), Keeps(u)
    PROVE  DeliveryInv(u)'
BY DEF DeliveryInv, EndsOf, Whole, Keeps

LEMMA EnqueueKeeps ==
    ASSUME TypeOK, NEW frame, NEW lost \in Losses(frame), NEW p \in Peers
    PROVE  /\ Overloaded(lost)[p] = None <=> conn[p] = None
           /\ Overloaded(lost)[p] = "open" => conn[p] = "open"
<1>1. \A t \in Issued(p) \cap lost : conn[p] # None
  BY DEF Losses, Issued
<1> QED
  BY <1>1 DEF Overloaded, None

LEMMA EnqueueConn ==
    ASSUME TypeOK, NEW frame, Enqueue(frame), NEW p \in Peers
    PROVE  /\ conn'[p] = None <=> conn[p] = None
           /\ conn'[p] = "open" => conn[p] = "open"
BY EnqueueKeeps DEF Enqueue

(* Both ends of a delivery are peers. *)
LEMMA EndsArePeers ==
    ASSUME NEW u \in Tasks, EndsOf(u)
    PROVE  server[u] \in Peers /\ Source[u] \in Peers
BY ConstantsAssumption DEF EndsOf, Peers

LEMMA EnqueueKept ==
    ASSUME TypeOK, NEW frame, Enqueue(frame), NEW u \in Tasks, u \in delivery,
           DeliveryInv(u), server'[u] = server[u],
           state'[server[u]] \in {"ready", "away"},
           link'[server[u]] = link[server[u]], InHand(u) => InHand(u)'
    PROVE  DeliveryInv(u)'
<1>1. server[u] \in Peers /\ Source[u] \in Peers
  BY EndsArePeers DEF DeliveryInv
<1>2. Keeps(u)
  BY <1>1, EnqueueConn DEF Keeps
<1> QED
  BY <1>2, Kept

LEMMA HubStepDelivery ==
    ASSUME TypeOK, NEW t \in Tasks, HubStep(t), NEW u \in Tasks, DeliveryInv(u)
    PROVE  DeliveryInv(u)'
<1> SUFFICES ASSUME u \in delivery'
             PROVE  DeliveryInv(u)'
  BY DEF DeliveryInv
<1> USE DEF callerVars, jobVars
<1>1. ASSUME NEW s \in Servers, HubAccepts(t, s)
      PROVE  DeliveryInv(u)'
  <2>1. PICK frame : Enqueue(frame)
    BY <1>1 DEF HubAccepts, HandleCommand
  <2>2. UNCHANGED <<state, back, link>>
    BY <1>1 DEF HubAccepts, HandleCommand
  <2>3. CASE u = t
    <3>1. server'[u] = s /\ job'[u] = "queued"
      BY <1>1, <2>3 DEF HubAccepts, TypeOK
    <3>2. state[s] = "ready" /\ conn[s] # None /\ conn[Source[u]] # None
      BY <1>1, <2>3 DEF HubAccepts, HandleCommand, Ready
    <3>3. conn'[s] # None /\ conn'[Source[u]] # None
      BY <2>1, <3>2, EnqueueConn, ConstantsAssumption DEF Peers
    <3> QED
      BY <2>2, <3>1, <3>2, <3>3 DEF DeliveryInv, EndsOf, InHand, None
  <2>4. CASE u # t
    <3>1. u \in delivery /\ server'[u] = server[u] /\ job'[u] = job[u]
      BY <1>1, <2>4 DEF HubAccepts, TypeOK
    <3> QED
      BY <2>1, <2>2, <3>1, EnqueueKept DEF InHand, DeliveryInv, EndsOf
  <2> QED
    BY <2>3, <2>4
<1>2. CASE HubRejects(t) \/ HubAbandons(t) \/ HubReplies(t)
  <2>1. PICK frame : Enqueue(frame)
    BY <1>2 DEF HubRejects, HubAbandons, HubReplies, HandleCommand
  <2>2. u \in delivery /\ UNCHANGED <<state, server, back, link, job>>
    BY <1>2 DEF HubRejects, HubAbandons, HubReplies, HandleCommand
  <2> QED
    BY <2>1, <2>2, EnqueueKept DEF InHand, DeliveryInv, EndsOf
<1>3. CASE HubResponds(t)
  <2>1. PICK frame : Enqueue(frame)
    BY <1>3 DEF HubResponds
  <2>2. u \in delivery /\ u # t /\ UNCHANGED <<state, server, link, job>>
    BY <1>3 DEF HubResponds
  <2>3. back'[u] = back[u]
    BY <1>3, <2>2 DEF HubResponds, TypeOK
  <2> QED
    BY <2>1, <2>2, <2>3, EnqueueKept DEF InHand, DeliveryInv, EndsOf
<1> QED
  BY <1>1, <1>2, <1>3 DEF HubStep

LEMMA ServerOtherDelivery ==
    ASSUME TypeOK, NEW s \in Servers, ServerOther(s), NEW u \in Tasks, DeliveryInv(u)
    PROVE  DeliveryInv(u)'
<1> SUFFICES ASSUME u \in delivery'
             PROVE  DeliveryInv(u)'
  BY DEF DeliveryInv
<1> USE DEF callerVars, jobVars, PeerFrame
<1>1. CASE Register(s) \/ Leave(s) \/ Unregister(s)
  <2>1. PICK frame : Enqueue(frame)
    BY <1>1 DEF Register, Leave, Unregister
  <2>2. u \in delivery /\ UNCHANGED <<server, back, link, job>>
    BY <1>1 DEF Register, Leave, Unregister, Declare
  <2>3. state'[server[u]] \in {"ready", "away"}
    <3>1. state[server[u]] \in {"ready", "away"} /\ server[u] \in Servers
      BY <2>2 DEF DeliveryInv, EndsOf
    <3>2. CASE Register(s) \/ Leave(s)
      <4>1. PICK to \in {"ready", "away"} : state' = [state EXCEPT ![s] = to]
        BY <3>2 DEF Register, Leave, Declare
      <4> QED
        BY <3>1, <4>1 DEF TypeOK
    <3>3. CASE Unregister(s)
      <4>1. server[u] # s
        BY <2>2, <3>3 DEF Unregister, FailTarget, At
      <4> QED
        BY <3>1, <3>3, <4>1 DEF Unregister, Declare, TypeOK
    <3> QED
      BY <1>1, <3>2, <3>3
  <2> QED
    BY <2>1, <2>2, <2>3, EnqueueKept DEF InHand
<1>2. CASE LeaseRunsOut(s)
  <2>1. u \in delivery /\ u \notin FailTarget(s) /\ UNCHANGED <<server, back, link, job>>
    BY <1>2 DEF LeaseRunsOut
  <2>2. PICK frame, lost : lost \in Losses(frame) /\ conn' = Overloaded(lost)
    BY <1>2 DEF LeaseRunsOut
  <2>3. EndsOf(u) /\ server[u] # s
    BY <2>1 DEF DeliveryInv, FailTarget, At
  <2>4. state'[server[u]] = state[server[u]]
    BY <1>2, <2>3 DEF LeaseRunsOut, TypeOK
  <2>5. Keeps(u)
    BY <2>1, <2>2, <2>3, <2>4, EndsArePeers, EnqueueKeeps DEF Keeps, EndsOf, InHand
  <2> QED
    BY <2>1, <2>5, Kept
<1>3. CASE Crash(s)
  <2>1. u \in delivery /\ UNCHANGED <<server, back, conn, state>>
    BY <1>3 DEF Crash, hubVars, frames
  <2>2. EndsOf(u)
    BY <2>1 DEF DeliveryInv
  <2>3. link'[server[u]] = "up" => link[server[u]] = "up" /\ job'[u] = job[u]
    BY <1>3, <2>2, EndsArePeers DEF Crash, At, TypeOK
  <2>4. Keeps(u)
    BY <2>1, <2>2, <2>3 DEF Keeps, EndsOf, InHand
  <2> QED
    BY <2>1, <2>4, Kept
<1> QED
  BY <1>1, <1>2, <1>3 DEF ServerOther

LEMMA PeerStepDelivery ==
    ASSUME TypeOK, NEW p \in Peers, PeerStep(p) \/ LinkBreaks(p), NEW u \in Tasks, DeliveryInv(u)
    PROVE  DeliveryInv(u)'
<1> SUFFICES ASSUME u \in delivery'
             PROVE  DeliveryInv(u)'
  BY DEF DeliveryInv
<1> USE DEF callerVars, jobVars, hubVars, frames
<1>1. u \in delivery
  BY DEF PeerStep, Connect, ConnectAgain, Disconnect, LinkEnds, LinkBreaks, LinkLost, PollerStops
<1>2. EndsOf(u) /\ server[u] \in Peers /\ Source[u] \in Peers
  BY <1>1, EndsArePeers DEF DeliveryInv
<1>3. CASE Connect(p)
  <2>1. /\ conn' = [conn EXCEPT ![p] = "open"] /\ link' = [link EXCEPT ![p] = "up"]
        /\ UNCHANGED <<state, server, back, job>>
    BY <1>3 DEF Connect, ConnectAgain
  <2>2. server[u] # p /\ Source[u] # p
    BY <1>2, <1>3 DEF Connect, EndsOf
  <2>3. Keeps(u)
    BY <1>2, <2>1, <2>2 DEF Keeps, EndsOf, InHand, TypeOK
  <2> QED
    BY <1>1, <2>3, Kept
<1>4. CASE Disconnect(p)
  <2>1. server[u] # p /\ Source[u] # p
    BY <1>4 DEF Disconnect, FailTarget, At, Issued
  <2>2. PICK frame, lost : lost \in Losses(frame) /\ conn' = [Overloaded(lost) EXCEPT ![p] = None]
    BY <1>4 DEF Disconnect
  <2>3. \A q \in {server[u], Source[u]} : conn'[q] = Overloaded(lost)[q]
    BY <1>2, <2>1, <2>2, OverloadedType
  <2>4. state'[server[u]] = state[server[u]] /\ back'[u] = back[u] /\ job'[u] = job[u]
    BY <1>2, <1>4, <2>1 DEF Disconnect, LoseFrames, EndsOf
  <2>5. UNCHANGED <<server, link>>
    BY <1>4 DEF Disconnect
  <2>6. Keeps(u)
    BY <1>2, <2>2, <2>3, <2>4, <2>5, EnqueueKeeps DEF Keeps, EndsOf, InHand
  <2> QED
    BY <1>1, <2>6, Kept
<1>5. CASE LinkEnds(p) \/ LinkBreaks(p)
  <2>1. link' = [link EXCEPT ![p] = "broken"] /\ UNCHANGED <<state, server, conn, back, job>>
    BY <1>5 DEF LinkEnds, LinkBreaks, LinkLost
  <2>2. Keeps(u)
    BY <1>2, <2>1 DEF Keeps, EndsOf, InHand, TypeOK
  <2> QED
    BY <1>1, <2>2, Kept
<1>6. CASE PollerStops(p)
  <2>1. link' = [link EXCEPT ![p] = "down"] /\ UNCHANGED <<state, server, conn, back>>
    BY <1>6 DEF PollerStops
  <2>2. u \notin At(p) => job'[u] = job[u]
    BY <1>6 DEF PollerStops
  <2>3. Keeps(u)
    BY <1>2, <2>1, <2>2 DEF Keeps, EndsOf, InHand, At, TypeOK
  <2> QED
    BY <1>1, <2>3, Kept
<1> QED
  BY <1>3, <1>4, <1>5, <1>6 DEF PeerStep

LEMMA ServerStepDelivery ==
    ASSUME TypeOK, NEW t \in Tasks, ServerStep(t), NEW u \in Tasks, DeliveryInv(u)
    PROVE  DeliveryInv(u)'
<1> SUFFICES ASSUME u \in delivery'
             PROVE  DeliveryInv(u)'
  BY DEF DeliveryInv
<1> USE DEF JobFrame, JobMoves, hubVars
<1>1. u \in delivery /\ UNCHANGED <<conn, state, server>>
  BY DEF ServerStep, Deliver, Spawn, StartHandler, HandlerReturns, HandlerFails, Respond
<1>2. EndsOf(u) /\ server[u] \in Peers
  BY <1>1, EndsArePeers DEF DeliveryInv
<1>3. CASE Deliver(t)
  <2>1. UNCHANGED back
    BY <1>3 DEF Deliver
  <2>2. \/ job' = [job EXCEPT ![t] = "incoming"] /\ link' = link
        \/ job' = [job EXCEPT ![t] = "lost"] /\ link' = [link EXCEPT ![server[t]] = "broken"]
    BY <1>3 DEF Deliver
  <2>3. Keeps(u)
    BY <1>1, <1>2, <2>1, <2>2 DEF Keeps, EndsOf, InHand, TypeOK, None
  <2> QED
    BY <1>1, <2>3, Kept
<1>4. CASE Spawn(t) \/ StartHandler(t) \/ HandlerReturns(t) \/ HandlerFails(t)
  <2>1. PICK to \in {"spawned", "timedout", "running", "returned", "raised"} :
           job' = [job EXCEPT ![t] = to]
    BY <1>4 DEF Spawn, StartHandler, HandlerReturns, HandlerFails
  <2>2. UNCHANGED <<back, link>>
    BY <1>4 DEF Spawn, StartHandler, HandlerReturns, HandlerFails
  <2>3. Keeps(u)
    BY <1>1, <1>2, <2>1, <2>2 DEF Keeps, EndsOf, InHand, TypeOK, None
  <2> QED
    BY <1>1, <2>3, Kept
<1>5. CASE Respond(t)
  <2>1. job' = [job EXCEPT ![t] = "over"] /\ UNCHANGED link
    BY <1>5 DEF Respond
  <2>2. u # t => back'[u] = back[u]
    BY <1>5 DEF Respond, TypeOK
  <2>3. link[server[t]] = "up" /\ conn[server[t]] # None => back'[t] # None
    BY <1>5 DEF Respond, StatusOf, TypeOK, None
  <2>4. Keeps(u)
    BY <1>1, <1>2, <2>1, <2>2, <2>3 DEF Keeps, EndsOf, InHand, TypeOK
  <2> QED
    BY <1>1, <2>4, Kept
<1> QED
  BY <1>3, <1>4, <1>5 DEF ServerStep

LEMMA HubOtherDelivery ==
    ASSUME TypeOK, HubExpires \/ HubRestarts, NEW u \in Tasks, DeliveryInv(u)
    PROVE  DeliveryInv(u)'
<1> SUFFICES ASSUME u \in delivery'
             PROVE  DeliveryInv(u)'
  BY DEF DeliveryInv
<1> USE DEF jobVars, callerVars
<1>1. HubExpires
  BY DEF HubRestarts
<1>2. PICK frame : Enqueue(frame)
  BY <1>1 DEF HubExpires
<1>3. u \in delivery /\ UNCHANGED <<state, server, back, link, job>>
  BY <1>1 DEF HubExpires
<1> QED
  BY <1>2, <1>3, EnqueueKept DEF InHand, DeliveryInv, EndsOf

(* The callers do not touch what the Hub and the servers keep. *)
LEMMA CallersDelivery ==
    ASSUME UNCHANGED <<hubVars, back, link, jobVars>>, NEW u \in Tasks, DeliveryInv(u)
    PROVE  DeliveryInv(u)'
BY DEF DeliveryInv, EndsOf, InHand, Whole, hubVars, jobVars
-----------------------------------------------------------------------------
(* The request and its job.  Most steps do not disturb u: at most they lose *)
(* its commands, or its job.                                                *)

Undisturbed(u) ==
    /\ up'[u] \in {up[u], << >>}
    /\ job'[u] = job[u] \/ (job[u] # None /\ job'[u] = "lost")
    /\ phase'[u] = phase[u] /\ answer'[u] = answer[u]
    /\ execution'[u] = execution[u] /\ server'[u] = server[u]
    /\ expired \subseteq expired'

LEMMA UndisturbedInv ==
    ASSUME NEW u \in Tasks, RequestInv(u), JobInv(u), Undisturbed(u)
    PROVE  RequestInv(u)' /\ JobInv(u)'
<1>1. RequestInv(u)'
  BY DEF Undisturbed, RequestInv, Has
<1>2. JobInv(u)'
  BY DEF Undisturbed, JobInv, Excused, None
<1> QED
  BY <1>1, <1>2

LEMMA TailOfCommands ==
    ASSUME NEW S, NEW q \in Seq(S), q # << >>, \A i \in 2 .. Len(q) : q[i] = "abandon"
    PROVE  /\ ~Has(Tail(q), {"send"})
           /\ \A i \in 2 .. Len(Tail(q)) : Tail(q)[i] = "abandon"
<1>1. \A i \in 1 .. Len(Tail(q)) : Tail(q)[i] = q[i + 1] /\ i + 1 \in 2 .. Len(q)
  OBVIOUS
<1> QED
  BY <1>1 DEF Has

LEMMA AbandonAppended ==
    ASSUME NEW S, NEW q \in Seq(S), \A i \in 2 .. Len(q) : q[i] = "abandon"
    PROVE  /\ Has(Append(q, "abandon"), {"send"}) => Has(q, {"send"})
           /\ \A i \in 2 .. Len(Append(q, "abandon")) : Append(q, "abandon")[i] = "abandon"
<1>1. \A i \in 1 .. Len(Append(q, "abandon")) :
         \/ i \in 1 .. Len(q) /\ Append(q, "abandon")[i] = q[i]
         \/ Append(q, "abandon")[i] = "abandon"
  OBVIOUS
<1> QED
  BY <1>1 DEF Has

(* A command of u that is handled: afterwards no send command of it is left. *)
LEMMA CommandInv ==
    ASSUME TypeOK, NEW t \in Tasks, NEW op, NEW result, HandleCommand(t, op, result),
           RequestInv(t), JobInv(t),
           \/ UNCHANGED <<job, server>>
           \/ op = "send" /\ job'[t] = "queued"
    PROVE  RequestInv(t)' /\ JobInv(t)'
<1>1. /\ up[t] # << >> /\ Head(up[t]) = op /\ up'[t] = Tail(up[t])
      /\ UNCHANGED <<phase, answer, execution, expired>>
  BY DEF HandleCommand, callerVars, TypeOK
<1>2. /\ up[t] \in Seq({"send", "abandon"}) /\ ~Has(up'[t], {"send"})
      /\ \A i \in 2 .. Len(up'[t]) : up'[t][i] = "abandon"
  <2>1. up[t] \in Seq({"send", "abandon"}) /\ \A i \in 2 .. Len(up[t]) : up[t][i] = "abandon"
    BY DEF RequestInv, TypeOK
  <2>2. /\ ~Has(Tail(up[t]), {"send"})
        /\ \A i \in 2 .. Len(Tail(up[t])) : Tail(up[t])[i] = "abandon"
    BY <1>1, <2>1, TailOfCommands
  <2> QED
    BY <1>1, <2>1, <2>2
<1>3. phase[t] # "idle"
  BY <1>1 DEF RequestInv
<1>4. op = "send" => job[t] = None
  <2>1. 1 \in 1 .. Len(up[t]) /\ up[t][1] = op
    BY <1>1, <1>2
  <2> QED
    BY <2>1 DEF RequestInv, Has
<1>5. RequestInv(t)'
  BY <1>1, <1>2, <1>3 DEF RequestInv
<1>6. JobInv(t)'
  BY <1>1, <1>4 DEF JobInv, Excused, None
<1> QED
  BY <1>5, <1>6

LEMMA HubStepRequest ==
    ASSUME TypeOK, NEW t \in Tasks, HubStep(t), NEW u \in Tasks, RequestInv(u), JobInv(u)
    PROVE  RequestInv(u)' /\ JobInv(u)'
<1> USE DEF callerVars, jobVars
<1>1. ASSUME NEW s \in Servers, HubAccepts(t, s)
      PROVE  RequestInv(u)' /\ JobInv(u)'
  <2>1. HandleCommand(t, "send", "accepted") /\ job' = [job EXCEPT ![t] = "queued"]
        /\ server' = [server EXCEPT ![t] = s]
    BY <1>1 DEF HubAccepts
  <2>2. CASE u = t
    BY <2>1, <2>2, CommandInv DEF TypeOK
  <2>3. CASE u # t
    <3>1. Undisturbed(u)
      BY <2>1, <2>3 DEF Undisturbed, HandleCommand, TypeOK
    <3> QED
      BY <3>1, UndisturbedInv
  <2> QED
    BY <2>2, <2>3
<1>2. ASSUME NEW op, NEW result, HandleCommand(t, op, result), UNCHANGED <<server, job>>
      PROVE  RequestInv(u)' /\ JobInv(u)'
  <2>1. CASE u = t
    BY <1>2, <2>1, CommandInv
  <2>2. CASE u # t
    <3>1. Undisturbed(u)
      BY <1>2, <2>2 DEF Undisturbed, HandleCommand, TypeOK
    <3> QED
      BY <3>1, UndisturbedInv
  <2> QED
    BY <2>1, <2>2
<1>3. CASE HubRejects(t)
  BY <1>2, <1>3 DEF HubRejects
<1>4. CASE HubAbandons(t)
  BY <1>2, <1>4 DEF HubAbandons
<1>5. CASE HubReplies(t) \/ HubResponds(t)
  <2>1. Undisturbed(u)
    BY <1>5 DEF Undisturbed, HubReplies, HubResponds
  <2> QED
    BY <2>1, UndisturbedInv
<1> QED
  BY <1>1, <1>3, <1>4, <1>5 DEF HubStep

LEMMA LossUndisturbs ==
    ASSUME NEW P, LoseFrames(P), UNCHANGED <<phase, answer, execution, server, expired>>,
           NEW u \in Tasks
    PROVE  Undisturbed(u)
BY DEF LoseFrames, Undisturbed, None

LEMMA ConnectionsRequest ==
    ASSUME TypeOK, NEW u \in Tasks, RequestInv(u), JobInv(u),
           \/ \E p \in Peers : PeerStep(p) \/ LinkBreaks(p)
           \/ \E s \in Servers : ServerOther(s)
           \/ HubExpires \/ HubRestarts
           \/ \E t \in Tasks : Expire(t)
    PROVE  RequestInv(u)' /\ JobInv(u)'
<1> SUFFICES Undisturbed(u)
  BY UndisturbedInv
<1> USE DEF callerVars, jobVars, hubVars, frames, PeerFrame
<1>1. ASSUME NEW p \in Peers, PeerStep(p) \/ LinkBreaks(p)
      PROVE  Undisturbed(u)
  <2>1. CASE Disconnect(p)
    BY <2>1, LossUndisturbs DEF Disconnect
  <2>2. CASE PollerStops(p)
    BY <2>2 DEF PollerStops, Undisturbed, None
  <2>3. CASE Connect(p) \/ LinkEnds(p) \/ LinkBreaks(p)
    BY <2>3 DEF Connect, ConnectAgain, LinkEnds, LinkBreaks, LinkLost, Undisturbed
  <2> QED
    BY <1>1, <2>1, <2>2, <2>3 DEF PeerStep
<1>2. ASSUME NEW s \in Servers, ServerOther(s)
      PROVE  Undisturbed(u)
  <2>1. CASE Crash(s)
    <3>1. u \in At(s) => job[u] # None
      BY ConstantsAssumption DEF JobInv, At
    <3> QED
      BY <2>1, <3>1 DEF Crash, Undisturbed
  <2>2. CASE Register(s) \/ Leave(s) \/ Unregister(s) \/ LeaseRunsOut(s)
    BY <2>2 DEF Register, Leave, Unregister, Declare, LeaseRunsOut, Undisturbed
  <2> QED
    BY <1>2, <2>1, <2>2 DEF ServerOther
<1>3. CASE HubExpires
  BY <1>3 DEF HubExpires, Undisturbed
<1>4. CASE HubRestarts
  BY <1>4, LossUndisturbs DEF HubRestarts
<1>5. ASSUME NEW t \in Tasks, Expire(t)
      PROVE  Undisturbed(u)
  BY <1>5 DEF Expire, Undisturbed
<1> QED
  BY <1>1, <1>2, <1>3, <1>4, <1>5

(* The callers: the job of the request is not theirs. *)
Client(t) ==
    \/ ClientStep(t) \/ Send(t) \/ SendTimesOut(t)
    \/ AbandonTimesOut(t) \/ CallCancelled(t)

LEMMA ClientFrame ==
    ASSUME NEW t \in Tasks, Client(t)
    PROVE  UNCHANGED <<hubVars, back, link, jobVars, expired>>
<1> USE DEF CallerFrame
<1>1. CASE ReadRejected(t) \/ ReadAbandoned(t)
  BY <1>1 DEF ReadRejected, ReadAbandoned, GiveUp, AbandonEnds
<1>2. CASE \/ ReadAccepted(t) \/ ReadResponse(t) \/ Consume(t) \/ CallReturns(t)
           \/ DeadlineFires(t) \/ SendFails(t) \/ SendTimesOut(t) \/ CallCancelled(t)
           \/ AbandonFails(t) \/ AbandonTimesOut(t) \/ Send(t)
  BY <1>2 DEF ReadAccepted, ReadResponse, Consume, CallReturns, DeadlineFires, SendFails,
              SendTimesOut, CallCancelled, AbandonFails, AbandonTimesOut, Send, GiveUp, AbandonEnds
<1> QED
  BY <1>1, <1>2 DEF Client, ClientStep

(* What a step of the caller of u does to its commands, phase and answer. *)
Stays(u) == up'[u] = up[u] /\ phase'[u] = phase[u] /\ answer'[u] = answer[u]

Issues(u) ==
    /\ phase[u] = "idle" /\ phase'[u] # "closed" /\ phase'[u] # "idle" /\ answer'[u] = answer[u]
    /\ up'[u] \in {up[u], Append(up[u], "send")}

Advances(u) ==
    /\ phase[u] # "closed" /\ phase'[u] # "idle"
    /\ phase'[u] = "closed" \/ answer'[u] = answer[u]
    /\ up'[u] = up[u] \/ (phase'[u] = "closed" /\ up'[u] = Append(up[u], "abandon"))

LEMMA GaveUpAdvances ==
    ASSUME TypeOK, NEW t \in Tasks, NEW from, NEW a, GiveUp(t, from, a), "closed" \notin from
    PROVE  Advances(t) /\ \A u \in Tasks \ {t} : Stays(u)
<1>1. up' = up \/ up' = [up EXCEPT ![t] = Append(up[t], "abandon")]
  BY GaveUp
<1>2. /\ phase[t] \in from /\ phase' = [phase EXCEPT ![t] = "closed"]
      /\ answer' = [answer EXCEPT ![t] = a]
  BY DEF GiveUp, Moves, Tells
<1> QED
  BY <1>1, <1>2 DEF Advances, Stays, TypeOK

LEMMA ClientMoves ==
    ASSUME TypeOK, NEW t \in Tasks, Client(t)
    PROVE  /\ Stays(t) \/ Issues(t) \/ Advances(t)
           /\ \A u \in Tasks \ {t} : Stays(u)
<1>1. CASE ReadAccepted(t)
  <2>1. \/ UNCHANGED <<phase, answer>>
        \/ Moves(t, {"sending"}, "waiting") /\ UNCHANGED answer
        \/ Moves(t, {"sending"}, "closed") /\ Tells(t, "accepted")
    BY <1>1 DEF ReadAccepted
  <2>2. UNCHANGED up
    BY <1>1 DEF ReadAccepted
  <2> QED
    BY <2>1, <2>2 DEF Stays, Advances, Moves, Tells, TypeOK
<1>2. CASE \E from, a : GiveUp(t, from, a) /\ "closed" \notin from
  BY <1>2, GaveUpAdvances
<1>3. CASE ReadRejected(t)
  <2>1. GiveUp(t, {"sending"}, "error") \/ UNCHANGED <<up, callerVars>>
    BY <1>3 DEF ReadRejected
  <2> QED
    BY <1>2, <2>1 DEF Stays, callerVars
<1>4. CASE ReadAbandoned(t)
  BY <1>4 DEF ReadAbandoned, AbandonEnds, Stays, callerVars
<1>5. CASE ReadResponse(t) \/ Consume(t) \/ AbandonFails(t) \/ AbandonTimesOut(t)
  BY <1>5 DEF ReadResponse, Consume, AbandonFails, AbandonTimesOut, AbandonEnds, Stays
<1>6. CASE CallReturns(t)
  BY <1>6 DEF CallReturns, Moves, Tells, Advances, Stays, TypeOK
<1>7. CASE DeadlineFires(t) \/ CallCancelled(t) \/ SendFails(t) \/ SendTimesOut(t)
  <2>1. "closed" \notin Pending /\ "closed" \notin {"idle", "sending"} /\ "closed" \notin {"sending"}
    BY DEF Pending
  <2> QED
    BY <1>2, <1>7, <2>1 DEF DeadlineFires, CallCancelled, SendFails, SendTimesOut
<1>8. CASE Send(t)
  <2>1. up' = up \/ up' = [up EXCEPT ![t] = Append(up[t], "send")]
    BY <1>8 DEF Send, Write
  <2>2. phase[t] = "idle" /\ phase' = [phase EXCEPT ![t] = "sending"] /\ UNCHANGED answer
    BY <1>8 DEF Send, Moves
  <2> QED
    BY <2>1, <2>2 DEF Issues, Stays, TypeOK
<1> QED
  BY <1>1, <1>3, <1>4, <1>5, <1>6, <1>7, <1>8 DEF Client, ClientStep

LEMMA ClientRequest ==
    ASSUME TypeOK, NEW t \in Tasks, Client(t), NEW u \in Tasks, RequestInv(u), JobInv(u)
    PROVE  RequestInv(u)' /\ JobInv(u)'
<1>1. UNCHANGED <<server, job, execution, expired>>
  BY ClientFrame DEF hubVars, jobVars
<1>2. JobInv(u)'
  BY <1>1 DEF JobInv, Excused
<1>3. up[u] \in Seq({"send", "abandon"})
  BY DEF TypeOK
<1>4. CASE Stays(u)
  BY <1>1, <1>2, <1>4 DEF Stays, RequestInv
<1>5. CASE Issues(u)
  <2>1. up[u] = << >> /\ job[u] = None /\ answer[u] = None
    BY <1>5 DEF Issues, RequestInv
  <2>2. \A i \in 2 .. Len(up'[u]) : up'[u][i] = "abandon"
    BY <1>5, <2>1 DEF Issues
  <2> QED
    BY <1>1, <1>2, <1>5, <2>1, <2>2 DEF Issues, RequestInv
<1>6. CASE Advances(u)
  <2>1. CASE up'[u] = up[u]
    BY <1>1, <1>2, <1>6, <2>1 DEF Advances, RequestInv
  <2>2. CASE phase'[u] = "closed" /\ up'[u] = Append(up[u], "abandon")
    <3>1. \A i \in 2 .. Len(up[u]) : up[u][i] = "abandon"
      BY DEF RequestInv
    <3>2. /\ Has(up'[u], {"send"}) => Has(up[u], {"send"})
          /\ \A i \in 2 .. Len(up'[u]) : up'[u][i] = "abandon"
      BY <1>3, <2>2, <3>1, AbandonAppended
    <3> QED
      BY <1>1, <1>2, <2>2, <3>2 DEF RequestInv
  <2> QED
    BY <1>2, <1>6, <2>1, <2>2 DEF Advances
<1> QED
  BY <1>2, <1>4, <1>5, <1>6, ClientMoves

LEMMA ServerStepRequest ==
    ASSUME TypeOK, NEW t \in Tasks, ServerStep(t), NEW u \in Tasks, RequestInv(u), JobInv(u)
    PROVE  RequestInv(u)' /\ JobInv(u)'
<1> USE DEF JobFrame, JobMoves, hubVars, callerVars
<1>1. UNCHANGED <<up, phase, answer, server, expired>>
  BY DEF ServerStep, Deliver, Spawn, StartHandler, HandlerReturns, HandlerFails, Respond
<1>2. PICK to \in JobStates \ {None} : job[t] # None /\ job' = [job EXCEPT ![t] = to]
  <2>1. job[t] \in Ended => job[t] # None
    BY DEF Ended, None
  <2> QED
    BY <2>1 DEF ServerStep, Deliver, Spawn, StartHandler, HandlerReturns, HandlerFails, Respond,
                JobStates, Ended, None
<1>3. RequestInv(u)'
  BY <1>1, <1>2 DEF RequestInv, TypeOK
<1>4. job'[u] = None => server'[u] = NoServer
  BY <1>1, <1>2 DEF JobInv, TypeOK
<1>5. CASE u # t
  <2>1. execution'[u] = execution[u]
    BY <1>5 DEF ServerStep, Deliver, Spawn, StartHandler, HandlerReturns, HandlerFails, Respond,
                TypeOK
  <2> QED
    BY <1>1, <1>2, <1>3, <1>5, <2>1 DEF JobInv, Excused, TypeOK
<1>6. CASE u = t
  <2>1. CASE Deliver(t) \/ Spawn(t)
    BY <1>3, <1>4, <1>6, <2>1 DEF Deliver, Spawn, JobInv, TypeOK, None
  <2>2. CASE StartHandler(t)
    BY <1>3, <1>4, <1>6, <2>2 DEF StartHandler, JobInv, Excused, TypeOK, None
  <2>3. CASE HandlerReturns(t) \/ HandlerFails(t)
    BY <1>3, <1>4, <1>6, <2>3 DEF HandlerReturns, HandlerFails, JobInv, Excused, TypeOK, None
  <2>4. CASE Respond(t)
    BY <1>3, <1>4, <1>6, <2>4 DEF Respond, JobInv, TypeOK, None
  <2> QED
    BY <1>3, <2>1, <2>2, <2>3, <2>4 DEF ServerStep
<1> QED
  BY <1>3, <1>5, <1>6
-----------------------------------------------------------------------------
(* The responses: what each of them says stays true (Grows), and each that  *)
(* a step makes is true by then (True).                                     *)

Grows(u) ==
    /\ execution[u] = "returned" => execution'[u] = "returned"
    /\ Excused(u) => Excused(u)'

True(u, x) ==
    /\ x = "done" => execution'[u] = "returned"
    /\ x = "timeout" => Excused(u)'

AllTrue(u) == \A i \in 1 .. Len(down'[u]) : True(u, down'[u][i])

LEMMA ResultNow ==
    ASSUME NEW u \in Tasks, ResultInv(u), Grows(u)
    PROVE  /\ True(u, back[u]) /\ True(u, held[u]) /\ True(u, reply[u])
           /\ \A i \in 1 .. Len(down[u]) : True(u, down[u][i])
           /\ down'[u] = down[u] => AllTrue(u)
BY DEF ResultInv, Responses, Grows, True, AllTrue

LEMMA Harmless ==
    ASSUME NEW u, NEW x \in Results \cup {None, "failed", "unavailable"}
    PROVE  True(u, x)
BY DEF True, Results, None

LEMMA ResultNext ==
    ASSUME NEW u \in Tasks, True(u, back'[u]), True(u, held'[u]), True(u, reply'[u]), AllTrue(u)
    PROVE  ResultInv(u)'
BY DEF ResultInv, Responses, True, AllTrue

LEMMA AppendedTrue ==
    ASSUME TypeOK, NEW u \in Tasks, NEW x, ResultInv(u), Grows(u), True(u, x),
           down'[u] = Append(down[u], x)
    PROVE  AllTrue(u)
<1>1. Len(down[u]) \in Nat /\ Len(down'[u]) = Len(down[u]) + 1
  BY DEF TypeOK
<1>2. \A i \in 1 .. Len(down'[u]) :
         down'[u][i] = x \/ (i \in 1 .. Len(down[u]) /\ down'[u][i] = down[u][i])
  BY <1>1 DEF TypeOK
<1> QED
  BY <1>2, ResultNow DEF AllTrue

LEMMA TailTrue ==
    ASSUME TypeOK, NEW u \in Tasks, ResultInv(u), Grows(u),
           down[u] # << >>, down'[u] = Tail(down[u])
    PROVE  AllTrue(u) /\ True(u, Head(down[u]))
<1>1. /\ down[u] \in Seq(Results \cup Terminal) /\ Len(down'[u]) = Len(down[u]) - 1
      /\ Len(down[u]) \in Nat /\ Len(down[u]) >= 1
  BY DEF TypeOK
<1>2. \A i \in 1 .. Len(down'[u]) :
         i + 1 \in 1 .. Len(down[u]) /\ down'[u][i] = down[u][i + 1]
  BY <1>1
<1>3. 1 \in 1 .. Len(down[u]) /\ Head(down[u]) = down[u][1]
  BY <1>1
<1> QED
  BY <1>2, <1>3, ResultNow DEF AllTrue

LEMMA EnqueuedTrue ==
    ASSUME TypeOK, NEW u \in Tasks, ResultInv(u), Grows(u), NEW frame, NEW lost,
           down' = Enqueued(frame, lost) \/ down'[u] = Enqueued(frame, lost)[u],
           True(u, frame[u])
    PROVE  AllTrue(u)
<1>1. down'[u] = down[u] \/ down'[u] = Append(down[u], frame[u])
  BY DEF Enqueued
<1> QED
  BY <1>1, AppendedTrue, ResultNow

(* The frames of the expiry speak of deadlines that have passed. *)
LEMMA ExpiryTrue ==
    ASSUME NEW u \in Tasks, Grows(u)
    PROVE  /\ u \in Expiring => True(u, "timeout")
           /\ True(u, Only(Expiring \cap Calls, "timeout")[u])
BY DEF Only, Expiring, True, Grows, Excused, None

LEMMA FailedTrue ==
    ASSUME NEW u \in Tasks, NEW T
    PROVE  True(u, Only(T, "failed")[u])
BY Harmless DEF Only

LEMMA ExpiryEnqueuedTrue ==
    ASSUME TypeOK, NEW u \in Tasks, ResultInv(u), Grows(u),
           Enqueue(Only(Expiring \cap Calls, "timeout"))
    PROVE  AllTrue(u)
BY EnqueuedTrue, ExpiryTrue DEF Enqueue

LEMMA HubStepResult ==
    ASSUME TypeOK, NEW t \in Tasks, HubStep(t), NEW u \in Tasks, ResultInv(u), Grows(u)
    PROVE  ResultInv(u)'
<1> USE DEF callerVars, jobVars
<1>1. ASSUME NEW op, NEW result, HandleCommand(t, op, result)
      PROVE  ResultInv(u)'
  <2>1. AllTrue(u) /\ UNCHANGED <<back, held, reply>>
    BY <1>1, ExpiryEnqueuedTrue DEF HandleCommand
  <2> QED
    BY <2>1, ResultNow, ResultNext
<1>2. CASE HubReplies(t)
  <2>1. PICK lost : down' = Enqueued(Only({t}, due[t]), lost)
    BY <1>2 DEF HubReplies, Enqueue
  <2>2. True(u, Only({t}, due[t])[u])
    BY Harmless DEF Only, TypeOK
  <2>3. AllTrue(u) /\ UNCHANGED <<back, held, reply>>
    BY <1>2, <2>1, <2>2, EnqueuedTrue DEF HubReplies
  <2> QED
    BY <2>3, ResultNow, ResultNext
<1>3. CASE HubResponds(t)
  <2>1. PICK lost : down' = Enqueued(Only({t} \cap delivery \cap Calls, back[t]), lost)
    BY <1>3 DEF HubResponds, Enqueue
  <2>2. True(u, Only({t} \cap delivery \cap Calls, back[t])[u])
    BY ResultNow, Harmless DEF Only
  <2>3. AllTrue(u) /\ UNCHANGED <<held, reply>>
    BY <1>3, <2>1, <2>2, EnqueuedTrue DEF HubResponds
  <2>4. back'[u] \in {back[u], None}
    BY <1>3 DEF HubResponds, TypeOK
  <2> QED
    BY <2>3, <2>4, ResultNow, ResultNext, Harmless
<1> QED
  BY <1>1, <1>2, <1>3 DEF HubStep, HubAccepts, HubRejects, HubAbandons

LEMMA ConnectionsResult ==
    ASSUME TypeOK, NEW u \in Tasks, ResultInv(u), Grows(u),
           \/ \E p \in Peers : PeerStep(p) \/ LinkBreaks(p)
           \/ \E s \in Servers : ServerOther(s)
           \/ HubExpires \/ HubRestarts
           \/ \E t \in Tasks : Expire(t)
    PROVE  ResultInv(u)'
<1> USE DEF callerVars, jobVars, hubVars, frames, PeerFrame
<1>1. CASE \E p \in Peers : Connect(p)
  <2>1. held'[u] \in {held[u], None} /\ UNCHANGED <<back, reply, down>>
    BY <1>1 DEF Connect, ConnectAgain, Drop
  <2> QED
    BY <2>1, ResultNow, ResultNext, Harmless
<1>2. ASSUME NEW p \in Peers, Disconnect(p)
      PROVE  ResultInv(u)'
  <2>1. PICK T, lost : down' = Drop(Issued(p), << >>, Enqueued(Only(T, "failed"), lost))
    BY <1>2 DEF Disconnect
  <2>2. down'[u] = << >> \/ down'[u] = Enqueued(Only(T, "failed"), lost)[u]
    BY <2>1 DEF Drop
  <2>3. AllTrue(u)
    BY <2>2, EnqueuedTrue, FailedTrue DEF AllTrue
  <2>4. back'[u] \in {back[u], None} /\ UNCHANGED <<held, reply>>
    BY <1>2 DEF Disconnect, LoseFrames
  <2> QED
    BY <2>3, <2>4, ResultNow, ResultNext, Harmless
<1>3. CASE \E p \in Peers : LinkEnds(p) \/ LinkBreaks(p)
  BY <1>3, ResultNow, ResultNext DEF LinkEnds, LinkBreaks, LinkLost
<1>4. CASE \E p \in Peers : PollerStops(p)
  <2>1. reply'[u] \in {reply[u], "unavailable"} /\ UNCHANGED <<back, held, down>>
    BY <1>4 DEF PollerStops
  <2> QED
    BY <2>1, ResultNow, ResultNext, Harmless
<1>5. ASSUME NEW s \in Servers, ServerOther(s)
      PROVE  ResultInv(u)'
  <2>1. UNCHANGED <<back, held, reply>>
    BY <1>5 DEF ServerOther, Register, Leave, Unregister, Declare, LeaseRunsOut, Crash
  <2>2. CASE Register(s) \/ Leave(s)
    BY <2>1, <2>2, ExpiryEnqueuedTrue, ResultNow, ResultNext DEF Register, Leave
  <2>3. CASE Unregister(s) \/ LeaseRunsOut(s)
    <3>1. PICK frame, lost : /\ down' = Enqueued(frame, lost)
                             /\ \/ frame[u] \in {None, "failed"}
                                \/ u \in Expiring /\ frame[u] = "timeout"
      <4>1. CASE Unregister(s)
        <5> DEFINE ending == [t \in Tasks |-> IF t \in Expiring \cap Calls THEN "timeout"
                                             ELSE IF t \in FailTarget(s) \cap Calls THEN "failed"
                                             ELSE None]
        <5>1. \E lost : down' = Enqueued(ending, lost)
          BY <4>1 DEF Unregister, Enqueue
        <5>2. ending[u] \in {None, "failed"} \/ (u \in Expiring /\ ending[u] = "timeout")
          OBVIOUS
        <5> HIDE DEF ending
        <5> QED
          BY <5>1, <5>2
      <4>2. CASE LeaseRunsOut(s)
        <5> DEFINE ending == [t \in Tasks |-> IF t \in FailTarget(s) \cap Calls THEN "failed"
                                             ELSE IF t \in Expiring \cap Calls THEN "timeout"
                                             ELSE None]
        <5>1. \E lost : down' = Enqueued(ending, lost)
          BY <4>2 DEF LeaseRunsOut
        <5>2. ending[u] \in {None, "failed"} \/ (u \in Expiring /\ ending[u] = "timeout")
          OBVIOUS
        <5> HIDE DEF ending
        <5> QED
          BY <5>1, <5>2
      <4> QED
        BY <2>3, <4>1, <4>2
    <3>2. AllTrue(u)
      BY <3>1, EnqueuedTrue, ExpiryTrue, Harmless
    <3> QED
      BY <2>1, <3>2, ResultNow, ResultNext
  <2>4. CASE Crash(s)
    BY <2>1, <2>4, ResultNow, ResultNext DEF Crash
  <2> QED
    BY <1>5, <2>2, <2>3, <2>4 DEF ServerOther
<1>6. CASE HubExpires
  BY <1>6, ExpiryEnqueuedTrue, ResultNow, ResultNext DEF HubExpires
<1>7. CASE HubRestarts
  <2>1. down'[u] = << >> /\ back'[u] \in {back[u], None} /\ UNCHANGED <<held, reply>>
    BY <1>7 DEF HubRestarts, LoseFrames
  <2> QED
    BY <2>1, ResultNow, ResultNext, Harmless DEF AllTrue
<1>8. CASE \E t \in Tasks : Expire(t)
  BY <1>8, ResultNow, ResultNext DEF Expire
<1> QED
  BY <1>1, <1>2, <1>3, <1>4, <1>5, <1>6, <1>7, <1>8 DEF PeerStep

LEMMA ClientReads ==
    ASSUME TypeOK, NEW t \in Tasks, Client(t), NEW u \in Tasks
    PROVE  /\ \/ down'[u] = down[u] /\ held'[u] \in {held[u], None}
              \/ /\ down[u] # << >> /\ down'[u] = Tail(down[u])
                 /\ held'[u] \in {held[u], None, Head(down[u])}
           /\ reply'[u] \in {reply[u], held[u]}
<1> USE DEF callerVars
<1>1. ASSUME NEW some, Reads(t, some)
      PROVE  down'[u] = down[u] \/ (down[u] # << >> /\ down'[u] = Tail(down[u]))
  BY <1>1 DEF Reads, TypeOK
<1>2. ASSUME NEW from, NEW a, GiveUp(t, from, a)
      PROVE  held'[u] \in {held[u], None} /\ UNCHANGED reply
  <2>1. held' = held \/ held' = [held EXCEPT ![t] = None]
    BY <1>2, GaveUp
  <2>2. UNCHANGED reply
    BY <1>2 DEF GiveUp
  <2> QED
    BY <2>1, <2>2 DEF TypeOK
<1>3. ASSUME NEW how, AbandonEnds(t, how)
      PROVE  held'[u] \in {held[u], None} /\ UNCHANGED reply
  BY <1>3 DEF AbandonEnds, TypeOK
<1>4. CASE ReadAccepted(t)
  BY <1>1, <1>4 DEF ReadAccepted
<1>5. CASE ReadRejected(t)
  BY <1>1, <1>2, <1>5 DEF ReadRejected
<1>6. CASE ReadAbandoned(t)
  BY <1>1, <1>3, <1>6 DEF ReadAbandoned
<1>7. CASE ReadResponse(t)
  <2>1. /\ down[t] # << >> /\ down' = [down EXCEPT ![t] = Tail(@)]
        /\ held' = [held EXCEPT ![t] = Head(down[t])] /\ UNCHANGED reply
    BY <1>7 DEF ReadResponse, Reads
  <2>2. CASE u = t
    BY <2>1, <2>2 DEF TypeOK
  <2>3. CASE u # t
    BY <2>1, <2>3 DEF TypeOK
  <2> QED
    BY <2>2, <2>3
<1>8. CASE Consume(t)
  <2>1. /\ held' = [held EXCEPT ![t] = None] /\ UNCHANGED down
        /\ reply' = reply \/ reply' = [reply EXCEPT ![t] = held[t]]
    BY <1>8 DEF Consume, TypeOK
  <2> QED
    BY <2>1 DEF TypeOK
<1>9. CASE \/ DeadlineFires(t) \/ SendFails(t) \/ SendTimesOut(t) \/ CallCancelled(t)
           \/ AbandonFails(t) \/ AbandonTimesOut(t)
  BY <1>2, <1>3, <1>9 DEF DeadlineFires, SendFails, SendTimesOut, CallCancelled, AbandonFails,
                         AbandonTimesOut
<1>10. CASE CallReturns(t) \/ Send(t)
  BY <1>10 DEF CallReturns, Send
<1> QED
  BY <1>4, <1>5, <1>6, <1>7, <1>8, <1>9, <1>10 DEF Client, ClientStep

LEMMA ClientResult ==
    ASSUME TypeOK, NEW t \in Tasks, Client(t), NEW u \in Tasks, ResultInv(u), Grows(u)
    PROVE  ResultInv(u)'
<1>1. True(u, back'[u])
  BY ClientFrame, ResultNow
<1>2. True(u, reply'[u])
  BY ClientReads, ResultNow
<1>3. CASE down'[u] = down[u] /\ held'[u] \in {held[u], None}
  BY <1>1, <1>2, <1>3, ResultNow, ResultNext, Harmless
<1>4. CASE /\ down[u] # << >> /\ down'[u] = Tail(down[u])
           /\ held'[u] \in {held[u], None, Head(down[u])}
  <2>1. AllTrue(u) /\ True(u, Head(down[u]))
    BY <1>4, TailTrue
  <2> QED
    BY <1>1, <1>2, <1>4, <2>1, ResultNow, ResultNext, Harmless
<1> QED
  BY <1>3, <1>4, ClientReads

LEMMA ServerStepResult ==
    ASSUME TypeOK, NEW t \in Tasks, ServerStep(t), NEW u \in Tasks,
           JobInv(u), ResultInv(u), Grows(u)
    PROVE  ResultInv(u)'
<1> USE DEF JobFrame, callerVars
<1>1. UNCHANGED <<down, held, reply>>
  BY DEF ServerStep, Deliver, Spawn, StartHandler, HandlerReturns, HandlerFails, Respond
<1>2. True(u, back'[u])
  <2>1. CASE Respond(t)
    <3>1. ASSUME NEW status \in StatusOf(job[t]), u = t
          PROVE  True(u, status)
      BY <3>1 DEF StatusOf, JobInv, Grows, True
    <3>2. \/ UNCHANGED back
          \/ \E status \in StatusOf(job[t]) : back' = [back EXCEPT ![t] = status]
      BY <2>1 DEF Respond
    <3>3. \/ back'[u] = back[u]
          \/ u = t /\ back'[u] \in StatusOf(job[t])
      BY <3>2 DEF TypeOK
    <3>4. True(u, back[u])
      BY ResultNow
    <3> QED
      BY <3>1, <3>3, <3>4
  <2>2. CASE ~Respond(t)
    <3>1. back' = back
      <4>1. Deliver(t) \/ Spawn(t) \/ StartHandler(t) => back' = back
        BY DEF Deliver, Spawn, StartHandler
      <4>2. HandlerReturns(t) \/ HandlerFails(t) => back' = back
        BY DEF HandlerReturns, HandlerFails
      <4> QED
        BY <2>2, <4>1, <4>2 DEF ServerStep
    <3> QED
      BY <3>1, ResultNow
  <2> QED
    BY <2>1, <2>2
<1> QED
  BY <1>1, <1>2, ResultNow, ResultNext

LEMMA ExecutionGrows ==
    ASSUME TypeOK, [Next]_vars, NEW u \in Tasks, JobInv(u)
    PROVE  Grows(u)
<1> USE DEF jobVars, hubVars, frames, callerVars, PeerFrame
<1>1. ASSUME NEW t \in Tasks, ServerStep(t)
      PROVE  Grows(u)
  <2>1. CASE StartHandler(t) \/ HandlerReturns(t)
    BY <2>1 DEF StartHandler, HandlerReturns, JobMoves, JobFrame, JobInv, Grows, Excused, TypeOK,
                None
  <2>2. CASE Deliver(t) \/ Spawn(t) \/ HandlerFails(t) \/ Respond(t)
    BY <2>2 DEF Deliver, Spawn, HandlerFails, Respond, JobFrame, Grows, Excused
  <2> QED
    BY <1>1, <2>1, <2>2 DEF ServerStep
<1>2. ASSUME NEW t \in Tasks, Client(t)
      PROVE  Grows(u)
  BY <1>2, ClientFrame DEF Grows, Excused
<1>3. ASSUME NEW t \in Tasks, HubStep(t)
      PROVE  Grows(u)
  BY <1>3 DEF HubStep, HubAccepts, HubRejects, HubAbandons, HubReplies, HubResponds,
              HandleCommand, Grows, Excused
<1>4. ASSUME NEW p \in Peers, PeerStep(p) \/ LinkBreaks(p)
      PROVE  Grows(u)
  BY <1>4 DEF PeerStep, Connect, ConnectAgain, Disconnect, LinkEnds, LinkBreaks, LinkLost,
              PollerStops, Grows, Excused
<1>5. ASSUME NEW s \in Servers, ServerOther(s)
      PROVE  Grows(u)
  BY <1>5 DEF ServerOther, Register, Leave, Unregister, Declare, LeaseRunsOut, Crash, Grows,
              Excused
<1>6. CASE HubExpires \/ HubRestarts \/ UNCHANGED vars
  BY <1>6 DEF HubExpires, HubRestarts, vars, Grows, Excused
<1>7. ASSUME NEW t \in Tasks, Expire(t)
      PROVE  Grows(u)
  BY <1>7 DEF Expire, Grows, Excused
<1> QED
  BY <1>1, <1>2, <1>3, <1>4, <1>5, <1>6, <1>7 DEF Next, Client
-----------------------------------------------------------------------------
(* The inductive step, actor by actor. *)

LEMMA InvStep == IInv /\ [Next]_vars => IInv'
<1> SUFFICES ASSUME IInv, [Next]_vars
             PROVE  IInv'
  OBVIOUS
<1>1. TypeOK /\ TypeOK'
  BY TypeStep DEF IInv
<1>2. \A u \in Tasks : DeliveryInv(u) /\ RequestsInv(u)
  BY InvByRequest
<1>3. ASSUME NEW u \in Tasks
      PROVE  DeliveryInv(u)' /\ RequestsInv(u)'
  <2>1. DeliveryInv(u) /\ RequestInv(u) /\ JobInv(u) /\ ResultInv(u) /\ Grows(u)
    BY <1>1, <1>2, ExecutionGrows DEF RequestsInv
  <2>2. CASE UNCHANGED vars
    BY <2>1, <2>2 DEF vars, hubVars, frames, callerVars, jobVars, DeliveryInv, EndsOf, InHand,
                      Whole, RequestsInv, RequestInv, JobInv, ResultInv, Responses, Excused, Has
  <2>3. ASSUME NEW t \in Tasks, HubStep(t)
        PROVE  DeliveryInv(u)' /\ RequestsInv(u)'
    BY <1>1, <2>1, <2>3, HubStepDelivery, HubStepRequest, HubStepResult DEF RequestsInv
  <2>4. ASSUME NEW t \in Tasks, Client(t)
        PROVE  DeliveryInv(u)' /\ RequestsInv(u)'
    <3>1. DeliveryInv(u)'
      BY <2>1, <2>4, ClientFrame, CallersDelivery
    <3> QED
      BY <1>1, <2>1, <2>4, <3>1, ClientRequest, ClientResult DEF RequestsInv
  <2>5. ASSUME NEW t \in Tasks, ServerStep(t)
        PROVE  DeliveryInv(u)' /\ RequestsInv(u)'
    BY <1>1, <2>1, <2>5, ServerStepDelivery, ServerStepRequest, ServerStepResult DEF RequestsInv
  <2>6. ASSUME \/ \E p \in Peers : PeerStep(p) \/ LinkBreaks(p)
               \/ \E s \in Servers : ServerOther(s)
               \/ HubExpires \/ HubRestarts
               \/ \E t \in Tasks : Expire(t)
        PROVE  DeliveryInv(u)' /\ RequestsInv(u)'
    <3>1. ASSUME NEW t \in Tasks, Expire(t)
          PROVE  DeliveryInv(u)'
      BY <2>1, <3>1, CallersDelivery DEF Expire, frames
    <3>2. DeliveryInv(u)'
      BY <1>1, <2>1, <2>6, <3>1, PeerStepDelivery, ServerOtherDelivery, HubOtherDelivery
    <3> QED
      BY <1>1, <2>1, <2>6, <3>2, ConnectionsRequest, ConnectionsResult DEF RequestsInv
  <2> QED
    BY <2>2, <2>3, <2>4, <2>5, <2>6 DEF Next, Client
<1>4. delivery' \subseteq Tasks
  BY <1>1 DEF TypeOK
<1>5. DeliveryHasEnds' /\ DeliveryInHand'
  BY <1>3, <1>4 DEF DeliveryHasEnds, DeliveryInHand, DeliveryInv, EndsOf, InHand, Whole
<1> QED
  BY <1>1, <1>3, <1>5 DEF IInv, RequestsInv

(* In every reachable state of the Hub, its peers and their requests: the   *)
(* deliveries have both ends and their requests in hand, each request is    *)
(* written to the Hub once and handled at most once, and a response says    *)
(* nothing that has not happened.                                           *)
THEOREM Invariant == Spec => []IInv
BY InvInit, InvStep, PTL DEF Spec

(* No end of a connection, of a registration, of a lease or of the Hub      *)
(* leaves a delivery behind that nobody will answer.                        *)
THEOREM DeliveriesHaveEnds == Spec => []DeliveryHasEnds
<1>1. IInv => DeliveryHasEnds
  BY DEF IInv
<1> QED
  BY <1>1, Invariant, PTL

(* While the connection of a server is whole, no request of a delivery to   *)
(* it is lost on the way, whatever its queues and its poller do.            *)
THEOREM DeliveriesInHand == Spec => []DeliveryInHand
<1>1. IInv => DeliveryInHand
  BY DEF IInv
<1> QED
  BY <1>1, Invariant, PTL
-----------------------------------------------------------------------------
(* The WebSocket backend implements RpcContract. *)

LEMMA ContractInit == Init => RPC!Init
<1> SUFFICES ASSUME Init
             PROVE  RPC!Init
  OBVIOUS
<1>1. execution = [t \in Tasks |-> "none"] /\ answer = [t \in Tasks |-> "none"] /\ expired = {}
  BY DEF Init, None
<1>2. [t \in Tasks |-> IF answer[t] = "unknown" THEN "error" ELSE answer[t]]
      = [t \in Tasks |-> "none"]
  BY <1>1
<1>3. [t \in Tasks |-> t \in expired] = [t \in Tasks |-> FALSE]
  <2>1. \A t \in Tasks : (t \in expired) = FALSE
    BY <1>1
  <2> QED
    BY <2>1, Zenon
<1> QED
  BY <1>1, <1>2, <1>3 DEF RPC!Init

LEMMA SilentStep ==
    ASSUME UNCHANGED <<execution, expired, answer>>
    PROVE  UNCHANGED RPC!vars
BY DEF RPC!vars

LEMMA AnswerRefines ==
    ASSUME TypeOK, NEW t \in Tasks, RequestInv(t), phase[t] # "closed",
           NEW a \in {"value", "accepted", "error", "timeout", "unknown"}, Tells(t, a),
           a = "value" => execution[t] = "returned",
           a = "timeout" => Excused(t),
           UNCHANGED <<execution, expired>>
    PROVE  RPC!Next
<1> DEFINE told == IF a = "unknown" THEN "error" ELSE a
           Told == [u \in Tasks |-> IF answer[u] = "unknown" THEN "error" ELSE answer[u]]
           Late == [u \in Tasks |-> u \in expired]
<1>1. answer[t] = None /\ answer' = [answer EXCEPT ![t] = a]
  BY DEF RequestInv, Tells
<1>2. Told' = [Told EXCEPT ![t] = told] /\ Told[t] = "none"
  <2>1. answer \in [Tasks -> {None, "value", "accepted", "error", "timeout", "unknown"}]
    BY DEF TypeOK
  <2>2. Told[t] = "none"
    BY <1>1 DEF None
  <2>3. answer'[t] = a /\ \A u \in Tasks \ {t} : answer'[u] = answer[u]
    BY <1>1, <2>1
  <2> QED
    BY <2>2, <2>3
<1>3. told \in RPC!Answers \ {"none"}
  BY DEF RPC!Answers
<1>4. told = "value" => execution[t] = "returned"
  OBVIOUS
<1>5. told = "timeout" => Late[t] \/ execution[t] # "none"
  BY DEF Excused, None
<1>6. Late' = Late
  OBVIOUS
<1>7. RPC!Answer(t, told)
  BY <1>2, <1>3, <1>4, <1>5, <1>6 DEF RPC!Answer
<1> QED
  BY <1>3, <1>7 DEF RPC!Next

LEMMA ClientRefines ==
    ASSUME TypeOK, NEW t \in Tasks, Client(t), RequestInv(t), ResultInv(t)
    PROVE  RPC!Next \/ UNCHANGED RPC!vars
<1>1. UNCHANGED <<execution, expired>>
  BY ClientFrame DEF jobVars
<1>2. CASE UNCHANGED answer
  BY <1>1, <1>2, SilentStep
<1>3. ASSUME NEW from, NEW a \in {"error", "timeout", "unknown"}, GiveUp(t, from, a),
             "closed" \notin from, a = "timeout" => Excused(t)
      PROVE  RPC!Next
  BY <1>1, <1>3, AnswerRefines DEF GiveUp, Moves
<1>4. CASE ReadAccepted(t)
  <2>1. UNCHANGED answer \/ (phase[t] # "closed" /\ Tells(t, "accepted"))
    BY <1>4 DEF ReadAccepted, Moves
  <2> QED
    BY <1>1, <1>2, <2>1, AnswerRefines
<1>5. CASE ReadRejected(t)
  <2>1. GiveUp(t, {"sending"}, "error") \/ UNCHANGED answer
    BY <1>5 DEF ReadRejected, callerVars
  <2> QED
    BY <1>2, <1>3, <2>1
<1>6. CASE ReadAbandoned(t)
  BY <1>2, <1>6 DEF ReadAbandoned, AbandonEnds, callerVars
<1>7. CASE \/ ReadResponse(t) \/ Consume(t) \/ AbandonFails(t) \/ AbandonTimesOut(t)
           \/ Send(t)
  BY <1>2, <1>7 DEF ReadResponse, Consume, AbandonFails, AbandonTimesOut, AbandonEnds, Send
<1>8. CASE CallReturns(t)
  <2>1. phase[t] # "closed" /\ Tells(t, Decode(reply[t]))
    BY <1>8 DEF CallReturns, Moves
  <2>2. Decode(reply[t]) = "value" => execution[t] = "returned"
    BY DEF Decode, ResultInv, Responses
  <2>3. Decode(reply[t]) = "timeout" => Excused(t)
    BY DEF Decode, ResultInv, Responses
  <2>4. Decode(reply[t]) \in {"value", "timeout", "error"}
    BY DEF Decode
  <2> QED
    BY <1>1, <2>1, <2>2, <2>3, <2>4, AnswerRefines
<1>9. CASE DeadlineFires(t)
  <2>1. GiveUp(t, Pending, "timeout") /\ Excused(t) /\ "closed" \notin Pending
    BY <1>9 DEF DeadlineFires, Excused, Pending
  <2> QED
    BY <1>3, <2>1
<1>10. CASE CallCancelled(t) \/ SendFails(t) \/ SendTimesOut(t)
  <2>1. \E from, a : /\ GiveUp(t, from, a) /\ "closed" \notin from
                     /\ a \in {"error", "unknown"}
    BY <1>10 DEF CallCancelled, SendFails, SendTimesOut, Pending
  <2> QED
    BY <1>3, <2>1
<1> QED
  BY <1>4, <1>5, <1>6, <1>7, <1>8, <1>9, <1>10 DEF Client, ClientStep

LEMMA ServerRefines ==
    ASSUME TypeOK, NEW t \in Tasks, ServerStep(t), JobInv(t)
    PROVE  RPC!Next \/ UNCHANGED RPC!vars
<1> USE DEF JobFrame, JobMoves, callerVars
<1>1. UNCHANGED <<answer, expired>>
  BY DEF ServerStep, Deliver, Spawn, StartHandler, HandlerReturns, HandlerFails, Respond
<1>2. CASE UNCHANGED execution
  BY <1>1, <1>2, SilentStep
<1>3. CASE StartHandler(t) /\ t \notin expired
  <2>1. execution[t] = "none" /\ execution' = [execution EXCEPT ![t] = "begun"]
    BY <1>3 DEF StartHandler, JobInv, None
  <2>2. RPC!Begin(t)
    BY <1>1, <1>3, <2>1 DEF RPC!Begin
  <2> QED
    BY <2>2 DEF RPC!Next
<1>4. CASE HandlerReturns(t)
  <2>1. execution[t] = "begun" /\ execution' = [execution EXCEPT ![t] = "returned"]
    BY <1>4 DEF HandlerReturns, JobInv
  <2>2. RPC!Return(t)
    BY <1>1, <2>1 DEF RPC!Return
  <2> QED
    BY <2>2 DEF RPC!Next
<1> QED
  BY <1>2, <1>3, <1>4 DEF ServerStep, Deliver, Spawn, StartHandler, HandlerFails, Respond

(* Through the Hub, too, a request is executed at most once, never begun    *)
(* after its deadline, answered once, and said to have returned a value     *)
(* only when its handler did.                                               *)
THEOREM Refinement == Spec => Contract
<1>1. IInv /\ [Next]_vars => [RPC!Next]_(RPC!vars)
  <2> SUFFICES ASSUME IInv, [Next]_vars
               PROVE  RPC!Next \/ UNCHANGED RPC!vars
    OBVIOUS
  <2>1. TypeOK /\ \A u \in Tasks : RequestInv(u) /\ JobInv(u) /\ ResultInv(u)
    BY DEF IInv
  <2>2. CASE UNCHANGED vars
    BY <2>2, SilentStep DEF vars, callerVars, jobVars
  <2>3. ASSUME NEW t \in Tasks, Client(t)
        PROVE  RPC!Next \/ UNCHANGED RPC!vars
    BY <2>1, <2>3, ClientRefines
  <2>4. ASSUME NEW t \in Tasks, ServerStep(t)
        PROVE  RPC!Next \/ UNCHANGED RPC!vars
    BY <2>1, <2>4, ServerRefines
  <2>5. ASSUME NEW t \in Tasks, Expire(t)
        PROVE  RPC!Next
    <3> DEFINE Late == [u \in Tasks |-> u \in expired]
           Told == [u \in Tasks |-> IF answer[u] = "unknown" THEN "error" ELSE answer[u]]
    <3>1. /\ t \notin expired /\ expired' = expired \cup {t}
          /\ UNCHANGED <<execution, answer>>
      BY <2>5 DEF Expire, callerVars, jobVars
    <3>2. Late' = [Late EXCEPT ![t] = TRUE]
      <4>1. \A u \in Tasks : (u \in expired') = IF u = t THEN TRUE ELSE u \in expired
        <5>1. \A u \in Tasks : (u \in expired') <=> (u = t \/ u \in expired)
          BY <3>1
        <5>2. ASSUME NEW u \in Tasks, u = t
              PROVE  (u \in expired') = TRUE
          BY <5>1, <5>2
        <5>3. ASSUME NEW u \in Tasks, u # t, u \in expired
              PROVE  (u \in expired') = TRUE /\ (u \in expired) = TRUE
          BY <5>1, <5>3
        <5>4. ASSUME NEW u \in Tasks, u # t, u \notin expired
              PROVE  (u \in expired') = FALSE /\ (u \in expired) = FALSE
          BY <5>1, <5>4
        <5> QED
          BY <5>2, <5>3, <5>4, Zenon
      <4>2. [Late EXCEPT ![t] = TRUE] = [u \in Tasks |-> IF u = t THEN TRUE ELSE u \in expired]
        BY Zenon
      <4> QED
        BY <4>1, <4>2, Zenon
    <3>3. ~Late[t]
      BY <3>1
    <3>4. Told' = Told
      BY <3>1
    <3>5. RPC!Expire(t)
      BY <3>1, <3>2, <3>3, <3>4 DEF RPC!Expire
    <3> QED
      BY <3>5 DEF RPC!Next
  <2>6. ASSUME \/ \E t \in Tasks : HubStep(t)
               \/ \E p \in Peers : PeerStep(p) \/ LinkBreaks(p)
               \/ \E s \in Servers : ServerOther(s)
               \/ HubExpires \/ HubRestarts
        PROVE  UNCHANGED RPC!vars
    <3>1. UNCHANGED <<execution, expired, answer>>
      BY <2>6 DEF callerVars, jobVars, PeerFrame, HubStep, HubAccepts, HubRejects, HubAbandons,
                  HubReplies, HubResponds, HandleCommand, PeerStep, Connect, ConnectAgain,
                  Disconnect, LinkEnds, LinkBreaks, LinkLost, PollerStops, ServerOther, Register,
                  Leave, Unregister, Declare, LeaseRunsOut, Crash, HubExpires, HubRestarts
    <3> QED
      BY <3>1, SilentStep
  <2> QED
    BY <2>2, <2>3, <2>4, <2>5, <2>6 DEF Next, Client
<1> QED
  BY <1>1, ContractInit, Invariant, PTL DEF Spec, Contract, RPC!Spec
=============================================================================
