---------------------------- MODULE WebSocketHub -----------------------------
(***************************************************************************)
(* Delivery of RPC requests through the WebSocket backend of the JobQueue:  *)
(* the Hub (connections, peer states, deliveries in flight, the bounded     *)
(* outbound queues), the connection of each peer, the callers and the       *)
(* handlers.  Frames about different requests commute, so the frames on the *)
(* way are kept per request: up[t] from its source to the Hub, down[t] from *)
(* the Hub to its source, back[t] from its server to the Hub.  Hub handlers *)
(* run under the Hub's lock and are atomic; the result of a command is      *)
(* queued under a second acquisition of it (due[t]).  A connection that     *)
(* ends loses the frames on it.                                             *)
(***************************************************************************)
EXTENDS Naturals, Sequences, FiniteSets

CONSTANTS
    Tasks,            \* the requests, one uuid4 each
    Calls,            \* those issued by call(); the others by submit()
    Callers,          \* processes that issue requests
    Servers,          \* processes of the service that executes them
    Source,           \* the caller of each request
    QueueSize,        \* settings.queue_size
    Failures,         \* which failures happen, see FailureKinds
    MaxFaults,        \* bound on the failures of one behaviour
    MaxRequests,      \* bound on the requests of one behaviour
    NoServer

(* link: a connection breaks.  overload: the control frames of a connection *)
(* do not fit.  lease: a heartbeat is missed.  crash: a server dies.        *)
(* hub: the Hub restarts.  command: a command runs into its timeout.        *)
(* cancel: a caller is cancelled.                                           *)
FailureKinds == {"link", "overload", "lease", "crash", "hub", "command", "cancel"}
Peers == Callers \cup Servers

ASSUME ConstantsAssumption ==
    /\ Calls \subseteq Tasks
    /\ Callers \cap Servers = {}
    /\ Source \in [Tasks -> Callers]
    /\ QueueSize \in Nat \ {0}
    /\ Failures \subseteq FailureKinds
    /\ MaxFaults \in Nat
    /\ MaxRequests \in Nat
    /\ NoServer \notin Servers

VARIABLES
    conn,             \* the Hub's connections
    state,            \* the Hub's record of each server: "away" is starting,
                      \* maintenance or draining, "stopped" is no record too
    delivery,         \* the requests in the Hub's deliveries
    server,           \* the server a request was delivered to
    due,              \* the command results the Hub has yet to queue
    up, down, back,   \* the frames on the way
    link,             \* the connection as its peer sees it
    phase,            \* where the coroutine of each call or submit stands
    cleanup,          \* where its abandon command stands
    held,             \* responses the client has read but not consumed
    reply,            \* the result set on the future of each call
    answer,           \* what call() or submit() gave its user
    job,              \* where the request is on the side of its server
    execution,        \* how far the handler of each request has come
    expired,          \* whether the deadline of the request has passed
    faults            \* how many failures have happened

hubVars == <<conn, state, delivery, server, due>>
frames == <<up, down, back>>
callerVars == <<phase, cleanup, held, reply, answer>>
jobVars == <<job, execution>>
vars == <<hubVars, frames, link, callerVars, jobVars, expired, faults>>

None == "none"
Terminal == {"done", "failed", "timeout"}
Results == {"accepted", "rejected", "abandoned"}
Pending == {"sending", "waiting"}
Ended == {"returned", "raised", "timedout"}
JobStates == {None, "queued", "incoming", "spawned", "running", "over", "lost"} \cup Ended

TypeOK ==
    /\ conn \in [Peers -> {None, "open", "closing"}]
    /\ state \in [Servers -> {"ready", "away", "stopped"}]
    /\ delivery \subseteq Tasks
    /\ server \in [Tasks -> Servers \cup {NoServer}]
    /\ due \in [Tasks -> Results \cup {None}]
    /\ up \in [Tasks -> Seq({"send", "abandon"})]
    /\ down \in [Tasks -> Seq(Results \cup Terminal)]
    /\ back \in [Tasks -> Terminal \cup {None}]
    /\ link \in [Peers -> {"down", "up", "broken", "dead"}]
    /\ phase \in [Tasks -> {"idle", "closed"} \cup Pending]
    /\ cleanup \in [Tasks -> {None, "sent", "done", "unanswered"}]
    /\ held \in [Tasks -> Terminal \cup {None}]
    /\ reply \in [Tasks -> Terminal \cup {None, "unavailable"}]
    /\ answer \in [Tasks -> {None, "value", "accepted", "error", "timeout", "unknown"}]
    /\ job \in [Tasks -> JobStates]
    /\ execution \in [Tasks -> {None, "begun", "returned"}]
    /\ expired \subseteq Tasks
    /\ faults \in 0 .. MaxFaults

Init ==
    /\ conn = [p \in Peers |-> None] /\ state = [s \in Servers |-> "stopped"]
    /\ delivery = {} /\ server = [t \in Tasks |-> NoServer] /\ due = [t \in Tasks |-> None]
    /\ up = [t \in Tasks |-> << >>] /\ down = [t \in Tasks |-> << >>]
    /\ back = [t \in Tasks |-> None]
    /\ link = [p \in Peers |-> "down"]
    /\ phase = [t \in Tasks |-> "idle"] /\ cleanup = [t \in Tasks |-> None]
    /\ held = [t \in Tasks |-> None] /\ reply = [t \in Tasks |-> None]
    /\ answer = [t \in Tasks |-> None]
    /\ job = [t \in Tasks |-> None] /\ execution = [t \in Tasks |-> None]
    /\ expired = {} /\ faults = 0

Issued(p) == {t \in Tasks : Source[t] = p}
At(p) == {t \in Tasks : server[t] = p}
Only(T, frame) == [t \in Tasks |-> IF t \in T THEN frame ELSE None]
Drop(T, value, f) == [t \in Tasks |-> IF t \in T THEN value ELSE f[t]]

Fault(kind) == kind \in Failures /\ faults < MaxFaults /\ faults' = faults + 1
------------------------------------------------------------------------------
(* What the Hub sends to callers: frame[t] goes to the source of t, when it *)
(* is connected.  What does not fit is lost and closes that connection.     *)

Losses(frame) ==
    {lost \in SUBSET {t \in Tasks : frame[t] # None /\ conn[Source[t]] # None} :
        lost # {} => "overload" \in Failures /\ faults < MaxFaults}

Enqueued(frame, lost) ==
    [t \in Tasks |-> IF frame[t] # None /\ conn[Source[t]] # None /\ t \notin lost
                     THEN Append(down[t], frame[t]) ELSE down[t]]

Overloaded(lost) ==
    [p \in Peers |-> IF Issued(p) \cap lost # {} THEN "closing" ELSE conn[p]]

Counted(lost) == IF lost = {} THEN faults ELSE faults + 1

Enqueue(frame) ==
    \E lost \in Losses(frame) :
       /\ down' = Enqueued(frame, lost)
       /\ conn' = Overloaded(lost)
       /\ faults' = Counted(lost)
------------------------------------------------------------------------------
(* The Hub: commands and responses.                                         *)

Ready == {s \in Servers : state[s] = "ready" /\ conn[s] # None}
Queued(s) == {t \in At(s) : job[t] = "queued"}
Expiring == delivery \cap expired

(* Each command first ends the deliveries whose deadline has passed; a      *)
(* connection has one command handled at a time.                            *)
HandleCommand(t, op, result) ==
    /\ up[t] # << >> /\ Head(up[t]) = op
    /\ conn[Source[t]] # None
    /\ \A u \in Issued(Source[t]) : due[u] = None
    /\ up' = [up EXCEPT ![t] = Tail(@)]
    /\ due' = [due EXCEPT ![t] = result]
    /\ Enqueue(Only(Expiring \cap Calls, "timeout"))
    /\ UNCHANGED <<state, back, link, callerVars, execution, expired>>

(* send_many: the chosen server takes the request into its outbound queue.  *)
HubAccepts(t, s) ==
    /\ HandleCommand(t, "send", "accepted")
    /\ s \in Ready /\ Cardinality(Queued(s)) < QueueSize
    /\ delivery' = (delivery \ Expiring) \cup {t}
    /\ server' = [server EXCEPT ![t] = s]
    /\ job' = [job EXCEPT ![t] = "queued"]

(* No server is ready, or the one chosen applies backpressure.              *)
HubRejects(t) ==
    /\ HandleCommand(t, "send", "rejected")
    /\ \/ Ready = {}
       \/ \E s \in Ready : Cardinality(Queued(s)) >= QueueSize \/ "overload" \in Failures
    /\ delivery' = delivery \ Expiring
    /\ UNCHANGED <<server, job>>

HubAbandons(t) ==
    /\ HandleCommand(t, "abandon", "abandoned")
    /\ delivery' = delivery \ (Expiring \cup {t})
    /\ UNCHANGED <<server, job>>

(* Mutant of HubReplies: a response overtakes the result, or replaces it. *)
HubRepliesUnlessAnswered(t) ==
    /\ due[t] # None /\ due' = [due EXCEPT ![t] = None]
    /\ IF down[t] = << >> THEN Enqueue(Only({t}, due[t])) ELSE UNCHANGED <<down, conn, faults>>
    /\ UNCHANGED <<state, delivery, server, up, back, link, callerVars, jobVars, expired>>

HubReplies(t) ==
    /\ due[t] # None /\ due' = [due EXCEPT ![t] = None]
    /\ Enqueue(Only({t}, due[t]))
    /\ UNCHANGED <<state, delivery, server, up, back, link, callerVars, jobVars, expired>>

(* Mutant of HubResponds: the delivery is still there after its response. *)
HubRespondsAndKeeps(t) ==
    /\ back[t] # None /\ conn[server[t]] # None
    /\ back' = [back EXCEPT ![t] = None]
    /\ Enqueue(Only({t} \cap delivery \cap Calls, back[t]))
    /\ UNCHANGED <<state, delivery, server, due, up, link, callerVars, jobVars, expired>>

HubResponds(t) ==
    /\ back[t] # None /\ conn[server[t]] # None
    /\ back' = [back EXCEPT ![t] = None]
    /\ delivery' = delivery \ {t}
    /\ Enqueue(Only({t} \cap delivery \cap Calls, back[t]))
    /\ UNCHANGED <<state, server, due, up, link, callerVars, jobVars, expired>>

(* The expiry loop, or a command of a server that is not about a request.   *)
HubExpires ==
    /\ Expiring # {}
    /\ delivery' = delivery \ Expiring
    /\ Enqueue(Only(Expiring \cap Calls, "timeout"))
    /\ UNCHANGED <<state, server, due, up, back, link, callerVars, jobVars, expired>>
------------------------------------------------------------------------------
(* The Hub: connections and peer states.                                    *)

PeerFrame == UNCHANGED <<server, due, up, back, link, callerVars, jobVars, expired>>

(* register or set_state, on the connection of the server. *)
Declare(s, from, to) ==
    /\ link[s] = "up" /\ conn[s] # None
    /\ state[s] \in from /\ state' = [state EXCEPT ![s] = to]
    /\ PeerFrame

Register(s) ==
    /\ Declare(s, {"away", "stopped"}, "ready")
    /\ delivery' = delivery \ Expiring
    /\ Enqueue(Only(Expiring \cap Calls, "timeout"))

Leave(s) ==
    /\ Declare(s, {"ready"}, "away")
    /\ delivery' = delivery \ Expiring
    /\ Enqueue(Only(Expiring \cap Calls, "timeout"))

(* Mutant of FailTarget: what waits in the outbound queue is not answered. *)
FailTargetUnqueued(s) == {t \in delivery \cap At(s) : job[t] # "queued"}

(* The deliveries _fail_target_deliveries_locked ends. *)
FailTarget(s) == delivery \cap At(s)

Unregister(s) ==
    /\ Declare(s, {"ready", "away"}, "stopped")
    /\ delivery' = delivery \ (Expiring \cup FailTarget(s))
    /\ Enqueue([t \in Tasks |-> IF t \in Expiring \cap Calls THEN "timeout"
                                ELSE IF t \in FailTarget(s) \cap Calls THEN "failed" ELSE None])

(* A lease runs out: _expire_locked. *)
LeaseRunsOut(s) ==
    /\ "lease" \in Failures /\ faults < MaxFaults
    /\ state[s] \in {"ready", "away"} /\ state' = [state EXCEPT ![s] = "stopped"]
    /\ delivery' = delivery \ (Expiring \cup FailTarget(s))
    /\ LET frame == [t \in Tasks |-> IF t \in FailTarget(s) \cap Calls THEN "failed"
                                     ELSE IF t \in Expiring \cap Calls THEN "timeout" ELSE None]
       IN  \E lost \in Losses(frame) :
              down' = Enqueued(frame, lost) /\ conn' = Overloaded(lost)
    /\ faults' = faults + 1
    /\ PeerFrame

(* Mutant of Connect: a peer may connect beside its old connection. *)
ConnectAgain(p) ==
    /\ link[p] = "down" /\ link' = [link EXCEPT ![p] = "up"]
    /\ conn' = [conn EXCEPT ![p] = "open"]
    /\ held' = Drop(Issued(p), None, held)
    /\ UNCHANGED <<state, delivery, server, due, frames, phase, cleanup, reply, answer, jobVars,
                   expired, faults>>

(* hello: the Hub refuses a peer it still has a connection of.  The         *)
(* commands of the old connection fail when it ends, and their coroutines   *)
(* run before the handshake is over.                                        *)
Connect(p) ==
    /\ conn[p] = None
    /\ \A t \in Issued(p) : phase[t] # "sending" /\ cleanup[t] # "sent"
    /\ ConnectAgain(p)

LoseFrames(P) ==
    /\ up' = [t \in Tasks |-> IF Source[t] \in P THEN << >> ELSE up[t]]
    /\ due' = [t \in Tasks |-> IF Source[t] \in P THEN None ELSE due[t]]
    /\ back' = [t \in Tasks |-> IF server[t] \in P THEN None ELSE back[t]]
    /\ job' = [t \in Tasks |-> IF server[t] \in P /\ job[t] = "queued" THEN "lost" ELSE job[t]]

(* The handler of a connection ends (_disconnect_locked): deliveries to the *)
(* peer fail, those from it go.                                             *)
Disconnect(p) ==
    /\ conn[p] = "closing" \/ (conn[p] = "open" /\ link[p] # "up")
    /\ LoseFrames({p})
    /\ state' = [s \in Servers |-> IF s = p THEN "stopped" ELSE state[s]]
    /\ delivery' = delivery \ (FailTarget(p) \cup Issued(p))
    /\ LET frame == Only((FailTarget(p) \cap Calls) \ Issued(p), "failed")
       IN  \E lost \in Losses(frame) :
              /\ down' = Drop(Issued(p), << >>, Enqueued(frame, lost))
              /\ conn' = [Overloaded(lost) EXCEPT ![p] = None]
              /\ faults' = Counted(lost)
    /\ UNCHANGED <<server, link, callerVars, execution, expired>>

(* The Hub restarts: it forgets everything. *)
HubRestarts ==
    /\ Fault("hub")
    /\ LoseFrames(Peers) /\ down' = [t \in Tasks |-> << >>]
    /\ conn' = [p \in Peers |-> None] /\ state' = [s \in Servers |-> "stopped"]
    /\ delivery' = {}
    /\ UNCHANGED <<server, link, callerVars, execution, expired>>
------------------------------------------------------------------------------
(* A peer's end of the connection.                                          *)

LinkLost(p) ==
    /\ link[p] = "up" /\ link' = [link EXCEPT ![p] = "broken"]
    /\ UNCHANGED <<hubVars, frames, callerVars, jobVars, expired>>

LinkBreaks(p) == Fault("link") /\ conn[p] = "open" /\ LinkLost(p)

(* The Hub has closed the connection. *)
LinkEnds(p) == conn[p] # "open" /\ LinkLost(p) /\ UNCHANGED faults

(* The poller meets the broken connection and ends: the calls that wait are *)
(* answered, requests it had not taken are dropped, the backend closes.     *)
PollerStops(p) ==
    /\ link[p] = "broken" /\ link' = [link EXCEPT ![p] = "down"]
    /\ LET waiting == {t \in Issued(p) \cap Calls : phase[t] \in Pending}
       IN  /\ \A t \in waiting : held[t] = None
           /\ reply' = [t \in Tasks |-> IF t \in waiting /\ reply[t] = None
                                        THEN "unavailable" ELSE reply[t]]
    /\ job' = [t \in Tasks |-> IF t \in At(p) /\ job[t] = "incoming" THEN "lost" ELSE job[t]]
    /\ UNCHANGED <<hubVars, frames, phase, cleanup, held, answer, execution, expired, faults>>

Crash(s) ==
    /\ Fault("crash")
    /\ link[s] # "dead" /\ link' = [link EXCEPT ![s] = "dead"]
    /\ job' = [t \in Tasks |-> IF t \in At(s) /\ job[t] \notin {"queued", "over"} THEN "lost"
                               ELSE job[t]]
    /\ UNCHANGED <<hubVars, frames, callerVars, execution, expired>>
------------------------------------------------------------------------------
(* The callers.                                                             *)

CallerFrame == UNCHANGED <<hubVars, back, link, jobVars, expired>>
Moves(t, from, to) == phase[t] \in from /\ phase' = [phase EXCEPT ![t] = to]
Tells(t, a) == answer' = [answer EXCEPT ![t] = a]

(* A command is written; the Hub may have dropped the connection. *)
Write(t, op) ==
    up' = IF conn[Source[t]] # None THEN [up EXCEPT ![t] = Append(@, op)] ELSE up

Begun(t) == phase[t] # "idle"
MayIssue(t) == Begun(t) \/ Cardinality({u \in Tasks : Begun(u)}) < MaxRequests

Send(t) ==
    /\ MayIssue(t)
    /\ link[Source[t]] = "up"
    /\ Moves(t, {"idle"}, "sending") /\ Write(t, "send")
    /\ UNCHANGED <<down, cleanup, held, reply, answer, faults>> /\ CallerFrame

(* A request that ends without a response: call() abandons it, and drops    *)
(* the response at once when there is no connection.                        *)
GiveUp(t, from, a) ==
    /\ Moves(t, from, "closed") /\ Tells(t, a)
    /\ IF t \in Calls /\ link[Source[t]] = "up"
       THEN /\ Write(t, "abandon")
            /\ cleanup' = [cleanup EXCEPT ![t] = "sent"]
            /\ UNCHANGED held
       ELSE held' = [held EXCEPT ![t] = None] /\ UNCHANGED <<up, cleanup>>
    /\ UNCHANGED reply /\ CallerFrame

(* The command cannot be sent, or its connection ends. *)
SendFails(t) ==
    /\ MayIssue(t)
    /\ link[Source[t]] # "up"
    /\ GiveUp(t, {"idle", "sending"}, "unknown") /\ UNCHANGED <<down, faults>>

SendTimesOut(t) ==
    /\ Fault("command")
    /\ GiveUp(t, {"sending"}, "unknown") /\ UNCHANGED down

DeadlineFires(t) ==
    /\ t \in expired
    /\ GiveUp(t, Pending, "timeout") /\ UNCHANGED <<down, faults>>

CallCancelled(t) ==
    /\ Fault("cancel")
    /\ GiveUp(t, Pending, "error") /\ UNCHANGED down

(* The reader: results complete a command, responses are put aside for the  *)
(* poller.                                                                  *)
Reads(t, some) ==
    /\ link[Source[t]] = "up" /\ down[t] # << >> /\ Head(down[t]) \in some
    /\ down' = [down EXCEPT ![t] = Tail(@)]
    /\ UNCHANGED faults

ReadAccepted(t) ==
    /\ Reads(t, {"accepted"}) /\ UNCHANGED <<up, cleanup, held, reply>> /\ CallerFrame
    /\ IF phase[t] # "sending" THEN UNCHANGED <<phase, answer>>
       ELSE IF t \in Calls THEN Moves(t, {"sending"}, "waiting") /\ UNCHANGED answer
       ELSE Moves(t, {"sending"}, "closed") /\ Tells(t, "accepted")

ReadRejected(t) ==
    /\ Reads(t, {"rejected"})
    /\ IF phase[t] = "sending" THEN GiveUp(t, {"sending"}, "error")
       ELSE UNCHANGED <<up, callerVars>> /\ CallerFrame

ReadResponse(t) ==
    /\ Reads(t, Terminal)
    /\ held' = [held EXCEPT ![t] = Head(down[t])]
    /\ UNCHANGED <<up, phase, cleanup, reply, answer>> /\ CallerFrame

(* Mutant of AbandonEnds: the response that came meanwhile stays. *)
AbandonEndsOnly(t, how) ==
    /\ cleanup[t] = "sent" /\ cleanup' = [cleanup EXCEPT ![t] = how]
    /\ UNCHANGED <<up, phase, held, reply, answer>> /\ CallerFrame

(* The end of the abandon command, whichever it is, removes the response.   *)
AbandonEnds(t, how) ==
    /\ cleanup[t] = "sent" /\ cleanup' = [cleanup EXCEPT ![t] = how]
    /\ held' = [held EXCEPT ![t] = None]
    /\ UNCHANGED <<up, phase, reply, answer>> /\ CallerFrame

ReadAbandoned(t) ==
    /\ Reads(t, {"abandoned"})
    /\ IF cleanup[t] = "sent" THEN AbandonEnds(t, "done")
       ELSE UNCHANGED <<up, callerVars>> /\ CallerFrame

AbandonFails(t) == link[Source[t]] # "up" /\ AbandonEnds(t, "done") /\ UNCHANGED <<down, faults>>

AbandonTimesOut(t) == Fault("command") /\ AbandonEnds(t, "unanswered") /\ UNCHANGED down

(* The poller hands a response to the call that waits for it.               *)
Consume(t) ==
    /\ link[Source[t]] \in {"up", "broken"}
    /\ held[t] # None /\ phase[t] \in Pending /\ t \in Calls
    /\ held' = [held EXCEPT ![t] = None]
    /\ reply' = [reply EXCEPT ![t] = IF @ = None THEN held[t] ELSE @]
    /\ UNCHANGED <<up, down, phase, cleanup, answer, faults>> /\ CallerFrame

(* Mutant of Decode: any response that is not an error is a value. *)
DecodeOrValue(r) == IF r \in {"failed", "timeout"} THEN "error" ELSE "value"

Decode(r) == CASE r = "done" -> "value" [] r = "timeout" -> "timeout" [] OTHER -> "error"

CallReturns(t) ==
    /\ reply[t] # None /\ Moves(t, {"waiting"}, "closed")
    /\ Tells(t, Decode(reply[t]))
    /\ UNCHANGED <<up, down, cleanup, held, reply, faults>> /\ CallerFrame
------------------------------------------------------------------------------
(* The servers.                                                             *)

JobFrame == UNCHANGED <<hubVars, up, down, callerVars, expired, faults>>
JobMoves(t, from, to) == job[t] = from /\ job' = [job EXCEPT ![t] = to]
Incoming(s) == {t \in At(s) : job[t] = "incoming"}

(* The Hub's sender writes the request, the client's reader queues it.      *)
Deliver(t) ==
    /\ server[t] # NoServer /\ conn[server[t]] = "open" /\ link[server[t]] = "up"
    /\ IF Cardinality(Incoming(server[t])) < QueueSize
       THEN JobMoves(t, "queued", "incoming") /\ UNCHANGED link
       ELSE JobMoves(t, "queued", "lost") /\ link' = [link EXCEPT ![server[t]] = "broken"]
    /\ UNCHANGED <<back, execution>> /\ JobFrame

(* The poller takes it even from a connection that has broken meanwhile.    *)
Spawn(t) ==
    /\ server[t] # NoServer /\ link[server[t]] \in {"up", "broken"}
    /\ JobMoves(t, "incoming", "spawned")
    /\ UNCHANGED <<back, link, execution>> /\ JobFrame

(* Mutant of StartHandler: the deadline is not looked at again. *)
StartHandlerAnyTime(t) ==
    /\ JobMoves(t, "spawned", "running")
    /\ execution' = [execution EXCEPT ![t] = "begun"]
    /\ UNCHANGED <<back, link>> /\ JobFrame

StartHandler(t) ==
    /\ IF t \in expired THEN JobMoves(t, "spawned", "timedout") /\ UNCHANGED execution
       ELSE JobMoves(t, "spawned", "running") /\ execution' = [execution EXCEPT ![t] = "begun"]
    /\ UNCHANGED <<back, link>> /\ JobFrame

HandlerReturns(t) ==
    /\ JobMoves(t, "running", "returned")
    /\ execution' = [execution EXCEPT ![t] = "returned"]
    /\ UNCHANGED <<back, link>> /\ JobFrame

(* It raises, its deadline passes, or it was itself told of a timeout. *)
HandlerFails(t) ==
    /\ \E outcome \in {"raised", "timedout"} : JobMoves(t, "running", outcome)
    /\ UNCHANGED <<back, link, execution>> /\ JobFrame

(* A value that does not fit in a frame is reported as a failure. *)
StatusOf(outcome) ==
    CASE outcome = "returned" -> {"done", "failed"}
      [] outcome = "timedout" -> {"timeout"}
      [] OTHER -> {"failed"}

(* Without a connection nobody hears of the outcome.                        *)
Respond(t) ==
    /\ job[t] \in Ended /\ job' = [job EXCEPT ![t] = "over"]
    /\ IF link[server[t]] = "up" /\ conn[server[t]] # None
       THEN \E status \in StatusOf(job[t]) : back' = [back EXCEPT ![t] = status]
       ELSE UNCHANGED back
    /\ UNCHANGED <<link, execution>> /\ JobFrame

Expire(t) ==
    /\ Begun(t)
    /\ t \notin expired /\ expired' = expired \cup {t}
    /\ UNCHANGED <<hubVars, frames, link, callerVars, jobVars, faults>>
------------------------------------------------------------------------------
HubStep(t) ==
    \/ (\E s \in Servers : HubAccepts(t, s)) \/ HubRejects(t) \/ HubAbandons(t)
    \/ HubReplies(t) \/ HubResponds(t)

ClientStep(t) ==
    \/ ReadAccepted(t) \/ ReadRejected(t) \/ ReadResponse(t) \/ ReadAbandoned(t)
    \/ Consume(t) \/ CallReturns(t) \/ DeadlineFires(t)
    \/ SendFails(t) \/ AbandonFails(t)

ServerStep(t) ==
    \/ Deliver(t) \/ Spawn(t) \/ StartHandler(t) \/ HandlerReturns(t) \/ HandlerFails(t)
    \/ Respond(t)

PeerStep(p) == Connect(p) \/ Disconnect(p) \/ LinkEnds(p) \/ PollerStops(p)

ServerOther(s) == Register(s) \/ Leave(s) \/ Unregister(s) \/ LeaseRunsOut(s) \/ Crash(s)

Next ==
    \/ \E t \in Tasks : \/ HubStep(t) \/ ClientStep(t) \/ ServerStep(t)
                        \/ Send(t) \/ SendTimesOut(t) \/ AbandonTimesOut(t)
                        \/ CallCancelled(t) \/ Expire(t)
    \/ \E p \in Peers : PeerStep(p) \/ LinkBreaks(p)
    \/ \E s \in Servers : ServerOther(s)
    \/ HubExpires \/ HubRestarts

Spec == Init /\ [][Next]_vars

(* Tasks of an event loop run, connections and their ends are noticed,      *)
(* handlers return.  A deadline need not come, nor the Hub's expiry loop.   *)
Fairness ==
    /\ \A t \in Tasks : WF_vars(HubStep(t)) /\ WF_vars(ClientStep(t)) /\ WF_vars(ServerStep(t))
    /\ \A p \in Peers : WF_vars(PeerStep(p))

FairSpec == Spec /\ Fairness
------------------------------------------------------------------------------
(* Properties.                                                              *)

Has(queue, some) == \E i \in 1 .. Len(queue) : queue[i] \in some

(* A delivery the Hub keeps has both ends connected, and a target that has  *)
(* not stopped: no end of a peer leaves a delivery behind that nobody will  *)
(* answer.                                                                  *)
DeliveryHasEnds ==
    \A t \in delivery :
       /\ server[t] \in Servers /\ conn[server[t]] # None
       /\ state[server[t]] \in {"ready", "away"}
       /\ conn[Source[t]] # None

(* While the connection of a caller is whole, what each of its calls waits  *)
(* for is somewhere: on the way, in the Hub's deliveries, or put aside.     *)
WaiterAccounted ==
    \A t \in Calls :
       link[Source[t]] = "up" /\ conn[Source[t]] = "open" =>
         /\ phase[t] = "sending" =>
              Has(up[t], {"send"}) \/ due[t] # None \/ Has(down[t], {"accepted", "rejected"})
         /\ phase[t] = "waiting" /\ reply[t] = None =>
              t \in delivery \/ Has(down[t], Terminal) \/ held[t] # None

(* The connection of a server has not ended with a request of a delivery    *)
(* lost on the way: either the server still has it or its response is back. *)
(* Otherwise only the deadline would end the delivery.                      *)
DeliveryInHand ==
    \A t \in delivery :
       link[server[t]] = "up" /\ conn[server[t]] = "open"
       => back[t] # None \/ job[t] \notin {None, "over", "lost"}

(* Responses put aside for a call nobody waits for any more are removed:    *)
(* the dictionary of responses, whose size limit ends the connection, does  *)
(* not fill with what late answers leave.  Only an abandon command that ran *)
(* into its timeout leaves one.                                             *)
NoStrayResponse ==
    \A t \in Tasks :
       link[Source[t]] = "up" /\ held[t] # None
       => phase[t] \in Pending \/ cleanup[t] \in {"sent", "unanswered"}

(* At most one response is made for a request, whether its handler, the     *)
(* expiry, or the end of its server is first.                               *)
OneResponse ==
    \A t \in Tasks :
       Cardinality({i \in 1 .. Len(down[t]) : down[t][i] \in Terminal})
       + Cardinality({x \in {held[t], reply[t]} : x \in Terminal})
       + Cardinality({t} \cap delivery) <= 1

(* The inductive invariant, for one request.  It is written to the Hub once *)
(* and its abandon comes after it; its handler is where its job says; and   *)
(* wherever a response of it is, what it says has happened.                 *)
Excused(t) == t \in expired \/ execution[t] # None

RequestInv(t) ==
    /\ phase[t] = "idle" => up[t] = << >> /\ job[t] = None
    /\ phase[t] # "closed" => answer[t] = None
    /\ \A i \in 2 .. Len(up[t]) : up[t][i] = "abandon"
    /\ Has(up[t], {"send"}) => job[t] = None

JobInv(t) ==
    /\ job[t] = None => server[t] = NoServer
    /\ job[t] \in {None, "queued", "incoming", "spawned"} => execution[t] = None
    /\ job[t] = "running" => execution[t] = "begun"
    /\ job[t] = "returned" => execution[t] = "returned"
    /\ job[t] = "timedout" => Excused(t)

Responses(t) ==
    {back[t], held[t], reply[t]} \cup {down[t][i] : i \in 1 .. Len(down[t])}

ResultInv(t) ==
    /\ "done" \in Responses(t) => execution[t] = "returned"
    /\ "timeout" \in Responses(t) => Excused(t)

IInv ==
    /\ TypeOK /\ DeliveryHasEnds /\ DeliveryInHand
    /\ \A t \in Tasks : RequestInv(t) /\ JobInv(t) /\ ResultInv(t)

(* No call is left to its deadline because a connection, a server or the    *)
(* Hub ended, or a queue was full: it is answered anyway.                   *)
AnsweredInAnyCase == \A t \in Calls : phase[t] = "waiting" ~> phase[t] = "closed"

(* The WebSocket backend implements the contract of the RPC interface.  An  *)
(* acceptance that stays unknown counts as one of its errors.               *)
RPC == INSTANCE RpcContract WITH
    answer <- [t \in Tasks |-> IF answer[t] = "unknown" THEN "error" ELSE answer[t]],
    expired <- [t \in Tasks |-> t \in expired]

Contract == RPC!Spec
==============================================================================
