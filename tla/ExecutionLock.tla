---------------------------- MODULE ExecutionLock ----------------------------
(***************************************************************************)
(* The execution locks of the server process (ExecutionLockList): a lease   *)
(* of a command covers the identities of its user, that is the account that *)
(* sent it, the union the account is bound to and every account bound to    *)
(* that union.  A command gives its lease up while it waits for its user    *)
(* and takes it again afterwards; one that merges two unions extends its    *)
(* lease over both of them (reserve), and shrinks it to the merged union    *)
(* when the database is done (refresh).                                     *)
(*                                                                         *)
(* A step is what a coroutine does between two awaits.  The identities of a *)
(* user come from queries that are steps of their own, so the bindings may  *)
(* change between them and before their result is used.                     *)
(***************************************************************************)
EXTENDS Naturals, FiniteSets

CONSTANTS
    Senders,          \* accounts, as the platforms name them
    Bindings,         \* the unions they may be bound to at the start
    Commands,         \* messages that reach the parser, one task each
    Sender,           \* the account that sent each of them
    Merges,           \* the commands that merge the sender's union with another
    Regex,            \* messages without a command, that expressions are tried on
    Replies,          \* messages that may answer a wait and are parsed as well
    Traffic           \* bound: the sets of messages that come in together

ASSUME ConstantsAssumption ==
    /\ IsFiniteSet(Senders) /\ Senders \cap Nat = {}
    /\ Bindings \subseteq [Senders -> 1 .. Cardinality(Senders)]
    /\ Sender \in [Commands -> Senders]
    /\ Merges \subseteq Commands
    /\ Regex \subseteq Commands \ Merges
    /\ Replies \subseteq Commands
    /\ Traffic \subseteq SUBSET Commands
    /\ "none" \notin Commands

VARIABLES
    union,            \* the union each account is bound to (SenderUnionBind)
    next,             \* the union id that is generated next
    exec,             \* whose ExecutionState the session of a command uses
    snapshot,         \* sender_union_info, read when the message came in
    lease,            \* _list: the keys each ExecutionState holds, if any
    reserved,         \* _reservations
    holding,          \* tasks in reserve(), refresh() whose local token is in _list
    owner,            \* lock_owner_task of each ExecutionState
    pc,               \* where the task of each command stands
    goal,             \* what the task reads identities, or waits, for
    seen,             \* unions it read
    keys,             \* identities it read: the local `keys`, in reserve()
                      \* the local `reservation` that it waits with
    plan,             \* the `reservation` of reserve_sender_merge
    anchor            \* an account of each union that is to be merged

bindings == <<union, next>>
locks == <<lease, reserved, holding>>
session == <<exec, snapshot, owner>>
locals == <<seen, keys, plan, anchor>>
vars == <<bindings, session, locks, pc, goal, locals>>

Key == Senders \cup Nat
Reading == {"bind", "ids", "check"}
Waiting == {"pending", "recheck"}
Merging == {"reserve", "replan", "relist", "merge"} \cup Waiting
States == {"idle", "acquire", "blocked", "run", "asleep", "last", "ending", "closing", "done"}
              \cup Reading \cup Merging
NoTask == "none"
Goals == {"start", "resume", "refresh", "none"}

Bound(u) == {s \in Senders : union[s] = u}
Accounts(us) == {s \in Senders : union[s] \in us}
Live(u) == Bound(u) # {}
Subject(c) == Sender[exec[c]]
Owns(c) == lease[exec[c]] # {}
Conflicts(ks) == \E e \in Commands : lease[e] \cap ks # {}

(* What the loop of reserve() asks.  The lease of the own ExecutionState is *)
(* another one, too, if the token it began with was removed meanwhile.      *)
Crossed(c) ==
    \E e \in Commands : lease[e] \cap keys[c] # {} /\ (e = exec[c] => c \notin holding)

NoRecheck(p) ==
    [c \in Commands |-> IF p[c] = "blocked" THEN "bind" ELSE p[c]]

(***************************************************************************)
(* _notify_changed() wakes everybody who waits for _changed at that moment: *)
(* acquire() reads the identities again, reserve() looks at the leases.     *)
(***************************************************************************)
Woken(p) == [c \in Commands |-> CASE p[c] = "blocked" -> "bind"
                                  [] p[c] = "pending" -> "recheck"
                                  [] OTHER -> p[c]]

(* remove(): only the lease of the own ExecutionState goes, whoever of      *)
(* those that share it took it, and only if there was one is anybody woken. *)
Remove(c, state) ==
    LET moved == [pc EXCEPT ![c] = state]
    IN /\ lease' = [lease EXCEPT ![exec[c]] = {}]
       /\ reserved' = reserved \ {exec[c]}
       /\ holding' = {d \in holding : exec[d] # exec[c]}
       /\ pc' = IF Owns(c) THEN Woken(moved) ELSE moved

Forget(c) ==
    /\ seen' = [seen EXCEPT ![c] = {}]
    /\ keys' = [keys EXCEPT ![c] = {}]
    /\ plan' = [plan EXCEPT ![c] = {}]
    /\ anchor' = [anchor EXCEPT ![c] = {}]

(* The `finally` of a command, or of a regular expression, after which      *)
(* _execute_regex() goes on with the next one as long as there are more.    *)
Leave(c) ==
    /\ \E after \in {"ending"} \cup (IF c \in Regex THEN {"acquire"} ELSE {}) : Remove(c, after)
    /\ goal' = [goal EXCEPT ![c] = "start"]
    /\ Forget(c)

Init ==
    /\ union \in Bindings
    /\ next = Cardinality(Senders) + 1
    /\ exec = [c \in Commands |-> c]
    /\ snapshot = [c \in Commands |-> 0]
    /\ lease = [c \in Commands |-> {}]
    /\ reserved = {}
    /\ holding = {}
    /\ owner = [c \in Commands |-> NoTask]
    /\ pc = [c \in Commands |-> "idle"]
    /\ goal = [c \in Commands |-> "none"]
    /\ seen = [c \in Commands |-> {}]
    /\ keys = [c \in Commands |-> {}]
    /\ plan = [c \in Commands |-> {}]
    /\ anchor = [c \in Commands |-> {}]

(***************************************************************************)
(* A message comes in: a command, or one that regular expressions are tried *)
(* on.  It may also be the answer a sleeping command waits for, with        *)
(* wait_next_message() from any account of its user or with wait_anyone()   *)
(* from anybody: then its session takes over the ExecutionState of that     *)
(* command, and the parser goes on with the message.  A command that merges *)
(* waits for confirmations only, which no message of another kind answers.  *)
(***************************************************************************)
Parse(c, e) ==
    /\ pc[c] = "idle"
    /\ \E together \in Traffic : {d \in Commands : d = c \/ pc[d] # "idle"} \subseteq together
    /\ snapshot' = [snapshot EXCEPT ![c] = union[Sender[c]]]
    /\ exec' = [exec EXCEPT ![c] = e]
    /\ goal' = [goal EXCEPT ![c] = "start"]
    /\ UNCHANGED owner

Arrive(c) ==
    /\ Parse(c, c)
    /\ pc' = [pc EXCEPT ![c] = "acquire"]
    /\ UNCHANGED <<bindings, locks, locals>>

Answer(c, waiting) ==
    /\ c \in Replies /\ waiting \notin Merges
    /\ pc[waiting] = "asleep"
    /\ Parse(c, exec[waiting])
    /\ pc' = [pc EXCEPT ![c] = "acquire",
                        ![waiting] = IF goal[waiting] = "resume" THEN "acquire" ELSE "run"]
    /\ UNCHANGED <<bindings, locks, locals>>

(* wait_confirm(), wait_reply() and sleep() take no message from the        *)
(* parser, and have their answer or the end of their time.                  *)
Resume(c) ==
    /\ pc[c] = "asleep"
    /\ pc' = [pc EXCEPT ![c] = IF goal[c] = "resume" THEN "acquire"
                               ELSE IF plan[c] # {} THEN "reserve" ELSE "run"]
    /\ UNCHANGED <<bindings, session, locks, goal, locals>>

(***************************************************************************)
(* acquire() returned False.  A command tells its user and goes, and a      *)
(* regular expression is passed over; a wait_*(), or reserve(), is left by  *)
(* WaitCancelException, which ends whatever is around it.                   *)
(***************************************************************************)
Refused(c) ==
    /\ \/ goal[c] = "start" /\ c \in Regex /\ Leave(c)
       \/ /\ goal[c] = "start" /\ c \notin Regex
          /\ pc' = [pc EXCEPT ![c] = "ending"] /\ Forget(c) /\ UNCHANGED <<locks, goal>>
       \/ goal[c] = "resume" /\ Remove(c, "ending") /\ Forget(c) /\ UNCHANGED goal
    /\ UNCHANGED <<bindings, session>>

Acquire(c) ==
    /\ pc[c] = "acquire"
    /\ IF Owns(c) THEN Refused(c)
                  ELSE /\ pc' = [pc EXCEPT ![c] = "bind"]
                       /\ UNCHANGED <<bindings, session, locks, goal, locals>>

(* _execute_regex() calls remove() for expressions that do not match, too.  *)
NoMatch(c) ==
    /\ pc[c] = "acquire" /\ goal[c] = "start" /\ c \in Regex
    /\ Leave(c)
    /\ UNCHANGED <<bindings, session>>

(***************************************************************************)
(* _current_keys(): the binding of the subject, and the accounts bound to   *)
(* the same union.  If that was merged between the two queries, the row of  *)
(* the union, asked for in between, was there still or was gone already.    *)
(***************************************************************************)
ReadBind(c) ==
    /\ pc[c] = "bind" /\ (goal[c] = "refresh" => Owns(c))
    /\ seen' = [seen EXCEPT ![c] = {union[Subject(c)]}]
    /\ holding' = IF goal[c] = "refresh" THEN holding \cup {c} ELSE holding
    /\ pc' = [pc EXCEPT ![c] = "ids"]
    /\ UNCHANGED <<bindings, session, lease, reserved, goal, keys, plan, anchor>>

ReadIds(c) ==
    /\ pc[c] = "ids"
    /\ \E u \in seen[c] :
           \E known \in {u} \cup (IF Live(u) THEN {} ELSE {snapshot[exec[c]]}) :
               keys' = [keys EXCEPT ![c] = {Subject(c), known} \cup Bound(u)]
    /\ seen' = [seen EXCEPT ![c] = {}]
    /\ pc' = [pc EXCEPT ![c] = "check"]
    /\ UNCHANGED <<bindings, session, locks, goal, plan, anchor>>

ResumeUnasked(c) ==
    /\ pc[c] = "check" /\ goal[c] # "refresh"
    /\ ~Owns(c) /\ (goal[c] = "resume" \/ ~Conflicts(keys[c]))
    /\ lease' = [lease EXCEPT ![exec[c]] = keys[c]]
    /\ owner' = [owner EXCEPT ![exec[c]] = IF @ = NoTask THEN c ELSE @]
    /\ pc' = [pc EXCEPT ![c] = IF plan[c] # {} THEN "reserve" ELSE "run"]
    /\ goal' = [goal EXCEPT ![c] = "none"]
    /\ keys' = [keys EXCEPT ![c] = {}]
    /\ UNCHANGED <<bindings, exec, snapshot, reserved, holding, seen, plan, anchor>>

(* The rest of acquire(): nobody comes between the last look and            *)
(* _install().  The task becomes the owner of the lease unless the owner of *)
(* an earlier one of the same ExecutionState is still at work.              *)
Install(c) ==
    /\ pc[c] = "check" /\ goal[c] # "refresh"
    /\ ~Owns(c) /\ ~Conflicts(keys[c])
    /\ lease' = [lease EXCEPT ![exec[c]] = keys[c]]
    /\ owner' = [owner EXCEPT ![exec[c]] = IF @ = NoTask THEN c ELSE @]
    /\ pc' = [pc EXCEPT ![c] = IF plan[c] # {} THEN "reserve" ELSE "run"]
    /\ goal' = [goal EXCEPT ![c] = "none"]
    /\ keys' = [keys EXCEPT ![c] = {}]
    /\ UNCHANGED <<bindings, exec, snapshot, reserved, holding, seen, plan, anchor>>

Block(c) ==
    /\ pc[c] = "check" /\ goal[c] = "resume"
    /\ ~Owns(c) /\ Conflicts(keys[c])
    /\ pc' = [pc EXCEPT ![c] = "blocked"]
    /\ UNCHANGED <<bindings, session, locks, goal, locals>>

Refuse(c) ==
    /\ pc[c] = "check" /\ goal[c] # "refresh"
    /\ Owns(c) \/ (goal[c] # "resume" /\ Conflicts(keys[c]))
    /\ Refused(c)

(***************************************************************************)
(* The body of a command: it waits for its user, unbinds an account from    *)
(* its union (bind self remove), plans a merge, or ends.                    *)
(***************************************************************************)
Sleep(c) ==
    /\ pc[c] = "run"
    /\ goal' = [goal EXCEPT ![c] = IF Owns(c) THEN "resume" ELSE "none"]
    /\ Remove(c, "asleep")
    /\ UNCHANGED <<bindings, session, locals>>

Unbind(c, s) ==
    /\ pc[c] = "run" /\ c \notin Merges \cup Regex
    /\ s \in Bound(snapshot[c]) /\ Cardinality(Bound(snapshot[c])) > 1
    /\ union' = [union EXCEPT ![s] = next]
    /\ next' = next + 1
    /\ pc' = [pc EXCEPT ![c] = "last"]
    /\ UNCHANGED <<session, locks, goal, locals>>

(* plan_sender_merge() of the union that issued the code, with one account  *)
(* of it and one of the own union, and the confirmation of the user, for    *)
(* which the lease is given up.                                             *)
Plan(c, first, second) ==
    /\ pc[c] = "run" /\ c \in Merges
    /\ union[first] # snapshot[c] /\ union[second] = snapshot[c]
    /\ plan' = [plan EXCEPT ![c] =
           {union[first], union[second]} \cup Bound(union[first]) \cup Bound(union[second])]
    /\ anchor' = [anchor EXCEPT ![c] = {first, second}]
    /\ goal' = [goal EXCEPT ![c] = IF Owns(c) THEN "resume" ELSE "none"]
    /\ Remove(c, "asleep")
    /\ UNCHANGED <<bindings, session, seen, keys>>

End(c) ==
    /\ pc[c] \in {"run", "last"}
    /\ Leave(c)
    /\ UNCHANGED <<bindings, session>>

(* An await raises: the time of a wait is over, the database fails, or the  *)
(* task is cancelled.                                                       *)
Fail(c) ==
    /\ pc[c] \in {"asleep", "blocked"} \cup Reading \cup Merging
    /\ IF goal[c] = "start" /\ c \notin Regex THEN Refused(c)
       ELSE Leave(c) /\ UNCHANGED <<bindings, session>>

(* No module knows the command: nothing is executed, and nothing removed.   *)
Unmatched(c) ==
    /\ pc[c] = "run" /\ c \notin Regex
    /\ pc' = [pc EXCEPT ![c] = "ending"]
    /\ Forget(c)
    /\ UNCHANGED <<bindings, session, locks, goal>>

NoCallback(c) ==
    /\ pc[c] = "closing"
    /\ pc' = [pc EXCEPT ![c] = "done"]
    /\ owner' = [owner EXCEPT ![exec[c]] = IF @ = c THEN NoTask ELSE @]
    /\ UNCHANGED <<bindings, exec, snapshot, locks, goal, locals>>

(* The `finally` of parser(): the session that owns its ExecutionState      *)
(* removes whatever lease is left.                                          *)
Finish(c) ==
    /\ pc[c] = "ending"
    /\ IF exec[c] = c THEN Remove(c, "closing")
                      ELSE pc' = [pc EXCEPT ![c] = "closing"] /\ UNCHANGED locks
    /\ goal' = [goal EXCEPT ![c] = "none"]
    /\ UNCHANGED <<bindings, session, locals>>

(* _release_finished_owner(), called when the task is done                  *)
TaskDone(c) ==
    /\ pc[c] = "closing"
    /\ IF owner[exec[c]] = c
          THEN Remove(c, "done") /\ owner' = [owner EXCEPT ![exec[c]] = NoTask]
          ELSE pc' = [pc EXCEPT ![c] = "done"] /\ UNCHANGED <<locks, owner>>
    /\ UNCHANGED <<bindings, exec, snapshot, goal, locals>>

NeverYield(c) ==
    /\ pc[c] = "reserve" /\ Owns(c)
    /\ LET e == exec[c]
           extended == lease[e] \cup plan[c]
           waits == \E f \in Commands \ {e} : lease[f] \cap extended # {}
       IN /\ lease' = [lease EXCEPT ![e] = extended]
          /\ reserved' = reserved \cup {e}
          /\ IF waits THEN /\ keys' = [keys EXCEPT ![c] = extended]
                           /\ holding' = holding \cup {c}
                           /\ pc' = [pc EXCEPT ![c] = "pending"]
                      ELSE pc' = [pc EXCEPT ![c] = "replan"] /\ UNCHANGED <<keys, holding>>
    /\ UNCHANGED <<bindings, session, goal, seen, plan, anchor>>

(***************************************************************************)
(* A merge.  reserve() gives up when its extended lease meets that of       *)
(* another reservation, and waits for all others it meets.  It takes a      *)
(* lease first, and waits for that, if the session has none.                *)
(***************************************************************************)
Reacquire(c) ==
    /\ pc[c] = "reserve" /\ ~Owns(c)
    /\ pc' = [pc EXCEPT ![c] = "bind"]
    /\ goal' = [goal EXCEPT ![c] = "resume"]
    /\ UNCHANGED <<bindings, session, locks, locals>>

Reserve(c) ==
    /\ pc[c] = "reserve" /\ Owns(c)
    /\ LET e == exec[c]
           extended == lease[e] \cup plan[c]
           Meets(f) == f # e /\ lease[f] \cap extended # {}
       IN \/ (\E f \in reserved : Meets(f)) /\ Leave(c)
          \/ /\ ~ \E f \in reserved : Meets(f)
             /\ lease' = [lease EXCEPT ![e] = extended]
             /\ reserved' = reserved \cup {e}
             /\ IF \E f \in Commands : Meets(f)
                   THEN /\ keys' = [keys EXCEPT ![c] = extended]
                        /\ holding' = holding \cup {c}
                        /\ pc' = [pc EXCEPT ![c] = "pending"]
                   ELSE pc' = [pc EXCEPT ![c] = "replan"] /\ UNCHANGED <<keys, holding>>
             /\ UNCHANGED <<goal, seen, plan, anchor>>
    /\ UNCHANGED <<bindings, session>>

Recheck(c) ==
    /\ pc[c] = "recheck"
    /\ IF Crossed(c) THEN pc' = [pc EXCEPT ![c] = "pending"] /\ UNCHANGED <<keys, holding>>
                     ELSE /\ pc' = [pc EXCEPT ![c] = "replan"]
                          /\ keys' = [keys EXCEPT ![c] = {}]
                          /\ holding' = holding \ {c}
    /\ UNCHANGED <<bindings, session, lease, reserved, goal, seen, plan, anchor>>

(* The unions of both accounts are looked up again.                         *)
Replan(c) ==
    /\ pc[c] = "replan"
    /\ LET found == {union[s] : s \in anchor[c]}
       IN IF Cardinality(found) < 2
             THEN Leave(c)
             ELSE /\ seen' = [seen EXCEPT ![c] = found]
                  /\ pc' = [pc EXCEPT ![c] = "relist"]
                  /\ UNCHANGED <<locks, goal, keys, plan, anchor>>
    /\ UNCHANGED <<bindings, session>>

NoRelist(c) ==
    /\ pc[c] = "relist"
    /\ pc' = [pc EXCEPT ![c] = "merge"]
    /\ UNCHANGED <<bindings, session, locks, goal, locals>>

(* Accounts that came in meanwhile are reserved as well, from the start.    *)
Relist(c) ==
    /\ pc[c] = "relist"
    /\ LET latest == seen[c] \cup Accounts(seen[c])
       IN IF latest \subseteq plan[c]
             THEN pc' = [pc EXCEPT ![c] = "merge"] /\ UNCHANGED <<plan, seen>>
             ELSE /\ plan' = [plan EXCEPT ![c] = @ \cup latest]
                  /\ seen' = [seen EXCEPT ![c] = {}]
                  /\ pc' = [pc EXCEPT ![c] = "reserve"]
    /\ UNCHANGED <<bindings, session, locks, goal, keys, anchor>>

(* merge_union() in one transaction: nothing happens if a union is gone.    *)
Merge(c) ==
    /\ pc[c] = "merge"
    /\ IF \A u \in seen[c] : Live(u)
          THEN /\ union' = [s \in Senders |->
                     IF union[s] \in seen[c] THEN next ELSE union[s]]
               /\ next' = next + 1
               /\ goal' = [goal EXCEPT ![c] = "refresh"]
               /\ pc' = [pc EXCEPT ![c] = "bind"]
          ELSE pc' = [pc EXCEPT ![c] = "last"] /\ UNCHANGED <<bindings, goal>>
    /\ seen' = [seen EXCEPT ![c] = {}]
    /\ UNCHANGED <<session, locks, keys, plan, anchor>>

(* refresh() does nothing if the lease is gone, before or after it read.    *)
NoRefresh(c) ==
    /\ pc[c] = "bind" /\ goal[c] = "refresh" /\ ~Owns(c)
    /\ pc' = [pc EXCEPT ![c] = "last"]
    /\ goal' = [goal EXCEPT ![c] = "none"]
    /\ Forget(c)
    /\ UNCHANGED <<bindings, session, locks>>

Refresh(c) ==
    /\ pc[c] = "check" /\ goal[c] = "refresh"
    /\ IF c \in holding
          THEN /\ lease' = [lease EXCEPT ![exec[c]] = keys[c]]
               /\ reserved' = reserved \ {exec[c]}
               /\ holding' = holding \ {c}
               /\ pc' = Woken([pc EXCEPT ![c] = "last"])
          ELSE pc' = [pc EXCEPT ![c] = "last"] /\ UNCHANGED locks
    /\ goal' = [goal EXCEPT ![c] = "none"]
    /\ Forget(c)
    /\ UNCHANGED <<bindings, session>>

Locking(c) ==
    Acquire(c) \/ NoMatch(c) \/ ReadBind(c) \/ ReadIds(c)
        \/ Install(c) \/ Block(c) \/ Refuse(c)
Body(c) ==
    \/ Sleep(c) \/ End(c) \/ Unmatched(c)
    \/ \E s \in Senders : Unbind(c, s)
    \/ \E first, second \in Senders : Plan(c, first, second)
MergeStep(c) ==
    \/ Reacquire(c) \/ Reserve(c) \/ Recheck(c) \/ Replan(c) \/ Relist(c)
    \/ Merge(c) \/ NoRefresh(c) \/ Refresh(c)
Step(c) == Locking(c) \/ Body(c) \/ MergeStep(c) \/ Resume(c) \/ Finish(c) \/ TaskDone(c)
Message(c) == Arrive(c) \/ \E w \in Commands : Answer(c, w)
Stopped == (\A c \in Commands : pc[c] \in {"idle", "done"}) /\ UNCHANGED vars

Next == (\E c \in Commands : Message(c) \/ Step(c) \/ Fail(c)) \/ Stopped

(* The event loop runs every task that can run, queries come back, and no   *)
(* body runs for ever without an await on its user.                         *)
Spec == Init /\ [][Next]_vars /\ \A c \in Commands : WF_vars(Step(c))

-----------------------------------------------------------------------------
TypeOK ==
    /\ union \in [Senders -> Nat] /\ next \in Nat
    /\ exec \in [Commands -> Commands]
    /\ snapshot \in [Commands -> Nat]
    /\ lease \in [Commands -> SUBSET Key]
    /\ reserved \subseteq Commands /\ holding \subseteq Commands
    /\ owner \in [Commands -> Commands \cup {NoTask}]
    /\ pc \in [Commands -> States]
    /\ goal \in [Commands -> Goals]
    /\ seen \in [Commands -> SUBSET Nat]
    /\ keys \in [Commands -> SUBSET Key]
    /\ plan \in [Commands -> SUBSET Key]
    /\ anchor \in [Commands -> SUBSET Senders]

Refreshing(c) == pc[c] \in Reading /\ goal[c] = "refresh"
Extending(e) == \E c \in holding : exec[c] = e /\ pc[c] \in Waiting
Merged(e) == e \notin reserved /\ \E c \in Merges : exec[c] = e /\ pc[c] = "last"

(* Two leases share an identity only while one of the two, and not both, is *)
(* that of a merge still waiting in reserve() for the other to end: nobody  *)
(* waits for somebody who waits for him (lock.py: reserve).  A merge that   *)
(* is over is another matter: refresh() looks at no other lease, and the    *)
(* sender may have left the union since his message came in.                *)
LeasesDisjoint ==
    \A e, f \in Commands :
        e # f /\ lease[e] \cap lease[f] # {} =>
            Extending(e) # Extending(f) \/ Merged(e) \/ Merged(f)

(* Whoever sleeps on _changed waits for a lease that is still there, and    *)
(* that is not one his own command may have taken meanwhile: the wake-up he *)
(* missed, or the lease he holds himself, would keep him for ever.          *)
NoLostWakeup ==
    \A c \in Commands :
        /\ pc[c] = "blocked" => \E e \in Commands \ {exec[c]} : lease[e] \cap keys[c] # {}
        /\ pc[c] = "pending" => Crossed(c)

(* However a lease came about, the task that is to give it back at its end  *)
(* has not ended: no user stays locked for ever (lock.py: lock_owner_task). *)
LeaseHasOwner ==
    \A e \in Commands :
        lease[e] # {} => owner[e] \in {c \in Commands : exec[c] = e /\ pc[c] \notin {"idle", "done"}}

(* From the moment merge_union() may run until the lease is refreshed, the  *)
(* accounts of the unions in question, and of the union they become, are    *)
(* all in the lease of the merge, and no command at work holds any of them  *)
(* (union_merge.py: reserve_sender_merge).  That is so as long as no merge  *)
(* came in as an answer: one that did loses its lease to remove() of the    *)
(* command it answered (message.py: _execute_module) and merges without it. *)
NoMergeAnswers == \A m \in Merges : exec[m] = m
Affected(c) ==
    IF pc[c] = "merge" THEN Accounts(seen[c])
    ELSE IF Refreshing(c) THEN Accounts({union[s] : s \in anchor[c]})
    ELSE {}
MergeBarrier ==
    NoMergeAnswers =>
        \A c \in Commands :
            /\ Affected(c) \subseteq lease[c]
            /\ \A d \in Commands \ {c} : lease[d] \cap Affected(c) # {} => Merged(d)

(* Two commands of one user run at once only where a command is answered by *)
(* a message that the parser goes on with.                                  *)
Running(c) == pc[c] \in {"run", "last"} \cup Merging \/ Refreshing(c)
Clash(c, d) == c # d /\ Running(c) /\ Running(d) /\ Subject(c) = Subject(d)
OneCommandPerUser ==
    \A c, d \in Commands :
        Clash(c, d) => \E r \in Replies : exec[r] # r /\ exec[r] \in {exec[c], exec[d]}

(* "The execution lock prevents several commands of one user from running   *)
(* at once" (lock.py:1).                                                    *)
CommandsSerialised == \A c, d \in Commands : ~Clash(c, d)

(* Whoever waits in reserve() for running commands gets to an end of that,  *)
(* unless his own lease is taken from him: then anybody may come in again   *)
(* between two of his looks.                                                *)
ReserveEnds ==
    \A c \in Commands : pc[c] \in Waiting ~> pc[c] \notin Waiting \/ c \notin holding

-----------------------------------------------------------------------------
(* The inductive invariant, in its parts.  An ExecutionState is that of one *)
(* command, its root, which came in before any reply to it, and no merge    *)
(* is a root that is answered.                                              *)
RootInv(c) ==
    /\ exec[exec[c]] = exec[c]
    /\ exec[c] # c => c \in Replies /\ exec[c] \notin Merges
    /\ pc[c] = "idle" \/ pc[exec[c]] = "idle" => exec[c] = c

(* Only a merge is in reserve() or refresh().                               *)
PhaseInv(c) ==
    /\ pc[c] \in Merging \/ Refreshing(c) \/ plan[c] # {} => c \in Merges
    /\ pc[c] \in Merging => goal[c] = "none"
    /\ pc[c] = "acquire" => goal[c] # "refresh"
    /\ pc[c] = "blocked" => goal[c] = "resume"
    /\ pc[c] = "asleep" => goal[c] \in {"resume", "none"}

(* A reservation, and the token a task goes by, is that of a lease.         *)
TokenInv(c) ==
    /\ c \in reserved => lease[c] # {}
    /\ c \in holding => lease[exec[c]] # {} /\ pc[c] # "idle"
OwnerInv(e) ==
    /\ lease[e] # {} => owner[e] # NoTask
    /\ owner[e] # NoTask => exec[owner[e]] = e /\ pc[owner[e]] \notin {"idle", "done"}

(* A lease has the account its command came from, and no other lease does.  *)
Shared(e) == \E r \in Commands \ {e} : exec[r] = e
UserInv(c) ==
    /\ pc[c] = "check" => Subject(c) \in keys[c]
    /\ lease[c] # {} => Sender[c] \in lease[c]
    /\ exec[c] = c /\ ~Shared(c) => /\ Running(c) => lease[c] # {}
                                    /\ pc[c] = "asleep" => goal[c] = "resume"
SendersDiffer ==
    \A e, f \in Commands : e # f /\ lease[e] # {} /\ lease[f] # {} => Sender[e] # Sender[f]

(* Whoever makes a lease cross another waits with all of it, and is the     *)
(* last to have extended it; two reservations never meet.                   *)
Witness(e) == \E c \in holding : exec[c] = e /\ pc[c] \in Waiting /\ lease[e] \subseteq keys[c]
CrossingsWait ==
    \A e, f \in Commands :
        e # f /\ lease[e] \cap lease[f] # {} =>
            Witness(e) \/ Witness(f) \/ Merged(e) \/ Merged(f)
ReservationsDisjoint ==
    /\ \A e, f \in reserved : e # f => lease[e] \cap lease[f] = {}
    /\ \A e \in Commands : Extending(e) => e \in reserved \/ Merged(e)

(* Unions that were read are older than any that will come, so they only    *)
(* lose accounts.                                                           *)
NextIsNew == \A s \in Senders : union[s] < next
BarrierInv(c) ==
    /\ \A u \in seen[c] : u < next
    /\ anchor[c] \subseteq plan[c]
    /\ pc[c] = "merge" => Accounts(seen[c]) \subseteq plan[c]

(* What is to be merged is in the lease, unless a merge was an answer.      *)
Reserved(c) == pc[c] \in Waiting \cup {"replan", "relist", "merge"} \/ Refreshing(c)
LockedInv(c) ==
    /\ Reserved(c) => c \in reserved /\ plan[c] \subseteq lease[c]
    /\ pc[c] \in {"relist", "merge"} =>
           \A s \in anchor[c] : union[s] \in seen[c] \/ Bound(union[s]) \subseteq lease[c]
    /\ Refreshing(c) => \A s \in anchor[c] : Bound(union[s]) \subseteq lease[c]

IInv ==
    /\ TypeOK /\ NoLostWakeup /\ CrossingsWait
    /\ \A c \in Commands :
           RootInv(c) /\ PhaseInv(c) /\ TokenInv(c) /\ OwnerInv(c) /\ UserInv(c) /\ BarrierInv(c)
    /\ SendersDiffer /\ NextIsNew /\ ReservationsDisjoint
    /\ NoMergeAnswers => \A c \in Commands : LockedInv(c)
=============================================================================
