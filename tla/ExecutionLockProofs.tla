------------------------- MODULE ExecutionLockProofs -------------------------
(* Proofs about ExecutionLock, for any accounts, commands, replies, merges  *)
(* and bindings.                                                            *)
EXTENDS ExecutionLock, FiniteSetTheorems, TLAPS

LEMMA WokenType ==
    ASSUME NEW p \in [Commands -> States]
    PROVE  Woken(p) \in [Commands -> States]
BY DEF Woken, States, Merging, Waiting, Reading

LEMMA RemoveType ==
    ASSUME TypeOK, NEW c \in Commands, NEW state \in States, Remove(c, state)
    PROVE  /\ lease' \in [Commands -> SUBSET Key]
           /\ reserved' \subseteq Commands /\ holding' \subseteq Commands
           /\ pc' \in [Commands -> States]
<1> DEFINE moved == [pc EXCEPT ![c] = state]
<1>1. moved \in [Commands -> States]
  BY DEF TypeOK
<1>2. Woken(moved) \in [Commands -> States]
  BY <1>1, WokenType
<1> QED
  BY <1>1, <1>2 DEF Remove, TypeOK

LEMMA ForgetType ==
    ASSUME TypeOK, NEW c \in Commands, Forget(c)
    PROVE  /\ seen' \in [Commands -> SUBSET Nat]
           /\ keys' \in [Commands -> SUBSET Key]
           /\ plan' \in [Commands -> SUBSET Key]
           /\ anchor' \in [Commands -> SUBSET Senders]
BY DEF Forget, TypeOK

LEMMA LeaveType ==
    ASSUME TypeOK, NEW c \in Commands, Leave(c), UNCHANGED <<bindings, session>>
    PROVE  TypeOK'
<1>1. PICK after \in {"ending", "acquire"} : Remove(c, after)
  BY DEF Leave
<1>2. after \in States
  BY DEF States
<1>3. /\ lease' \in [Commands -> SUBSET Key]
      /\ reserved' \subseteq Commands /\ holding' \subseteq Commands
      /\ pc' \in [Commands -> States]
  BY <1>1, <1>2, RemoveType
<1>4. goal' \in [Commands -> Goals]
  BY DEF Leave, TypeOK, Goals
<1>5. Forget(c)
  BY DEF Leave
<1> QED
  BY <1>3, <1>4, <1>5, ForgetType DEF TypeOK, bindings, session

LEMMA TypeInit == Init => TypeOK
<1> SUFFICES ASSUME Init PROVE TypeOK
  OBVIOUS
<1>1. Cardinality(Senders) \in Nat
  BY ConstantsAssumption, FS_CardinalityType
<1>2. union \in [Senders -> Nat]
  BY <1>1, ConstantsAssumption DEF Init
<1> QED
  BY <1>1, <1>2 DEF Init, TypeOK, States, Goals, Key

LEMMA RefusedType ==
    ASSUME TypeOK, NEW c \in Commands, Refused(c)
    PROVE  TypeOK'
<1>1. CASE Leave(c)
  BY <1>1, LeaveType DEF Refused
<1>2. CASE Remove(c, "ending") /\ Forget(c) /\ UNCHANGED goal
  <2>1. "ending" \in States
    BY DEF States
  <2> QED
    BY <1>2, <2>1, RemoveType, ForgetType DEF Refused, TypeOK, bindings, session
<1>3. CASE pc' = [pc EXCEPT ![c] = "ending"] /\ Forget(c) /\ UNCHANGED <<locks, goal>>
  BY <1>3, ForgetType DEF Refused, TypeOK, bindings, session, locks, States
<1> QED
  BY <1>1, <1>2, <1>3 DEF Refused

LEMMA FailType ==
    ASSUME TypeOK, NEW c \in Commands, Fail(c)
    PROVE  TypeOK'
BY RefusedType, LeaveType DEF Fail
-----------------------------------------------------------------------------
LEMMA LockingType ==
    ASSUME TypeOK, NEW c \in Commands, Locking(c)
    PROVE  TypeOK'
<1> USE DEF States, Goals, Reading, Merging, Waiting
<1>1. CASE Acquire(c)
  <2>1. CASE Owns(c)
    BY <1>1, <2>1, RefusedType DEF Acquire
  <2>2. CASE ~Owns(c)
    BY <1>1, <2>2 DEF Acquire, TypeOK, bindings, session, locks, locals
  <2> QED
    BY <2>1, <2>2
<1>2. CASE NoMatch(c)
  BY <1>2, LeaveType DEF NoMatch
<1>3. CASE ReadBind(c)
  <2>1. union[Subject(c)] \in Nat
    BY ConstantsAssumption DEF TypeOK, Subject
  <2> QED
    BY <1>3, <2>1 DEF ReadBind, TypeOK, bindings, session
<1>4. CASE ReadIds(c)
  <2>1. keys' \in [Commands -> SUBSET Key]
    <3>1. PICK u \in seen[c] :
              \E known \in {u} \cup (IF Live(u) THEN {} ELSE {snapshot[exec[c]]}) :
                  keys' = [keys EXCEPT ![c] = {Subject(c), known} \cup Bound(u)]
      BY <1>4 DEF ReadIds
    <3>2. PICK known \in {u} \cup (IF Live(u) THEN {} ELSE {snapshot[exec[c]]}) :
              keys' = [keys EXCEPT ![c] = {Subject(c), known} \cup Bound(u)]
      BY <3>1
    <3>3. Subject(c) \in Senders /\ Bound(u) \subseteq Senders
      BY ConstantsAssumption DEF TypeOK, Subject, Bound
    <3>4. u \in Nat /\ snapshot[exec[c]] \in Nat
      BY <3>1 DEF TypeOK
    <3>5. known \in Nat
      BY <3>2, <3>4
    <3>6. {Subject(c), known} \cup Bound(u) \subseteq Key
      BY <3>3, <3>5 DEF Key
    <3> QED
      BY <3>2, <3>6 DEF TypeOK
  <2> QED
    BY <1>4, <2>1 DEF ReadIds, TypeOK, bindings, session, locks
<1>5. CASE Install(c)
  BY <1>5 DEF Install, TypeOK, bindings
<1>6. CASE Block(c)
  BY <1>6 DEF Block, TypeOK, bindings, session, locks, locals
<1>7. CASE Refuse(c)
  BY <1>7, RefusedType DEF Refuse
<1> QED
  BY <1>1, <1>2, <1>3, <1>4, <1>5, <1>6, <1>7 DEF Locking

LEMMA BodyType ==
    ASSUME TypeOK, NEW c \in Commands, Body(c)
    PROVE  TypeOK'
<1> USE DEF States, Goals
<1>1. CASE Sleep(c)
  BY <1>1, RemoveType DEF Sleep, TypeOK, bindings, session, locals
<1>2. CASE End(c)
  BY <1>2, LeaveType DEF End
<1>3. CASE Unmatched(c)
  BY <1>3, ForgetType DEF Unmatched, TypeOK, bindings, session, locks
<1>4. ASSUME NEW s \in Senders, Unbind(c, s)
      PROVE  TypeOK'
  BY <1>4 DEF Unbind, TypeOK, session, locks, locals
<1>5. ASSUME NEW first \in Senders, NEW second \in Senders, Plan(c, first, second)
      PROVE  TypeOK'
  <2>1. plan' \in [Commands -> SUBSET Key]
    BY <1>5 DEF Plan, TypeOK, Bound, Key
  <2> QED
    BY <1>5, <2>1, RemoveType DEF Plan, TypeOK, bindings, session
<1> QED
  BY <1>1, <1>2, <1>3, <1>4, <1>5 DEF Body

LEMMA MergeType ==
    ASSUME TypeOK, NEW c \in Commands, MergeStep(c)
    PROVE  TypeOK'
<1> USE DEF States, Goals, Merging, Waiting
<1>1. CASE Reserve(c)
  <2>1. CASE Leave(c)
    BY <1>1, <2>1, LeaveType DEF Reserve
  <2>2. CASE ~Leave(c)
    <3>1. exec[c] \in Commands /\ lease[exec[c]] \cup plan[c] \subseteq Key
      BY DEF TypeOK
    <3>2. /\ lease' = [lease EXCEPT ![exec[c]] = lease[exec[c]] \cup plan[c]]
          /\ reserved' = reserved \cup {exec[c]}
          /\ holding' \in {holding, holding \cup {c}}
          /\ keys' \in {keys, [keys EXCEPT ![c] = lease[exec[c]] \cup plan[c]]}
          /\ pc' \in {[pc EXCEPT ![c] = "pending"], [pc EXCEPT ![c] = "replan"]}
          /\ UNCHANGED <<bindings, session, goal, seen, plan, anchor>>
      BY <1>1, <2>2 DEF Reserve
    <3> QED
      BY <3>1, <3>2 DEF TypeOK, bindings, session
  <2> QED
    BY <2>1, <2>2
<1>2. CASE Recheck(c)
  BY <1>2 DEF Recheck, TypeOK, bindings, session
<1>3. CASE Replan(c)
  <2>1. CASE Cardinality({union[s] : s \in anchor[c]}) < 2
    BY <1>3, <2>1, LeaveType DEF Replan
  <2>2. CASE ~(Cardinality({union[s] : s \in anchor[c]}) < 2)
    <3>1. {union[s] : s \in anchor[c]} \subseteq Nat
      BY DEF TypeOK
    <3> QED
      BY <1>3, <2>2, <3>1 DEF Replan, TypeOK, bindings, session, locks
  <2> QED
    BY <2>1, <2>2
<1>4. CASE Relist(c)
  <2>1. seen[c] \cup Accounts(seen[c]) \subseteq Key
    BY DEF TypeOK, Accounts, Key
  <2>2. /\ plan' \in {plan, [plan EXCEPT ![c] = @ \cup (seen[c] \cup Accounts(seen[c]))]}
        /\ seen' \in {seen, [seen EXCEPT ![c] = {}]}
        /\ pc' \in {[pc EXCEPT ![c] = "merge"], [pc EXCEPT ![c] = "reserve"]}
        /\ UNCHANGED <<bindings, session, locks, goal, keys, anchor>>
    BY <1>4 DEF Relist
  <2>3. plan' \in [Commands -> SUBSET Key]
    BY <2>1, <2>2 DEF TypeOK
  <2>4. seen' \in [Commands -> SUBSET Nat] /\ pc' \in [Commands -> States]
    BY <2>2 DEF TypeOK
  <2> QED
    BY <2>2, <2>3, <2>4 DEF TypeOK, bindings, session, locks
<1>5. CASE Merge(c)
  <2>1. CASE \A u \in seen[c] : Live(u)
    BY <1>5, <2>1 DEF Merge, TypeOK, session, locks, Reading
  <2>2. CASE ~(\A u \in seen[c] : Live(u))
    BY <1>5, <2>2 DEF Merge, TypeOK, bindings, session, locks, Reading
  <2> QED
    BY <2>1, <2>2
<1>6. CASE Refresh(c)
  <2>1. CASE c \in holding
    <3>1. [pc EXCEPT ![c] = "last"] \in [Commands -> States]
      BY DEF TypeOK
    <3>2. Woken([pc EXCEPT ![c] = "last"]) \in [Commands -> States]
      BY <3>1, WokenType
    <3>3. /\ lease' \in [Commands -> SUBSET Key]
          /\ reserved' \subseteq Commands /\ holding' \subseteq Commands
      BY <1>6, <2>1 DEF Refresh, TypeOK
    <3> HIDE DEF States
    <3> QED
      BY <1>6, <2>1, <3>2, <3>3, ForgetType DEF Refresh, TypeOK, bindings, session
  <2>2. CASE c \notin holding
    BY <1>6, <2>2, ForgetType DEF Refresh, TypeOK, bindings, session, locks
  <2> QED
    BY <2>1, <2>2
<1>7. CASE NoRefresh(c)
  BY <1>7, ForgetType DEF NoRefresh, TypeOK, bindings, session, locks
<1>8. CASE Reacquire(c)
  BY <1>8 DEF Reacquire, TypeOK, bindings, session, locks, locals, Reading
<1> QED
  BY <1>1, <1>2, <1>3, <1>4, <1>5, <1>6, <1>7, <1>8 DEF MergeStep

LEMMA MessageType ==
    ASSUME TypeOK, NEW c \in Commands, Message(c)
    PROVE  TypeOK'
<1> USE DEF States, Goals
<1>1. CASE Arrive(c)
  BY <1>1, ConstantsAssumption DEF Arrive, Parse, TypeOK, bindings, locks, locals
<1>2. ASSUME NEW w \in Commands, Answer(c, w)
      PROVE  TypeOK'
  BY <1>2, ConstantsAssumption DEF Answer, Parse, TypeOK, bindings, locks, locals
<1> QED
  BY <1>1, <1>2 DEF Message

LEMMA EndType ==
    ASSUME TypeOK, NEW c \in Commands, Resume(c) \/ Finish(c) \/ TaskDone(c)
    PROVE  TypeOK'
<1> USE DEF States, Goals, Merging
<1>1. CASE Resume(c)
  BY <1>1 DEF Resume, TypeOK, bindings, session, locks, locals
<1>2. CASE Finish(c)
  BY <1>2, RemoveType DEF Finish, TypeOK, bindings, session, locks, locals
<1>3. CASE TaskDone(c)
  BY <1>3, RemoveType DEF TaskDone, TypeOK, bindings, locks, locals
<1> QED
  BY <1>1, <1>2, <1>3

LEMMA TypeStep == TypeOK /\ [Next]_vars => TypeOK'
<1> SUFFICES ASSUME TypeOK, [Next]_vars
             PROVE  TypeOK'
  OBVIOUS
<1>1. ASSUME NEW c \in Commands, Message(c) \/ Step(c) \/ Fail(c)
      PROVE  TypeOK'
  BY <1>1, MessageType, LockingType, BodyType, MergeType, EndType, FailType DEF Step
<1>2. CASE UNCHANGED vars
  BY <1>2 DEF TypeOK, vars, bindings, session, locks, locals
<1> QED
  BY <1>1, <1>2 DEF Next, Stopped

(* Every variable stays in its type.                                        *)
THEOREM TypeCorrect == Spec => []TypeOK
BY TypeInit, TypeStep, PTL DEF Spec
-------------------------------------------------------------------------------
(* The safety properties of ExecutionLock, for any accounts, commands,      *)
(* replies, merges and bindings, by the inductive invariant IInv.           *)

Woke(p, q) == q = p \/ (p = "blocked" /\ q = "bind") \/ (p = "pending" /\ q = "recheck")

(* Where remove() is called on the way to.                                  *)
Released == {"ending", "acquire", "asleep", "closing", "done"}

LEMMA RemoveEffect ==
    ASSUME TypeOK, NEW c \in Commands, NEW state \in Released, Remove(c, state)
    PROVE  /\ lease' = [lease EXCEPT ![exec[c]] = {}]
           /\ reserved' = reserved \ {exec[c]}
           /\ holding' = {d \in holding : exec[d] # exec[c]}
           /\ pc' \in [Commands -> States]
           /\ pc'[c] = state
           /\ \A d \in Commands \ {c} : Woke(pc[d], pc'[d])
           /\ Owns(c) => \A d \in Commands : pc'[d] \notin {"blocked", "pending"}
           /\ ~Owns(c) => lease' = lease /\ pc' = [pc EXCEPT ![c] = state]
<1> USE DEF Released
<1> DEFINE moved == [pc EXCEPT ![c] = state]
<1>1. moved \in [Commands -> States] /\ state \in States
  BY DEF TypeOK, States
<1>2. Woken(moved) = [d \in Commands |-> CASE moved[d] = "blocked" -> "bind"
                                           [] moved[d] = "pending" -> "recheck"
                                           [] OTHER -> moved[d]]
  BY DEF Woken
<1>3. /\ pc' = IF Owns(c) THEN Woken(moved) ELSE moved
      /\ lease' = [lease EXCEPT ![exec[c]] = {}]
      /\ reserved' = reserved \ {exec[c]}
      /\ holding' = {d \in holding : exec[d] # exec[c]}
  BY DEF Remove
<1>4. moved[c] = state /\ \A d \in Commands \ {c} : moved[d] = pc[d]
  BY DEF TypeOK
<1>5. pc' \in [Commands -> States]
  BY <1>1, RemoveType
<1>6. CASE Owns(c)
  <2>1. pc' = Woken(moved)
    BY <1>3, <1>6
  <2>2. \A d \in Commands : Woke(moved[d], pc'[d]) /\ pc'[d] \notin {"blocked", "pending"}
    BY <1>2, <2>1 DEF Woke
  <2>3. pc'[c] = state
    BY <1>4, <2>2 DEF Woke
  <2> QED
    BY <1>3, <1>4, <1>5, <1>6, <2>2, <2>3
<1>7. CASE ~Owns(c)
  <2>1. pc' = moved
    BY <1>3, <1>7
  <2>2. lease' = lease
    BY <1>3, <1>7 DEF Owns, TypeOK
  <2> QED
    BY <1>3, <1>4, <1>5, <1>7, <2>1, <2>2 DEF Woke
<1> QED
  BY <1>6, <1>7
-----------------------------------------------------------------------------
(* What a step does, one way after the other: a task leaves its work, or    *)
(* reserve() goes on.                                                       *)
Left(c) ==
    /\ Forget(c)
    /\ UNCHANGED <<bindings, session>>
    /\ \/ \E state \in {"ending", "acquire"} : Remove(c, state) /\ goal' = [goal EXCEPT ![c] = "start"]
       \/ Remove(c, "ending") /\ UNCHANGED goal
       \/ /\ pc[c] \notin Waiting \cup {"last"}
          /\ pc' = [pc EXCEPT ![c] = "ending"] /\ UNCHANGED <<locks, goal>>
Goes(c) ==
    /\ pc[c] = "acquire" /\ pc' = [pc EXCEPT ![c] = "bind"]
    /\ UNCHANGED <<bindings, session, locks, goal, locals>>
Meets(c, f) == f # exec[c] /\ lease[f] \cap (lease[exec[c]] \cup plan[c]) # {}
Reserves(c) ==
    /\ pc[c] = "reserve" /\ Owns(c)
    /\ \A f \in reserved : ~Meets(c, f)
    /\ lease' = [lease EXCEPT ![exec[c]] = lease[exec[c]] \cup plan[c]]
    /\ reserved' = reserved \cup {exec[c]}
    /\ \/ /\ \E f \in Commands : Meets(c, f)
          /\ keys' = [keys EXCEPT ![c] = lease[exec[c]] \cup plan[c]]
          /\ holding' = holding \cup {c}
          /\ pc' = [pc EXCEPT ![c] = "pending"]
       \/ /\ \A f \in Commands : ~Meets(c, f)
          /\ pc' = [pc EXCEPT ![c] = "replan"] /\ UNCHANGED <<keys, holding>>
    /\ UNCHANGED <<bindings, session, goal, seen, plan, anchor>>
Replans(c) ==
    /\ pc[c] = "replan" /\ pc' = [pc EXCEPT ![c] = "relist"]
    /\ seen' = [seen EXCEPT ![c] = {union[s] : s \in anchor[c]}]
    /\ UNCHANGED <<bindings, session, locks, goal, keys, plan, anchor>>
Misses(c) ==
    /\ pc[c] = "merge" /\ pc' = [pc EXCEPT ![c] = "last"]
    /\ seen' = [seen EXCEPT ![c] = {}]
    /\ UNCHANGED <<bindings, session, locks, goal, keys, plan, anchor>>
Joins(c) ==
    /\ pc[c] = "merge" /\ pc' = [pc EXCEPT ![c] = "bind"]
    /\ union' = [s \in Senders |-> IF union[s] \in seen[c] THEN next ELSE union[s]]
    /\ next' = next + 1
    /\ goal' = [goal EXCEPT ![c] = "refresh"]
    /\ seen' = [seen EXCEPT ![c] = {}]
    /\ UNCHANGED <<session, locks, keys, plan, anchor>>
Effect(c) ==
    \/ Left(c) \/ Goes(c) \/ ReadBind(c) \/ ReadIds(c) \/ Install(c) \/ Block(c)
    \/ Sleep(c) \/ Resume(c) \/ Finish(c) \/ TaskDone(c)
    \/ \E s \in Senders : Unbind(c, s)
    \/ \E first, second \in Senders : Plan(c, first, second)
    \/ Reacquire(c) \/ Reserves(c) \/ Recheck(c) \/ Replans(c) \/ Relist(c)
    \/ Misses(c) \/ Joins(c) \/ NoRefresh(c) \/ Refresh(c)

LEMMA StepEffect ==
    ASSUME TypeOK, NEW c \in Commands, PhaseInv(c), Step(c) \/ Fail(c)
    PROVE  Effect(c)
<1>0. ASSUME Leave(c), UNCHANGED <<bindings, session>> PROVE Left(c)
  BY <1>0 DEF Leave, Left
<1>1. ASSUME Refused(c), pc[c] \notin Merging \cup {"last"} PROVE Left(c)
  BY <1>0, <1>1 DEF Refused, Left, Merging
<1>2. CASE Fail(c)
  <2>1. goal[c] = "start" => pc[c] \notin Merging
    BY DEF PhaseInv
  <2> QED
    BY <1>0, <1>1, <1>2, <2>1 DEF Fail, Effect, Merging, Reading
<1>3. CASE Acquire(c)
  BY <1>1, <1>3 DEF Acquire, Goes, Effect, Merging, Waiting
<1>4. CASE Refuse(c)
  BY <1>1, <1>4 DEF Refuse, Effect, Merging, Waiting
<1>5. CASE End(c) \/ NoMatch(c)
  BY <1>0, <1>5 DEF End, NoMatch, Effect
<1>6. CASE Unmatched(c)
  BY <1>6 DEF Unmatched, Left, Effect, session, bindings, locks, Waiting
<1>7. CASE Reserve(c)
  <2>1. CASE Leave(c)
    BY <1>0, <1>7, <2>1 DEF Reserve, Effect
  <2>2. CASE ~Leave(c)
    BY <1>7, <2>2 DEF Reserve, Reserves, Effect, Meets, bindings, session
  <2> QED
    BY <2>1, <2>2
<1>8. CASE Replan(c)
  <2>1. CASE Cardinality({union[s] : s \in anchor[c]}) < 2
    BY <1>0, <1>8, <2>1 DEF Replan, Effect
  <2>2. CASE ~(Cardinality({union[s] : s \in anchor[c]}) < 2)
    BY <1>8, <2>2 DEF Replan, Replans, Effect, bindings, session
  <2> QED
    BY <2>1, <2>2
<1>9. CASE Merge(c)
  BY <1>9 DEF Merge, Misses, Joins, Effect, bindings
<1> QED
  BY <1>2, <1>3, <1>4, <1>5, <1>6, <1>7, <1>8, <1>9 DEF Step, Locking, Body, MergeStep, Effect

LEMMA LeftEffect ==
    ASSUME TypeOK, NEW c \in Commands, Left(c)
    PROVE  /\ pc'[c] \in {"ending", "acquire"} /\ (pc'[c] = "acquire" => goal'[c] = "start")
           /\ seen'[c] = {} /\ plan'[c] = {} /\ anchor'[c] = {}
           /\ UNCHANGED <<bindings, session>>
           /\ \A d \in Commands \ {c} :
                  /\ Woke(pc[d], pc'[d])
                  /\ goal'[d] = goal[d] /\ seen'[d] = seen[d] /\ keys'[d] = keys[d]
                  /\ plan'[d] = plan[d] /\ anchor'[d] = anchor[d]
           /\ \/ Remove(c, "ending") \/ Remove(c, "acquire")
              \/ UNCHANGED locks /\ pc[c] \notin Waiting \cup {"last"}
<1>1. /\ seen'[c] = {} /\ plan'[c] = {} /\ anchor'[c] = {}
      /\ UNCHANGED <<bindings, session>>
      /\ \A d \in Commands \ {c} : /\ seen'[d] = seen[d] /\ keys'[d] = keys[d]
                                   /\ plan'[d] = plan[d] /\ anchor'[d] = anchor[d]
  BY DEF Left, Forget, TypeOK
<1>2. ASSUME NEW state \in {"ending", "acquire"}, Remove(c, state), goal' = [goal EXCEPT ![c] = "start"]
      PROVE  /\ pc'[c] \in {"ending", "acquire"} /\ goal'[c] = "start"
             /\ \A d \in Commands \ {c} : Woke(pc[d], pc'[d]) /\ goal'[d] = goal[d]
  BY <1>2, RemoveEffect DEF Released, TypeOK
<1>3. ASSUME Remove(c, "ending"), UNCHANGED goal
      PROVE  /\ pc'[c] = "ending"
             /\ \A d \in Commands \ {c} : Woke(pc[d], pc'[d]) /\ goal'[d] = goal[d]
  BY <1>3, RemoveEffect DEF Released
<1>4. ASSUME pc' = [pc EXCEPT ![c] = "ending"], UNCHANGED <<locks, goal>>
      PROVE  /\ pc'[c] = "ending"
             /\ \A d \in Commands \ {c} : Woke(pc[d], pc'[d]) /\ goal'[d] = goal[d]
  BY <1>4 DEF Woke, TypeOK
<1> QED
  BY <1>1, <1>2, <1>3, <1>4 DEF Left
-----------------------------------------------------------------------------
Roots == \A c \in Commands : RootInv(c)
Phases == \A c \in Commands : PhaseInv(c)
Owners == \A c \in Commands : OwnerInv(c)
Users == \A c \in Commands : UserInv(c)
Barriers == \A c \in Commands : BarrierInv(c)
Lockeds == NoMergeAnswers => \A c \in Commands : LockedInv(c)

(* A step of c touches only what is c's, and the ExecutionState it uses.    *)
LEMMA StepFrame ==
    ASSUME TypeOK, NEW c \in Commands, Effect(c)
    PROVE  /\ exec' = exec
           /\ pc'[c] # "idle"
           /\ \A d \in Commands \ {c} :
                  /\ Woke(pc[d], pc'[d])
                  /\ goal'[d] = goal[d] /\ seen'[d] = seen[d] /\ keys'[d] = keys[d]
                  /\ plan'[d] = plan[d] /\ anchor'[d] = anchor[d]
           /\ \A e \in Commands \ {exec[c]} :
                  /\ lease'[e] = lease[e] /\ owner'[e] = owner[e]
                  /\ e \in reserved' <=> e \in reserved
<1> USE DEF TypeOK, session, locks, bindings, locals
<1>1. CASE Left(c)
  <2>1. \A e \in Commands \ {exec[c]} : lease'[e] = lease[e] /\ (e \in reserved' <=> e \in reserved)
    <3>1. UNCHANGED locks \/ \E state \in Released : Remove(c, state)
      BY <1>1, LeftEffect DEF Released
    <3>2. CASE UNCHANGED locks
      BY <3>2
    <3>3. CASE \E state \in Released : Remove(c, state)
      BY <3>3 DEF Remove
    <3> QED
      BY <3>1, <3>2, <3>3
  <2> QED
    BY <1>1, <2>1, LeftEffect
<1>2. CASE Goes(c)
  BY <1>2 DEF Goes, Woke
<1>3. CASE Reacquire(c)
  BY <1>3 DEF Reacquire, Woke
<1>4. CASE ReadBind(c)
  BY <1>4 DEF ReadBind, Woke
<1>5. CASE ReadIds(c)
  BY <1>5 DEF ReadIds, Woke
<1>6. CASE Install(c)
  BY <1>6 DEF Install, Woke
<1>7. CASE Block(c)
  BY <1>7 DEF Block, Woke
<1>8. CASE Sleep(c)
  BY <1>8, RemoveEffect DEF Sleep, Released
<1>9. CASE Resume(c)
  BY <1>9 DEF Resume, Woke
<1>10. CASE Finish(c)
  BY <1>10, RemoveEffect DEF Finish, Woke, Released
<1>11. CASE TaskDone(c)
  BY <1>11, RemoveEffect DEF TaskDone, Woke, Released
<1>12. CASE \E s \in Senders : Unbind(c, s)
  BY <1>12 DEF Unbind, Woke
<1>13. CASE \E first, second \in Senders : Plan(c, first, second)
  BY <1>13, RemoveEffect DEF Plan, Released
<1>14. CASE Reserves(c)
  <2>1. /\ exec' = exec /\ owner' = owner /\ goal' = goal /\ seen' = seen /\ plan' = plan /\ anchor' = anchor
        /\ pc' \in {[pc EXCEPT ![c] = "pending"], [pc EXCEPT ![c] = "replan"]}
        /\ keys' \in {keys, [keys EXCEPT ![c] = lease[exec[c]] \cup plan[c]]}
        /\ lease' = [lease EXCEPT ![exec[c]] = lease[exec[c]] \cup plan[c]]
        /\ reserved' = reserved \cup {exec[c]}
    BY <1>14 DEF Reserves
  <2> QED
    BY <2>1 DEF Woke
<1>15. CASE Recheck(c)
  BY <1>15 DEF Recheck, Woke
<1>16. CASE Replans(c)
  BY <1>16 DEF Replans, Woke
<1>17. CASE Relist(c)
  BY <1>17 DEF Relist, Woke
<1>18. CASE Misses(c)
  BY <1>18 DEF Misses, Woke
<1>19. CASE Joins(c)
  BY <1>19 DEF Joins, Woke
<1>20. CASE Refresh(c)
  <2>1. \A d \in Commands \ {c} : Woke(pc[d], Woken([pc EXCEPT ![c] = "last"])[d])
    BY DEF Woken, Woke
  <2>2. Woken([pc EXCEPT ![c] = "last"])[c] = "last"
    BY DEF Woken
  <2>3. CASE c \in holding
    BY <1>20, <2>1, <2>2, <2>3 DEF Refresh, Forget
  <2>4. CASE c \notin holding
    BY <1>20, <2>4 DEF Refresh, Forget, Woke
  <2> QED
    BY <2>3, <2>4
<1>21. CASE NoRefresh(c)
  BY <1>21 DEF NoRefresh, Forget, Woke
<1> QED
  BY <1>1, <1>2, <1>3, <1>4, <1>5, <1>6, <1>7, <1>8, <1>9, <1>10, <1>11, <1>12, <1>13,
     <1>14, <1>15, <1>16, <1>17, <1>18, <1>19, <1>20, <1>21 DEF Effect

(* What becomes of the leases.                                              *)
Removes(c) ==
    /\ lease' = [lease EXCEPT ![exec[c]] = {}]
    /\ reserved' = reserved \ {exec[c]}
    /\ holding' = {d \in holding : exec[d] # exec[c]}
    /\ Owns(c) => \A d \in Commands : pc'[d] \notin {"blocked", "pending"}
Rests(c) ==
    /\ lease' = lease /\ reserved' = reserved /\ holding' \subseteq holding \cup {c}
    /\ \A d \in Commands \ {c} : d \in holding' <=> d \in holding
    /\ c \in holding' => c \in holding \/ (Owns(c) /\ pc'[c] = "ids")
    /\ c \in holding => c \in holding' \/ Recheck(c)
Refreshes(c) ==
    /\ pc[c] = "check" /\ goal[c] = "refresh" /\ c \in holding
    /\ lease' = [lease EXCEPT ![exec[c]] = keys[c]]
    /\ reserved' = reserved \ {exec[c]}
    /\ holding' = holding \ {c}
    /\ pc'[c] = "last"
    /\ \A d \in Commands : pc'[d] \notin {"blocked", "pending"}

LEMMA LockCases ==
    ASSUME TypeOK, NEW c \in Commands, Effect(c)
    PROVE  Removes(c) \/ Rests(c) \/ Install(c) \/ Reserves(c) \/ Refreshes(c)
<1>1. ASSUME NEW state \in Released, Remove(c, state) PROVE Removes(c)
  BY <1>1, RemoveEffect DEF Removes
<1>2. UNCHANGED locks => Rests(c)
  BY DEF Rests, locks
<1>3. CASE Left(c)
  BY <1>1, <1>2, <1>3, LeftEffect DEF Released
<1>4. CASE Sleep(c) \/ Finish(c) \/ TaskDone(c)
  BY <1>1, <1>2, <1>4 DEF Sleep, Finish, TaskDone, Released
<1>5. CASE \E first, second \in Senders : Plan(c, first, second)
  BY <1>1, <1>5 DEF Plan, Released
<1>6. CASE \/ Goes(c) \/ Reacquire(c) \/ ReadIds(c) \/ Block(c) \/ Resume(c) \/ Replans(c)
           \/ Relist(c) \/ Misses(c) \/ Joins(c) \/ NoRefresh(c) \/ \E s \in Senders : Unbind(c, s)
  BY <1>2, <1>6 DEF Goes, Reacquire, ReadIds, Block, Resume, Replans, Relist, Misses, Joins, NoRefresh,
                    Unbind
<1>7. CASE ReadBind(c)
  BY <1>7 DEF ReadBind, Rests, TypeOK
<1>8. CASE Recheck(c)
  BY <1>8 DEF Recheck, Rests
<1>9. CASE Refresh(c)
  <2>1. /\ \A d \in Commands : Woken([pc EXCEPT ![c] = "last"])[d] \notin {"blocked", "pending"}
        /\ Woken([pc EXCEPT ![c] = "last"])[c] = "last"
    BY DEF Woken, TypeOK
  <2> QED
    BY <1>2, <1>9, <2>1 DEF Refresh, Refreshes
<1> QED
  BY <1>3, <1>4, <1>5, <1>6, <1>7, <1>8, <1>9 DEF Effect
-----------------------------------------------------------------------------
(* RootInv *)
LEMMA RootStep ==
    ASSUME TypeOK, Roots, NEW c \in Commands, Effect(c)
    PROVE  Roots'
<1> SUFFICES ASSUME NEW d \in Commands PROVE RootInv(d)'
  BY DEF Roots
<1>1. exec' = exec
  BY StepFrame
<1>2. exec[d] \in Commands
  BY DEF TypeOK
<1>3. (pc'[exec[d]] = "idle" => pc[exec[d]] = "idle") /\ (pc'[d] = "idle" => pc[d] = "idle")
  BY <1>2, StepFrame DEF Woke
<1> QED
  BY <1>1, <1>3 DEF Roots, RootInv

LEMMA RootMessage ==
    ASSUME TypeOK, Roots, NEW c \in Commands, Message(c)
    PROVE  Roots'
<1>1. CASE Arrive(c)
  <2>1. exec' = exec
    BY <1>1 DEF Arrive, Parse, Roots, RootInv, TypeOK
  <2>2. \A d \in Commands : pc'[d] = "idle" => pc[d] = "idle"
    BY <1>1 DEF Arrive, TypeOK
  <2> QED
    BY <2>1, <2>2 DEF Roots, RootInv, TypeOK
<1>2. ASSUME NEW w \in Commands, Answer(c, w) PROVE Roots'
  <2>1. exec' = [exec EXCEPT ![c] = exec[w]] /\ pc[c] = "idle"
    BY <1>2 DEF Answer, Parse
  <2>2. \A d \in Commands : pc'[d] = "idle" => pc[d] = "idle" /\ d # c
    BY <1>2, <2>1 DEF Answer, TypeOK
  <2>3. pc[exec[w]] # "idle" /\ exec[w] # c
    BY <1>2 DEF Answer, Parse, Roots, RootInv
  <2>4. exec[w] \notin Merges
    BY <1>2 DEF Answer, Roots, RootInv
  <2>5. c \in Replies
    BY <1>2 DEF Answer
  <2>6. exec[c] = c
    BY <2>1 DEF Roots, RootInv, TypeOK
  <2>7. \A d \in Commands \ {c} : exec[d] # c
    BY <2>1 DEF Roots, RootInv, TypeOK
  <2> SUFFICES ASSUME NEW d \in Commands PROVE RootInv(d)'
    BY DEF Roots
  <2>8. CASE d = c
    BY <2>1, <2>2, <2>3, <2>4, <2>5, <2>8 DEF Roots, RootInv, TypeOK
  <2>9. CASE d # c
    BY <2>1, <2>2, <2>7, <2>9 DEF Roots, RootInv, TypeOK
  <2> QED
    BY <2>8, <2>9
<1> QED
  BY <1>1, <1>2 DEF Message
-----------------------------------------------------------------------------
(* PhaseInv *)
LEMMA PhaseOfOthers ==
    ASSUME TypeOK, Phases, NEW c \in Commands, Effect(c), NEW d \in Commands \ {c}
    PROVE  PhaseInv(d)'
<1>1. Woke(pc[d], pc'[d]) /\ goal'[d] = goal[d] /\ plan'[d] = plan[d]
  BY StepFrame
<1>2. PhaseInv(d)
  BY DEF Phases
<1> QED
  BY <1>1, <1>2 DEF PhaseInv, Woke, Merging, Waiting, Refreshing, Reading

LEMMA PhaseStep ==
    ASSUME TypeOK, Phases, NEW c \in Commands, Effect(c)
    PROVE  PhaseInv(c)'
<1> USE DEF TypeOK, session, locks, bindings, locals, PhaseInv, Merging, Waiting,
            Refreshing, Reading
<1>0. PhaseInv(c)
  BY DEF Phases
<1>1. CASE Left(c)
  <2>1. /\ pc'[c] \in {"ending", "acquire"} /\ (pc'[c] = "acquire" => goal'[c] = "start")
        /\ plan'[c] = {}
    BY <1>1, LeftEffect
  <2> QED
    BY <1>0, <2>1
<1>2. CASE Goes(c)
  BY <1>0, <1>2 DEF Goes
<1>3. CASE Reacquire(c)
  BY <1>0, <1>3 DEF Reacquire
<1>4. CASE ReadBind(c)
  BY <1>0, <1>4 DEF ReadBind
<1>5. CASE ReadIds(c)
  BY <1>0, <1>5 DEF ReadIds
<1>6. CASE Install(c)
  BY <1>0, <1>6 DEF Install
<1>7. CASE Block(c)
  BY <1>0, <1>7 DEF Block
<1>8. CASE Sleep(c)
  BY <1>0, <1>8, RemoveEffect DEF Sleep, Released
<1>9. CASE Resume(c)
  BY <1>0, <1>9 DEF Resume
<1>10. CASE Finish(c)
  BY <1>0, <1>10, RemoveEffect DEF Finish, Released
<1>11. CASE TaskDone(c)
  BY <1>0, <1>11, RemoveEffect DEF TaskDone, Released
<1>12. CASE \E s \in Senders : Unbind(c, s)
  BY <1>0, <1>12 DEF Unbind
<1>13. CASE \E first, second \in Senders : Plan(c, first, second)
  BY <1>0, <1>13, RemoveEffect DEF Plan, Released
<1>14. CASE Reserves(c)
  <2>1. pc'[c] \in {"pending", "replan"} /\ goal' = goal /\ pc[c] = "reserve"
    BY <1>14 DEF Reserves
  <2> QED
    BY <1>0, <2>1
<1>15. CASE Recheck(c)
  BY <1>0, <1>15 DEF Recheck
<1>16. CASE Replans(c)
  BY <1>0, <1>16 DEF Replans
<1>17. CASE Relist(c)
  <2>1. pc'[c] \in {"merge", "reserve"} /\ goal' = goal /\ pc[c] = "relist"
    BY <1>17 DEF Relist
  <2> QED
    BY <1>0, <2>1
<1>18. CASE Misses(c)
  BY <1>0, <1>18 DEF Misses
<1>19. CASE Joins(c)
  BY <1>0, <1>19 DEF Joins
<1>20. CASE Refresh(c)
  <2>1. pc'[c] = "last"
    BY <1>20 DEF Refresh, Woken
  <2> QED
    BY <1>0, <1>20, <2>1 DEF Refresh, Forget
<1>21. CASE NoRefresh(c)
  BY <1>0, <1>21 DEF NoRefresh, Forget
<1> QED
  BY <1>1, <1>2, <1>3, <1>4, <1>5, <1>6, <1>7, <1>8, <1>9, <1>10, <1>11, <1>12, <1>13,
     <1>14, <1>15, <1>16, <1>17, <1>18, <1>19, <1>20, <1>21 DEF Effect
-----------------------------------------------------------------------------
LEMMA MessageFrame ==
    ASSUME TypeOK, Roots, NEW c \in Commands, Message(c)
    PROVE  /\ UNCHANGED <<bindings, locks, locals, owner>>
           /\ pc[c] = "idle" /\ pc'[c] = "acquire" /\ goal'[c] = "start"
           /\ exec[c] = c /\ \A d \in Commands \ {c} : exec'[d] = exec[d] /\ goal'[d] = goal[d]
           /\ \A d \in Commands \ {c} :
                  \/ pc'[d] = pc[d]
                  \/ pc[d] = "asleep" /\ goal[d] = "resume" /\ pc'[d] = "acquire"
                  \/ pc[d] = "asleep" /\ goal[d] # "resume" /\ pc'[d] = "run" /\ exec'[c] = exec[d]
<1>1. pc[c] = "idle" /\ exec[c] = c
  BY DEF Message, Arrive, Answer, Parse, Roots, RootInv
<1>2. CASE Arrive(c)
  BY <1>1, <1>2 DEF Arrive, Parse, TypeOK
<1>3. ASSUME NEW w \in Commands, Answer(c, w)
      PROVE  /\ UNCHANGED <<bindings, locks, locals, owner>>
             /\ pc'[c] = "acquire" /\ goal'[c] = "start"
             /\ \A d \in Commands \ {c} : exec'[d] = exec[d] /\ goal'[d] = goal[d]
             /\ \A d \in Commands \ {c} :
                  \/ pc'[d] = pc[d]
                  \/ pc[d] = "asleep" /\ goal[d] = "resume" /\ pc'[d] = "acquire"
                  \/ pc[d] = "asleep" /\ goal[d] # "resume" /\ pc'[d] = "run" /\ exec'[c] = exec[d]
  <2>1. c # w
    BY <1>1, <1>3 DEF Answer
  <2> QED
    BY <1>3, <2>1 DEF Answer, Parse, TypeOK
<1> QED
  BY <1>1, <1>2, <1>3 DEF Message

LEMMA PhaseMessage ==
    ASSUME TypeOK, Roots, Phases, NEW c \in Commands, Message(c)
    PROVE  Phases'
<1> SUFFICES ASSUME NEW d \in Commands PROVE PhaseInv(d)'
  BY DEF Phases
<1> USE DEF Phases, PhaseInv, Merging, Waiting, Refreshing, Reading, locals
<1>1. CASE d = c
  BY <1>1, MessageFrame
<1>2. CASE d # c
  BY <1>2, MessageFrame
<1> QED
  BY <1>1, <1>2
-----------------------------------------------------------------------------
(* TokenInv *)
Tokens == \A c \in Commands : TokenInv(c)

LEMMA TokenStep ==
    ASSUME TypeOK, Tokens, Users, NEW c \in Commands, Effect(c)
    PROVE  Tokens'
<1>1. exec' = exec /\ exec[c] \in Commands
  BY StepFrame DEF TypeOK
<1>0. \A d \in Commands : (d = c \/ pc[d] # "idle") => pc'[d] # "idle"
  BY StepFrame DEF Woke
<1>2. CASE Removes(c)
  BY <1>0, <1>1, <1>2 DEF Removes, Tokens, TokenInv, TypeOK
<1>3. CASE Rests(c)
  BY <1>0, <1>1, <1>3 DEF Rests, Tokens, TokenInv, Owns
<1>4. CASE Install(c) \/ Refreshes(c)
  <2>1. Subject(c) \in keys[c]
    BY <1>4 DEF Install, Refreshes, Users, UserInv
  <2>2. /\ lease' = [lease EXCEPT ![exec[c]] = keys[c]]
        /\ reserved' \subseteq reserved /\ holding' \subseteq holding
    BY <1>4 DEF Install, Refreshes
  <2> QED
    BY <1>0, <1>1, <2>1, <2>2 DEF Tokens, TokenInv, TypeOK
<1>5. CASE Reserves(c)
  <2>1. /\ lease' = [lease EXCEPT ![exec[c]] = lease[exec[c]] \cup plan[c]]
        /\ reserved' = reserved \cup {exec[c]} /\ holding' \subseteq holding \cup {c}
        /\ lease[exec[c]] # {}
    BY <1>5 DEF Reserves, Owns
  <2> QED
    BY <1>0, <1>1, <2>1 DEF Tokens, TokenInv, TypeOK
<1> QED
  BY <1>2, <1>3, <1>4, <1>5, LockCases

LEMMA TokenMessage ==
    ASSUME TypeOK, Roots, Tokens, NEW c \in Commands, Message(c)
    PROVE  Tokens'
<1>1. lease' = lease /\ reserved' = reserved /\ holding' = holding
  BY MessageFrame DEF locks
<1>2. c \notin holding
  BY MessageFrame DEF Tokens, TokenInv
<1>3. \A d \in Commands : pc[d] # "idle" => pc'[d] # "idle"
  BY MessageFrame
<1> QED
  BY <1>1, <1>2, <1>3, MessageFrame DEF Tokens, TokenInv
-----------------------------------------------------------------------------
(* OwnerInv *)
LEMMA NewLease ==
    ASSUME TypeOK, Tokens, NEW c \in Commands, Effect(c), NEW e \in Commands,
           lease'[e] # {}
    PROVE  lease[e] # {} \/ (Install(c) /\ e = exec[c])
<1>1. CASE Removes(c)
  BY <1>1 DEF Removes, TypeOK
<1>2. CASE Rests(c)
  BY <1>2 DEF Rests
<1>3. CASE Install(c)
  BY <1>3 DEF Install, TypeOK
<1>4. CASE Reserves(c)
  BY <1>4 DEF Reserves, Owns, TypeOK
<1>5. CASE Refreshes(c)
  BY <1>5 DEF Refreshes, Tokens, TokenInv, TypeOK
<1> QED
  BY <1>1, <1>2, <1>3, <1>4, <1>5, LockCases

LEMMA OwnerStep ==
    ASSUME TypeOK, Tokens, Owners, NEW c \in Commands, Effect(c)
    PROVE  Owners'
<1> SUFFICES ASSUME NEW e \in Commands PROVE OwnerInv(e)'
  BY DEF Owners
<1>1. OwnerInv(e)
  BY DEF Owners
<1>2. owner[e] # NoTask => owner[e] \in Commands
  BY DEF TypeOK
<1>3. c # NoTask
  BY ConstantsAssumption DEF NoTask
<1>4. CASE e # exec[c]
  <2>1. lease'[e] = lease[e] /\ owner'[e] = owner[e] /\ exec' = exec
    BY <1>4, StepFrame
  <2>2. owner[e] # NoTask => owner[e] # c /\ Woke(pc[owner[e]], pc'[owner[e]])
    BY <1>1, <1>2, <1>4, StepFrame DEF OwnerInv
  <2> QED
    BY <1>1, <2>1, <2>2 DEF OwnerInv, Woke
<1>5. CASE e = exec[c]
  <2>1. exec' = exec /\ \A d \in Commands \ {c} : Woke(pc[d], pc'[d])
    BY StepFrame
  <2>2. CASE TaskDone(c)
    <3>1. CASE owner[e] = c
      <4>1. Remove(c, "done") /\ owner' = [owner EXCEPT ![e] = NoTask]
        BY <1>5, <2>2, <3>1 DEF TaskDone
      <4> QED
        BY <1>5, <4>1 DEF Remove, OwnerInv, TypeOK
    <3>2. CASE owner[e] # c
      <4>1. UNCHANGED <<lease, owner>>
        BY <1>5, <2>2, <3>2 DEF TaskDone, locks
      <4> QED
        BY <1>1, <1>2, <2>1, <3>2, <4>1 DEF OwnerInv, Woke
    <3> QED
      BY <3>1, <3>2
  <2>3. CASE Install(c)
    <3>1. pc'[c] \notin {"idle", "done"}
      BY <2>3 DEF Install, TypeOK
    <3>2. owner'[e] = IF owner[e] = NoTask THEN c ELSE owner[e]
      BY <1>5, <2>3 DEF Install, TypeOK
    <3> QED
      BY <1>1, <1>2, <1>3, <1>5, <2>1, <3>1, <3>2 DEF OwnerInv, Woke
  <2>4. CASE ~TaskDone(c) /\ ~Install(c)
    <3>1. owner' = owner
      BY <2>4 DEF Effect, Left, Goes, ReadBind, ReadIds, Block, Sleep, Resume, Finish, Unbind, Plan,
          Reacquire, Reserves, Recheck, Replans, Relist, Misses, Joins, NoRefresh, Refresh, session
    <3>2. pc'[c] \notin {"idle", "done"}
      <4>1. CASE Left(c)
        BY <4>1, LeftEffect
      <4>2. CASE Sleep(c) \/ Finish(c)
        BY <4>2, RemoveEffect DEF Sleep, Finish, TypeOK, Released
      <4>3. CASE \E first, second \in Senders : Plan(c, first, second)
        BY <4>3, RemoveEffect DEF Plan, Released
      <4>4. CASE \/ Goes(c) \/ ReadBind(c) \/ ReadIds(c) \/ Block(c) \/ Resume(c) \/ Reacquire(c)
                 \/ Recheck(c) \/ Reserves(c) \/ Replans(c) \/ Relist(c) \/ Misses(c) \/ Joins(c)
                 \/ NoRefresh(c) \/ \E s \in Senders : Unbind(c, s)
        BY <4>4 DEF Goes, ReadBind, ReadIds, Block, Resume, Reacquire, Recheck, Reserves, Replans, Relist,
                    Misses, Joins, NoRefresh, Unbind, TypeOK
      <4>5. CASE Refresh(c)
        BY <4>5 DEF Refresh, Woken, TypeOK
      <4> QED
        BY <2>4, <4>1, <4>2, <4>3, <4>4, <4>5 DEF Effect
    <3>3. lease'[e] # {} => lease[e] # {}
      BY <2>4, NewLease
    <3> QED
      BY <1>1, <1>2, <2>1, <3>1, <3>2, <3>3 DEF OwnerInv, Woke
  <2> QED
    BY <2>2, <2>3, <2>4
<1> QED
  BY <1>4, <1>5

LEMMA OwnerMessage ==
    ASSUME TypeOK, Roots, Owners, NEW c \in Commands, Message(c)
    PROVE  Owners'
<1> SUFFICES ASSUME NEW e \in Commands PROVE OwnerInv(e)'
  BY DEF Owners
<1>1. lease'[e] = lease[e] /\ owner'[e] = owner[e]
  BY MessageFrame DEF locks
<1>2. ASSUME owner[e] # NoTask
      PROVE  exec'[owner[e]] = e /\ pc'[owner[e]] \notin {"idle", "done"}
  <2>1. owner[e] \in Commands \ {c}
    BY <1>2, MessageFrame DEF TypeOK, Owners, OwnerInv
  <2> QED
    BY <1>2, <2>1, MessageFrame DEF Owners, OwnerInv
<1> QED
  BY <1>1, <1>2 DEF Owners, OwnerInv
-----------------------------------------------------------------------------
(* UserInv and SendersDiffer                                                *)
LEMMA SubjectRead ==
    ASSUME TypeOK, Users, NEW c \in Commands, Effect(c), NEW d \in Commands, pc'[d] = "check"
    PROVE  Subject(d)' \in keys'[d]
<1>1. exec' = exec
  BY StepFrame
<1>2. CASE d # c
  <2>1. pc[d] = "check" /\ keys'[d] = keys[d]
    BY <1>2, StepFrame DEF Woke
  <2> QED
    BY <1>1, <2>1 DEF Users, UserInv, Subject
<1>3. CASE d = c
  <2>1. CASE ReadIds(c)
    BY <1>1, <1>3, <2>1 DEF ReadIds, TypeOK, Subject
  <2>2. CASE Left(c)
    BY <1>3, <2>2, LeftEffect
  <2>3. CASE Sleep(c) \/ Finish(c) \/ TaskDone(c)
    BY <1>3, <2>3, RemoveEffect DEF Sleep, Finish, TaskDone, TypeOK, Released
  <2>4. CASE \E first, second \in Senders : Plan(c, first, second)
    BY <1>3, <2>4, RemoveEffect DEF Plan, Released
  <2>5. CASE \/ Goes(c) \/ ReadBind(c) \/ Install(c) \/ Block(c) \/ Resume(c) \/ Reacquire(c)
             \/ Recheck(c) \/ Reserves(c) \/ Replans(c) \/ Relist(c) \/ Misses(c) \/ Joins(c)
             \/ NoRefresh(c) \/ \E s \in Senders : Unbind(c, s)
    BY <1>3, <2>5 DEF Goes, ReadBind, Install, Block, Resume, Reacquire, Recheck, Reserves, Replans,
                      Relist, Misses, Joins, NoRefresh, Unbind, TypeOK
  <2>6. CASE Refresh(c)
    BY <1>3, <2>6 DEF Refresh, Woken, TypeOK
  <2> QED
    BY <2>1, <2>2, <2>3, <2>4, <2>5, <2>6 DEF Effect
<1> QED
  BY <1>2, <1>3

LEMMA SenderHeld ==
    ASSUME TypeOK, Users, NEW c \in Commands, Effect(c), NEW e \in Commands, lease'[e] # {}
    PROVE  Sender[e] \in lease'[e]
<1>1. \A f \in Commands : lease[f] # {} => Sender[f] \in lease[f]
  BY DEF Users, UserInv
<1>2. CASE Removes(c) \/ Rests(c)
  BY <1>1, <1>2 DEF Removes, Rests, TypeOK
<1>3. CASE Install(c) \/ Refreshes(c)
  <2>1. Subject(c) \in keys[c]
    BY <1>3 DEF Install, Refreshes, Users, UserInv
  <2> QED
    BY <1>1, <1>3, <2>1 DEF Install, Refreshes, Subject, TypeOK
<1>4. CASE Reserves(c)
  <2>1. lease' = [lease EXCEPT ![exec[c]] = lease[exec[c]] \cup plan[c]] /\ lease[exec[c]] # {}
    BY <1>4 DEF Reserves, Owns
  <2> QED
    BY <1>1, <2>1 DEF TypeOK
<1> QED
  BY <1>2, <1>3, <1>4, LockCases

LEMMA SendersStep ==
    ASSUME TypeOK, Tokens, Users, SendersDiffer, NEW c \in Commands, Effect(c)
    PROVE  SendersDiffer'
<1>1. ASSUME NEW e \in Commands, NEW f \in Commands, e # f, Install(c), e = exec[c], lease'[f] # {}
      PROVE  Sender[e] # Sender[f]
  <2>1. Sender[e] \in keys[c]
    BY <1>1 DEF Install, Users, UserInv, Subject
  <2>2. lease[f] # {} /\ Sender[f] \in lease[f]
    BY <1>1 DEF Install, TypeOK, Users, UserInv
  <2>3. lease[f] \cap keys[c] = {}
    BY <1>1 DEF Install, Conflicts
  <2> QED
    BY <2>1, <2>2, <2>3
<1> QED
  BY <1>1, NewLease DEF SendersDiffer

LEMMA AtWork ==
    ASSUME TypeOK, Phases, Users, NEW c \in Commands, Effect(c), NEW d \in Commands,
           exec[d] = d, ~Shared(d)
    PROVE  /\ Running(d)' => lease'[d] # {}
           /\ pc'[d] = "asleep" => goal'[d] = "resume"
<1> USE DEF Running, Refreshing, Merging, Waiting, Reading
<1>1. /\ Running(d) => lease[d] # {}
      /\ pc[d] = "asleep" => goal[d] = "resume"
  BY DEF Users, UserInv
<1>2. CASE d # c
  <2>1. d # exec[c]
    BY <1>2 DEF Shared
  <2>2. lease'[d] = lease[d] /\ goal'[d] = goal[d] /\ Woke(pc[d], pc'[d])
    BY <1>2, <2>1, StepFrame
  <2>3. pc[d] = "blocked" => goal[d] = "resume"
    BY DEF Phases, PhaseInv
  <2> QED
    BY <1>1, <2>2, <2>3 DEF Woke
<1>3. CASE d = c
  <2>1. CASE Left(c)
    BY <1>3, <2>1, LeftEffect
  <2>2. CASE Finish(c) \/ TaskDone(c)
    BY <1>3, <2>2, RemoveEffect DEF Finish, TaskDone, TypeOK, Released
  <2>3. CASE Sleep(c)
    <3>1. Owns(c)
      BY <1>1, <1>3, <2>3 DEF Sleep, Owns
    <3> QED
      BY <1>3, <2>3, <3>1, RemoveEffect DEF Sleep, TypeOK, Released
  <2>4. CASE \E first, second \in Senders : Plan(c, first, second)
    <3>1. Owns(c)
      BY <1>1, <1>3, <2>4 DEF Plan, Owns
    <3> QED
      BY <1>3, <2>4, <3>1, RemoveEffect DEF Plan, TypeOK, Released
  <2>5. CASE Install(c)
    <3>1. Subject(c) \in keys[c]
      BY <2>5 DEF Install, Users, UserInv
    <3> QED
      BY <1>3, <2>5, <3>1 DEF Install, TypeOK
  <2>6. CASE Goes(c) \/ ReadIds(c) \/ Block(c) \/ Resume(c)
    <3>1. pc[c] = "acquire" => goal[c] # "refresh"
      BY DEF Phases, PhaseInv
    <3> QED
      BY <1>1, <1>3, <2>6, <3>1
         DEF Goes, ReadIds, Block, Resume, TypeOK, bindings, session, locks, locals
  <2>7. CASE ReadBind(c)
    <3>1. pc[c] = "bind" /\ pc'[c] = "ids" /\ goal' = goal /\ lease' = lease
      BY <2>7 DEF ReadBind, TypeOK
    <3> QED
      BY <1>1, <1>3, <3>1
  <2>8. CASE \/ Recheck(c) \/ Replans(c) \/ Relist(c) \/ Misses(c) \/ Joins(c)
             \/ \E s \in Senders : Unbind(c, s)
    <3>1. Running(c) /\ lease' = lease /\ pc'[c] # "asleep"
      BY <2>8 DEF Recheck, Replans, Relist, Misses, Joins, Unbind, TypeOK, locks
    <3> QED
      BY <1>1, <1>3, <3>1
  <2>9. CASE Reserves(c)
    <3>1. lease' = [lease EXCEPT ![exec[c]] = lease[exec[c]] \cup plan[c]] /\ lease[exec[c]] # {}
          /\ pc'[c] \in {"pending", "replan"}
      BY <2>9 DEF Reserves, Owns, TypeOK
    <3> QED
      BY <1>3, <3>1 DEF TypeOK
  <2>10. CASE Reacquire(c) \/ NoRefresh(c)
    BY <1>1, <1>3, <2>10 DEF Reacquire, NoRefresh, Owns
  <2>11. CASE Refresh(c)
    <3>1. pc'[c] = "last"
      BY <2>11 DEF Refresh, Woken, TypeOK
    <3>2. lease[c] # {} /\ Subject(c) \in keys[c]
      BY <1>1, <1>3, <2>11 DEF Refresh, Users, UserInv
    <3> QED
      BY <1>3, <2>11, <3>1, <3>2 DEF Refresh, TypeOK, locks
  <2> QED
    BY <2>1, <2>2, <2>3, <2>4, <2>5, <2>6, <2>7, <2>8, <2>9, <2>10, <2>11 DEF Effect
<1> QED
  BY <1>2, <1>3

LEMMA UserStep ==
    ASSUME TypeOK, Phases, Users, NEW c \in Commands, Effect(c)
    PROVE  Users'
<1> SUFFICES ASSUME NEW d \in Commands PROVE UserInv(d)'
  BY DEF Users
<1>1. exec' = exec
  BY StepFrame
<1>2. Shared(d)' <=> Shared(d)
  BY <1>1 DEF Shared
<1> QED
  BY <1>1, <1>2, SubjectRead, SenderHeld, AtWork DEF UserInv

LEMMA UserMessage ==
    ASSUME TypeOK, Roots, Users, SendersDiffer, NEW c \in Commands, Message(c)
    PROVE  Users' /\ SendersDiffer'
<1>1. lease' = lease /\ keys' = keys
  BY MessageFrame DEF locks, locals
<1>2. SendersDiffer'
  BY <1>1 DEF SendersDiffer
<1>3. ASSUME NEW d \in Commands PROVE UserInv(d)'
  <2> USE DEF Running, Refreshing, Merging, Waiting, Reading
  <2>1. CASE d = c
    BY <1>1, <2>1, MessageFrame DEF Users, UserInv
  <2>2. CASE d # c
    <3>1. exec'[d] = exec[d] /\ goal'[d] = goal[d]
      BY <2>2, MessageFrame
    <3>2. Shared(d) => Shared(d)'
      BY <2>2, MessageFrame DEF Shared
    <3>3. UserInv(d)
      BY DEF Users
    <3>4. CASE pc'[d] = pc[d]
      BY <1>1, <3>1, <3>2, <3>3, <3>4 DEF UserInv, Subject
    <3>5. CASE pc[d] = "asleep" /\ goal[d] = "resume" /\ pc'[d] = "acquire"
      BY <1>1, <3>1, <3>2, <3>3, <3>5 DEF UserInv, Subject
    <3>6. CASE pc[d] = "asleep" /\ goal[d] # "resume" /\ pc'[d] = "run" /\ exec'[c] = exec[d]
      <4>1. exec'[d] = d => Shared(d)'
        BY <2>2, <3>1, <3>6 DEF Shared
      <4> QED
        BY <1>1, <3>1, <3>2, <3>3, <3>6, <4>1 DEF UserInv, Subject
    <3> QED
      BY <2>2, <3>4, <3>5, <3>6, MessageFrame
  <2> QED
    BY <2>1, <2>2
<1> QED
  BY <1>2, <1>3 DEF Users
-----------------------------------------------------------------------------
(* NoLostWakeup                                                             *)
LEMMA WaitsHow ==
    ASSUME TypeOK, NEW c \in Commands, Effect(c)
    PROVE  /\ pc'[c] = "blocked" => Block(c)
           /\ pc'[c] \in Waiting => Reserves(c) \/ Recheck(c)
           /\ pc[c] \in Waiting => Removes(c) \/ Recheck(c)
           /\ pc[c] = "last" => Removes(c)
<1> USE DEF Waiting
<1>1. CASE Left(c)
  <2>1. ASSUME NEW state \in Released, Remove(c, state) PROVE Removes(c)
    BY <2>1, RemoveEffect DEF Removes
  <2> QED
    BY <1>1, <2>1, LeftEffect DEF Released
<1>2. CASE Sleep(c) \/ Finish(c) \/ TaskDone(c)
  BY <1>2, RemoveEffect DEF Sleep, Finish, TaskDone, TypeOK, Released
<1>3. CASE \E first, second \in Senders : Plan(c, first, second)
  BY <1>3, RemoveEffect DEF Plan, Released
<1>4. CASE \/ Goes(c) \/ Reacquire(c) \/ ReadBind(c) \/ ReadIds(c) \/ Install(c) \/ Resume(c) \/ Replans(c)
           \/ Relist(c) \/ Misses(c) \/ Joins(c) \/ NoRefresh(c) \/ \E s \in Senders : Unbind(c, s)
  BY <1>4 DEF Goes, Reacquire, ReadBind, ReadIds, Install, Resume, Replans, Relist, Misses, Joins,
              NoRefresh, Unbind, TypeOK
<1>5. CASE Block(c) \/ Recheck(c)
  BY <1>5 DEF Block, Recheck, TypeOK
<1>6. CASE Reserves(c)
  <2>1. pc[c] = "reserve" /\ pc'[c] \in {"pending", "replan"}
    BY <1>6 DEF Reserves, TypeOK
  <2> QED
    BY <1>6, <2>1
<1>7. CASE Refresh(c)
  BY <1>7 DEF Refresh, Woken, TypeOK
<1> QED
  BY <1>1, <1>2, <1>3, <1>4, <1>5, <1>6, <1>7 DEF Effect

LEMMA HoldingFrame ==
    ASSUME TypeOK, NEW c \in Commands, Effect(c), NEW d \in Commands \ {c}
    PROVE  /\ d \in holding' => d \in holding
           /\ d \in holding /\ exec[d] # exec[c] => d \in holding'
<1>1. CASE Removes(c)
  BY <1>1 DEF Removes
<1>2. CASE Rests(c)
  BY <1>2 DEF Rests
<1>3. CASE Install(c)
  BY <1>3 DEF Install
<1>4. CASE Reserves(c)
  <2>1. holding' \in {holding, holding \cup {c}}
    BY <1>4 DEF Reserves
  <2> QED
    BY <2>1
<1>5. CASE Refreshes(c)
  BY <1>5 DEF Refreshes
<1> QED
  BY <1>1, <1>2, <1>3, <1>4, <1>5, LockCases

LEMMA HoldingType ==
    ASSUME TypeOK, NEW c \in Commands, Effect(c)
    PROVE  holding' \subseteq Commands /\ holding' \subseteq holding \cup {c}
<1>1. CASE Removes(c) \/ Rests(c) \/ Install(c) \/ Refreshes(c)
  BY <1>1 DEF Removes, Rests, Install, Refreshes, TypeOK
<1>2. CASE Reserves(c)
  <2>1. holding' \in {holding, holding \cup {c}}
    BY <1>2 DEF Reserves
  <2> QED
    BY <2>1 DEF TypeOK
<1> QED
  BY <1>1, <1>2, LockCases

LEMMA WakeupStep ==
    ASSUME TypeOK, NoLostWakeup, NEW c \in Commands, Effect(c)
    PROVE  NoLostWakeup'
<1>1. \/ \A d \in Commands : pc'[d] \notin {"blocked", "pending"}
      \/ \A e \in Commands : lease[e] \subseteq lease'[e]
  <2>1. CASE Removes(c)
    BY <2>1 DEF Removes, Owns, TypeOK
  <2>2. CASE Rests(c) \/ Refreshes(c)
    BY <2>2 DEF Rests, Refreshes
  <2>3. CASE Install(c)
    <3>1. lease[exec[c]] = {} /\ lease' = [lease EXCEPT ![exec[c]] = keys[c]]
      BY <2>3 DEF Install, Owns
    <3> QED
      BY <3>1 DEF TypeOK
  <2>4. CASE Reserves(c)
    <3>1. lease' = [lease EXCEPT ![exec[c]] = lease[exec[c]] \cup plan[c]]
      BY <2>4 DEF Reserves
    <3> QED
      BY <3>1 DEF TypeOK
  <2> QED
    BY <2>1, <2>2, <2>3, <2>4, LockCases
<1>2. CASE \A d \in Commands : pc'[d] \notin {"blocked", "pending"}
  BY <1>2 DEF NoLostWakeup
<1>3. CASE \A e \in Commands : lease[e] \subseteq lease'[e]
  <2> SUFFICES ASSUME NEW d \in Commands
               PROVE  /\ pc'[d] = "blocked" =>
                             \E e \in Commands \ {exec'[d]} : lease'[e] \cap keys'[d] # {}
                      /\ pc'[d] = "pending" => Crossed(d)'
    BY DEF NoLostWakeup
  <2>1. exec' = exec
    BY StepFrame
  <2>2. CASE d # c
    <3>1. /\ pc'[d] = "blocked" => pc[d] = "blocked"
          /\ pc'[d] = "pending" => pc[d] = "pending"
          /\ keys'[d] = keys[d]
      BY <2>2, StepFrame DEF Woke
    <3>2. pc[d] = "blocked" => \E e \in Commands \ {exec'[d]} : lease'[e] \cap keys'[d] # {}
      BY <1>3, <2>1, <3>1 DEF NoLostWakeup
    <3>3. pc[d] = "pending" => Crossed(d)'
      <4>1. d \in holding' => d \in holding
        BY <2>2, HoldingFrame
      <4>2. Crossed(d) => Crossed(d)'
        BY <1>3, <2>1, <3>1, <4>1 DEF Crossed
      <4> QED
        BY <4>2 DEF NoLostWakeup
    <3> QED
      BY <3>1, <3>2, <3>3
  <2>3. CASE d = c
    <3>1. Block(c) => \E e \in Commands \ {exec'[d]} : lease'[e] \cap keys'[d] # {}
      BY <2>1, <2>3 DEF Block, Conflicts, Owns, locks, locals
    <3>2. Recheck(c) /\ pc'[c] = "pending" => Crossed(c)'
      <4>1. Recheck(c) /\ pc'[c] = "pending" => Crossed(c) /\ UNCHANGED <<lease, keys, holding>>
        BY DEF Recheck, TypeOK
      <4> QED
        BY <2>1, <4>1 DEF Crossed
    <3>3. Reserves(c) /\ pc'[c] = "pending" => Crossed(c)'
      <4> SUFFICES ASSUME Reserves(c), pc'[c] = "pending" PROVE Crossed(c)'
        OBVIOUS
      <4>1. PICK e \in Commands : Meets(c, e)
        BY DEF Reserves, TypeOK
      <4>2. keys'[c] = lease[exec[c]] \cup plan[c]
        BY <4>1 DEF Reserves, TypeOK
      <4>3. lease'[e] = lease[e] /\ e # exec[c]
        BY <4>1, StepFrame DEF Meets
      <4> QED
        BY <2>1, <4>1, <4>2, <4>3 DEF Crossed, Meets
    <3>4. pc'[c] = "pending" => pc'[c] \in Waiting
      BY DEF Waiting
    <3> QED
      BY <2>3, <3>1, <3>2, <3>3, <3>4, WaitsHow
  <2> QED
    BY <2>2, <2>3
<1> QED
  BY <1>1, <1>2, <1>3

LEMMA WakeupMessage ==
    ASSUME TypeOK, Roots, NoLostWakeup, NEW c \in Commands, Message(c)
    PROVE  NoLostWakeup'
<1>1. lease' = lease /\ keys' = keys /\ holding' = holding
  BY MessageFrame DEF locks, locals
<1>2. \A d \in Commands : pc'[d] \in {"blocked", "pending"} => pc'[d] = pc[d] /\ exec'[d] = exec[d]
  BY MessageFrame
<1> QED
  BY <1>1, <1>2 DEF NoLostWakeup, Crossed
-----------------------------------------------------------------------------
(* CrossingsWait and ReservationsDisjoint                                   *)
LEMMA OthersStay ==
    ASSUME TypeOK, NEW c \in Commands, Effect(c), NEW e \in Commands \ {exec[c]}
    PROVE  /\ Witness(e) => Witness(e)'
           /\ Merged(e) => Merged(e)'
           /\ Extending(e)' => Extending(e)
<1>1. exec' = exec /\ lease'[e] = lease[e] /\ (e \in reserved' <=> e \in reserved)
  BY StepFrame
<1>2. ASSUME NEW d \in Commands, exec[d] = e
      PROVE  /\ d # c /\ Woke(pc[d], pc'[d]) /\ keys'[d] = keys[d]
             /\ d \in holding' <=> d \in holding
  BY <1>2, StepFrame, HoldingFrame
<1>3. holding \subseteq Commands /\ holding' \subseteq Commands
  BY HoldingType DEF TypeOK
<1>4. Witness(e) => Witness(e)'
  BY <1>1, <1>2, <1>3 DEF Witness, Woke, Waiting
<1>5. Merged(e) => Merged(e)'
  BY <1>1, <1>2, ConstantsAssumption DEF Merged, Woke
<1>6. Extending(e)' => Extending(e)
  BY <1>1, <1>2, <1>3 DEF Extending, Woke, Waiting
<1> QED
  BY <1>4, <1>5, <1>6

(* The own ExecutionState, while its leases are left as they are.           *)
LEMMA OwnStays ==
    ASSUME TypeOK, NEW c \in Commands, Effect(c), Rests(c), lease[exec[c]] # {}
    PROVE  /\ Merged(exec[c]) => Merged(exec[c])'
           /\ Witness(exec[c]) =>
                  \/ Witness(exec[c])'
                  \/ \A f \in Commands \ {exec[c]} : lease[f] \cap lease[exec[c]] = {}
           /\ Extending(exec[c])' => Extending(exec[c]) \/ exec[c] \in reserved'
<1>1. exec' = exec /\ lease' = lease /\ reserved' = reserved
  BY StepFrame DEF Rests
<1>2. ~Removes(c)
  BY <1>1 DEF Removes, TypeOK
<1>3. ASSUME NEW d \in Commands \ {c}
      PROVE  /\ Woke(pc[d], pc'[d]) /\ keys'[d] = keys[d]
             /\ d \in holding' <=> d \in holding
  BY <1>3, StepFrame DEF Rests
<1>4. pc[c] # "last" /\ (pc[c] \in Waiting => Recheck(c))
  BY <1>2, WaitsHow
<1>5. Merged(exec[c]) => Merged(exec[c])'
  BY <1>1, <1>3, <1>4, ConstantsAssumption DEF Merged, Woke
<1>6. ASSUME Witness(exec[c])
      PROVE  \/ Witness(exec[c])'
             \/ \A f \in Commands \ {exec[c]} : lease[f] \cap lease[exec[c]] = {}
  <2>1. PICK d \in holding : exec[d] = exec[c] /\ pc[d] \in Waiting /\ lease[exec[c]] \subseteq keys[d]
    BY <1>6 DEF Witness
  <2>2. CASE d # c
    BY <1>1, <1>3, <2>1, <2>2 DEF Witness, Woke, Waiting, TypeOK
  <2>3. CASE d = c /\ Crossed(c)
    <3>1. pc'[c] = "pending" /\ UNCHANGED <<keys, holding>>
      BY <1>4, <2>1, <2>3 DEF Recheck, TypeOK
    <3> QED
      BY <1>1, <2>1, <2>3, <3>1 DEF Witness, Waiting
  <2>4. CASE d = c /\ ~Crossed(c)
    BY <2>1, <2>4 DEF Crossed
  <2> QED
    BY <2>2, <2>3, <2>4
<1>7. ASSUME Extending(exec[c])'
      PROVE  Extending(exec[c]) \/ exec[c] \in reserved'
  <2>1. PICK d \in holding' : exec[d] = exec[c] /\ pc'[d] \in Waiting
    BY <1>1, <1>7 DEF Extending
  <2>2. CASE d # c
    <3>1. d \in holding
      BY <2>1, <2>2, HoldingType
    <3> QED
      BY <1>3, <2>1, <2>2, <3>1 DEF Extending, Woke, Waiting, TypeOK
  <2>3. CASE d = c /\ Recheck(c)
    <3>1. c \in holding /\ pc[c] \in Waiting
      BY <2>1, <2>3 DEF Recheck, Waiting
    <3> QED
      BY <3>1 DEF Extending
  <2>4. CASE d = c /\ Reserves(c)
    BY <2>4 DEF Reserves
  <2> QED
    BY <2>1, <2>2, <2>3, <2>4, WaitsHow
<1> QED
  BY <1>5, <1>6, <1>7

LEMMA CrossingsStep ==
    ASSUME TypeOK, Phases, CrossingsWait, NEW c \in Commands, Effect(c)
    PROVE  CrossingsWait'
<1> DEFINE Excused(e, f) == Witness(e) \/ Witness(f) \/ Merged(e) \/ Merged(f)
           Later(e, f) == Witness(e)' \/ Witness(f)' \/ Merged(e)' \/ Merged(f)'
<1>0. exec' = exec /\ exec[c] \in Commands
  BY StepFrame DEF TypeOK
<1>1. ASSUME NEW e \in Commands \ {exec[c]}, NEW f \in Commands \ {exec[c]}, e # f,
             lease'[e] \cap lease'[f] # {}
      PROVE  Later(e, f)
  <2>1. Excused(e, f)
    BY <1>1, StepFrame DEF CrossingsWait
  <2> QED
    BY <2>1, OthersStay
<1>2. ASSUME NEW f \in Commands \ {exec[c]}, lease'[exec[c]] \cap lease'[f] # {}
      PROVE  Later(exec[c], f)
  <2>1. lease'[f] = lease[f]
    BY StepFrame
  <2>2. CASE Removes(c)
    BY <1>2, <2>2 DEF Removes, TypeOK
  <2>3. CASE Rests(c)
    <3>1. lease[exec[c]] \cap lease[f] # {} /\ lease[exec[c]] # {}
      BY <1>2, <2>3 DEF Rests
    <3>2. Excused(exec[c], f)
      BY <1>0, <3>1 DEF CrossingsWait
    <3> QED
      BY <2>3, <3>1, <3>2, OwnStays, OthersStay
  <2>4. CASE Install(c)
    BY <1>0, <1>2, <2>1, <2>4 DEF Install, Conflicts, TypeOK
  <2>5. CASE Reserves(c)
    <3>1. lease'[exec[c]] = lease[exec[c]] \cup plan[c]
      BY <1>0, <2>5 DEF Reserves, TypeOK
    <3>2. Meets(c, f)
      BY <1>2, <2>1, <3>1 DEF Meets
    <3>3. keys'[c] = lease'[exec[c]] /\ c \in holding' /\ pc'[c] = "pending"
      BY <2>5, <3>1, <3>2 DEF Reserves, TypeOK
    <3> QED
      BY <1>0, <3>3 DEF Witness, Waiting
  <2>6. CASE Refreshes(c)
    <3>1. c \in Merges
      BY <2>6 DEF Refreshes, Phases, PhaseInv, Refreshing, Reading
    <3> QED
      BY <1>0, <2>6, <3>1 DEF Refreshes, Merged
  <2> QED
    BY <2>2, <2>3, <2>4, <2>5, <2>6, LockCases
<1>3. SUFFICES ASSUME NEW e \in Commands, NEW f \in Commands, e # f, lease'[e] \cap lease'[f] # {}
               PROVE  Later(e, f)
  BY DEF CrossingsWait
<1>4. CASE e = exec[c]
  <2>1. e = exec[c]' /\ f \in Commands \ {exec[c]} /\ lease'[exec[c]] \cap lease'[f] # {}
    BY <1>0, <1>3, <1>4
  <2>2. Later(exec[c], f)
    BY <1>2, <2>1
  <2> QED
    BY <2>1, <2>2
<1>5. CASE f = exec[c]
  <2>1. f = exec[c]' /\ e \in Commands \ {exec[c]} /\ lease'[exec[c]] \cap lease'[e] # {}
    BY <1>0, <1>3, <1>5
  <2>2. Later(exec[c], e)
    BY <1>2, <2>1
  <2> QED
    BY <2>1, <2>2
<1>6. CASE e # exec[c] /\ f # exec[c]
  BY <1>1, <1>3, <1>6
<1> QED
  BY <1>4, <1>5, <1>6

LEMMA ReservationsStep ==
    ASSUME TypeOK, Phases, Tokens, ReservationsDisjoint, NEW c \in Commands, Effect(c)
    PROVE  ReservationsDisjoint'
<1>0. exec' = exec /\ exec[c] \in Commands
  BY StepFrame DEF TypeOK
<1>1. ASSUME NEW e \in reserved', NEW f \in reserved', e # f
      PROVE  lease'[e] \cap lease'[f] = {}
  <2>1. CASE Removes(c)
    BY <1>1, <2>1 DEF Removes, ReservationsDisjoint, TypeOK
  <2>2. CASE Rests(c)
    BY <1>1, <2>2 DEF Rests, ReservationsDisjoint
  <2>3. CASE Install(c)
    <3>1. exec[c] \notin reserved
      BY <1>0, <2>3 DEF Install, Owns, Tokens, TokenInv
    <3> QED
      BY <1>1, <2>3, <3>1 DEF Install, ReservationsDisjoint, TypeOK
  <2>4. CASE Reserves(c)
    <3>1. /\ lease' = [lease EXCEPT ![exec[c]] = lease[exec[c]] \cup plan[c]]
          /\ reserved' = reserved \cup {exec[c]}
          /\ \A g \in reserved : g # exec[c] => lease[g] \cap (lease[exec[c]] \cup plan[c]) = {}
      BY <2>4 DEF Reserves, Meets
    <3> QED
      BY <1>0, <1>1, <3>1 DEF ReservationsDisjoint, TypeOK
  <2>5. CASE Refreshes(c)
    BY <1>1, <2>5 DEF Refreshes, ReservationsDisjoint, TypeOK
  <2> QED
    BY <2>1, <2>2, <2>3, <2>4, <2>5, LockCases
<1>2. ASSUME NEW e \in Commands, Extending(e)'
      PROVE  e \in reserved' \/ Merged(e)'
  <2>1. CASE e # exec[c]
    BY <1>2, <2>1, OthersStay, StepFrame DEF ReservationsDisjoint
  <2>2. CASE e = exec[c]
    <3>1. PICK d \in holding' : exec[d] = e /\ pc'[d] \in Waiting
      BY <1>0, <1>2 DEF Extending
    <3>2. CASE Removes(c)
      BY <2>2, <3>1, <3>2 DEF Removes
    <3>3. CASE Rests(c)
      <4>1. CASE lease[exec[c]] # {}
        BY <1>0, <1>2, <2>2, <3>3, <4>1, OwnStays DEF ReservationsDisjoint, Rests
      <4>2. CASE lease[exec[c]] = {}
        <5>1. d \in holding /\ d \in Commands
          BY <3>1, <3>3, <4>2, HoldingType DEF Rests, Owns
        <5> QED
          BY <2>2, <3>1, <4>2, <5>1 DEF Tokens, TokenInv
      <4> QED
        BY <4>1, <4>2
    <3>4. CASE Install(c)
      BY <2>2, <3>1, <3>4 DEF Install, Owns, Tokens, TokenInv, TypeOK
    <3>5. CASE Reserves(c)
      BY <2>2, <3>5 DEF Reserves
    <3>6. CASE Refreshes(c)
      <4>1. c \in Merges
        BY <3>6 DEF Refreshes, Phases, PhaseInv, Refreshing, Reading
      <4> QED
        BY <1>0, <2>2, <3>6, <4>1 DEF Refreshes, Merged
    <3> QED
      BY <3>2, <3>3, <3>4, <3>5, <3>6, LockCases
  <2> QED
    BY <2>1, <2>2
<1> QED
  BY <1>1, <1>2 DEF ReservationsDisjoint

LEMMA CrossingsMessage ==
    ASSUME TypeOK, Roots, Tokens, CrossingsWait, ReservationsDisjoint, NEW c \in Commands, Message(c)
    PROVE  CrossingsWait' /\ ReservationsDisjoint'
<1>1. lease' = lease /\ reserved' = reserved /\ holding' = holding /\ keys' = keys
  BY MessageFrame DEF locks, locals
<1>2. c \notin holding /\ pc[c] = "idle" /\ pc'[c] = "acquire"
  BY MessageFrame DEF Tokens, TokenInv
<1>3. \A d \in Commands \ {c} : /\ exec'[d] = exec[d]
                                /\ pc[d] \in Waiting \cup {"last"} <=> pc'[d] \in Waiting \cup {"last"}
                                /\ pc[d] \in Waiting \cup {"last"} => pc'[d] = pc[d]
  BY MessageFrame DEF Waiting
<1>4. holding \subseteq Commands /\ Merges \subseteq Commands
  BY ConstantsAssumption DEF TypeOK
<1>5. ASSUME NEW e \in Commands
      PROVE  /\ Witness(e) => Witness(e)'
             /\ Merged(e) => Merged(e)'
             /\ Extending(e)' => Extending(e)
  <2>1. Witness(e) => Witness(e)'
    BY <1>1, <1>2, <1>3, <1>4 DEF Witness
  <2>2. Merged(e) => Merged(e)'
    BY <1>1, <1>2, <1>3, <1>4 DEF Merged
  <2>3. Extending(e)' => Extending(e)
    BY <1>1, <1>2, <1>3, <1>4 DEF Extending
  <2> QED
    BY <2>1, <2>2, <2>3
<1>6. CrossingsWait'
  BY <1>1, <1>5 DEF CrossingsWait
<1>7. ReservationsDisjoint'
  BY <1>1, <1>5 DEF ReservationsDisjoint
<1> QED
  BY <1>6, <1>7
-----------------------------------------------------------------------------
(* NextIsNew and BarrierInv                                                 *)
LEMMA UnionFrame ==
    ASSUME TypeOK, NEW c \in Commands, Effect(c)
    PROVE  \/ UNCHANGED bindings
           \/ Joins(c)
           \/ \E s \in Senders : Unbind(c, s)
BY DEF Effect, Left, Goes, Reacquire, ReadBind, ReadIds, Install, Block, Sleep, Resume, Finish,
       TaskDone, Plan, Reserves, Recheck, Replans, Relist, Misses, NoRefresh, Refresh, bindings

LEMMA NextStep ==
    ASSUME TypeOK, NextIsNew, NEW c \in Commands, Effect(c)
    PROVE  NextIsNew' /\ next' \in Nat /\ next <= next'
<1>1. CASE UNCHANGED bindings
  BY <1>1 DEF NextIsNew, bindings, TypeOK
<1>2. CASE Joins(c)
  BY <1>2 DEF Joins, NextIsNew, TypeOK
<1>3. ASSUME NEW s \in Senders, Unbind(c, s)
      PROVE  NextIsNew' /\ next' \in Nat /\ next <= next'
  BY <1>3 DEF Unbind, NextIsNew, TypeOK
<1> QED
  BY <1>1, <1>2, <1>3, UnionFrame

(* A union that is there already gets no account from anybody.              *)
LEMMA OldUnionsShrink ==
    ASSUME TypeOK, NextIsNew, NEW c \in Commands, Effect(c)
    PROVE  \A u \in Nat : u < next => Bound(u)' \subseteq Bound(u)
<1>1. CASE UNCHANGED bindings
  BY <1>1 DEF bindings, Bound
<1>2. CASE Joins(c)
  BY <1>2 DEF Joins, Bound, TypeOK
<1>3. ASSUME NEW s \in Senders, Unbind(c, s)
      PROVE  \A u \in Nat : u < next => Bound(u)' \subseteq Bound(u)
  BY <1>3 DEF Unbind, Bound, TypeOK
<1> QED
  BY <1>1, <1>2, <1>3, UnionFrame

LEMMA OldAccounts ==
    ASSUME TypeOK, NextIsNew, NEW c \in Commands, Effect(c),
           NEW us \in SUBSET Nat, \A u \in us : u < next
    PROVE  {s \in Senders : union'[s] \in us} \subseteq Accounts(us)
<1> SUFFICES ASSUME NEW s \in Senders, NEW u \in us, union'[s] = u PROVE union[s] \in us
  BY DEF Accounts
<1>1. s \in Bound(u)'
  BY DEF Bound
<1>2. s \in Bound(u)
  BY <1>1, OldUnionsShrink
<1> QED
  BY <1>2 DEF Bound

LEMMA BarrierOfOthers ==
    ASSUME TypeOK, Barriers, NextIsNew, NEW c \in Commands, Effect(c), NEW d \in Commands \ {c}
    PROVE  BarrierInv(d)'
<1>1. /\ Woke(pc[d], pc'[d])
      /\ seen'[d] = seen[d] /\ plan'[d] = plan[d] /\ anchor'[d] = anchor[d]
  BY StepFrame
<1>2. BarrierInv(d)
  BY DEF Barriers
<1>3. \A u \in seen'[d] : u < next'
  BY <1>1, <1>2, NextStep DEF BarrierInv, TypeOK
<1>4. pc'[d] = "merge" => Accounts(seen[d])' \subseteq plan'[d]
  <2>1. seen[d] \in SUBSET Nat /\ \A u \in seen[d] : u < next
    BY <1>2 DEF TypeOK, BarrierInv
  <2>2. Accounts(seen[d])' \subseteq Accounts(seen[d])
    BY <1>1, <2>1, OldAccounts DEF Accounts
  <2>3. pc'[d] = "merge" => pc[d] = "merge"
    BY <1>1 DEF Woke
  <2> QED
    BY <1>1, <1>2, <2>2, <2>3 DEF BarrierInv
<1> QED
  BY <1>1, <1>2, <1>3, <1>4 DEF BarrierInv

(* What c itself has read and planned.                                      *)
LEMMA OwnReading ==
    ASSUME TypeOK, Barriers, NextIsNew, NEW c \in Commands, Effect(c)
    PROVE  /\ \A u \in seen'[c] : u < next'
           /\ anchor'[c] \subseteq plan'[c]
<1>1. /\ \A u \in seen[c] : u < next
      /\ anchor[c] \subseteq plan[c]
  BY DEF Barriers, BarrierInv
<1>2. next \in Nat /\ next' \in Nat /\ next <= next' /\ seen[c] \subseteq Nat
  BY NextStep DEF TypeOK
<1>3. /\ \A u \in seen'[c] : u \in Nat /\ u < next
      /\ anchor'[c] \subseteq plan'[c]
  <2>1. CASE Left(c)
    BY <2>1, LeftEffect
  <2>2. CASE Refresh(c) \/ NoRefresh(c)
    BY <2>2 DEF Refresh, NoRefresh, Forget, TypeOK
  <2>3. CASE \/ Goes(c) \/ Reacquire(c) \/ Install(c) \/ Block(c) \/ Sleep(c) \/ Resume(c) \/ Finish(c)
             \/ TaskDone(c) \/ Reserves(c) \/ Recheck(c) \/ Misses(c) \/ Joins(c) \/ ReadIds(c)
    BY <1>1, <1>2, <2>3 DEF Goes, Reacquire, Install, Block, Sleep, Resume, Finish, TaskDone, Reserves,
                      Recheck, Misses, Joins, ReadIds, locals, TypeOK
  <2>4. CASE \E s \in Senders : Unbind(c, s)
    BY <1>1, <1>2, <2>4 DEF Unbind, locals
  <2>5. CASE ReadBind(c)
    <3>1. Subject(c) \in Senders
      BY ConstantsAssumption DEF Subject, TypeOK
    <3> QED
      BY <1>1, <1>2, <2>5, <3>1 DEF ReadBind, NextIsNew, TypeOK
  <2>6. ASSUME NEW first \in Senders, NEW second \in Senders, Plan(c, first, second)
        PROVE  seen' = seen /\ anchor'[c] \subseteq plan'[c]
    BY <2>6 DEF Plan, TypeOK, Bound
  <2>7. CASE Replans(c)
    BY <1>1, <1>2, <2>7 DEF Replans, TypeOK, NextIsNew
  <2>8. CASE Relist(c)
    BY <1>1, <1>2, <2>8 DEF Relist, TypeOK
  <2> QED
    BY <1>1, <1>2, <2>1, <2>2, <2>3, <2>4, <2>5, <2>6, <2>7, <2>8 DEF Effect
<1> QED
  BY <1>1, <1>2, <1>3

LEMMA MergingHow ==
    ASSUME TypeOK, NEW c \in Commands, Effect(c)
    PROVE  /\ pc'[c] = "merge" => Relist(c)
           /\ pc'[c] = "relist" => Replans(c)
<1>1. CASE Left(c)
  BY <1>1, LeftEffect
<1>2. CASE Sleep(c) \/ Finish(c) \/ TaskDone(c)
  BY <1>2, RemoveEffect DEF Sleep, Finish, TaskDone, TypeOK, Released
<1>3. CASE \E first, second \in Senders : Plan(c, first, second)
  BY <1>3, RemoveEffect DEF Plan, Released
<1>4. CASE \/ Goes(c) \/ Reacquire(c) \/ ReadBind(c) \/ ReadIds(c) \/ Install(c) \/ Block(c)
           \/ Resume(c) \/ Recheck(c) \/ Misses(c) \/ Joins(c) \/ NoRefresh(c)
           \/ \E s \in Senders : Unbind(c, s)
  BY <1>4 DEF Goes, Reacquire, ReadBind, ReadIds, Install, Block, Resume, Recheck, Misses, Joins,
              NoRefresh, Unbind, TypeOK
<1>5. CASE Reserves(c)
  BY <1>5 DEF Reserves, TypeOK
<1>6. CASE Replans(c) \/ Relist(c)
  BY <1>6 DEF Replans, Relist, TypeOK
<1>7. CASE Refresh(c)
  BY <1>7 DEF Refresh, Woken, TypeOK
<1> QED
  BY <1>1, <1>2, <1>3, <1>4, <1>5, <1>6, <1>7 DEF Effect

LEMMA BarrierStep ==
    ASSUME TypeOK, Barriers, NextIsNew, NEW c \in Commands, Effect(c)
    PROVE  Barriers'
<1>1. pc'[c] = "merge" => Accounts(seen[c])' \subseteq plan'[c]
  <2>1. Relist(c) /\ pc'[c] = "merge" =>
            UNCHANGED <<bindings, seen, plan>> /\ Accounts(seen[c]) \subseteq plan[c]
    BY DEF Relist, TypeOK, bindings
  <2> QED
    BY <2>1, MergingHow DEF Accounts, bindings
<1>2. BarrierInv(c)'
  BY <1>1, OwnReading DEF BarrierInv
<1> QED
  BY <1>2, BarrierOfOthers DEF Barriers

LEMMA BarrierMessage ==
    ASSUME TypeOK, Roots, Barriers, NextIsNew, NEW c \in Commands, Message(c)
    PROVE  Barriers' /\ NextIsNew'
<1>1. UNCHANGED <<bindings, locals>>
  BY MessageFrame
<1>2. NextIsNew'
  BY <1>1 DEF NextIsNew, bindings
<1>3. \A d \in Commands : pc'[d] = "merge" => pc[d] = "merge"
  BY MessageFrame
<1> QED
  BY <1>1, <1>2, <1>3 DEF Barriers, BarrierInv, Accounts, bindings, locals
-----------------------------------------------------------------------------
(* LockedInv, as long as no merge is the answer to another command:         *)
(* then nobody else uses the ExecutionState of a merge.                     *)
LEMMA MergeAlone ==
    ASSUME TypeOK, Roots, Phases, NoMergeAnswers, NEW c \in Commands, Reserved(c)
    PROVE  c \in Merges /\ exec[c] = c /\ \A d \in Commands \ {c} : exec[d] # c
<1>1. c \in Merges
  BY DEF Phases, PhaseInv, Reserved, Merging
<1> QED
  BY <1>1 DEF NoMergeAnswers, Roots, RootInv

(* An anchor of a merge that has reserved is merged by nobody else.         *)
LEMMA AnchorStays ==
    ASSUME TypeOK, Barriers, ReservationsDisjoint, NextIsNew, \A e \in Commands : LockedInv(e),
           NEW c \in Commands, Effect(c), NEW d \in Commands \ {c}, Reserved(d), NEW s \in anchor[d]
    PROVE  union'[s] = union[s] \/ Bound(union[s])' \subseteq lease[d]
<1>1. s \in lease[d] /\ s \in Senders /\ d \in reserved
  BY DEF Barriers, BarrierInv, TypeOK, LockedInv
<1>2. CASE UNCHANGED bindings
  BY <1>2 DEF bindings
<1>3. CASE Joins(c)
  <2>1. Reserved(c) /\ pc[c] = "merge"
    BY <1>3 DEF Joins, Reserved
  <2>2. Accounts(seen[c]) \subseteq lease[c] /\ c \in reserved
    BY <2>1 DEF Barriers, BarrierInv, LockedInv
  <2>3. s \notin Accounts(seen[c])
    BY <1>1, <2>2 DEF ReservationsDisjoint
  <2> QED
    BY <1>1, <1>3, <2>3 DEF Joins, Accounts
<1>4. ASSUME NEW t \in Senders, Unbind(c, t)
      PROVE  union'[s] = union[s] \/ Bound(union[s])' \subseteq lease[d]
  <2>1. CASE t # s
    BY <1>1, <1>4, <2>1 DEF Unbind, TypeOK
  <2>2. CASE t = s
    <3>1. union'[s] = next /\ \A r \in Senders \ {s} : union'[r] = union[r]
      BY <1>1, <1>4, <2>2 DEF Unbind, TypeOK
    <3>2. \A r \in Senders : union[r] # next
      BY DEF NextIsNew, TypeOK
    <3>3. Bound(union[s])' \subseteq {s}
      BY <1>1, <3>1, <3>2 DEF Bound
    <3> QED
      BY <1>1, <3>3
  <2> QED
    BY <2>1, <2>2
<1> QED
  BY <1>2, <1>3, <1>4, UnionFrame

LEMMA LockedOfOthers ==
    ASSUME TypeOK, Roots, Phases, Barriers, ReservationsDisjoint, NextIsNew, NoMergeAnswers,
           \A e \in Commands : LockedInv(e), NEW c \in Commands, Effect(c), NEW d \in Commands \ {c}
    PROVE  LockedInv(d)'
<1>1. /\ Woke(pc[d], pc'[d]) /\ goal'[d] = goal[d]
      /\ seen'[d] = seen[d] /\ plan'[d] = plan[d] /\ anchor'[d] = anchor[d]
  BY StepFrame
<1>2. LockedInv(d) /\ PhaseInv(d)
  BY DEF Phases
<1>3. Reserved(d)' => Reserved(d)
  BY <1>1, <1>2 DEF Reserved, Refreshing, Waiting, Reading, Woke, PhaseInv
<1>4. Reserved(d) => lease'[d] = lease[d] /\ (d \in reserved' <=> d \in reserved)
  BY MergeAlone, StepFrame
<1>5. ASSUME NEW s \in anchor[d], Reserved(d)
      PROVE  /\ union[s] \in seen[d] => union'[s] \in seen'[d] \/ Bound(union[s])' \subseteq lease'[d]
             /\ Bound(union[s]) \subseteq lease[d] => Bound(union[s])' \subseteq lease'[d]
  <2>1. union[s] \in Nat /\ union[s] < next
    BY DEF TypeOK, NextIsNew
  <2>2. union'[s] = union[s] => Bound(union[s])' \subseteq Bound(union[s])
    BY <2>1, OldUnionsShrink DEF Bound
  <2> QED
    BY <1>1, <1>4, <1>5, <2>2, AnchorStays
<1>6. /\ pc'[d] \in {"relist", "merge"} => pc[d] \in {"relist", "merge"} /\ Reserved(d)
      /\ Refreshing(d)' => Refreshing(d) /\ Reserved(d)
  BY <1>1, <1>2 DEF Woke, Reserved, Refreshing, Reading, PhaseInv
<1> QED
  BY <1>1, <1>2, <1>3, <1>4, <1>5, <1>6 DEF LockedInv

(* The ways into the part of a merge that is past reserve().                *)
ReservedHow(c) ==
    \/ Reserves(c)
    \/ /\ Reserved(c) /\ UNCHANGED <<lease, reserved>> /\ plan' = plan /\ anchor' = anchor
       /\ \/ Joins(c)
          \/ UNCHANGED bindings /\ (Recheck(c) \/ Replans(c) \/ Relist(c))
          \/ UNCHANGED bindings /\ Refreshing(c)

LEMMA IntoReserved ==
    ASSUME TypeOK, Phases, NEW c \in Commands, Effect(c), Reserved(c)'
    PROVE  ReservedHow(c)
<1>1. pc'[c] \in {"pending", "recheck", "replan", "relist", "merge", "bind", "ids", "check"}
  BY DEF Reserved, Refreshing, Reading, Waiting
<1>2. CASE Left(c)
  BY <1>1, <1>2, LeftEffect
<1>3. CASE Sleep(c) \/ Finish(c) \/ TaskDone(c)
  BY <1>1, <1>3, RemoveEffect DEF Sleep, Finish, TaskDone, TypeOK, Released
<1>4. CASE \E first, second \in Senders : Plan(c, first, second)
  BY <1>1, <1>4, RemoveEffect DEF Plan, Released
<1>5. CASE Goes(c) \/ Reacquire(c)
  <2>1. goal'[c] # "refresh" /\ pc'[c] = "bind"
    BY <1>5 DEF Goes, Reacquire, Phases, PhaseInv, TypeOK
  <2> QED
    BY <2>1 DEF Reserved, Refreshing, Waiting
<1>6. CASE \/ Install(c) \/ Block(c) \/ Resume(c) \/ Misses(c) \/ NoRefresh(c)
           \/ \E s \in Senders : Unbind(c, s)
  BY <1>1, <1>6 DEF Install, Block, Resume, Misses, NoRefresh, Unbind, TypeOK
<1>7. CASE ReadBind(c) \/ ReadIds(c)
  <2>1. /\ pc[c] \in Reading /\ pc'[c] \in {"ids", "check"} /\ goal' = goal
        /\ UNCHANGED <<bindings, lease, reserved>> /\ plan' = plan /\ anchor' = anchor
    BY <1>7 DEF ReadBind, ReadIds, Reading, TypeOK, bindings, locks
  <2>2. Refreshing(c)
    BY <2>1 DEF Reserved, Refreshing, Waiting
  <2> QED
    BY <2>1, <2>2 DEF ReservedHow, Reserved
<1>8. CASE Recheck(c) \/ Replans(c) \/ Joins(c)
  <2>1. Reserved(c)
    BY <1>8 DEF Recheck, Replans, Joins, Reserved, Waiting
  <2> QED
    BY <1>8, <2>1 DEF Recheck, Replans, Joins, ReservedHow, locals, locks, bindings
<1>9. CASE Relist(c)
  <2>1. pc[c] = "relist" /\ pc'[c] \in {"merge", "reserve"} /\ UNCHANGED <<bindings, lease, reserved>>
        /\ anchor' = anchor
    BY <1>9 DEF Relist, TypeOK, bindings, locks
  <2>2. plan' = plan
    BY <1>1, <1>9 DEF Relist, TypeOK
  <2> QED
    BY <1>9, <2>1, <2>2 DEF ReservedHow, Reserved
<1>10. CASE Reserves(c)
  BY <1>10 DEF ReservedHow
<1>11. CASE Refresh(c)
  BY <1>1, <1>11 DEF Refresh, Woken, TypeOK
<1> QED
  BY <1>2, <1>3, <1>4, <1>5, <1>6, <1>7, <1>8, <1>9, <1>10, <1>11 DEF Effect

LEMMA LockedOfOwn ==
    ASSUME TypeOK, Roots, Phases, Barriers, NextIsNew, NoMergeAnswers,
           \A e \in Commands : LockedInv(e), NEW c \in Commands, Effect(c)
    PROVE  LockedInv(c)'
<1>1. LockedInv(c) /\ BarrierInv(c)
  BY DEF Barriers
<1>2. Reserved(c)' => c \in reserved' /\ plan'[c] \subseteq lease'[c]
  <2> SUFFICES ASSUME Reserved(c)' PROVE c \in reserved' /\ plan'[c] \subseteq lease'[c]
    OBVIOUS
  <2>1. CASE Reserves(c)
    <3>1. exec[c] = c
      BY <2>1 DEF Reserves, Phases, PhaseInv, Merging, NoMergeAnswers
    <3>2. /\ lease' = [lease EXCEPT ![c] = lease[c] \cup plan[c]]
          /\ reserved' = reserved \cup {c} /\ plan' = plan
      BY <2>1, <3>1 DEF Reserves
    <3> QED
      BY <3>2 DEF TypeOK
  <2>2. CASE Reserved(c) /\ UNCHANGED <<lease, reserved>> /\ plan' = plan
    BY <1>1, <2>2 DEF LockedInv
  <2> QED
    BY <2>1, <2>2, IntoReserved DEF ReservedHow
<1>3. Relist(c) /\ pc'[c] = "merge" =>
          /\ UNCHANGED <<bindings, lease, seen, anchor>> /\ pc[c] = "relist"
  BY DEF Relist, TypeOK, bindings, locks
<1>4. ASSUME pc'[c] \in {"relist", "merge"}, NEW s \in anchor'[c]
      PROVE  union'[s] \in seen'[c] \/ Bound(union[s])' \subseteq lease'[c]
  <2>1. CASE pc'[c] = "merge"
    BY <1>1, <1>3, <1>4, <2>1, MergingHow DEF LockedInv, Bound, bindings
  <2>2. CASE pc'[c] = "relist"
    BY <1>4, <2>2, MergingHow DEF Replans, bindings, TypeOK
  <2> QED
    BY <1>4, <2>1, <2>2
<1>5. ASSUME Refreshing(c)', NEW s \in anchor'[c]
      PROVE  Bound(union[s])' \subseteq lease'[c]
  <2>1. ReservedHow(c)
    BY <1>5, IntoReserved DEF Reserved
  <2>2. ~Reserves(c) /\ ~Recheck(c) /\ ~Replans(c) /\ ~Relist(c)
    <3>1. pc'[c] \notin {"pending", "replan", "relist", "merge", "reserve"}
      BY <1>5 DEF Refreshing, Reading
    <3> QED
      BY <3>1 DEF Reserves, Recheck, Replans, Relist, TypeOK
  <2>3. CASE Joins(c)
    <3>1. Accounts(seen[c]) \subseteq lease[c]
      BY <1>1, <2>3 DEF Joins, BarrierInv, LockedInv, Reserved
    <3>2. /\ s \in anchor[c] /\ s \in Senders /\ lease' = lease
          /\ union[s] \in seen[c] \/ Bound(union[s]) \subseteq lease[c]
      BY <1>1, <1>5, <2>3 DEF Joins, LockedInv, locks, TypeOK
    <3>3. \A r \in Senders : union'[r] = IF union[r] \in seen[c] THEN next ELSE union[r]
      BY <2>3 DEF Joins
    <3>4. \A r \in Senders : union[r] # next
      BY DEF NextIsNew, TypeOK
    <3>5. CASE union[s] \in seen[c]
      <4>1. Bound(union[s])' \subseteq Accounts(seen[c])
        BY <3>2, <3>3, <3>4, <3>5 DEF Bound, Accounts
      <4> QED
        BY <3>1, <3>2, <4>1
    <3>6. CASE union[s] \notin seen[c]
      <4>1. Bound(union[s])' \subseteq Bound(union[s])
        BY <3>2, <3>3, <3>4, <3>6 DEF Bound
      <4> QED
        BY <3>2, <3>6, <4>1
    <3> QED
      BY <3>5, <3>6
  <2>4. CASE Refreshing(c) /\ UNCHANGED <<bindings, lease>> /\ anchor' = anchor
    BY <1>1, <1>5, <2>4 DEF LockedInv, Bound, bindings
  <2> QED
    BY <2>1, <2>2, <2>3, <2>4 DEF ReservedHow
<1> QED
  BY <1>2, <1>4, <1>5 DEF LockedInv

LEMMA LockedStep ==
    ASSUME TypeOK, Roots, Phases, Barriers, ReservationsDisjoint, NextIsNew, Lockeds,
           NEW c \in Commands, Effect(c)
    PROVE  Lockeds'
<1>1. NoMergeAnswers' => NoMergeAnswers
  BY StepFrame DEF NoMergeAnswers
<1>2. ASSUME NoMergeAnswers PROVE \A d \in Commands : LockedInv(d)'
  BY <1>2, LockedOfOthers, LockedOfOwn DEF Lockeds
<1> QED
  BY <1>1, <1>2 DEF Lockeds

LEMMA LockedMessage ==
    ASSUME TypeOK, Roots, Lockeds, NEW c \in Commands, Message(c)
    PROVE  Lockeds'
<1>1. UNCHANGED <<bindings, locks, locals>>
  BY MessageFrame
<1>2. NoMergeAnswers' => NoMergeAnswers
  BY MessageFrame, ConstantsAssumption DEF NoMergeAnswers
<1>3. ASSUME NEW d \in Commands, LockedInv(d) PROVE LockedInv(d)'
  <2>1. \/ pc'[d] = pc[d] /\ goal'[d] = goal[d]
        \/ pc'[d] \in {"acquire", "run"}
    BY MessageFrame
  <2>2. /\ pc'[d] \in {"relist", "merge"} => pc[d] \in {"relist", "merge"}
        /\ Reserved(d)' => Reserved(d)
        /\ Refreshing(d)' => Refreshing(d)
    BY <2>1 DEF Reserved, Refreshing, Reading, Waiting
  <2> QED
    BY <1>1, <1>3, <2>2 DEF LockedInv, Bound, bindings, locks, locals
<1> QED
  BY <1>2, <1>3 DEF Lockeds
-----------------------------------------------------------------------------
(* The invariant                                                            *)
LEMMA InvParts ==
    IInv <=> /\ TypeOK /\ NoLostWakeup /\ CrossingsWait
             /\ Roots /\ Phases /\ Tokens /\ Owners /\ Users /\ Barriers
             /\ SendersDiffer /\ NextIsNew /\ ReservationsDisjoint /\ Lockeds
BY DEF IInv, Roots, Phases, Tokens, Owners, Users, Barriers, Lockeds

LEMMA InvInit == Init => IInv
<1> SUFFICES ASSUME Init PROVE IInv
  OBVIOUS
<1>1. TypeOK
  BY TypeInit
<1>2. /\ exec = [c \in Commands |-> c] /\ lease = [c \in Commands |-> {}]
      /\ reserved = {} /\ holding = {}
      /\ owner = [c \in Commands |-> NoTask] /\ pc = [c \in Commands |-> "idle"]
      /\ goal = [c \in Commands |-> "none"] /\ seen = [c \in Commands |-> {}]
      /\ plan = [c \in Commands |-> {}] /\ anchor = [c \in Commands |-> {}]
  BY DEF Init
<1>3. NextIsNew
  <2>1. Cardinality(Senders) \in Nat
    BY ConstantsAssumption, FS_CardinalityType
  <2>2. union \in [Senders -> 1 .. Cardinality(Senders)] /\ next = Cardinality(Senders) + 1
    BY ConstantsAssumption DEF Init
  <2> QED
    BY <2>1, <2>2 DEF NextIsNew
<1>4. NoLostWakeup /\ CrossingsWait /\ SendersDiffer /\ ReservationsDisjoint
  BY <1>2 DEF NoLostWakeup, CrossingsWait, SendersDiffer, ReservationsDisjoint, Extending
<1>5. ASSUME NEW c \in Commands
      PROVE  /\ RootInv(c) /\ PhaseInv(c) /\ TokenInv(c) /\ OwnerInv(c) /\ UserInv(c)
             /\ BarrierInv(c) /\ LockedInv(c)
  BY <1>2 DEF RootInv, PhaseInv, TokenInv, OwnerInv, UserInv, BarrierInv, LockedInv, Merging, Waiting,
     Reserved, Refreshing, Reading, Running, Shared, NoTask
<1> QED
  BY <1>1, <1>3, <1>4, <1>5 DEF IInv

LEMMA InvStep == IInv /\ [Next]_vars => IInv'
<1> SUFFICES ASSUME IInv, [Next]_vars PROVE IInv'
  OBVIOUS
<1>1. TypeOK'
  BY TypeStep DEF IInv
<1>2. ASSUME NEW c \in Commands, Message(c) PROVE IInv'
  <2>1. Roots' /\ Phases' /\ Tokens' /\ Owners' /\ Users' /\ SendersDiffer'
    BY <1>2, InvParts, RootMessage, PhaseMessage, TokenMessage, OwnerMessage, UserMessage
  <2>2. NoLostWakeup' /\ CrossingsWait' /\ ReservationsDisjoint'
    BY <1>2, InvParts, WakeupMessage, CrossingsMessage
  <2>3. Barriers' /\ NextIsNew' /\ Lockeds'
    BY <1>2, InvParts, BarrierMessage, LockedMessage
  <2> QED
    BY <1>1, <2>1, <2>2, <2>3 DEF IInv, Roots, Phases, Tokens, Owners, Users, Barriers, Lockeds
<1>3. ASSUME NEW c \in Commands, Step(c) \/ Fail(c) PROVE IInv'
  <2>1. Effect(c)
    BY <1>3, StepEffect, InvParts DEF Phases
  <2>2. Roots' /\ Tokens' /\ Owners' /\ Users' /\ SendersDiffer'
    BY <2>1, InvParts, RootStep, TokenStep, OwnerStep, UserStep, SendersStep
  <2>3. Phases'
    <3>1. \A d \in Commands \ {c} : PhaseInv(d)'
      BY <2>1, InvParts, PhaseOfOthers
    <3>2. PhaseInv(c)'
      BY <2>1, InvParts, PhaseStep
    <3> QED
      BY <3>1, <3>2 DEF Phases
  <2>4. NoLostWakeup' /\ CrossingsWait' /\ ReservationsDisjoint'
    BY <2>1, InvParts, WakeupStep, CrossingsStep, ReservationsStep
  <2>5. NextIsNew' /\ Barriers' /\ Lockeds'
    BY <2>1, InvParts, NextStep, BarrierStep, LockedStep
  <2> QED
    BY <1>1, <2>2, <2>3, <2>4, <2>5 DEF IInv, Roots, Phases, Tokens, Owners, Users, Barriers, Lockeds
<1>4. CASE UNCHANGED vars
  <2> USE <1>4 DEF vars, bindings, locks, session, locals
  <2>1. NoLostWakeup' /\ SendersDiffer' /\ NextIsNew'
    BY DEF IInv, NoLostWakeup, SendersDiffer, NextIsNew, Crossed
  <2>2. CrossingsWait' /\ ReservationsDisjoint'
    BY DEF IInv, CrossingsWait, ReservationsDisjoint, Witness, Extending, Merged
  <2>3. ASSUME NEW c \in Commands
        PROVE  (RootInv(c) /\ PhaseInv(c) /\ TokenInv(c) /\ OwnerInv(c) /\ UserInv(c) /\ BarrierInv(c))'
    BY DEF IInv, RootInv, PhaseInv, TokenInv, OwnerInv, UserInv, BarrierInv, Refreshing, Subject, Running,
           Shared, Accounts
  <2>4. (NoMergeAnswers => \A c \in Commands : LockedInv(c))'
    BY DEF IInv, NoMergeAnswers, LockedInv, Reserved, Refreshing, Bound
  <2> QED
    BY <1>1, <2>1, <2>2, <2>3, <2>4 DEF IInv
<1> QED
  BY <1>2, <1>3, <1>4 DEF Next, Stopped
-----------------------------------------------------------------------------
(* The inductive invariant holds in every reachable state, with any         *)
(* messages as answers, those that merge included.                          *)
THEOREM Invariant == Spec => []IInv
BY InvInit, InvStep, PTL DEF Spec

(* Nobody sleeps on _changed for a lease that has gone, or for his own      *)
(* (lock.py: acquire, reserve, _notify_changed).                            *)
THEOREM WakeupsArrive == Spec => []NoLostWakeup
<1>1. IInv => NoLostWakeup
  BY DEF IInv
<1> QED
  BY Invariant, <1>1, PTL

(* Of two leases that meet, one is that of a merge in reserve(), which      *)
(* waits for the other, or that of a merge that is over.                    *)
THEOREM LeasesApart == Spec => []LeasesDisjoint
<1>1. IInv => LeasesDisjoint
  <2> SUFFICES ASSUME IInv, NEW e \in Commands, NEW f \in Commands, e # f,
                      lease[e] \cap lease[f] # {}, ~Merged(e), ~Merged(f)
               PROVE  Extending(e) # Extending(f)
    BY DEF LeasesDisjoint
  <2>1. Witness(e) \/ Witness(f)
    BY DEF IInv, CrossingsWait
  <2>2. Extending(e) \/ Extending(f)
    BY <2>1 DEF Witness, Extending
  <2>3. ~(Extending(e) /\ Extending(f))
    BY DEF IInv, ReservationsDisjoint
  <2>4. Extending(e) \in BOOLEAN /\ Extending(f) \in BOOLEAN
    BY DEF Extending
  <2> QED
    BY <2>2, <2>3, <2>4
<1> QED
  BY Invariant, <1>1, PTL

(* Every lease has a task at work that is going to give it back             *)
(* (lock.py: _bind_owner_task, _release_finished_owner).                    *)
THEOREM LeasesOwned == Spec => []LeaseHasOwner
<1>1. IInv => LeaseHasOwner
  <2> SUFFICES ASSUME IInv, NEW e \in Commands, lease[e] # {}
               PROVE  owner[e] \in {c \in Commands : exec[c] = e /\ pc[c] \notin {"idle", "done"}}
    BY DEF LeaseHasOwner
  <2>1. owner[e] # NoTask /\ exec[owner[e]] = e /\ pc[owner[e]] \notin {"idle", "done"}
    BY DEF IInv, OwnerInv
  <2>2. owner[e] \in Commands
    BY <2>1 DEF IInv, TypeOK
  <2> QED
    BY <2>1, <2>2
<1> QED
  BY Invariant, <1>1, PTL

(* merge_union() moves only accounts that its command has locked, and no    *)
(* other command at work has, as long as no merge came in as an answer      *)
(* (union_merge.py: reserve_sender_merge).                                  *)
THEOREM MergesGuarded == Spec => []MergeBarrier
<1>1. IInv => MergeBarrier
  <2> SUFFICES ASSUME IInv, NoMergeAnswers, NEW c \in Commands
               PROVE  /\ Affected(c) \subseteq lease[c]
                      /\ \A d \in Commands \ {c} : lease[d] \cap Affected(c) # {} => Merged(d)
    BY DEF MergeBarrier
  <2>1. BarrierInv(c) /\ LockedInv(c)
    BY DEF IInv
  <2>2. Affected(c) # {} => Reserved(c) /\ pc[c] \notin Waiting \cup {"last"}
    BY DEF Affected, Reserved, Refreshing, Reading, Waiting
  <2>3. Affected(c) \subseteq lease[c]
    <3>1. CASE pc[c] = "merge"
      BY <2>1, <3>1 DEF Affected, BarrierInv, LockedInv, Reserved
    <3>2. CASE pc[c] # "merge" /\ Refreshing(c)
      <4>1. Affected(c) = {r \in Senders : union[r] \in {union[s] : s \in anchor[c]}}
        BY <3>2 DEF Affected, Accounts
      <4>2. \A s \in anchor[c] : {r \in Senders : union[r] = union[s]} \subseteq lease[c]
        BY <2>1, <3>2 DEF LockedInv, Bound
      <4> QED
        BY <4>1, <4>2
    <3>3. CASE pc[c] # "merge" /\ ~Refreshing(c)
      BY <3>3 DEF Affected
    <3> QED
      BY <3>1, <3>2, <3>3
  <2>4. ASSUME NEW d \in Commands \ {c}, lease[d] \cap Affected(c) # {}
        PROVE  Merged(d)
    <3>1. lease[c] \cap lease[d] # {} /\ Reserved(c) /\ pc[c] \notin Waiting \cup {"last"}
      BY <2>2, <2>3, <2>4
    <3>2. c \in reserved /\ ~Merged(c)
      BY <2>1, <3>1 DEF LockedInv, Merged
    <3>3. \A m \in Commands : exec[m] = c => m = c
      BY <3>1, MergeAlone, InvParts
    <3>4. ~Witness(c)
      BY <3>1, <3>3 DEF Witness, IInv, TypeOK
    <3>5. ~Witness(d) \/ Merged(d)
      <4>1. Witness(d) => Extending(d)
        BY DEF Witness, Extending
      <4>2. d \notin reserved
        BY <3>1, <3>2 DEF IInv, ReservationsDisjoint
      <4> QED
        BY <4>1, <4>2 DEF IInv, ReservationsDisjoint
    <3> QED
      BY <3>1, <3>2, <3>4, <3>5 DEF IInv, CrossingsWait
  <2> QED
    BY <2>3, <2>4
<1> QED
  BY Invariant, <1>1, PTL

(* Commands of one user run one at a time, unless a reply shares the        *)
(* ExecutionState of one of them (lock.py: acquire; internal.py:            *)
(* _share_execution_state).                                                 *)
THEOREM UsersServedOneByOne == Spec => []OneCommandPerUser
<1>1. IInv => OneCommandPerUser
  <2> SUFFICES ASSUME IInv, NEW c \in Commands, NEW d \in Commands, Clash(c, d),
                      ~ \E r \in Replies : exec[r] # r /\ exec[r] \in {exec[c], exec[d]}
               PROVE  FALSE
    BY DEF OneCommandPerUser
  <2>1. \A r \in Commands : exec[r] # r => r \in Replies
    BY DEF IInv, RootInv
  <2>2. exec[c] = c /\ exec[d] = d
    BY <2>1
  <2>3. ~Shared(c) /\ ~Shared(d)
    BY <2>1, <2>2 DEF Shared
  <2>4. lease[c] # {} /\ lease[d] # {}
    BY <2>2, <2>3 DEF IInv, UserInv, Clash
  <2>5. Sender[c] # Sender[d]
    BY <2>4 DEF IInv, SendersDiffer, Clash
  <2> QED
    BY <2>2, <2>5 DEF Clash, Subject
<1> QED
  BY Invariant, <1>1, PTL
=============================================================================
