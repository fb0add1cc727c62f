------------------------------ MODULE FleetProofs ------------------------------
(* Proofs about the daemon within Fleet, for any number of bots, crashes,   *)
(* restarts and interrupts.                                                 *)
EXTENDS Fleet, FiniteSetTheorems, TLAPS

(* list.remove() of a process that is in the list.                          *)
LEMMA RemoveOne ==
    ASSUME NEW S, NEW s \in Seq(S), IsInjective(s), NEW i \in 1 .. Len(s)
    PROVE  RemoveFirst(s, s[i]) = SubSeq(s, 1, i - 1) \o SubSeq(s, i + 1, Len(s))
<1> DEFINE I == {j \in 1 .. Len(s) : s[j] = s[i]}
<1>1. I = {i}
  BY DEF IsInjective
<1>2. Min({i}) = i
  BY DEF Min
<1>3. SelectInSeq(s, LAMBDA v : v = s[i]) = i
  BY <1>1, <1>2 DEF SelectInSeq
<1> QED
  BY <1>3 DEF RemoveFirst, RemoveAt

LEMMA Without ==
    ASSUME NEW S, NEW s \in Seq(S), IsInjective(s), NEW e \in Range(s)
    PROVE  /\ RemoveFirst(s, e) \in Seq(S) /\ IsInjective(RemoveFirst(s, e))
           /\ Range(RemoveFirst(s, e)) = Range(s) \ {e}
<1>1. PICK i \in 1 .. Len(s) : s[i] = e
  BY DEF Range
<1> DEFINE a == SubSeq(s, 1, i - 1)
           b == SubSeq(s, i + 1, Len(s))
           t == a \o b
<1>2. RemoveFirst(s, e) = t
  BY <1>1, RemoveOne
<1>3. a \in Seq(S) /\ Len(a) = i - 1 /\ \A k \in 1 .. (i - 1) : a[k] = s[k]
  OBVIOUS
<1>4. b \in Seq(S) /\ Len(b) = Len(s) - i /\ \A k \in 1 .. (Len(s) - i) : b[k] = s[i + k]
  OBVIOUS
<1> HIDE DEF a, b
<1>5. /\ t \in Seq(S) /\ Len(t) = Len(s) - 1
      /\ \A k \in 1 .. (Len(s) - 1) : t[k] = IF k < i THEN s[k] ELSE s[k + 1]
  <2>5. a \in Seq(S) /\ b \in Seq(S)
    BY <1>3, <1>4
  <2>1. t \in Seq(S) /\ Len(t) = Len(a) + Len(b)
    BY ONLY <2>5
  <2>4. Len(t) = Len(s) - 1
    BY <1>3, <1>4, <2>1
  <2>2. ASSUME NEW k \in 1 .. (Len(s) - 1), k < i
        PROVE  t[k] = s[k]
    BY <1>3, <1>4, <2>2
  <2>3. ASSUME NEW k \in 1 .. (Len(s) - 1), ~(k < i)
        PROVE  t[k] = s[k + 1]
    <3>1. t[k] = b[k - (i - 1)] /\ k - (i - 1) \in 1 .. (Len(s) - i) /\ i + (k - (i - 1)) = k + 1
      BY <1>3, <1>4, <2>3
    <3> QED
      BY <1>4, <3>1
  <2> QED
    BY <2>1, <2>2, <2>3, <2>4
<1> HIDE DEF t
<1>6. \A j, k \in 1 .. Len(s) : s[j] = s[k] => j = k
  BY DEF IsInjective
<1>7. IsInjective(t)
  <2>1. ASSUME NEW j \in 1 .. (Len(s) - 1), NEW k \in 1 .. (Len(s) - 1), t[j] = t[k]
        PROVE  j = k
    BY <1>5, <1>6, <2>1
  <2> QED
    BY <1>5, <2>1 DEF IsInjective
<1>8. \A k \in 1 .. Len(t) : t[k] \in Range(s) \ {e}
  <2>1. ASSUME NEW k \in 1 .. (Len(s) - 1)
        PROVE  \E j \in 1 .. Len(s) : j # i /\ t[k] = s[j]
    <3>1. CASE k < i
      <4>1. k \in 1 .. Len(s) /\ k # i /\ t[k] = s[k]
        BY <1>5, <3>1
      <4> QED
        BY <4>1
    <3>2. CASE ~(k < i)
      <4>1. k + 1 \in 1 .. Len(s) /\ k + 1 # i /\ t[k] = s[k + 1]
        BY <1>5, <3>2
      <4> QED
        BY <4>1
    <3> QED
      BY <3>1, <3>2
  <2> QED
    <3> SUFFICES ASSUME NEW k \in 1 .. (Len(s) - 1)
                 PROVE  t[k] \in Range(s) \ {e}
      BY <1>5
    <3>1. PICK j \in 1 .. Len(s) : j # i /\ t[k] = s[j]
      BY <2>1
    <3> QED
      BY <1>1, <1>6, <3>1 DEF Range
<1>9. \A j \in 1 .. Len(s) : s[j] # e => \E k \in 1 .. Len(t) : t[k] = s[j]
  <2>1. SUFFICES ASSUME NEW j \in 1 .. Len(s), j # i
                 PROVE  \E k \in 1 .. (Len(s) - 1) : t[k] = s[j]
    BY <1>1, <1>5
  <2>2. CASE j < i
    BY <1>5, <2>2
  <2>3. CASE j > i
    <3>1. j - 1 \in 1 .. (Len(s) - 1) /\ ~(j - 1 < i) /\ (j - 1) + 1 = j
      BY <2>3
    <3> QED
      BY <1>5, <3>1
  <2> QED
    BY <2>1, <2>2, <2>3
<1>10. Range(t) = Range(s) \ {e}
  <2>1. DOMAIN t = 1 .. Len(t) /\ DOMAIN s = 1 .. Len(s)
    BY <1>5
  <2>2. Range(t) \subseteq Range(s) \ {e}
    BY <1>8, <2>1 DEF Range
  <2>3. ASSUME NEW v \in Range(s), v # e
        PROVE  v \in Range(t)
    BY <1>9, <2>1, <2>3 DEF Range
  <2> QED
    BY <2>2, <2>3
<1>11. RemoveFirst(s, e) = t
  BY <1>2 DEF t
<1> QED
  BY <1>5, <1>7, <1>10, <1>11

LEMMA Joined ==
    ASSUME NEW S, NEW s \in Seq(S), NEW t \in Seq(S), IsInjective(s), IsInjective(t),
           Range(s) \cap Range(t) = {}
    PROVE  s \o t \in Seq(S) /\ IsInjective(s \o t) /\ Range(s \o t) = Range(s) \cup Range(t)
<1> DEFINE u == s \o t
<1>1. /\ u \in Seq(S) /\ Len(u) = Len(s) + Len(t)
      /\ \A k \in 1 .. Len(s) : u[k] = s[k]
      /\ \A k \in 1 .. Len(t) : u[Len(s) + k] = t[k]
  OBVIOUS
<1> HIDE DEF u
<1>2. \A k \in 1 .. Len(u) : k \in 1 .. Len(s) \/ (k - Len(s) \in 1 .. Len(t) /\ u[k] = t[k - Len(s)])
  BY <1>1
<1>3. Range(u) \subseteq Range(s) \cup Range(t)
  BY <1>1, <1>2 DEF Range
<1>4. Range(s) \subseteq Range(u)
  <2>1. \A k \in 1 .. Len(s) : k \in 1 .. Len(u) /\ u[k] = s[k]
    BY <1>1
  <2> QED
    BY <1>1, <2>1 DEF Range
<1>5. Range(t) \subseteq Range(u)
  <2>1. \A k \in 1 .. Len(t) : Len(s) + k \in 1 .. Len(u) /\ u[Len(s) + k] = t[k]
    BY <1>1
  <2> QED
    BY <2>1 DEF Range
<1>6. IsInjective(u)
  <2>1. /\ \A j, k \in 1 .. Len(s) : s[j] = s[k] => j = k
        /\ \A j, k \in 1 .. Len(t) : t[j] = t[k] => j = k
        /\ \A j \in 1 .. Len(s), k \in 1 .. Len(t) : s[j] # t[k]
    BY DEF IsInjective, Range
  <2>2. ASSUME NEW j \in 1 .. Len(u), NEW k \in 1 .. Len(u), u[j] = u[k]
        PROVE  j = k
    <3>1. CASE j \in 1 .. Len(s) /\ k \in 1 .. Len(s)
      BY <1>1, <2>1, <2>2, <3>1
    <3>2. CASE j \notin 1 .. Len(s) /\ k \notin 1 .. Len(s)
      <4>1. j - Len(s) = k - Len(s)
        BY <1>2, <2>1, <2>2, <3>2
      <4> QED
        BY <4>1
    <3>3. CASE j \in 1 .. Len(s) /\ k \notin 1 .. Len(s)
      BY <1>1, <1>2, <2>1, <2>2, <3>3
    <3>4. CASE j \notin 1 .. Len(s) /\ k \in 1 .. Len(s)
      BY <1>1, <1>2, <2>1, <2>2, <3>4
    <3> QED
      BY <3>1, <3>2, <3>3, <3>4
  <2> QED
    BY <1>1, <2>2 DEF IsInjective
<1>7. s \o t = u
  BY DEF u
<1> QED
  BY <1>1, <1>3, <1>4, <1>5, <1>6, <1>7

LEMMA Single ==
    ASSUME NEW S, NEW e \in S
    PROVE  <<e>> \in Seq(S) /\ IsInjective(<<e>>) /\ Range(<<e>>) = {e}
BY DEF IsInjective, Range

LEMMA Added ==
    ASSUME NEW S, NEW s \in Seq(S), IsInjective(s), NEW e \in S, e \notin Range(s)
    PROVE  /\ Append(s, e) \in Seq(S) /\ IsInjective(Append(s, e))
           /\ Range(Append(s, e)) = Range(s) \cup {e}
<1> DEFINE t == <<e>>
<1>1. t \in Seq(S) /\ IsInjective(t) /\ Range(t) = {e}
  BY Single
<1>2. Append(s, e) = s \o t
  OBVIOUS
<1> HIDE DEF t
<1>3. Range(s) \cap Range(t) = {}
  BY <1>1
<1>4. s \o t \in Seq(S) /\ IsInjective(s \o t) /\ Range(s \o t) = Range(s) \cup Range(t)
  BY <1>1, <1>3, Joined
<1> QED
  BY <1>1, <1>2, <1>4

(* The enabled bots, each once, in some order.                              *)
LEMMA Enabled ==
    SetToSeq(Bots) \in Seq(Bots) /\ IsInjective(SetToSeq(Bots)) /\ Range(SetToSeq(Bots)) = Bots
<1> DEFINE n == Cardinality(Bots)
<1>1. n \in Nat /\ ExistsBijection(1 .. n, Bots)
  BY FS_CardinalityType, SupervisorAssumption
<1>2. \E f \in [1 .. n -> Bots] : IsInjective(f)
  BY <1>1 DEF ExistsBijection, Bijection, Injection
<1>3. SetToSeq(Bots) \in [1 .. n -> Bots] /\ IsInjective(SetToSeq(Bots))
  BY <1>2 DEF SetToSeq
<1>4. SetToSeq(Bots) \in Surjection(1 .. n, Bots)
  <2>1. IsFiniteSet(1 .. n) /\ Cardinality(1 .. n) = n
    BY <1>1, FS_Interval
  <2>2. SetToSeq(Bots) \in Injection(1 .. n, Bots)
    BY <1>3 DEF Injection
  <2> QED
    BY <2>1, <2>2, FS_Injection, SupervisorAssumption
<1>5. Range(SetToSeq(Bots)) = Bots
  BY <1>3, <1>4 DEF Surjection, Range
<1>6. SetToSeq(Bots) \in Seq(Bots)
  BY <1>1, <1>3
<1> QED
  BY <1>3, <1>5, <1>6
-----------------------------------------------------------------------------
(* The inductive invariant.  A process that runs is looked after, until the *)
(* processes are left to the exit handler or the user interrupts the last   *)
(* clean-up; the list is empty whenever the daemon starts anew, and holds   *)
(* the hub at most until the bots are launched; and the process asked to    *)
(* end is the first of those left in the order of cleanup_processes().      *)
Listed == \A n \in Names : Running(n) => n \in Range(processes)
Abandoned ==
    daemon \in {"exiting", "ended"} \/ (daemon = "cleanup" /\ interrupts = 2 /\ ~again)
LookedAfter == ~Abandoned => Listed
ListGrows ==
    /\ daemon \in {"preinit", "hub"} => processes = <<>>
    /\ daemon \in {"hubwait", "launch"} => Range(processes) \subseteq {"hub"}
AskedFirst ==
    asked # "nobody" =>
        /\ daemon = "cleanup" /\ asked \in Range(processes)
        /\ \A o \in Range(processes) : StopRank(asked) <= StopRank(o)
NobodyOutlives == daemon = "ended" => \A n \in Names : ~Running(n)

SupInv == SupervisorTypeOK /\ LookedAfter /\ ListGrows /\ AskedFirst /\ NobodyOutlives

LEMMA SupervisorStarts == SupervisorInit => SupInv
<1> SUFFICES ASSUME SupervisorInit PROVE SupInv
  OBVIOUS
<1>1. processes = <<>> /\ <<>> \in Seq(Names) /\ IsInjective(<<>>) /\ Range(<<>>) = {}
  BY DEF SupervisorInit, IsInjective, Range
<1>2. SupervisorTypeOK
  <2>1. child \in [Names -> {"none", "running"} \cup Codes]
    BY DEF SupervisorInit
  <2>2. attempts \in [Bots -> Nat] /\ recent \in [Bots -> BOOLEAN]
    BY DEF SupervisorInit
  <2>3. exits \in 0 .. MaxExits /\ interrupts \in 0 .. 2
    BY SupervisorAssumption DEF SupervisorInit
  <2> QED
    BY <1>1, <2>1, <2>2, <2>3 DEF SupervisorInit, SupervisorTypeOK
<1>3. LookedAfter /\ ListGrows /\ AskedFirst /\ NobodyOutlives
  BY <1>1 DEF SupervisorInit, LookedAfter, Listed, ListGrows, AskedFirst, NobodyOutlives, Running, Names
<1> QED
  BY <1>2, <1>3 DEF SupInv

LEMMA OrderHolds == SupInv => OrderedStop
<1> SUFFICES ASSUME SupInv PROVE OrderedStop
  OBVIOUS
<1>1. "nobody" \notin Names /\ "server" \notin Bots /\ "hub" \notin Bots
  BY SupervisorAssumption DEF Names
<1>5. ASSUME asked # "nobody", interrupts < 2
      PROVE  Listed
  <2>1. daemon = "cleanup" /\ interrupts # 2
    BY <1>5 DEF SupInv, AskedFirst, SupervisorTypeOK
  <2> QED
    BY <2>1 DEF SupInv, LookedAfter, Abandoned
<1>2. ASSUME interrupts < 2, asked \notin Bots \cup {"nobody"}, NEW b \in Bots
      PROVE  ~Running(b)
  <2>1. asked \in {"server", "hub"} /\ asked # "nobody"
    BY <1>2 DEF SupInv, SupervisorTypeOK, Names
  <2>2. StopRank(asked) \in {1, 2} /\ StopRank(b) = 0
    BY <1>1, <2>1 DEF StopRank
  <2>3. b \notin Range(processes)
    BY <2>1, <2>2 DEF SupInv, AskedFirst
  <2> QED
    BY <1>2, <1>5, <2>1, <2>3 DEF Listed, Names
<1>3. ASSUME interrupts < 2, asked = "hub"
      PROVE  ~ServerUp
  <2>1. StopRank("hub") = 2 /\ StopRank("server") = 1
    BY <1>1 DEF StopRank
  <2>2. "server" \notin Range(processes)
    BY <1>3, <2>1 DEF SupInv, AskedFirst
  <2> QED
    BY <1>3, <1>5, <2>2 DEF Listed, Names, ServerUp
<1>4. ASSUME daemon = "preinit"
      PROVE  \A n \in Names : ~Running(n)
  <2>1. Range(processes) = {}
    BY <1>4 DEF SupInv, ListGrows, Range
  <2> QED
    BY <1>4, <2>1 DEF SupInv, LookedAfter, Listed, Abandoned
<1>6. daemon = "ended" => \A n \in Names : ~Running(n)
  BY DEF SupInv, NobodyOutlives
<1> QED
  BY <1>2, <1>3, <1>4, <1>6 DEF OrderedStop

(* What a step does to the list and to the processes decides the rest.      *)
ListTypeOK ==
    /\ processes \in Seq(Names) /\ IsInjective(processes)
    /\ child \in [Names -> {"none", "running"} \cup Codes]
RestTypeOK ==
    /\ daemon \in {"preinit", "hub", "hubwait", "launch", "watch", "cleanup",
                  "exiting", "ended"}
    /\ embedded \in BOOLEAN /\ again \in BOOLEAN
    /\ asked \in Names \cup {"nobody"}
    /\ attempts \in [Bots -> Nat] /\ recent \in [Bots -> BOOLEAN]
    /\ interrupts \in 0..2 /\ exits \in 0..MaxExits

LEMMA Parts == SupervisorTypeOK <=> ListTypeOK /\ RestTypeOK
BY DEF SupervisorTypeOK, ListTypeOK, RestTypeOK

LEMMA ListStays ==
    ASSUME ListTypeOK, UNCHANGED <<processes, child>>
    PROVE  ListTypeOK' /\ (Listed => Listed')
BY DEF ListTypeOK, Listed, Running

LEMMA Forgets ==
    ASSUME ListTypeOK, NEW n \in Range(processes), Forget(n)
    PROVE  /\ ListTypeOK' /\ (Listed => Listed')
           /\ Range(processes') = Range(processes) \ {n}
<1>1. processes \in Seq(Names) /\ IsInjective(processes)
      /\ child \in [Names -> {"none", "running"} \cup Codes]
  BY DEF ListTypeOK
<1>2. /\ processes' \in Seq(Names) /\ IsInjective(processes')
      /\ Range(processes') = Range(processes) \ {n}
  BY <1>1, Without DEF Forget
<1>3. ListTypeOK'
  BY <1>1, <1>2 DEF ListTypeOK, Forget
<1>4. ASSUME Listed PROVE Listed'
  <2>1. SUFFICES ASSUME NEW o \in Names, child'[o] = "running"
                 PROVE  o \in Range(processes')
    BY DEF Listed, Running
  <2>2. o # n /\ child[o] = "running"
    BY <1>1, <2>1 DEF Forget
  <2> QED
    BY <1>2, <1>4, <2>2 DEF Listed, Running
<1> QED
  BY <1>2, <1>3, <1>4

(* Nobody is asked to end before the clean-up.                              *)
LEMMA NobodyAsked ==
    ASSUME SupInv, daemon # "cleanup"
    PROVE  asked = "nobody"
BY DEF SupInv, AskedFirst

(* The list where the daemon stands before the clean-up.                    *)
LEMMA ListedBefore ==
    ASSUME SupInv, daemon \notin {"cleanup", "exiting", "ended"}
    PROVE  Listed
BY DEF SupInv, LookedAfter, Abandoned

LEMMA Starts ==
    ASSUME SupInv, DaemonStarts
    PROVE  SupInv'
<1>2. /\ daemon \in {"preinit", "hub", "hubwait", "launch"} /\ daemon' # "ended"
      /\ asked' = "nobody"
  <2>1. /\ daemon \in {"preinit", "hub", "hubwait", "launch"} /\ daemon' # "ended"
        /\ asked' = asked
    BY DEF DaemonStarts, PreInit, StartHub, HubReady, HubFails, Launch, Leave
  <2> QED
    BY <2>1, NobodyAsked
<1>1. ListTypeOK /\ RestTypeOK /\ Listed /\ ListGrows
  BY <1>2, Parts, ListedBefore DEF SupInv
<1>3. AskedFirst' /\ NobodyOutlives'
  BY <1>2 DEF AskedFirst, NobodyOutlives
<1>4. RestTypeOK'
  BY <1>1 DEF RestTypeOK, DaemonStarts, PreInit, StartHub, HubReady, HubFails, Launch, Leave
<1>5. <<>> \in Seq(Names) /\ IsInjective(<<>>) /\ Range(<<>>) = {}
  BY DEF IsInjective, Range
<1>6. ListTypeOK' /\ Listed' /\ ListGrows'
  <2>1. CASE PreInit
    <3>1. UNCHANGED <<processes, child>> /\ processes = <<>> /\ daemon' \in {"hub", "cleanup"}
      BY <1>1, <2>1 DEF PreInit, Leave, ListGrows
    <3> QED
      BY <1>1, <3>1, ListStays DEF ListGrows
  <2>2. CASE StartHub /\ embedded
    <3>1. /\ daemon = "hub" /\ daemon' = "hubwait" /\ processes = <<>> /\ processes' = <<"hub">>
          /\ child' = [child EXCEPT !["hub"] = "running"]
      BY <1>1, <2>2 DEF StartHub, ListGrows
    <3>2. "hub" \in Names
      BY DEF Names
    <3>3. processes' \in Seq(Names) /\ IsInjective(processes') /\ Range(processes') = {"hub"}
      BY <3>1, <3>2, Single
    <3>4. ListTypeOK'
      BY <1>1, <3>1, <3>3 DEF ListTypeOK
    <3>5. \A n \in Names : child'[n] = "running" => n = "hub"
      BY <1>1, <1>5, <3>1 DEF Listed, Running, ListTypeOK
    <3>6. Listed'
      BY <3>3, <3>5 DEF Listed, Running
    <3> QED
      BY <3>1, <3>3, <3>4, <3>6 DEF ListGrows
  <2>3. CASE StartHub /\ ~embedded
    <3>1. UNCHANGED <<processes, child>> /\ processes = <<>> /\ daemon' = "launch"
      BY <1>1, <2>3 DEF StartHub, ListGrows
    <3> QED
      BY <1>1, <1>5, <3>1, ListStays DEF ListGrows
  <2>4. CASE HubReady
    <3>1. UNCHANGED <<processes, child>> /\ daemon = "hubwait" /\ daemon' = "launch"
      BY <2>4 DEF HubReady
    <3> QED
      BY <1>1, <3>1, ListStays DEF ListGrows
  <2>5. CASE HubFails
    <3>1. /\ daemon = "hubwait" /\ daemon' = "cleanup" /\ processes' = <<>>
          /\ child' = [child EXCEPT !["hub"] = "none"]
      BY <2>5 DEF HubFails, Leave
    <3>2. ListTypeOK'
      BY <1>1, <1>5, <3>1 DEF ListTypeOK
    <3>3. \A n \in Names : child[n] = "running" => n = "hub"
      BY <1>1, <3>1 DEF Listed, ListGrows, Running
    <3>4. \A n \in Names : child'[n] # "running"
      BY <1>1, <3>1, <3>3 DEF ListTypeOK
    <3>5. Listed'
      BY <3>4 DEF Listed, Running
    <3> QED
      BY <3>1, <3>2, <3>5 DEF ListGrows
  <2>6. CASE Launch
    <3>1. /\ daemon = "launch" /\ daemon' = "watch"
          /\ processes' = processes \o SetToSeq(Bots) \o <<"server">>
          /\ child' = [n \in Names |-> IF n = "hub" THEN child[n] ELSE "running"]
      BY <2>6 DEF Launch
    <3>2. processes \in Seq(Names) /\ IsInjective(processes) /\ Range(processes) \subseteq {"hub"}
      BY <1>1, <3>1 DEF ListTypeOK, ListGrows
    <3>3. "server" \notin Bots /\ "hub" \notin Bots /\ Bots \subseteq Names /\ "server" \in Names
      BY SupervisorAssumption DEF Names
    <3>4. /\ SetToSeq(Bots) \in Seq(Names) /\ IsInjective(SetToSeq(Bots))
          /\ Range(SetToSeq(Bots)) = Bots
      <4>1. SetToSeq(Bots) \in Seq(Names)
        BY <3>3, Enabled
      <4> QED
        BY <4>1, Enabled
    <3>5. /\ processes \o SetToSeq(Bots) \in Seq(Names)
          /\ IsInjective(processes \o SetToSeq(Bots))
          /\ Range(processes \o SetToSeq(Bots)) = Range(processes) \cup Bots
      BY <3>2, <3>3, <3>4, Joined
    <3>6. /\ <<"server">> \in Seq(Names) /\ IsInjective(<<"server">>)
          /\ Range(<<"server">>) = {"server"}
      BY <3>3, Single
    <3>7. /\ processes' \in Seq(Names) /\ IsInjective(processes')
          /\ Range(processes') = Range(processes) \cup Bots \cup {"server"}
      <4>1. Range(processes \o SetToSeq(Bots)) \cap Range(<<"server">>) = {}
        BY <3>2, <3>3, <3>5, <3>6
      <4>2. LET u == (processes \o SetToSeq(Bots)) \o <<"server">>
            IN  /\ u \in Seq(Names) /\ IsInjective(u)
                /\ Range(u) = (Range(processes) \cup Bots) \cup {"server"}
        <5> DEFINE s == processes \o SetToSeq(Bots)
                   t == <<"server">>
        <5>1. s \in Seq(Names) /\ IsInjective(s) /\ Range(s) = Range(processes) \cup Bots
          BY <3>5
        <5>2. t \in Seq(Names) /\ IsInjective(t) /\ Range(t) = {"server"}
          BY <3>6
        <5>3. Range(s) \cap Range(t) = {}
          BY <4>1
        <5> HIDE DEF s, t
        <5>4. s \o t \in Seq(Names) /\ IsInjective(s \o t) /\ Range(s \o t) = Range(s) \cup Range(t)
          BY <5>1, <5>2, <5>3, Joined
        <5> QED
          BY <5>1, <5>2, <5>4 DEF s, t
      <4> QED
        BY <3>1, <4>2
    <3>8. ListTypeOK'
      <4>1. \A n \in Names : child'[n] \in {"none", "running"} \cup Codes
        BY <1>1, <3>1 DEF ListTypeOK
      <4> QED
        BY <3>1, <3>7, <4>1 DEF ListTypeOK
    <3>9. Listed'
      <4>1. SUFFICES ASSUME NEW n \in Names, child'[n] = "running"
                     PROVE  n \in Range(processes')
        BY DEF Listed, Running
      <4>2. CASE n = "hub"
        BY <1>1, <3>1, <3>7, <4>1, <4>2 DEF Listed, Running
      <4>3. CASE n # "hub"
        BY <3>7, <4>3 DEF Names
      <4> QED
        BY <4>2, <4>3
    <3> QED
      BY <3>1, <3>8, <3>9 DEF ListGrows
  <2> QED
    BY <2>1, <2>2, <2>3, <2>4, <2>5, <2>6 DEF DaemonStarts
<1> QED
  BY <1>3, <1>4, <1>6, Parts DEF SupInv, LookedAfter, SupervisorTypeOK, ListTypeOK, RestTypeOK

LEMMA EndedListed ==
    ASSUME SupInv, NEW n, FirstEnded(n)
    PROVE  daemon = "watch" /\ n \in Range(processes) /\ n \in Names
BY DEF SupInv, SupervisorTypeOK, FirstEnded, Range

LEMMA Counted ==
    ASSUME RestTypeOK, NEW b \in Bots
    PROVE  /\ [attempts EXCEPT ![b] = Attempt(b)] \in [Bots -> Nat]
           /\ [recent EXCEPT ![b] = TRUE] \in [Bots -> BOOLEAN]
<1>1. Attempt(b) \in Nat
  BY DEF RestTypeOK, Attempt
<1> QED
  BY <1>1 DEF RestTypeOK

LEMMA Watches ==
    ASSUME SupInv, DaemonWatches
    PROVE  SupInv'
<1>2. daemon = "watch" /\ asked' = "nobody" /\ daemon' \in {"watch", "cleanup", "exiting"}
  <2>1. daemon = "watch" /\ asked' = asked /\ daemon' \in {"watch", "cleanup", "exiting"}
    BY DEF DaemonWatches, LeaveWith, BotLeaves, BotCrashed, NobodyLeft, FirstEnded, Leave, LookEnds
  <2> QED
    BY <2>1, NobodyAsked
<1>1. ListTypeOK /\ RestTypeOK /\ Listed
  BY <1>2, Parts, ListedBefore DEF SupInv
<1>3. AskedFirst' /\ ListGrows' /\ NobodyOutlives'
  BY <1>2 DEF AskedFirst, ListGrows, NobodyOutlives
<1>4. RestTypeOK' /\ ListTypeOK' /\ Listed'
  <2>1. ASSUME NEW n \in Names, LeaveWith(n)
        PROVE  RestTypeOK' /\ ListTypeOK' /\ Listed'
    <3>1. again' \in BOOLEAN
      BY <2>1 DEF LeaveWith, Leave
    <3>2. RestTypeOK'
      BY <1>1, <1>2, <2>1, <3>1 DEF RestTypeOK, LeaveWith
    <3>3. UNCHANGED <<processes, child>>
      BY <2>1 DEF LeaveWith
    <3> QED
      BY <1>1, <3>2, <3>3, ListStays
  <2>2. ASSUME NEW b \in Bots, BotLeaves(b)
        PROVE  RestTypeOK' /\ ListTypeOK' /\ Listed'
    <3>1. RestTypeOK'
      BY <1>1, <2>2 DEF RestTypeOK, BotLeaves, LookEnds
    <3>2. b \in Range(processes) /\ Forget(b)
      BY <2>2, EndedListed DEF BotLeaves
    <3> QED
      BY <1>1, <3>1, <3>2, Forgets
  <2>3. ASSUME NEW b \in Bots, BotCrashed(b)
        PROVE  RestTypeOK' /\ ListTypeOK' /\ Listed'
    <3>1. attempts' \in [Bots -> Nat] /\ recent' \in [Bots -> BOOLEAN]
      BY <1>1, <2>3, Counted DEF BotCrashed
    <3>2. RestTypeOK'
      BY <1>1, <2>3, <3>1 DEF RestTypeOK, BotCrashed, LookEnds
    <3>3. b \in Range(processes) /\ b \in Names
      BY <2>3, EndedListed DEF BotCrashed
    <3>4. CASE Attempt(b) >= 3
      <4>1. Forget(b)
        BY <2>3, <3>4 DEF BotCrashed
      <4> QED
        BY <1>1, <3>2, <3>3, <4>1, Forgets
    <3>5. CASE ~(Attempt(b) >= 3)
      <4>1. /\ processes' = Append(RemoveFirst(processes, b), b)
            /\ child' = [child EXCEPT ![b] = "running"]
        BY <2>3, <3>5 DEF BotCrashed
      <4> DEFINE s == RemoveFirst(processes, b)
      <4>2. s \in Seq(Names) /\ IsInjective(s) /\ Range(s) = Range(processes) \ {b}
        BY <1>1, <3>3, Without DEF ListTypeOK
      <4>3. processes' = Append(s, b)
        BY <4>1
      <4> HIDE DEF s
      <4>7. /\ processes' \in Seq(Names) /\ IsInjective(processes')
            /\ Range(processes') = Range(s) \cup {b}
        BY <3>3, <4>2, <4>3, Added
      <4>8. ListTypeOK'
        BY <1>1, <4>1, <4>7 DEF ListTypeOK
      <4>9. Range(processes) \subseteq Range(processes')
        BY <4>2, <4>7
      <4>10. \A n \in Names : child'[n] = "running" => n = b \/ child[n] = "running"
        BY <1>1, <4>1 DEF ListTypeOK
      <4>11. Listed'
        BY <1>1, <3>3, <4>9, <4>10 DEF Listed, Running
      <4> QED
        BY <3>2, <4>8, <4>11
    <3> QED
      BY <3>4, <3>5
  <2>4. CASE NobodyLeft
    <3>1. RestTypeOK'
      BY <1>1, <1>2, <2>4 DEF RestTypeOK, NobodyLeft, Leave
    <3>2. UNCHANGED <<processes, child>>
      BY <2>4 DEF NobodyLeft
    <3> QED
      BY <1>1, <3>1, <3>2, ListStays
  <2> QED
    BY <2>1, <2>2, <2>3, <2>4 DEF DaemonWatches
<1> QED
  BY <1>3, <1>4, Parts DEF SupInv, LookedAfter, SupervisorTypeOK, ListTypeOK, RestTypeOK

LEMMA Cleans ==
    ASSUME SupInv, DaemonCleans
    PROVE  SupInv'
<1>1. ListTypeOK /\ RestTypeOK /\ LookedAfter /\ ListGrows /\ AskedFirst
  BY Parts DEF SupInv
<1>2. ASSUME NEW n \in Names, StopNext(n)
      PROVE  SupInv'
  <2>1. /\ UNCHANGED <<processes, child, interrupts, again>>
        /\ daemon = "cleanup" /\ daemon' = "cleanup" /\ asked' = n
    BY <1>2 DEF StopNext
  <2>2. ListTypeOK' /\ LookedAfter'
    BY <1>1, <2>1, ListStays DEF LookedAfter, Abandoned
  <2>3. RestTypeOK'
    BY <1>1, <1>2, <2>1 DEF RestTypeOK, StopNext
  <2>4. ListGrows' /\ AskedFirst' /\ NobodyOutlives'
    BY <1>2, <2>1 DEF ListGrows, AskedFirst, StopNext, NobodyOutlives
  <2> QED
    BY <2>2, <2>3, <2>4 DEF SupInv, SupervisorTypeOK, ListTypeOK, RestTypeOK
<1>3. ASSUME NEW n \in Names, Stopped(n)
      PROVE  SupInv'
  <2>1. "nobody" \notin Names
    BY SupervisorAssumption DEF Names
  <2>2. /\ daemon = "cleanup" /\ n \in Range(processes) /\ Forget(n) /\ daemon' = "cleanup"
        /\ UNCHANGED <<interrupts, again>>
    BY <1>1, <1>3, <2>1 DEF Stopped, AskedFirst
  <2>3. ListTypeOK' /\ LookedAfter'
    BY <1>1, <2>2, Forgets DEF LookedAfter, Abandoned
  <2>4. RestTypeOK'
    BY <1>1, <1>3 DEF RestTypeOK, Stopped
  <2>5. ListGrows' /\ AskedFirst' /\ NobodyOutlives'
    BY <1>3, <2>2 DEF ListGrows, AskedFirst, Stopped, NobodyOutlives
  <2> QED
    BY <2>3, <2>4, <2>5 DEF SupInv, SupervisorTypeOK, ListTypeOK, RestTypeOK
<1>4. CASE CleanupEnds
  <2>1. /\ UNCHANGED <<processes, child, asked>> /\ asked = "nobody" /\ processes = <<>>
        /\ daemon = "cleanup" /\ daemon' = IF again THEN "preinit" ELSE "exiting"
    BY <1>4 DEF CleanupEnds
  <2>2. ListTypeOK' /\ LookedAfter'
    BY <1>1, <2>1, ListStays DEF LookedAfter, Abandoned
  <2>3. RestTypeOK'
    <3>1. daemon' \in {"preinit", "exiting"} /\ again' = FALSE /\ interrupts' = 0
      BY <1>4, <2>1 DEF CleanupEnds
    <3>2. UNCHANGED <<embedded, asked, attempts, recent, exits>>
      BY <1>4 DEF CleanupEnds
    <3>3. 0 \in 0 .. 2 /\ FALSE \in BOOLEAN
      OBVIOUS
    <3> QED
      BY <1>1, <3>1, <3>2, <3>3 DEF RestTypeOK
  <2>4. ListGrows' /\ AskedFirst' /\ NobodyOutlives'
    BY <2>1 DEF ListGrows, AskedFirst, NobodyOutlives
  <2> QED
    BY <2>2, <2>3, <2>4 DEF SupInv, SupervisorTypeOK, ListTypeOK, RestTypeOK
<1> QED
  BY <1>2, <1>3, <1>4 DEF DaemonCleans

LEMMA ExitsAlone ==
    ASSUME SupInv, DaemonExits
    PROVE  SupInv'
<1>1. ListTypeOK /\ RestTypeOK
  BY Parts DEF SupInv
<1>2. /\ daemon # "cleanup" /\ daemon' \in {"exiting", "ended"} /\ UNCHANGED <<processes, asked>>
  BY DEF DaemonExits, Cancelled, ExitTerminates, Exits, daemonVars
<1>3. RestTypeOK'
  BY <1>1 DEF RestTypeOK, DaemonExits, Cancelled, ExitTerminates, Exits, daemonVars
<1>4. ListTypeOK'
  BY <1>1 DEF ListTypeOK, DaemonExits, Cancelled, ExitTerminates, Exits, daemonVars
<1>5. LookedAfter' /\ ListGrows' /\ AskedFirst'
  BY <1>2, NobodyAsked DEF LookedAfter, Abandoned, ListGrows, AskedFirst
<1>6. NobodyOutlives'
  BY DEF NobodyOutlives, DaemonExits, Cancelled, ExitTerminates, Exits, daemonVars, Running
<1> QED
  BY <1>3, <1>4, <1>5, <1>6 DEF SupInv, SupervisorTypeOK, ListTypeOK, RestTypeOK

LEMMA EndsAlone ==
    ASSUME SupInv, NEW n \in Names, NEW code \in Codes, ProcessEnds(n, code)
    PROVE  SupInv'
<1>1. ListTypeOK /\ RestTypeOK /\ LookedAfter /\ ListGrows /\ AskedFirst /\ NobodyOutlives
  BY Parts DEF SupInv
<1>2. UNCHANGED daemonVars /\ child' = [child EXCEPT ![n] = code] /\ exits' = exits + 1
      /\ exits < MaxExits
  BY DEF ProcessEnds
<1>3. exits' \in 0 .. MaxExits
  BY <1>1, <1>2, SupervisorAssumption DEF RestTypeOK
<1>4. RestTypeOK' /\ ListGrows' /\ AskedFirst'
  BY <1>1, <1>2, <1>3 DEF RestTypeOK, ListGrows, AskedFirst, daemonVars
<1>5. ListTypeOK'
  BY <1>1, <1>2 DEF ListTypeOK, daemonVars
<1>6. \A o \in Names : child'[o] = "running" => child[o] = "running"
  BY <1>1, <1>2 DEF ListTypeOK, Codes
<1>7. LookedAfter' /\ NobodyOutlives'
  BY <1>1, <1>2, <1>6 DEF LookedAfter, Abandoned, Listed, NobodyOutlives, Running, daemonVars
<1> QED
  BY <1>4, <1>5, <1>7 DEF SupInv, SupervisorTypeOK, ListTypeOK, RestTypeOK

LEMMA Interrupted ==
    ASSUME SupInv, Interrupts
    PROVE  SupInv'
<1>1. ListTypeOK /\ RestTypeOK /\ LookedAfter /\ ListGrows /\ AskedFirst /\ NobodyOutlives
  BY Parts DEF SupInv
<1>2. CASE Interrupt
  <2>1. UNCHANGED <<daemon, processes, child, asked, again>> /\ interrupts' = 1
    BY <1>2 DEF Interrupt
  <2>2. ListTypeOK' /\ (Listed => Listed') /\ RestTypeOK'
    BY <1>1, <1>2, <2>1, ListStays DEF RestTypeOK, Interrupt
  <2>3. LookedAfter'
    <3>1. interrupts = 0
      BY <1>2 DEF Interrupt
    <3> QED
      BY <1>1, <2>1, <2>2, <3>1 DEF LookedAfter, Abandoned
  <2>4. ListGrows' /\ AskedFirst' /\ NobodyOutlives'
    BY <1>1, <2>1 DEF ListGrows, AskedFirst, NobodyOutlives, Running
  <2> QED
    BY <2>2, <2>3, <2>4 DEF SupInv, SupervisorTypeOK, ListTypeOK, RestTypeOK
<1>3. CASE InterruptAgain
  <2>1. /\ UNCHANGED <<processes, child, asked>> /\ interrupts' = 2
        /\ daemon \in {"preinit", "hub", "launch", "watch"} /\ daemon' = "cleanup" /\ again' = FALSE
    BY <1>3 DEF InterruptAgain, Leave
  <2>2. ListTypeOK' /\ RestTypeOK'
    <3>1. UNCHANGED <<embedded, attempts, recent, exits>>
      BY <1>3 DEF InterruptAgain
    <3>2. 2 \in 0 .. 2 /\ FALSE \in BOOLEAN
      OBVIOUS
    <3>3. RestTypeOK'
      BY <1>1, <2>1, <3>1, <3>2 DEF RestTypeOK
    <3> QED
      BY <1>1, <2>1, <3>3, ListStays
  <2>3. LookedAfter' /\ ListGrows' /\ AskedFirst' /\ NobodyOutlives'
    BY <2>1, NobodyAsked DEF LookedAfter, Abandoned, ListGrows, AskedFirst, NobodyOutlives
  <2> QED
    BY <2>2, <2>3 DEF SupInv, SupervisorTypeOK, ListTypeOK, RestTypeOK
<1>4. ASSUME NEW n \in Names, PassesOver(n)
      PROVE  SupInv'
  <2>1. /\ UNCHANGED <<daemon, child, again>> /\ interrupts' = 2 /\ asked' = "nobody" /\ ~again
        /\ asked = n /\ processes' = RemoveFirst(processes, n)
    BY <1>4 DEF PassesOver
  <2>2. daemon = "cleanup" /\ n \in Range(processes)
    <3>1. "nobody" \notin Names
      BY SupervisorAssumption DEF Names
    <3> QED
      BY <1>1, <2>1, <3>1 DEF AskedFirst
  <2>3. ListTypeOK'
    <3>1. processes \in Seq(Names) /\ IsInjective(processes)
      BY <1>1 DEF ListTypeOK
    <3>2. RemoveFirst(processes, n) \in Seq(Names) /\ IsInjective(RemoveFirst(processes, n))
      BY <2>2, <3>1, Without
    <3> QED
      BY <1>1, <2>1, <3>2 DEF ListTypeOK
  <2>4. RestTypeOK'
    BY <1>1, <1>4, <2>1 DEF RestTypeOK, PassesOver
  <2>5. LookedAfter' /\ ListGrows' /\ AskedFirst' /\ NobodyOutlives'
    BY <2>1, <2>2 DEF LookedAfter, Abandoned, ListGrows, AskedFirst, NobodyOutlives
  <2> QED
    BY <2>3, <2>4, <2>5 DEF SupInv, SupervisorTypeOK, ListTypeOK, RestTypeOK
<1>5. CASE CleanupInterrupted
  <2>1. /\ UNCHANGED <<processes, child>> /\ daemon' = "exiting" /\ asked' = "nobody"
        /\ again' = FALSE /\ interrupts' = 2
    BY <1>5 DEF CleanupInterrupted
  <2>2. ListTypeOK' /\ RestTypeOK'
    <3>1. UNCHANGED <<embedded, attempts, recent, exits>>
      BY <1>5 DEF CleanupInterrupted
    <3>2. 2 \in 0 .. 2 /\ FALSE \in BOOLEAN
      OBVIOUS
    <3>3. RestTypeOK'
      BY <1>1, <2>1, <3>1, <3>2 DEF RestTypeOK
    <3> QED
      BY <1>1, <2>1, <3>3, ListStays
  <2>3. LookedAfter' /\ ListGrows' /\ AskedFirst' /\ NobodyOutlives'
    BY <2>1 DEF LookedAfter, Abandoned, ListGrows, AskedFirst, NobodyOutlives
  <2> QED
    BY <2>2, <2>3 DEF SupInv, SupervisorTypeOK, ListTypeOK, RestTypeOK
<1> QED
  BY <1>2, <1>3, <1>4, <1>5 DEF Interrupts

LEMMA Disturbs ==
    ASSUME SupInv, Disturbances
    PROVE  SupInv'
<1>1. ListTypeOK /\ RestTypeOK /\ LookedAfter /\ ListGrows /\ AskedFirst /\ NobodyOutlives
  BY Parts DEF SupInv
<1>3. ASSUME NEW b \in Bots, MinutePasses(b)
      PROVE  SupInv'
  <2>1. UNCHANGED <<daemon, embedded, processes, child, asked, again, attempts, interrupts, exits>>
        /\ recent' = [recent EXCEPT ![b] = FALSE]
    BY <1>3 DEF MinutePasses
  <2>2. ListTypeOK' /\ LookedAfter'
    BY <1>1, <2>1, ListStays DEF LookedAfter, Abandoned
  <2>3. RestTypeOK'
    BY <1>1, <2>1 DEF RestTypeOK
  <2>4. ListGrows' /\ AskedFirst' /\ NobodyOutlives'
    BY <1>1, <2>1 DEF ListGrows, AskedFirst, NobodyOutlives, Running
  <2> QED
    BY <2>2, <2>3, <2>4 DEF SupInv, SupervisorTypeOK, ListTypeOK, RestTypeOK
<1> QED
  BY <1>3, EndsAlone, Interrupted DEF Disturbances

LEMMA Rests ==
    ASSUME SupInv, UNCHANGED supervisorVars
    PROVE  SupInv'
<1>1. ListTypeOK /\ RestTypeOK /\ LookedAfter /\ ListGrows /\ AskedFirst /\ NobodyOutlives
  BY Parts DEF SupInv
<1>2. RestTypeOK' /\ ListTypeOK'
  BY <1>1 DEF RestTypeOK, ListTypeOK, supervisorVars, daemonVars
<1>3. LookedAfter' /\ ListGrows' /\ AskedFirst' /\ NobodyOutlives'
  BY <1>1 DEF LookedAfter, Abandoned, Listed, ListGrows, AskedFirst, NobodyOutlives, Running,
              supervisorVars, daemonVars
<1> QED
  BY <1>2, <1>3 DEF SupInv, SupervisorTypeOK, ListTypeOK, RestTypeOK
-----------------------------------------------------------------------------
(* Every step of Fleet is one of the daemon's, an end of a process, or      *)
(* leaves the daemon alone.                                                 *)
LEMMA StepOfFleet ==
    ASSUME [Next]_vars
    PROVE  \/ DaemonSteps \/ Disturbances \/ UNCHANGED supervisorVars
<1>1. CASE Daemon(DaemonSteps)
  BY <1>1 DEF Daemon
<1>2. CASE Daemon(Disturbances)
  BY <1>2 DEF Daemon
<1>3. CASE Daemon(StartsAnew)
  <2>1. Followed \subseteq Names /\ "server" \in Names /\ {"error", "restart"} \subseteq Codes
    BY FleetAssumption DEF Names, Codes
  <2> QED
    BY <1>3, <2>1 DEF Daemon, StartsAnew, Disturbances
<1>4. ASSUME NEW b \in Followed, Bot(b, PeerSteps(peerOf[b]))
      PROVE  UNCHANGED supervisorVars
  BY <1>4 DEF Bot
<1>5. ASSUME NEW p \in Peers, Time(p)
      PROVE  UNCHANGED supervisorVars
  BY <1>5 DEF Time
<1>6. CASE Server(CacheSteps)
  BY <1>6 DEF Server
<1>7. CASE UNCHANGED vars
  BY <1>7 DEF vars
<1> QED
  BY <1>1, <1>2, <1>3, <1>4, <1>5, <1>6, <1>7 DEF Next

LEMMA SupStep == SupInv /\ [Next]_vars => SupInv'
BY StepOfFleet, Starts, Watches, Cleans, ExitsAlone, Disturbs, Rests DEF DaemonSteps

(* What the daemon keeps in every state of Fleet, whatever peers, signals   *)
(* and the cache do.                                                        *)
THEOREM Invariant == Spec => []SupInv
<1>1. Init => SupInv
  BY SupervisorStarts DEF Init
<1> QED
  BY <1>1, SupStep, PTL DEF Spec

(* The daemon has no process twice, and its state has its types (bot.py).   *)
THEOREM SupervisorTypes == Spec => []SupervisorTypeOK
<1>1. SupInv => SupervisorTypeOK
  BY DEF SupInv
<1> QED
  BY <1>1, Invariant, PTL

(* cleanup_processes() asks the bots to stop before the server and the      *)
(* server before the hub, unless the user interrupts a second time; and a   *)
(* start anew, or the end of the daemon, leaves no process running, however *)
(* processes crash, are restarted, are given up or are left to the exit     *)
(* handler by Ctrl-C.                                                       *)
THEOREM OrderedStops == Spec => []OrderedStop
BY Invariant, OrderHolds, PTL
=============================================================================
