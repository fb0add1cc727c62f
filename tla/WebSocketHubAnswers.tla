------------------------- MODULE WebSocketHubAnswers --------------------------
(* What becomes of the response of each request: at most one is made, none  *)
(* that a call waits for is lost while its connection is whole, and none is *)
(* put aside for good.  An inductive invariant per request u, AnswerInv(u), *)
(* is kept by each of the moves that the steps make as u sees them.         *)
EXTENDS WebSocketHubProofs, FiniteSetTheorems

Single(q) ==
    \A i, j \in 1 .. Len(q) : q[i] \in Terminal /\ q[j] \in Terminal => i = j

Ordered(q) ==
    \A i, j \in 1 .. Len(q) : i < j /\ q[i] = "abandoned" => q[j] \notin Terminal

(* Nothing is on the way of a request that has not begun, nor on the        *)
(* connection of a caller the Hub does not know.                            *)
CutOff(u) ==
    conn[Source[u]] = None \/ phase[u] = "idle" => up[u] = << >> /\ due[u] = None /\ down[u] = << >>

(* One response: none before the request is served, or while its delivery   *)
(* lasts; afterwards it is in one place.                                    *)
Unanswered(u) == ~Has(down[u], Terminal) /\ held[u] = None /\ reply[u] \notin Terminal

OneAnswer(u) ==
    /\ Single(down[u])
    /\ Has(down[u], Terminal) => held[u] = None
    /\ Has(down[u], Terminal) \/ held[u] # None => reply[u] \notin Terminal
    /\ job[u] = None \/ u \in delivery \/ u \notin Calls => Unanswered(u)

(* A request is abandoned after its call has closed, and no response comes  *)
(* after the result of that command.                                        *)
AbandonLast(u) ==
    /\ phase[u] # "closed" =>
          /\ cleanup[u] = None /\ due[u] # "abandoned"
          /\ ~Has(up[u], {"abandon"}) /\ ~Has(down[u], {"abandoned"})
    /\ due[u] = "abandoned" \/ Has(down[u], {"abandoned"}) =>
          u \notin delivery /\ ~Has(up[u], {"send"})
    /\ Ordered(down[u])

(* Only a call that waits is told that its poller has stopped, and then no  *)
(* call that waits is left untold.                                          *)
Unavailable(u) ==
    /\ phase[u] = "idle" \/ u \notin Calls => reply[u] = None
    /\ link[Source[u]] = "down" /\ u \in Calls /\ phase[u] \in Pending => reply[u] # None

(* Nothing comes any more for a call that has closed and needs no abandon   *)
(* command, or whose connection ended before this one.                      *)
Silent(u) ==
    /\ ~Has(down[u], Terminal) /\ held[u] = None
    /\ u \notin delivery /\ ~Has(up[u], {"send"})

GoneQuiet(u) ==
    /\ u \in Calls /\ link[Source[u]] = "up"
    /\ reply[u] = "unavailable" \/ (phase[u] = "closed" /\ cleanup[u] \in {None, "done"})
    => Silent(u)

(* What a call waits for is somewhere, from the send command on. *)
Accounted(u) ==
    u \in delivery \/ Has(down[u], Terminal) \/ held[u] # None \/ reply[u] # None

Acknowledged(u) ==
    \/ phase[u] = "waiting"
    \/ phase[u] = "sending" /\ (due[u] = "accepted" \/ Has(down[u], {"accepted"}))

Awaited(u) ==
    u \in Calls /\ Whole(Source[u]) =>
      /\ phase[u] = "sending" =>
           Has(up[u], {"send"}) \/ due[u] # None \/ Has(down[u], {"accepted", "rejected"})
      /\ Acknowledged(u) => Accounted(u)

AnswerInv(u) ==
    /\ CutOff(u) /\ OneAnswer(u) /\ AbandonLast(u)
    /\ Unavailable(u) /\ GoneQuiet(u) /\ Awaited(u)
-----------------------------------------------------------------------------
(* The queues of frames. *)

LEMMA EmptyQueue ==
    /\ \A T : ~Has(<< >>, T)
    /\ Single(<< >>) /\ Ordered(<< >>)
BY DEF Has, Single, Ordered

LEMMA AppendedAt ==
    ASSUME NEW S, NEW q \in Seq(S), NEW m
    PROVE  /\ Len(q) \in Nat /\ Len(Append(q, m)) = Len(q) + 1
           /\ \A i \in 1 .. Len(q) : Append(q, m)[i] = q[i]
           /\ Append(q, m)[Len(q) + 1] = m
OBVIOUS

LEMMA AppendHas ==
    ASSUME NEW S, NEW q \in Seq(S), NEW m, NEW T
    PROVE  Has(Append(q, m), T) <=> Has(q, T) \/ m \in T
<1>1. Has(q, T) => Has(Append(q, m), T)
  BY AppendedAt DEF Has
<1>2. m \in T => Has(Append(q, m), T)
  BY AppendedAt DEF Has
<1>3. ASSUME NEW i \in 1 .. Len(Append(q, m)), Append(q, m)[i] \in T
      PROVE  Has(q, T) \/ m \in T
  <2>1. i \in 1 .. Len(q) \/ i = Len(q) + 1
    BY AppendedAt
  <2> QED
    BY <1>3, <2>1, AppendedAt DEF Has
<1> QED
  BY <1>1, <1>2, <1>3 DEF Has

LEMMA AppendKeepsOrder ==
    ASSUME NEW S, NEW q \in Seq(S), NEW m
    PROVE  /\ Single(q) /\ (m \notin Terminal \/ ~Has(q, Terminal)) => Single(Append(q, m))
           /\ Ordered(q) /\ (m \notin Terminal \/ ~Has(q, {"abandoned"})) => Ordered(Append(q, m))
<1>1. \A i \in 1 .. Len(Append(q, m)) : i \in 1 .. Len(q) \/ i = Len(q) + 1
  BY AppendedAt
<1>2. ASSUME Single(q), m \notin Terminal \/ ~Has(q, Terminal)
      PROVE  Single(Append(q, m))
  BY <1>1, <1>2, AppendedAt DEF Single, Has
<1>3. ASSUME Ordered(q), m \notin Terminal \/ ~Has(q, {"abandoned"})
      PROVE  Ordered(Append(q, m))
  <2> SUFFICES ASSUME NEW i \in 1 .. Len(Append(q, m)), NEW j \in 1 .. Len(Append(q, m)), i < j,
                      Append(q, m)[i] = "abandoned"
               PROVE  Append(q, m)[j] \notin Terminal
    BY DEF Ordered
  <2>1. i \in 1 .. Len(q) /\ q[i] = "abandoned"
    BY <1>1, AppendedAt
  <2>2. CASE j \in 1 .. Len(q)
    BY <1>3, <2>1, <2>2, AppendedAt DEF Ordered
  <2>3. CASE j = Len(q) + 1
    BY <1>3, <2>1, <2>3, AppendedAt DEF Has
  <2> QED
    BY <1>1, <2>2, <2>3
<1> QED
  BY <1>2, <1>3

LEMMA TailAt ==
    ASSUME NEW S, NEW q \in Seq(S), q # << >>
    PROVE  /\ Len(q) \in Nat \ {0} /\ Len(Tail(q)) = Len(q) - 1 /\ Head(q) = q[1]
           /\ \A i \in 1 .. Len(q) - 1 : Tail(q)[i] = q[i + 1]
OBVIOUS

LEMMA TailHas ==
    ASSUME NEW S, NEW q \in Seq(S), q # << >>, NEW T
    PROVE  Has(q, T) <=> Head(q) \in T \/ Has(Tail(q), T)
<1>1. Head(q) \in T => Has(q, T)
  BY TailAt DEF Has
<1>2. ASSUME NEW i \in 1 .. Len(Tail(q)), Tail(q)[i] \in T
      PROVE  Has(q, T)
  <2>1. i + 1 \in 1 .. Len(q) /\ q[i + 1] \in T
    BY <1>2, TailAt
  <2> QED
    BY <2>1 DEF Has
<1>3. ASSUME NEW i \in 1 .. Len(q), q[i] \in T
      PROVE  Head(q) \in T \/ Has(Tail(q), T)
  <2>1. CASE i = 1
    BY <1>3, <2>1, TailAt
  <2>2. CASE i # 1
    <3>1. i - 1 \in 1 .. Len(Tail(q)) /\ Tail(q)[i - 1] = q[i]
      BY <2>2, TailAt
    <3> QED
      BY <1>3, <3>1 DEF Has
  <2> QED
    BY <2>1, <2>2
<1> QED
  BY <1>1, <1>2, <1>3 DEF Has

LEMMA TailKeepsOrder ==
    ASSUME NEW S, NEW q \in Seq(S), q # << >>
    PROVE  /\ Single(q) => Single(Tail(q)) /\ (Head(q) \in Terminal => ~Has(Tail(q), Terminal))
           /\ Ordered(q) =>
                 Ordered(Tail(q)) /\ (Head(q) = "abandoned" => ~Has(Tail(q), Terminal))
<1>1. /\ \A i \in 1 .. Len(Tail(q)) : i + 1 \in 2 .. Len(q) /\ Tail(q)[i] = q[i + 1]
      /\ 1 \in 1 .. Len(q) /\ Head(q) = q[1]
  BY TailAt
<1>2. ASSUME Single(q)
      PROVE  Single(Tail(q)) /\ (Head(q) \in Terminal => ~Has(Tail(q), Terminal))
  BY <1>1, <1>2 DEF Single, Has
<1>3. ASSUME Ordered(q)
      PROVE  Ordered(Tail(q)) /\ (Head(q) = "abandoned" => ~Has(Tail(q), Terminal))
  BY <1>1, <1>3 DEF Ordered, Has
<1> QED
  BY <1>2, <1>3

(* A send command is the first, and handled once. *)
LEMMA SendFirst ==
    ASSUME TypeOK, NEW u \in Tasks, RequestInv(u), up[u] # << >>
    PROVE  /\ Has(up[u], {"send"}) => Head(up[u]) = "send"
           /\ Head(up[u]) = "send" => Has(up[u], {"send"})
           /\ ~Has(Tail(up[u]), {"send"})
           /\ Has(Tail(up[u]), {"abandon"}) => Has(up[u], {"abandon"})
           /\ Head(up[u]) = "abandon" => Has(up[u], {"abandon"})
<1>1. up[u] \in Seq({"send", "abandon"}) /\ \A i \in 2 .. Len(up[u]) : up[u][i] = "abandon"
  BY DEF TypeOK, RequestInv
<1>2. ~Has(Tail(up[u]), {"send"})
  BY <1>1, TailOfCommands
<1>3. Has(up[u], {"send"}) <=> Head(up[u]) \in {"send"} \/ Has(Tail(up[u]), {"send"})
  BY <1>1, TailHas
<1>4. Has(up[u], {"abandon"}) <=> Head(up[u]) \in {"abandon"} \/ Has(Tail(up[u]), {"abandon"})
  BY <1>1, TailHas
<1> QED
  BY <1>2, <1>3, <1>4
-----------------------------------------------------------------------------
(* What the steps of the Hub, of the connections and of the servers do to   *)
(* the request u, whose caller goes nowhere meanwhile.                      *)

UserKeeps(u) ==
    phase'[u] = phase[u] /\ cleanup'[u] = cleanup[u] /\ held'[u] = held[u] /\ reply'[u] = reply[u]

LinkKeeps(u) == link'[Source[u]] = link[Source[u]]

HubKeeps(u) ==
    /\ conn'[Source[u]] = conn[Source[u]] /\ due'[u] = due[u]
    /\ u \in delivery' <=> u \in delivery
    /\ job'[u] = None <=> job[u] = None

(* A connection goes on, or is being closed because of what does not fit. *)
Connected(u) ==
    /\ conn'[Source[u]] = None <=> conn[Source[u]] = None
    /\ conn'[Source[u]] = "open" => conn[Source[u]] = "open"

Posted(u, some) ==
    \/ \E m \in some : down'[u] = Append(down[u], m)
    \/ down'[u] = down[u] /\ conn'[Source[u]] # "open"

(* The delivery of u goes on, or ends with its response. *)
Delivers(u) ==
    \/ (u \in delivery' <=> u \in delivery) /\ down'[u] = down[u]
    \/ /\ u \in delivery /\ u \notin delivery'
       /\ u \in Calls => Posted(u, Terminal)
       /\ u \notin Calls => down'[u] = down[u]

GoesOn(u) ==
    /\ UserKeeps(u) /\ LinkKeeps(u) /\ Connected(u) /\ Delivers(u)
    /\ up'[u] = up[u] /\ due'[u] = due[u] /\ (job'[u] = None <=> job[u] = None)

(* The Hub handles a command of u. *)
Commands(u) ==
    /\ UserKeeps(u) /\ LinkKeeps(u) /\ Connected(u) /\ conn[Source[u]] # None
    /\ up[u] # << >> /\ up'[u] = Tail(up[u]) /\ due[u] = None
    /\ \/ /\ Head(up[u]) = "send" /\ due'[u] = "accepted" /\ down'[u] = down[u]
          /\ u \in delivery' /\ job'[u] # None
       \/ /\ Head(up[u]) = "send" /\ due'[u] = "rejected" /\ down'[u] = down[u]
          /\ u \notin delivery' /\ job'[u] = job[u]
       \/ /\ Head(up[u]) = "abandon" /\ due'[u] = "abandoned" /\ u \notin delivery'
          /\ down'[u] = down[u] \/ (u \in delivery \cap Calls /\ Posted(u, Terminal))
          /\ job'[u] = job[u]

Replies(u) ==
    /\ UserKeeps(u) /\ LinkKeeps(u) /\ Connected(u)
    /\ due[u] # None /\ due'[u] = None /\ Posted(u, {due[u]})
    /\ up'[u] = up[u] /\ (u \in delivery' <=> u \in delivery) /\ job'[u] = job[u]

(* The connection of the caller of u ends at the Hub. *)
Cut(u) ==
    /\ UserKeeps(u) /\ LinkKeeps(u) /\ (job'[u] = None <=> job[u] = None)
    /\ conn'[Source[u]] = None /\ u \notin delivery'
    /\ up'[u] = << >> /\ due'[u] = None /\ down'[u] = << >>

(* It breaks, its poller stops, and it is opened again. *)
FramesKeep(u) == up'[u] = up[u] /\ down'[u] = down[u]

Breaks(u) == UserKeeps(u) /\ HubKeeps(u) /\ FramesKeep(u) /\ link'[Source[u]] = "broken"

Stops(u) ==
    /\ HubKeeps(u) /\ FramesKeep(u) /\ link'[Source[u]] = "down"
    /\ phase'[u] = phase[u] /\ cleanup'[u] = cleanup[u] /\ held'[u] = held[u]
    /\ reply'[u] = IF u \in Calls /\ phase[u] \in Pending /\ reply[u] = None
                   THEN "unavailable" ELSE reply[u]

Opens(u) ==
    /\ conn[Source[u]] = None /\ link[Source[u]] = "down" /\ phase[u] # "sending"
    /\ conn'[Source[u]] = "open" /\ link'[Source[u]] = "up" /\ held'[u] = None
    /\ FramesKeep(u) /\ due'[u] = due[u] /\ (u \in delivery' <=> u \in delivery)
    /\ phase'[u] = phase[u] /\ cleanup'[u] = cleanup[u] /\ reply'[u] = reply[u]
    /\ job'[u] = None <=> job[u] = None

HubMoves(u) ==
    GoesOn(u) \/ Commands(u) \/ Replies(u) \/ Cut(u) \/ Breaks(u) \/ Stops(u) \/ Opens(u)

(* What the invariants proved so far say of u. *)
Known(u) ==
    /\ TypeOK /\ RequestInv(u)
    /\ u \in delivery => conn[Source[u]] # None /\ job[u] # None

LEMMA InvKnown == ASSUME IInv, NEW u \in Tasks PROVE Known(u)
<1>1. RequestInv(u) /\ JobInv(u) /\ TypeOK
  BY DEF IInv
<1>2. u \in delivery => server[u] \in Servers /\ conn[Source[u]] # None
  BY DEF IInv, DeliveryHasEnds
<1> QED
  BY <1>1, <1>2, ConstantsAssumption DEF Known, JobInv

(* A response is posted for a delivery that ends. *)
LEMMA PostedAnswer ==
    ASSUME NEW u \in Tasks, Known(u), AnswerInv(u), u \in delivery, Posted(u, Terminal)
    PROVE  /\ Single(down'[u]) /\ Ordered(down'[u])
           /\ Has(down'[u], {"abandoned"}) <=> Has(down[u], {"abandoned"})
           /\ Has(down'[u], {"accepted"}) <=> Has(down[u], {"accepted"})
           /\ Has(down'[u], {"accepted", "rejected"}) <=> Has(down[u], {"accepted", "rejected"})
           /\ Has(down'[u], Terminal) \/ conn'[Source[u]] # "open"
<1>1. /\ down[u] \in Seq(Results \cup Terminal) /\ Single(down[u]) /\ Ordered(down[u])
      /\ ~Has(down[u], Terminal) /\ ~Has(down[u], {"abandoned"})
  BY DEF Known, TypeOK, AnswerInv, OneAnswer, AbandonLast, Unanswered
<1>2. CASE down'[u] = down[u] /\ conn'[Source[u]] # "open"
  BY <1>1, <1>2
<1>3. ASSUME NEW m \in Terminal, down'[u] = Append(down[u], m)
      PROVE  /\ Single(down'[u]) /\ Ordered(down'[u])
             /\ Has(down'[u], {"abandoned"}) <=> Has(down[u], {"abandoned"})
             /\ Has(down'[u], {"accepted"}) <=> Has(down[u], {"accepted"})
             /\ Has(down'[u], {"accepted", "rejected"}) <=> Has(down[u], {"accepted", "rejected"})
             /\ Has(down'[u], Terminal) \/ conn'[Source[u]] # "open"
  <2>1. Single(down'[u]) /\ Ordered(down'[u])
    BY <1>1, <1>3, AppendKeepsOrder
  <2>2. m \notin {"abandoned"} /\ m \notin {"accepted"} /\ m \notin {"accepted", "rejected"}
    BY DEF Terminal
  <2> QED
    BY <1>1, <1>3, <2>1, <2>2, AppendHas
<1> QED
  BY <1>2, <1>3 DEF Posted

LEMMA GoesOnKeeps ==
    ASSUME NEW u \in Tasks, Known(u), AnswerInv(u), GoesOn(u)
    PROVE  AnswerInv(u)'
<1> USE DEF GoesOn, UserKeeps, LinkKeeps, Connected
<1>1. CASE (u \in delivery' <=> u \in delivery) /\ down'[u] = down[u]
  BY <1>1 DEF AnswerInv, CutOff, OneAnswer, Unanswered, AbandonLast, Unavailable, GoneQuiet,
              Silent, Awaited, Acknowledged, Accounted, Whole
<1>2. CASE u \in delivery /\ u \notin delivery' /\ u \notin Calls /\ down'[u] = down[u]
  BY <1>2 DEF AnswerInv, CutOff, OneAnswer, Unanswered, AbandonLast, Unavailable, GoneQuiet,
              Silent, Awaited, Acknowledged, Accounted, Whole
<1>3. CASE u \in delivery /\ u \notin delivery' /\ u \in Calls /\ Posted(u, Terminal)
  <2>1. /\ Single(down'[u]) /\ Ordered(down'[u])
        /\ Has(down'[u], {"abandoned"}) <=> Has(down[u], {"abandoned"})
        /\ Has(down'[u], {"accepted"}) <=> Has(down[u], {"accepted"})
        /\ Has(down'[u], {"accepted", "rejected"}) <=> Has(down[u], {"accepted", "rejected"})
        /\ Has(down'[u], Terminal) \/ conn'[Source[u]] # "open"
    BY <1>3, PostedAnswer
  <2>2. CutOff(u)'
    BY <1>3 DEF Known, RequestInv, AnswerInv, CutOff
  <2>3. OneAnswer(u)'
    BY <1>3, <2>1 DEF Known, AnswerInv, OneAnswer, Unanswered
  <2>4. AbandonLast(u)'
    BY <1>3, <2>1 DEF AnswerInv, AbandonLast
  <2>5. Unavailable(u)'
    BY DEF AnswerInv, Unavailable
  <2>6. GoneQuiet(u)'
    BY <1>3 DEF AnswerInv, GoneQuiet, Silent
  <2>7. Awaited(u)'
    BY <1>3, <2>1 DEF AnswerInv, Awaited, Acknowledged, Accounted, Whole
  <2> QED
    BY <2>2, <2>3, <2>4, <2>5, <2>6, <2>7 DEF AnswerInv
<1> QED
  BY <1>1, <1>2, <1>3 DEF Delivers

LEMMA CommandsKeeps ==
    ASSUME NEW u \in Tasks, Known(u), AnswerInv(u), Commands(u)
    PROVE  AnswerInv(u)'
<1> USE DEF Commands, UserKeeps, LinkKeeps, Connected
<1>1. CutOff(u)'
  BY DEF Known, RequestInv, CutOff
<1>2. Unavailable(u)'
  BY DEF AnswerInv, Unavailable
<1>3. /\ Has(up[u], {"send"}) => Head(up[u]) = "send"
      /\ Head(up[u]) = "send" => Has(up[u], {"send"})
      /\ ~Has(up'[u], {"send"})
      /\ Has(up'[u], {"abandon"}) => Has(up[u], {"abandon"})
      /\ Head(up[u]) = "abandon" => Has(up[u], {"abandon"})
  BY SendFirst DEF Known
<1>4. CASE Head(up[u]) = "send"
  <2>1. /\ job[u] = None /\ u \notin delivery /\ Unanswered(u) /\ down'[u] = down[u]
        /\ due'[u] \in {"accepted", "rejected"}
        /\ due'[u] = "accepted" => u \in delivery' /\ job'[u] # None
        /\ due'[u] = "rejected" => u \notin delivery' /\ job'[u] = job[u]
    BY <1>3, <1>4 DEF Known, RequestInv, AnswerInv, OneAnswer
  <2>2. OneAnswer(u)'
    BY <2>1 DEF AnswerInv, OneAnswer, Unanswered
  <2>3. AbandonLast(u)'
    BY <1>3, <1>4, <2>1 DEF AnswerInv, AbandonLast
  <2>4. GoneQuiet(u)'
    BY <1>3, <1>4, <2>1 DEF AnswerInv, GoneQuiet, Silent
  <2>5. Awaited(u)'
    BY <1>3, <2>1 DEF AnswerInv, Awaited, Acknowledged, Accounted, Whole, None
  <2> QED
    BY <1>1, <1>2, <2>2, <2>3, <2>4, <2>5 DEF AnswerInv
<1>5. CASE Head(up[u]) = "abandon"
  <2>1. /\ due'[u] = "abandoned" /\ u \notin delivery' /\ job'[u] = job[u]
        /\ down'[u] = down[u] \/ (u \in delivery /\ u \in Calls /\ Posted(u, Terminal))
        /\ phase[u] = "closed"
    BY <1>3, <1>5 DEF AnswerInv, AbandonLast
  <2>2. Awaited(u)' /\ AbandonLast(u)' /\ OneAnswer(u)' /\ GoneQuiet(u)'
    <3>1. CASE down'[u] = down[u]
      BY <1>3, <2>1, <3>1 DEF AnswerInv, Awaited, Acknowledged, AbandonLast, OneAnswer,
                              Unanswered, GoneQuiet, Silent, Pending
    <3>2. CASE u \in delivery /\ u \in Calls /\ Posted(u, Terminal)
      <4>1. /\ Single(down'[u]) /\ Ordered(down'[u])
            /\ Has(down'[u], {"abandoned"}) <=> Has(down[u], {"abandoned"})
        BY <3>2, PostedAnswer
      <4>2. Awaited(u)' /\ AbandonLast(u)'
        BY <1>3, <2>1, <4>1 DEF Awaited, Acknowledged, AbandonLast
      <4>3. OneAnswer(u)'
        BY <2>1, <3>2, <4>1 DEF Known, AnswerInv, OneAnswer, Unanswered
      <4>4. GoneQuiet(u)'
        BY <2>1, <3>2 DEF AnswerInv, GoneQuiet, Silent
      <4> QED
        BY <4>2, <4>3, <4>4
    <3> QED
      BY <2>1, <3>1, <3>2
  <2> QED
    BY <1>1, <1>2, <2>2 DEF AnswerInv
<1> QED
  BY <1>4, <1>5

LEMMA RepliesKeeps ==
    ASSUME NEW u \in Tasks, Known(u), AnswerInv(u), Replies(u)
    PROVE  AnswerInv(u)'
<1> USE DEF Replies, UserKeeps, LinkKeeps, Connected
<1>1. CutOff(u)'
  BY DEF AnswerInv, CutOff
<1>2. Unavailable(u)'
  BY DEF AnswerInv, Unavailable
<1>3. due[u] \in Results /\ down[u] \in Seq(Results \cup Terminal)
  BY DEF Known, TypeOK
<1>4. CASE down'[u] = down[u] /\ conn'[Source[u]] # "open"
  BY <1>1, <1>2, <1>4
  DEF AnswerInv, OneAnswer, Unanswered, AbandonLast, GoneQuiet, Silent, Awaited, Whole, None
<1>5. CASE down'[u] = Append(down[u], due[u])
  <2>1. due[u] \notin Terminal /\ due[u] \in {"accepted", "rejected", "abandoned"}
    BY <1>3 DEF Results, Terminal
  <2>2. /\ Single(down[u]) => Single(down'[u])
        /\ Ordered(down[u]) => Ordered(down'[u])
        /\ Has(down'[u], Terminal) <=> Has(down[u], Terminal)
        /\ Has(down'[u], {"abandoned"}) <=> Has(down[u], {"abandoned"}) \/ due[u] = "abandoned"
        /\ Has(down'[u], {"accepted"}) <=> Has(down[u], {"accepted"}) \/ due[u] = "accepted"
        /\ Has(down'[u], {"accepted", "rejected"}) <=>
              Has(down[u], {"accepted", "rejected"}) \/ due[u] \in {"accepted", "rejected"}
    BY <1>3, <1>5, <2>1, AppendHas, AppendKeepsOrder
  <2>3. OneAnswer(u)'
    BY <2>2 DEF AnswerInv, OneAnswer, Unanswered
  <2>4. AbandonLast(u)'
    BY <2>2 DEF AnswerInv, AbandonLast, None
  <2>5. GoneQuiet(u)'
    BY <2>2 DEF AnswerInv, GoneQuiet, Silent
  <2>6. Awaited(u)'
    BY <2>1, <2>2 DEF AnswerInv, Awaited, Acknowledged, Accounted, AbandonLast, Whole, None
  <2> QED
    BY <1>1, <1>2, <2>3, <2>4, <2>5, <2>6 DEF AnswerInv
<1> QED
  BY <1>4, <1>5 DEF Posted

LEMMA ConnectionKeeps ==
    ASSUME NEW u \in Tasks, Known(u), AnswerInv(u), Cut(u) \/ Breaks(u) \/ Stops(u) \/ Opens(u)
    PROVE  AnswerInv(u)'
<1> USE DEF UserKeeps, LinkKeeps, HubKeeps, FramesKeep
<1>1. CASE Cut(u)
  BY <1>1, EmptyQueue
  DEF Cut, AnswerInv, CutOff, OneAnswer, Unanswered, AbandonLast, Unavailable, GoneQuiet, Silent,
      Awaited, Whole, None
<1>2. CASE Breaks(u)
  BY <1>2
  DEF Breaks, AnswerInv, CutOff, OneAnswer, Unanswered, AbandonLast, Unavailable, GoneQuiet,
      Awaited, Whole
<1>3. CASE Stops(u)
  BY <1>3
  DEF Stops, AnswerInv, CutOff, OneAnswer, Unanswered, AbandonLast, Unavailable, GoneQuiet,
      Awaited, Whole, Pending, Terminal, None
<1>4. CASE Opens(u)
  <2>1. up[u] = << >> /\ due[u] = None /\ down[u] = << >> /\ u \notin delivery
    BY <1>4 DEF Opens, AnswerInv, CutOff, Known
  <2> QED
    BY <1>4, <2>1, EmptyQueue
    DEF Opens, AnswerInv, CutOff, OneAnswer, Unanswered, AbandonLast, Unavailable, GoneQuiet,
        Silent, Awaited, Acknowledged, Accounted, Pending, None
<1> QED
  BY <1>1, <1>2, <1>3, <1>4

LEMMA HubMovesKeep ==
    ASSUME NEW u \in Tasks, Known(u), AnswerInv(u), HubMoves(u)
    PROVE  AnswerInv(u)'
BY GoesOnKeeps, CommandsKeeps, RepliesKeeps, ConnectionKeeps DEF HubMoves
-----------------------------------------------------------------------------
(* The steps of the Hub, the connections and the servers are such moves. *)

(* Frames that go to callers, as the caller of u sees it. *)
Sent(u, frame) ==
    \E lost \in Losses(frame) :
       /\ down'[u] = Enqueued(frame, lost)[u]
       /\ conn'[Source[u]] = Overloaded(lost)[Source[u]]

LEMMA EnqueueSends ==
    ASSUME NEW u \in Tasks, NEW frame, Enqueue(frame)
    PROVE  Sent(u, frame)
BY DEF Enqueue, Sent

LEMMA SourceIsPeer ==
    ASSUME NEW u \in Tasks
    PROVE  Source[u] \in Peers /\ Source[u] \notin Servers /\ u \in Issued(Source[u])
BY ConstantsAssumption DEF Peers, Issued

LEMMA SentPosts ==
    ASSUME TypeOK, NEW u \in Tasks, NEW frame, Sent(u, frame)
    PROVE  /\ Connected(u)
           /\ frame[u] = None => down'[u] = down[u]
           /\ frame[u] # None => Posted(u, {frame[u]})
<1>1. PICK lost \in Losses(frame) : /\ down'[u] = Enqueued(frame, lost)[u]
                                    /\ conn'[Source[u]] = Overloaded(lost)[Source[u]]
  BY DEF Sent
<1>2. Connected(u)
  BY <1>1, SourceIsPeer, EnqueueKeeps DEF Connected
<1>3. frame[u] = None => down'[u] = down[u]
  BY <1>1 DEF Enqueued
<1>4. ASSUME frame[u] # None
      PROVE  Posted(u, {frame[u]})
  <2>1. CASE conn[Source[u]] # None /\ u \notin lost
    BY <1>1, <1>4, <2>1 DEF Enqueued, Posted
  <2>2. CASE conn[Source[u]] = None
    BY <1>1, <1>2, <2>2 DEF Enqueued, Connected, Posted, None
  <2>3. CASE u \in lost
    <3>1. conn'[Source[u]] = "closing" /\ down'[u] = down[u]
      BY <1>1, <2>3, SourceIsPeer DEF Overloaded, Enqueued
    <3> QED
      BY <3>1 DEF Posted
  <2> QED
    BY <2>1, <2>2, <2>3
<1> QED
  BY <1>2, <1>3, <1>4

(* The deliveries in ends are over, and frame tells the calls among them. *)
LEMMA EndsDeliver ==
    ASSUME TypeOK, NEW u \in Tasks, NEW frame, Sent(u, frame), NEW ends,
           u \in delivery' <=> u \in delivery /\ u \notin ends,
           frame[u] \in Terminal \cup {None},
           frame[u] # None <=> u \in delivery /\ u \in ends /\ u \in Calls
    PROVE  Connected(u) /\ Delivers(u)
<1>1. CASE frame[u] = None
  BY <1>1, SentPosts DEF Delivers
<1>2. CASE frame[u] # None
  BY <1>2, SentPosts DEF Delivers, Posted
<1> QED
  BY <1>1, <1>2

LEMMA ExpiryDelivers ==
    ASSUME TypeOK, NEW u \in Tasks, Enqueue(Only(Expiring \cap Calls, "timeout")),
           u \in delivery' <=> u \in delivery /\ u \notin Expiring
    PROVE  Connected(u) /\ Delivers(u)
<1> DEFINE frame == Only(Expiring \cap Calls, "timeout")
<1>1. frame[u] = IF u \in Expiring \cap Calls THEN "timeout" ELSE None
  BY DEF Only
<1>2. frame[u] \in Terminal \cup {None} /\ (frame[u] # None <=> u \in Expiring /\ u \in Calls)
  BY <1>1 DEF Terminal, None
<1>3. Sent(u, frame)
  BY EnqueueSends
<1>4. u \in Expiring => u \in delivery
  BY DEF Expiring
<1> HIDE DEF frame
<1> QED
  BY <1>2, <1>3, <1>4, EndsDeliver

LEMMA CommandMoves ==
    ASSUME NEW t \in Tasks, NEW op, NEW result, HandleCommand(t, op, result),
           NEW u \in Tasks, Known(u)
    PROVE  /\ UserKeeps(u) /\ LinkKeeps(u) /\ Connected(u)
           /\ u # t => up'[u] = up[u] /\ due'[u] = due[u]
           /\ u = t => /\ up[u] # << >> /\ Head(up[u]) = op /\ up'[u] = Tail(up[u])
                       /\ due[u] = None /\ due'[u] = result /\ conn[Source[u]] # None
           /\ u \in Expiring /\ u \in Calls => Posted(u, Terminal)
           /\ ~(u \in Expiring /\ u \in Calls) => down'[u] = down[u]
<1> DEFINE frame == Only(Expiring \cap Calls, "timeout")
<1>1. frame[u] = IF u \in Expiring /\ u \in Calls THEN "timeout" ELSE None
  BY DEF Only
<1>2. Sent(u, frame) /\ TypeOK
  BY EnqueueSends DEF HandleCommand, Known
<1> HIDE DEF frame
<1>3. Connected(u) /\ (frame[u] = None => down'[u] = down[u])
      /\ (frame[u] # None => Posted(u, {frame[u]}))
  BY <1>2, SentPosts
<1>4. UserKeeps(u) /\ LinkKeeps(u)
  BY DEF HandleCommand, callerVars, UserKeeps, LinkKeeps
<1>5. u # t => up'[u] = up[u] /\ due'[u] = due[u]
  BY <1>2 DEF HandleCommand, TypeOK
<1>6. u = t => /\ up[u] # << >> /\ Head(up[u]) = op /\ up'[u] = Tail(up[u])
               /\ due[u] = None /\ due'[u] = result /\ conn[Source[u]] # None
  BY <1>2, SourceIsPeer DEF HandleCommand, TypeOK
<1>7. u \in Expiring /\ u \in Calls => Posted(u, Terminal)
  BY <1>1, <1>3 DEF Posted, Terminal, None
<1> QED
  BY <1>1, <1>3, <1>4, <1>5, <1>6, <1>7

LEMMA HubStepMoves ==
    ASSUME NEW t \in Tasks, HubStep(t), NEW u \in Tasks, Known(u)
    PROVE  HubMoves(u)
<1> USE DEF Known
<1>1. ASSUME NEW s \in Servers, HubAccepts(t, s)
      PROVE  HubMoves(u)
  <2>1. HandleCommand(t, "send", "accepted") /\ job' = [job EXCEPT ![t] = "queued"]
        /\ delivery' = (delivery \ Expiring) \cup {t}
    BY <1>1 DEF HubAccepts
  <2>2. CASE u = t
    <3>1. Head(up[u]) = "send" /\ up[u] # << >>
      BY <2>1, <2>2, CommandMoves
    <3>2. u \notin Expiring
      BY <3>1, SendFirst DEF RequestInv, Expiring
    <3>3. job'[u] # None /\ u \in delivery'
      BY <2>1, <2>2 DEF TypeOK, None
    <3> QED
      BY <2>1, <2>2, <3>2, <3>3, CommandMoves DEF HubMoves, Commands
  <2>3. CASE u # t
    <3>1. Connected(u) /\ Delivers(u)
      BY <2>1, <2>3, ExpiryDelivers DEF HandleCommand
    <3>2. job'[u] = job[u]
      BY <2>1, <2>3 DEF TypeOK
    <3>3. UserKeeps(u) /\ LinkKeeps(u) /\ up'[u] = up[u] /\ due'[u] = due[u]
      BY <2>1, <2>3, CommandMoves
    <3> QED
      BY <3>1, <3>2, <3>3 DEF HubMoves, GoesOn
  <2> QED
    BY <2>2, <2>3
<1>2. CASE HubRejects(t)
  <2>1. HandleCommand(t, "send", "rejected") /\ UNCHANGED job /\ delivery' = delivery \ Expiring
    BY <1>2 DEF HubRejects
  <2>2. CASE u = t
    <3>1. Head(up[u]) = "send" /\ up[u] # << >>
      BY <2>1, <2>2, CommandMoves
    <3>2. u \notin delivery /\ u \notin Expiring
      BY <3>1, SendFirst DEF RequestInv, Expiring
    <3> QED
      BY <2>1, <2>2, <3>2, CommandMoves DEF HubMoves, Commands
  <2>3. CASE u # t
    <3>1. Connected(u) /\ Delivers(u)
      BY <2>1, <2>3, ExpiryDelivers DEF HandleCommand
    <3> QED
      BY <2>1, <2>3, <3>1, CommandMoves DEF HubMoves, GoesOn
  <2> QED
    BY <2>2, <2>3
<1>3. CASE HubAbandons(t)
  <2>1. HandleCommand(t, "abandon", "abandoned") /\ UNCHANGED job
        /\ delivery' = delivery \ (Expiring \cup {t})
    BY <1>3 DEF HubAbandons
  <2>2. CASE u = t
    <3>1. u \notin delivery' /\ (u \in Expiring => u \in delivery)
      BY <2>1, <2>2 DEF Expiring
    <3> QED
      BY <2>1, <2>2, <3>1, CommandMoves DEF HubMoves, Commands
  <2>3. CASE u # t
    <3>1. Connected(u) /\ Delivers(u)
      BY <2>1, <2>3, ExpiryDelivers DEF HandleCommand
    <3> QED
      BY <2>1, <2>3, <3>1, CommandMoves DEF HubMoves, GoesOn
  <2> QED
    BY <2>2, <2>3
<1>4. CASE HubReplies(t)
  <2> DEFINE frame == Only({t}, due[t])
  <2>1. frame[u] = IF u = t THEN due[t] ELSE None
    BY DEF Only
  <2>2. Sent(u, frame) /\ due[t] # None /\ due' = [due EXCEPT ![t] = None]
        /\ UNCHANGED <<delivery, up, link, callerVars, jobVars>>
    BY <1>4, EnqueueSends DEF HubReplies
  <2> HIDE DEF frame
  <2>3. Connected(u) /\ (frame[u] = None => down'[u] = down[u])
        /\ (frame[u] # None => Posted(u, {frame[u]}))
    BY <2>2, SentPosts
  <2>4. UserKeeps(u) /\ LinkKeeps(u)
    BY <2>2 DEF callerVars, UserKeeps, LinkKeeps
  <2>5. CASE u = t
    BY <2>1, <2>2, <2>3, <2>4, <2>5 DEF HubMoves, Replies, TypeOK, jobVars
  <2>6. CASE u # t
    BY <2>1, <2>2, <2>3, <2>4, <2>6 DEF HubMoves, GoesOn, Delivers, TypeOK, jobVars
  <2> QED
    BY <2>5, <2>6
<1>5. CASE HubResponds(t)
  <2> DEFINE frame == Only({t} \cap delivery \cap Calls, back[t])
  <2>1. frame[u] = IF u = t /\ t \in delivery /\ t \in Calls THEN back[t] ELSE None
    BY DEF Only
  <2>2. Sent(u, frame) /\ back[t] # None /\ delivery' = delivery \ {t}
        /\ UNCHANGED <<due, up, link, callerVars, jobVars>>
    BY <1>5, EnqueueSends DEF HubResponds
  <2> HIDE DEF frame
  <2>3. back[t] \in Terminal
    BY <2>2 DEF TypeOK
  <2>4. Connected(u) /\ Delivers(u)
    BY <2>1, <2>2, <2>3, EndsDeliver
  <2> QED
    BY <2>2, <2>4 DEF HubMoves, GoesOn, UserKeeps, LinkKeeps, callerVars, jobVars
<1> QED
  BY <1>1, <1>2, <1>3, <1>4, <1>5 DEF HubStep

LEMMA StillMoves ==
    ASSUME NEW u \in Tasks, UserKeeps(u), LinkKeeps(u), UNCHANGED <<conn, due, delivery, up, down>>,
           job'[u] = None <=> job[u] = None
    PROVE  HubMoves(u)
BY DEF HubMoves, GoesOn, Connected, Delivers

LEMMA ServerOtherMoves ==
    ASSUME NEW s \in Servers, ServerOther(s), NEW u \in Tasks, Known(u), JobInv(u)
    PROVE  HubMoves(u)
<1> USE DEF Known
<1>1. CASE Register(s) \/ Leave(s)
  <2>1. Connected(u) /\ Delivers(u)
    BY <1>1, ExpiryDelivers DEF Register, Leave
  <2> QED
    BY <1>1, <2>1 DEF Register, Leave, Declare, PeerFrame, HubMoves, GoesOn, UserKeeps, LinkKeeps,
                      callerVars, jobVars
<1>2. CASE Unregister(s)
  <2> DEFINE frame == [t \in Tasks |-> IF t \in Expiring \cap Calls THEN "timeout"
                                      ELSE IF t \in FailTarget(s) \cap Calls THEN "failed" ELSE None]
             ends == Expiring \cup FailTarget(s)
  <2>1. /\ frame[u] \in Terminal \cup {None}
        /\ frame[u] # None <=> u \in delivery /\ u \in ends /\ u \in Calls
    BY DEF Terminal, None, Expiring, FailTarget
  <2>2. Sent(u, frame) /\ delivery' = delivery \ ends /\ PeerFrame
    BY <1>2, EnqueueSends DEF Unregister, Declare
  <2> HIDE DEF frame, ends
  <2>3. Connected(u) /\ Delivers(u)
    BY <2>1, <2>2, EndsDeliver
  <2> QED
    BY <2>2, <2>3 DEF PeerFrame, HubMoves, GoesOn, UserKeeps, LinkKeeps, callerVars, jobVars
<1>3. CASE LeaseRunsOut(s)
  <2> DEFINE frame == [t \in Tasks |-> IF t \in FailTarget(s) \cap Calls THEN "failed"
                                      ELSE IF t \in Expiring \cap Calls THEN "timeout" ELSE None]
             ends == Expiring \cup FailTarget(s)
  <2>1. /\ frame[u] \in Terminal \cup {None}
        /\ frame[u] # None <=> u \in delivery /\ u \in ends /\ u \in Calls
    BY DEF Terminal, None, Expiring, FailTarget
  <2>2. Sent(u, frame) /\ delivery' = delivery \ ends /\ PeerFrame
    BY <1>3 DEF LeaseRunsOut, Sent
  <2> HIDE DEF frame, ends
  <2>3. Connected(u) /\ Delivers(u)
    BY <2>1, <2>2, EndsDeliver
  <2> QED
    BY <2>2, <2>3 DEF PeerFrame, HubMoves, GoesOn, UserKeeps, LinkKeeps, callerVars, jobVars
<1>4. CASE Crash(s)
  <2>1. LinkKeeps(u)
    BY <1>4, SourceIsPeer DEF Crash, LinkKeeps, TypeOK
  <2>2. job'[u] = None <=> job[u] = None
    <3>1. u \in At(s) => job[u] # None
      BY ConstantsAssumption DEF JobInv, At
    <3> QED
      BY <1>4, <3>1 DEF Crash, None
  <2> QED
    BY <1>4, <2>1, <2>2, StillMoves DEF Crash, hubVars, frames, callerVars, UserKeeps
<1> QED
  BY <1>1, <1>2, <1>3, <1>4 DEF ServerOther

LEMMA LossMoves ==
    ASSUME NEW P, LoseFrames(P), NEW u \in Tasks
    PROVE  /\ job'[u] = None <=> job[u] = None
           /\ Source[u] \in P => up'[u] = << >> /\ due'[u] = None
           /\ Source[u] \notin P => up'[u] = up[u] /\ due'[u] = due[u]
BY DEF LoseFrames, None

LEMMA PeerMoves ==
    ASSUME NEW p \in Peers, PeerStep(p) \/ LinkBreaks(p), NEW u \in Tasks, Known(u)
    PROVE  HubMoves(u)
<1> USE SourceIsPeer DEF Known, callerVars, jobVars, hubVars, frames, UserKeeps, LinkKeeps
<1>1. CASE Connect(p)
  <2>1. /\ link[p] = "down" /\ link' = [link EXCEPT ![p] = "up"]
        /\ conn[p] = None /\ conn' = [conn EXCEPT ![p] = "open"]
        /\ held' = Drop(Issued(p), None, held)
        /\ UNCHANGED <<state, delivery, server, due, frames, phase, cleanup, reply, jobVars>>
        /\ \A t \in Issued(p) : phase[t] # "sending"
    BY <1>1 DEF Connect, ConnectAgain
  <2>2. CASE Source[u] = p
    BY <2>1, <2>2 DEF HubMoves, Opens, FramesKeep, Drop, TypeOK
  <2>3. CASE Source[u] # p
    <3>1. u \notin Issued(p)
      BY <2>3 DEF Issued
    <3> QED
      BY <2>1, <2>3, <3>1 DEF HubMoves, GoesOn, Connected, Delivers, Drop, TypeOK
  <2> QED
    BY <2>2, <2>3
<1>2. CASE Disconnect(p)
  <2> DEFINE frame == Only((FailTarget(p) \cap Calls) \ Issued(p), "failed")
             ends == FailTarget(p) \cup Issued(p)
  <2>1. PICK lost \in Losses(frame) : /\ down' = Drop(Issued(p), << >>, Enqueued(frame, lost))
                                      /\ conn' = [Overloaded(lost) EXCEPT ![p] = None]
    BY <1>2 DEF Disconnect
  <2>2. LoseFrames({p}) /\ delivery' = delivery \ ends /\ UNCHANGED <<link, callerVars>>
    BY <1>2 DEF Disconnect
  <2>3. frame[u] = IF u \in FailTarget(p) /\ u \in Calls /\ u \notin Issued(p) THEN "failed"
                   ELSE None
    BY DEF Only
  <2>4. Overloaded(lost) \in [Peers -> {None, "open", "closing"}]
    BY OverloadedType
  <2>5. CASE Source[u] = p
    BY <2>1, <2>2, <2>4, <2>5, LossMoves DEF HubMoves, Cut, Drop
  <2>6. CASE Source[u] # p
    <3>1. u \notin Issued(p)
      BY <2>6 DEF Issued
    <3>2. Sent(u, frame)
      BY <2>1, <2>4, <2>6, <3>1 DEF Sent, Drop
    <3>3. /\ frame[u] \in Terminal \cup {None}
          /\ frame[u] # None <=> u \in delivery /\ u \in ends /\ u \in Calls
      BY <2>3, <3>1 DEF Terminal, None, FailTarget
    <3> HIDE DEF frame, ends
    <3>4. Connected(u) /\ Delivers(u)
      BY <2>2, <3>2, <3>3, EndsDeliver
    <3> QED
      BY <2>2, <2>6, <3>4, LossMoves DEF HubMoves, GoesOn
  <2> QED
    BY <2>5, <2>6
<1>3. CASE LinkEnds(p) \/ LinkBreaks(p)
  <2>1. link' = [link EXCEPT ![p] = "broken"]
        /\ UNCHANGED <<hubVars, frames, callerVars, jobVars>>
    BY <1>3 DEF LinkEnds, LinkBreaks, LinkLost
  <2>2. CASE Source[u] = p
    BY <2>1, <2>2 DEF HubMoves, Breaks, HubKeeps, FramesKeep, TypeOK
  <2>3. CASE Source[u] # p
    BY <2>1, <2>3, StillMoves DEF TypeOK
  <2> QED
    BY <2>2, <2>3
<1>4. CASE PollerStops(p)
  <2>1. /\ link' = [link EXCEPT ![p] = "down"]
        /\ UNCHANGED <<hubVars, frames, phase, cleanup, held>>
        /\ job'[u] = None <=> job[u] = None
        /\ reply'[u] = IF u \in Issued(p) /\ u \in Calls /\ phase[u] \in Pending /\ reply[u] = None
                       THEN "unavailable" ELSE reply[u]
    BY <1>4 DEF PollerStops, None
  <2>2. CASE Source[u] = p
    BY <2>1, <2>2 DEF HubMoves, Stops, HubKeeps, FramesKeep, TypeOK
  <2>3. CASE Source[u] # p
    <3>1. u \notin Issued(p)
      BY <2>3 DEF Issued
    <3> QED
      BY <2>1, <2>3, <3>1, StillMoves DEF TypeOK
  <2> QED
    BY <2>2, <2>3
<1> QED
  BY <1>1, <1>2, <1>3, <1>4 DEF PeerStep

LEMMA ServerStepMoves ==
    ASSUME NEW t \in Tasks, ServerStep(t), NEW u \in Tasks, Known(u)
    PROVE  HubMoves(u)
<1> USE DEF Known, JobFrame, JobMoves, hubVars, callerVars, UserKeeps
<1>1. UNCHANGED <<conn, due, delivery, up, down, phase, cleanup, held, reply>>
  BY DEF ServerStep, Deliver, Spawn, StartHandler, HandlerReturns, HandlerFails, Respond
<1>2. PICK to \in JobStates \ {None} : job[t] # None /\ job' = [job EXCEPT ![t] = to]
  <2>1. job[t] \in Ended => job[t] # None
    BY DEF Ended, None
  <2> QED
    BY <2>1 DEF ServerStep, Deliver, Spawn, StartHandler, HandlerReturns, HandlerFails, Respond,
                JobStates, Ended, None
<1>3. job'[u] = None <=> job[u] = None
  BY <1>2 DEF TypeOK
<1>4. LinkKeeps(u)
  <2>1. Deliver(t) => server[t] \in Servers
    BY DEF Deliver, TypeOK
  <2>2. \/ UNCHANGED link
        \/ server[t] \in Servers /\ link' = [link EXCEPT ![server[t]] = "broken"]
    BY <2>1 DEF ServerStep, Deliver, Spawn, StartHandler, HandlerReturns, HandlerFails, Respond
  <2> QED
    BY <2>2, SourceIsPeer DEF LinkKeeps, TypeOK
<1> QED
  BY <1>1, <1>3, <1>4, StillMoves

LEMMA HubOtherMoves ==
    ASSUME HubExpires \/ HubRestarts \/ \E t \in Tasks : Expire(t), NEW u \in Tasks, Known(u)
    PROVE  HubMoves(u)
<1> USE DEF Known, callerVars, jobVars, hubVars, frames, UserKeeps, LinkKeeps
<1>1. CASE HubExpires
  <2>1. Connected(u) /\ Delivers(u)
    BY <1>1, ExpiryDelivers DEF HubExpires
  <2> QED
    BY <1>1, <2>1 DEF HubExpires, HubMoves, GoesOn
<1>2. CASE HubRestarts
  BY <1>2, LossMoves, SourceIsPeer DEF HubRestarts, HubMoves, Cut
<1>3. CASE \E t \in Tasks : Expire(t)
  BY <1>3, StillMoves DEF Expire
<1> QED
  BY <1>1, <1>2, <1>3
-----------------------------------------------------------------------------
(* What the steps of its caller do to the request u. *)

HubStill(u) == HubKeeps(u) /\ LinkKeeps(u)

Begins(u) ==
    /\ phase[u] = "idle" /\ phase'[u] = "sending" /\ link[Source[u]] = "up"
    /\ cleanup'[u] = cleanup[u] /\ held'[u] = held[u] /\ reply'[u] = reply[u]
    /\ down'[u] = down[u] /\ up'[u] \in {up[u], Append(up[u], "send")}
    /\ conn[Source[u]] # None <=> up'[u] = Append(up[u], "send")

Closes(u) ==
    /\ phase[u] # "closed" /\ phase'[u] = "closed" /\ reply'[u] = reply[u]
    /\ phase[u] = "idle" => link[Source[u]] # "up"
    /\ \/ down'[u] = down[u]
       \/ down[u] # << >> /\ Head(down[u]) = "rejected" /\ down'[u] = Tail(down[u])
    /\ \/ /\ u \in Calls /\ link[Source[u]] = "up" /\ cleanup'[u] = "sent" /\ held'[u] = held[u]
          /\ up'[u] = up[u] \/ (conn[Source[u]] # None /\ up'[u] = Append(up[u], "abandon"))
       \/ /\ ~(u \in Calls /\ link[Source[u]] = "up")
          /\ cleanup'[u] = cleanup[u] /\ held'[u] = None /\ up'[u] = up[u]

Receives(u) ==
    /\ down[u] # << >> /\ down'[u] = Tail(down[u]) /\ up'[u] = up[u]
    /\ reply'[u] = reply[u] /\ cleanup'[u] = cleanup[u]
    /\ \/ /\ Head(down[u]) = "accepted" /\ phase[u] = "sending" /\ held'[u] = held[u]
          /\ phase'[u] = IF u \in Calls THEN "waiting" ELSE "closed"
       \/ /\ \/ Head(down[u]) \in {"accepted", "rejected"} /\ phase[u] # "sending"
             \/ Head(down[u]) = "abandoned" /\ cleanup[u] # "sent"
          /\ phase'[u] = phase[u] /\ held'[u] = held[u]
       \/ /\ Head(down[u]) \in Terminal /\ held'[u] = Head(down[u]) /\ phase'[u] = phase[u]

CleansUp(u) ==
    /\ cleanup[u] = "sent" /\ held'[u] = None
    /\ phase'[u] = phase[u] /\ reply'[u] = reply[u] /\ up'[u] = up[u]
    /\ \/ /\ down[u] # << >> /\ Head(down[u]) = "abandoned" /\ down'[u] = Tail(down[u])
          /\ cleanup'[u] = "done"
       \/ /\ down'[u] = down[u]
          /\ cleanup'[u] = "unanswered" \/ (cleanup'[u] = "done" /\ link[Source[u]] # "up")

Consumes(u) ==
    /\ u \in Calls /\ held[u] # None /\ phase[u] \in Pending /\ held'[u] = None
    /\ reply'[u] = IF reply[u] = None THEN held[u] ELSE reply[u]
    /\ phase'[u] = phase[u] /\ cleanup'[u] = cleanup[u] /\ FramesKeep(u)

Returns(u) ==
    /\ reply[u] # None /\ phase[u] = "waiting" /\ phase'[u] = "closed"
    /\ cleanup'[u] = cleanup[u] /\ held'[u] = held[u] /\ reply'[u] = reply[u] /\ FramesKeep(u)

ClientMove(u) ==
    Begins(u) \/ Closes(u) \/ Receives(u) \/ CleansUp(u) \/ Consumes(u) \/ Returns(u)

(* A frame is read from the queue of u. *)
LEMMA FrameRead ==
    ASSUME NEW u \in Tasks, Known(u), AnswerInv(u), down[u] # << >>, down'[u] = Tail(down[u])
    PROVE  /\ Single(down'[u]) /\ Ordered(down'[u])
           /\ Head(down[u]) \in Terminal => ~Has(down'[u], Terminal)
           /\ Head(down[u]) = "abandoned" => ~Has(down'[u], Terminal)
           /\ Has(down[u], Terminal) <=> Head(down[u]) \in Terminal \/ Has(down'[u], Terminal)
           /\ Has(down[u], {"abandoned"}) <=>
                 Head(down[u]) = "abandoned" \/ Has(down'[u], {"abandoned"})
           /\ Has(down[u], {"accepted"}) <=>
                 Head(down[u]) = "accepted" \/ Has(down'[u], {"accepted"})
           /\ Has(down[u], {"accepted", "rejected"}) <=>
                 Head(down[u]) \in {"accepted", "rejected"} \/ Has(down'[u], {"accepted", "rejected"})
           /\ conn[Source[u]] # None /\ phase[u] # "idle"
<1>1. down[u] \in Seq(Results \cup Terminal) /\ Single(down[u]) /\ Ordered(down[u])
  BY DEF Known, TypeOK, AnswerInv, OneAnswer, AbandonLast
<1>2. conn[Source[u]] # None /\ phase[u] # "idle"
  BY DEF AnswerInv, CutOff
<1>3. /\ Single(down'[u]) /\ Ordered(down'[u])
      /\ Head(down[u]) \in Terminal => ~Has(down'[u], Terminal)
      /\ Head(down[u]) = "abandoned" => ~Has(down'[u], Terminal)
  BY <1>1, TailKeepsOrder
<1> QED
  BY <1>1, <1>2, <1>3, TailHas

LEMMA Distinct ==
    /\ {"accepted", "rejected", "abandoned", "unavailable", None} \cap Terminal = {}
    /\ Pending = {"sending", "waiting"}
BY DEF Terminal, None, Pending

LEMMA BeginsKeeps ==
    ASSUME NEW u \in Tasks, Known(u), AnswerInv(u), HubStill(u), Begins(u)
    PROVE  AnswerInv(u)'
<1> USE DEF HubStill, HubKeeps, LinkKeeps, Begins
<1>1. up[u] = << >> /\ due[u] = None /\ down[u] = << >> /\ job[u] = None
  BY DEF Known, RequestInv, AnswerInv, CutOff
<1>2. << >> \in Seq({"send", "abandon"})
  OBVIOUS
<1>3. /\ ~Has(up'[u], {"abandon"})
      /\ Has(up'[u], {"send"}) <=> conn[Source[u]] # None
  <2>1. /\ Has(Append(<< >>, "send"), {"send"}) <=> Has(<< >>, {"send"}) \/ "send" \in {"send"}
        /\ Has(Append(<< >>, "send"), {"abandon"}) <=>
              Has(<< >>, {"abandon"}) \/ "send" \in {"abandon"}
    BY <1>2, AppendHas
  <2>2. CASE conn[Source[u]] # None
    BY <1>1, <2>1, <2>2, EmptyQueue
  <2>3. CASE conn[Source[u]] = None
    BY <1>1, <2>3, EmptyQueue
  <2> QED
    BY <2>2, <2>3
<1>4. CutOff(u)'
  BY <1>1 DEF CutOff
<1>5. OneAnswer(u)' /\ AbandonLast(u)'
  BY <1>1, <1>3, EmptyQueue DEF AnswerInv, OneAnswer, Unanswered, AbandonLast, None
<1>6. reply[u] = None
  BY DEF AnswerInv, Unavailable
<1>7. Unavailable(u)' /\ GoneQuiet(u)'
  BY <1>6 DEF AnswerInv, Unavailable, GoneQuiet, None
<1>8. Awaited(u)'
  BY <1>1, <1>3, EmptyQueue DEF Awaited, Acknowledged, Whole, None
<1> QED
  BY <1>4, <1>5, <1>7, <1>8 DEF AnswerInv

LEMMA ClosesKeeps ==
    ASSUME NEW u \in Tasks, Known(u), AnswerInv(u), HubStill(u), Closes(u)
    PROVE  AnswerInv(u)'
<1> USE DEF HubStill, HubKeeps, LinkKeeps, Closes
<1>1. /\ Single(down'[u]) /\ Ordered(down'[u])
      /\ Has(down'[u], Terminal) <=> Has(down[u], Terminal)
      /\ Has(down'[u], {"abandoned"}) => Has(down[u], {"abandoned"})
      /\ down'[u] = down[u] \/ conn[Source[u]] # None
  BY FrameRead, Distinct DEF AnswerInv, OneAnswer, AbandonLast
<1>2. Has(up'[u], {"send"}) <=> Has(up[u], {"send"})
  <2>1. up[u] \in Seq({"send", "abandon"})
    BY DEF Known, TypeOK
  <2>2. Has(Append(up[u], "abandon"), {"send"}) <=> Has(up[u], {"send"}) \/ "abandon" \in {"send"}
    BY <2>1, AppendHas
  <2> QED
    BY <2>2
<1>3. CutOff(u)'
  BY <1>1 DEF AnswerInv, CutOff
<1>4. OneAnswer(u)'
  BY <1>1 DEF AnswerInv, OneAnswer, Unanswered
<1>5. AbandonLast(u)' /\ Unavailable(u)'
  BY <1>1, <1>2, Distinct DEF AnswerInv, AbandonLast, Unavailable
<1>6. GoneQuiet(u)'
  BY <1>1, <1>2 DEF AnswerInv, GoneQuiet, Silent, None
<1>7. Awaited(u)'
  BY DEF Awaited, Acknowledged
<1> QED
  BY <1>3, <1>4, <1>5, <1>6, <1>7 DEF AnswerInv

LEMMA ReceivesKeeps ==
    ASSUME NEW u \in Tasks, Known(u), AnswerInv(u), HubStill(u), Receives(u)
    PROVE  AnswerInv(u)'
<1> USE FrameRead, Distinct DEF HubStill, HubKeeps, LinkKeeps, Receives
<1>1. CutOff(u)'
  BY DEF CutOff
<1>2. Unavailable(u)'
  BY DEF AnswerInv, Unavailable
<1>3. AbandonLast(u)'
  BY DEF AnswerInv, AbandonLast
<1>4. OneAnswer(u)'
  <2>1. CASE Head(down[u]) \in Terminal
    BY <2>1 DEF AnswerInv, OneAnswer, Unanswered
  <2>2. CASE Head(down[u]) \notin Terminal
    BY <2>2 DEF AnswerInv, OneAnswer, Unanswered
  <2> QED
    BY <2>1, <2>2
<1>5. GoneQuiet(u)'
  BY DEF AnswerInv, AbandonLast, GoneQuiet, Silent
<1>6. Awaited(u)'
  <2>1. CASE Head(down[u]) \in Terminal
    BY <2>1 DEF AnswerInv, Awaited, Acknowledged, Accounted, Whole
  <2>2. CASE Head(down[u]) \notin Terminal
    BY <2>2 DEF AnswerInv, Awaited, Acknowledged, Accounted, AbandonLast, Whole
  <2> QED
    BY <2>1, <2>2
<1> QED
  BY <1>1, <1>2, <1>3, <1>4, <1>5, <1>6 DEF AnswerInv

LEMMA CleansUpKeeps ==
    ASSUME NEW u \in Tasks, Known(u), AnswerInv(u), HubStill(u), CleansUp(u)
    PROVE  AnswerInv(u)'
<1> USE FrameRead, Distinct DEF HubStill, HubKeeps, LinkKeeps, CleansUp
<1>1. phase[u] = "closed"
  BY DEF AnswerInv, AbandonLast, None
<1>2. CutOff(u)' /\ Unavailable(u)' /\ Awaited(u)'
  BY <1>1 DEF AnswerInv, CutOff, Unavailable, Awaited, Acknowledged
<1>3. OneAnswer(u)'
  BY DEF AnswerInv, OneAnswer, Unanswered
<1>4. AbandonLast(u)'
  BY <1>1 DEF AnswerInv, AbandonLast
<1>5. GoneQuiet(u)'
  BY DEF AnswerInv, AbandonLast, GoneQuiet, Silent, None
<1> QED
  BY <1>2, <1>3, <1>4, <1>5 DEF AnswerInv

LEMMA EndsKeep ==
    ASSUME NEW u \in Tasks, Known(u), AnswerInv(u), HubStill(u), Consumes(u) \/ Returns(u)
    PROVE  AnswerInv(u)'
<1> USE Distinct DEF HubStill, HubKeeps, LinkKeeps, FramesKeep
<1>1. CASE Consumes(u)
  <2>1. held[u] \in Terminal /\ reply'[u] # None
    BY <1>1 DEF Known, TypeOK, Consumes
  <2>2. /\ ~Has(down[u], Terminal) /\ reply[u] \notin Terminal
        /\ job[u] # None /\ u \notin delivery /\ phase[u] # "idle"
    BY <1>1 DEF Consumes, AnswerInv, OneAnswer, Unanswered
  <2>3. CutOff(u)' /\ Unavailable(u)' /\ AbandonLast(u)'
    BY <1>1, <2>1, <2>2 DEF Consumes, AnswerInv, CutOff, Unavailable, AbandonLast
  <2>4. OneAnswer(u)'
    BY <1>1, <2>1, <2>2 DEF Consumes, AnswerInv, OneAnswer
  <2>5. GoneQuiet(u)'
    BY <1>1, <2>1 DEF Consumes, AnswerInv, GoneQuiet, Silent
  <2>6. Awaited(u)'
    BY <1>1, <2>1 DEF Consumes, AnswerInv, Awaited, Accounted, Acknowledged, Whole
  <2> QED
    BY <2>3, <2>4, <2>5, <2>6 DEF AnswerInv
<1>2. CASE Returns(u)
  <2>1. reply[u] = "unavailable" \/ reply[u] \in Terminal
    BY <1>2 DEF Known, TypeOK, Returns
  <2>2. CutOff(u)' /\ Unavailable(u)' /\ AbandonLast(u)' /\ OneAnswer(u)' /\ Awaited(u)'
    BY <1>2 DEF Returns, AnswerInv, CutOff, Unavailable, AbandonLast, OneAnswer, Unanswered,
                Awaited, Acknowledged
  <2>3. reply[u] \in Terminal => Silent(u)
    BY DEF Known, RequestInv, AnswerInv, OneAnswer, Unanswered, Silent
  <2>4. GoneQuiet(u)'
    BY <1>2, <2>1, <2>3 DEF Returns, AnswerInv, GoneQuiet, Silent
  <2> QED
    BY <2>2, <2>4 DEF AnswerInv
<1> QED
  BY <1>1, <1>2

LEMMA ClientMoveKeeps ==
    ASSUME NEW u \in Tasks, Known(u), AnswerInv(u), HubStill(u), ClientMove(u)
    PROVE  AnswerInv(u)'
BY BeginsKeeps, ClosesKeeps, ReceivesKeeps, CleansUpKeeps, EndsKeep DEF ClientMove
-----------------------------------------------------------------------------
(* The steps of a caller are such moves of its request, and of no other. *)

LEMMA OthersStill ==
    ASSUME TypeOK, NEW t \in Tasks, Client(t), NEW u \in Tasks \ {t}
    PROVE  UserKeeps(u) /\ FramesKeep(u)
<1> USE DEF callerVars, UserKeeps, FramesKeep
<1>1. ASSUME NEW some, Reads(t, some)
      PROVE  down'[u] = down[u]
  BY <1>1 DEF Reads, TypeOK
<1>2. ASSUME NEW from, NEW a, GiveUp(t, from, a)
      PROVE  /\ up'[u] = up[u] /\ phase'[u] = phase[u] /\ cleanup'[u] = cleanup[u]
             /\ held'[u] = held[u] /\ reply'[u] = reply[u]
  <2>1. /\ up' = up \/ up' = [up EXCEPT ![t] = Append(up[t], "abandon")]
        /\ held' = held \/ held' = [held EXCEPT ![t] = None]
        /\ cleanup' = cleanup \/ cleanup' = [cleanup EXCEPT ![t] = "sent"]
    BY <1>2, GaveUp
  <2>2. phase' = [phase EXCEPT ![t] = "closed"] /\ reply' = reply
    BY <1>2 DEF GiveUp, Moves
  <2> QED
    BY <2>1, <2>2 DEF TypeOK
<1>3. ASSUME NEW how, AbandonEnds(t, how)
      PROVE  /\ up'[u] = up[u] /\ phase'[u] = phase[u] /\ cleanup'[u] = cleanup[u]
             /\ held'[u] = held[u] /\ reply'[u] = reply[u]
  BY <1>3 DEF AbandonEnds, TypeOK
<1>4. CASE ReadAccepted(t)
  <2>1. UNCHANGED phase \/ \E x : phase' = [phase EXCEPT ![t] = x]
    BY <1>4 DEF ReadAccepted, Moves
  <2> QED
    BY <1>1, <1>4, <2>1 DEF ReadAccepted, TypeOK
<1>5. CASE ReadRejected(t)
  BY <1>1, <1>2, <1>5 DEF ReadRejected
<1>6. CASE ReadAbandoned(t)
  BY <1>1, <1>3, <1>6 DEF ReadAbandoned
<1>7. CASE ReadResponse(t)
  BY <1>1, <1>7 DEF ReadResponse, TypeOK
<1>8. CASE Consume(t) \/ CallReturns(t)
  BY <1>8 DEF Consume, CallReturns, Moves, TypeOK
<1>9. CASE \/ DeadlineFires(t) \/ SendFails(t) \/ SendTimesOut(t) \/ CallCancelled(t)
           \/ AbandonFails(t) \/ AbandonTimesOut(t)
  BY <1>2, <1>3, <1>9 DEF DeadlineFires, SendFails, SendTimesOut, CallCancelled, AbandonFails,
                         AbandonTimesOut
<1>10. CASE Send(t)
  BY <1>10 DEF Send, Moves, Write, TypeOK
<1> QED
  BY <1>4, <1>5, <1>6, <1>7, <1>8, <1>9, <1>10 DEF Client, ClientStep

LEMMA FrameTaken ==
    ASSUME TypeOK, NEW t \in Tasks, NEW some, Reads(t, some)
    PROVE  /\ down[t] # << >> /\ Head(down[t]) \in some /\ down'[t] = Tail(down[t])
           /\ link[Source[t]] = "up"
BY DEF Reads, TypeOK

LEMMA GaveUpCloses ==
    ASSUME TypeOK, NEW t \in Tasks, NEW from, NEW a, GiveUp(t, from, a), "closed" \notin from,
           "idle" \in from => link[Source[t]] # "up",
           \/ down'[t] = down[t]
           \/ down[t] # << >> /\ Head(down[t]) = "rejected" /\ down'[t] = Tail(down[t])
    PROVE  Closes(t)
<1>1. /\ phase[t] \in from /\ phase'[t] = "closed" /\ reply'[t] = reply[t]
  BY DEF GiveUp, Moves, TypeOK
<1>2. CASE t \in Calls /\ link[Source[t]] = "up"
  <2>1. Write(t, "abandon") /\ cleanup' = [cleanup EXCEPT ![t] = "sent"] /\ UNCHANGED held
    BY <1>2 DEF GiveUp
  <2>2. up'[t] = up[t] \/ (conn[Source[t]] # None /\ up'[t] = Append(up[t], "abandon"))
    BY <2>1 DEF Write, TypeOK
  <2> QED
    BY <1>1, <1>2, <2>1, <2>2 DEF Closes, TypeOK
<1>3. CASE ~(t \in Calls /\ link[Source[t]] = "up")
  <2>1. held' = [held EXCEPT ![t] = None] /\ UNCHANGED <<up, cleanup>>
    BY <1>3 DEF GiveUp
  <2> QED
    BY <1>1, <1>3, <2>1 DEF Closes, TypeOK
<1> QED
  BY <1>2, <1>3

LEMMA OwnMove ==
    ASSUME TypeOK, NEW t \in Tasks, Client(t)
    PROVE  ClientMove(t) \/ (UserKeeps(t) /\ FramesKeep(t))
<1> USE DEF ClientMove, callerVars
<1>1. CASE ReadAccepted(t)
  <2>1. /\ down[t] # << >> /\ Head(down[t]) = "accepted" /\ down'[t] = Tail(down[t])
        /\ UNCHANGED <<up, cleanup, held, reply>>
    BY <1>1, FrameTaken DEF ReadAccepted
  <2>2. IF phase[t] # "sending" THEN phase'[t] = phase[t]
        ELSE phase'[t] = IF t \in Calls THEN "waiting" ELSE "closed"
    BY <1>1 DEF ReadAccepted, Moves, TypeOK
  <2> QED
    BY <2>1, <2>2 DEF Receives
<1>2. CASE ReadRejected(t)
  <2>1. down[t] # << >> /\ Head(down[t]) = "rejected" /\ down'[t] = Tail(down[t])
    BY <1>2, FrameTaken DEF ReadRejected
  <2>2. CASE phase[t] = "sending"
    BY <1>2, <2>1, <2>2, GaveUpCloses DEF ReadRejected
  <2>3. CASE phase[t] # "sending"
    BY <1>2, <2>1, <2>3 DEF ReadRejected, Receives
  <2> QED
    BY <2>2, <2>3
<1>3. CASE ReadResponse(t)
  <2>1. /\ down[t] # << >> /\ Head(down[t]) \in Terminal /\ down'[t] = Tail(down[t])
        /\ held'[t] = Head(down[t]) /\ UNCHANGED <<up, phase, cleanup, reply>>
    BY <1>3, FrameTaken DEF ReadResponse, TypeOK
  <2> QED
    BY <2>1 DEF Receives
<1>4. ASSUME NEW how, AbandonEnds(t, how)
      PROVE  /\ cleanup[t] = "sent" /\ cleanup'[t] = how /\ held'[t] = None
             /\ UNCHANGED <<up, phase, reply>>
  BY <1>4 DEF AbandonEnds, TypeOK
<1>5. CASE ReadAbandoned(t)
  <2>1. down[t] # << >> /\ Head(down[t]) = "abandoned" /\ down'[t] = Tail(down[t])
    BY <1>5, FrameTaken DEF ReadAbandoned
  <2>2. CASE cleanup[t] = "sent"
    BY <1>4, <1>5, <2>1, <2>2 DEF ReadAbandoned, CleansUp
  <2>3. CASE cleanup[t] # "sent"
    BY <1>5, <2>1, <2>3 DEF ReadAbandoned, Receives
  <2> QED
    BY <2>2, <2>3
<1>6. CASE AbandonFails(t) \/ AbandonTimesOut(t)
  BY <1>4, <1>6 DEF AbandonFails, AbandonTimesOut, CleansUp
<1>7. CASE Consume(t)
  BY <1>7 DEF Consume, Consumes, FramesKeep, TypeOK
<1>8. CASE CallReturns(t)
  BY <1>8 DEF CallReturns, Moves, Returns, FramesKeep, TypeOK
<1>9. CASE DeadlineFires(t) \/ CallCancelled(t) \/ SendTimesOut(t)
  <2>1. PICK from, a : GiveUp(t, from, a) /\ from \in {Pending, {"sending"}}
    BY <1>9 DEF DeadlineFires, CallCancelled, SendTimesOut
  <2>2. "closed" \notin from /\ "idle" \notin from
    BY <2>1, Distinct
  <2> QED
    BY <1>9, <2>1, <2>2, GaveUpCloses DEF DeadlineFires, CallCancelled, SendTimesOut
<1>10. CASE SendFails(t)
  BY <1>10, GaveUpCloses DEF SendFails
<1>11. CASE Send(t)
  <2>1. /\ phase[t] = "idle" /\ phase'[t] = "sending" /\ link[Source[t]] = "up"
        /\ UNCHANGED <<down, cleanup, held, reply>>
    BY <1>11 DEF Send, Moves, TypeOK
  <2>2. up' = IF conn[Source[t]] # None THEN [up EXCEPT ![t] = Append(up[t], "send")] ELSE up
    BY <1>11 DEF Send, Write
  <2>3. up[t] # Append(up[t], "send")
    <3>1. up[t] \in Seq({"send", "abandon"})
      BY DEF TypeOK
    <3> QED
      BY <3>1, AppendedAt
  <2>4. /\ up'[t] \in {up[t], Append(up[t], "send")}
        /\ conn[Source[t]] # None <=> up'[t] = Append(up[t], "send")
    BY <2>2, <2>3 DEF TypeOK
  <2> QED
    BY <2>1, <2>4 DEF Begins
<1> QED
  BY <1>1, <1>2, <1>3, <1>5, <1>6, <1>7, <1>8, <1>9, <1>10, <1>11 DEF Client, ClientStep

LEMMA ClientKeeps ==
    ASSUME NEW t \in Tasks, Client(t), NEW u \in Tasks, Known(u), AnswerInv(u)
    PROVE  AnswerInv(u)'
<1>1. UNCHANGED <<hubVars, link, jobVars>> /\ TypeOK
  BY ClientFrame DEF Known
<1>2. HubStill(u)
  BY <1>1 DEF HubStill, HubKeeps, LinkKeeps, hubVars, jobVars
<1>3. CASE UserKeeps(u) /\ FramesKeep(u)
  <2>1. HubMoves(u)
    BY <1>2, <1>3 DEF HubMoves, GoesOn, HubStill, HubKeeps, Connected, Delivers, FramesKeep
  <2> QED
    BY <2>1, HubMovesKeep
<1>4. CASE ClientMove(u)
  BY <1>2, <1>4, ClientMoveKeeps
<1> QED
  BY <1>1, <1>3, <1>4, OthersStill, OwnMove
-----------------------------------------------------------------------------
AllAnswers == \A u \in Tasks : AnswerInv(u)

LEMMA AnswersInit == Init => AllAnswers
<1> SUFFICES ASSUME Init, NEW u \in Tasks
             PROVE  AnswerInv(u)
  BY DEF AllAnswers
<1>1. /\ conn[Source[u]] = None /\ up[u] = << >> /\ due[u] = None /\ down[u] = << >>
      /\ delivery = {} /\ phase[u] = "idle" /\ cleanup[u] = None /\ held[u] = None
      /\ reply[u] = None /\ job[u] = None
  BY SourceIsPeer DEF Init
<1>2. CutOff(u) /\ OneAnswer(u) /\ AbandonLast(u)
  BY <1>1, EmptyQueue, Distinct DEF CutOff, OneAnswer, Unanswered, AbandonLast, None
<1>3. Unavailable(u) /\ GoneQuiet(u) /\ Awaited(u)
  BY <1>1, EmptyQueue, Distinct DEF Unavailable, GoneQuiet, Awaited, Acknowledged, Whole, None
<1> QED
  BY <1>2, <1>3 DEF AnswerInv

LEMMA AnswersStep == IInv /\ AllAnswers /\ [Next]_vars => AllAnswers'
<1> SUFFICES ASSUME IInv, [Next]_vars, NEW u \in Tasks, AnswerInv(u)
             PROVE  AnswerInv(u)'
  BY DEF AllAnswers
<1>1. Known(u) /\ JobInv(u)
  BY InvKnown DEF IInv
<1>2. CASE UNCHANGED vars
  <2>1. HubMoves(u)
    BY <1>2, StillMoves DEF vars, hubVars, frames, callerVars, jobVars, UserKeeps, LinkKeeps
  <2> QED
    BY <1>1, <2>1, HubMovesKeep
<1>3. ASSUME NEW t \in Tasks, HubStep(t) \/ ServerStep(t) \/ Expire(t)
      PROVE  HubMoves(u)
  BY <1>1, <1>3, HubStepMoves, ServerStepMoves, HubOtherMoves
<1>4. ASSUME NEW t \in Tasks, Client(t)
      PROVE  AnswerInv(u)'
  BY <1>1, <1>4, ClientKeeps
<1>5. ASSUME NEW p \in Peers, PeerStep(p) \/ LinkBreaks(p)
      PROVE  HubMoves(u)
  BY <1>1, <1>5, PeerMoves
<1>6. ASSUME NEW s \in Servers, ServerOther(s)
      PROVE  HubMoves(u)
  BY <1>1, <1>6, ServerOtherMoves
<1>7. HubExpires \/ HubRestarts => HubMoves(u)
  BY <1>1, HubOtherMoves
<1> QED
  BY <1>1, <1>2, <1>3, <1>4, <1>5, <1>6, <1>7, HubMovesKeep DEF Next, Client

(* What has become of each request's response is where the invariant says,  *)
(* in every reachable state of the Hub, its peers and their requests.       *)
THEOREM Answers == Spec => []AllAnswers
BY AnswersInit, AnswersStep, Invariant, PTL DEF Spec

(* While the connection of a caller is whole, what each of its calls waits  *)
(* for is not lost: no rejection, end of a server, full queue, restart or   *)
(* deadline loses the answer of a call that still waits.                    *)
THEOREM WaitersAccounted == Spec => []WaiterAccounted
<1>1. AllAnswers => WaiterAccounted
  <2> SUFFICES ASSUME NEW t \in Calls, AnswerInv(t), link[Source[t]] = "up",
                      conn[Source[t]] = "open"
               PROVE  /\ phase[t] = "sending" =>
                           \/ Has(up[t], {"send"}) \/ due[t] # None
                           \/ Has(down[t], {"accepted", "rejected"})
                      /\ phase[t] = "waiting" /\ reply[t] = None =>
                           t \in delivery \/ Has(down[t], Terminal) \/ held[t] # None
    BY ConstantsAssumption DEF AllAnswers, WaiterAccounted
  <2> QED
    BY DEF AnswerInv, Awaited, Acknowledged, Accounted, Whole
<1> QED
  BY <1>1, Answers, PTL

(* A response put aside is consumed by its call, or removed by the abandon  *)
(* command of its call; only one that ran into its timeout leaves one.      *)
THEOREM NoResponseStrays == Spec => []NoStrayResponse
<1>1. IInv /\ AllAnswers => NoStrayResponse
  <2> SUFFICES ASSUME IInv, NEW t \in Tasks, AnswerInv(t), link[Source[t]] = "up", held[t] # None
               PROVE  phase[t] \in Pending \/ cleanup[t] \in {"sent", "unanswered"}
    BY DEF AllAnswers, NoStrayResponse
  <2>1. t \in Calls /\ job[t] # None
    BY DEF AnswerInv, OneAnswer, Unanswered
  <2>2. phase[t] # "idle" /\ phase[t] \in {"idle", "closed"} \cup Pending
    BY <2>1 DEF IInv, RequestInv, TypeOK
  <2>3. phase[t] = "closed" => cleanup[t] \notin {None, "done"}
    BY <2>1 DEF AnswerInv, GoneQuiet, Silent
  <2>4. cleanup[t] \in {None, "sent", "done", "unanswered"}
    BY DEF IInv, TypeOK
  <2> QED
    BY <2>2, <2>3, <2>4
<1> QED
  BY <1>1, Answers, Invariant, PTL

(* A set all of whose elements are equal has at most one. *)
LEMMA AtMostOne ==
    ASSUME NEW S, \A x, y \in S : x = y
    PROVE  Cardinality(S) \in {0, 1} /\ (Cardinality(S) = 1 => S # {})
<1>1. CASE S = {}
  BY <1>1, FS_EmptySet
<1>2. CASE S # {}
  <2>1. PICK x : S = {x}
    BY <1>2
  <2> QED
    BY <2>1, FS_Singleton
<1> QED
  BY <1>1, <1>2

(* At most one response is made for a request, whichever of its handler,    *)
(* the expiry, the end of its server and the restart of the Hub is first.   *)
THEOREM OneResponseEach == Spec => []OneResponse
<1>1. AllAnswers => OneResponse
  <2> SUFFICES ASSUME NEW t \in Tasks, AnswerInv(t)
               PROVE  Cardinality({i \in 1 .. Len(down[t]) : down[t][i] \in Terminal})
                      + Cardinality({x \in {held[t], reply[t]} : x \in Terminal})
                      + Cardinality({t} \cap delivery) <= 1
    BY DEF AllAnswers, OneResponse
  <2> DEFINE sent == {i \in 1 .. Len(down[t]) : down[t][i] \in Terminal}
             read == {x \in {held[t], reply[t]} : x \in Terminal}
             kept == {t} \cap delivery
  <2>1. \A i, j \in sent : i = j
    BY DEF AnswerInv, OneAnswer, Single
  <2>2. sent # {} <=> Has(down[t], Terminal)
    BY DEF Has
  <2>3. held[t] = None \/ reply[t] \notin Terminal
    BY DEF AnswerInv, OneAnswer
  <2>4. \A x, y \in read : x = y
    BY <2>3, Distinct
  <2>5. read # {} => held[t] # None \/ reply[t] \in Terminal
    BY Distinct
  <2>6. \A x, y \in kept : x = y
    OBVIOUS
  <2>7. kept # {} => Unanswered(t)
    BY DEF AnswerInv, OneAnswer
  <2>8. ~(sent # {} /\ read # {}) /\ ~(sent # {} /\ kept # {}) /\ ~(read # {} /\ kept # {})
    BY <2>2, <2>5, <2>7 DEF AnswerInv, OneAnswer, Unanswered
  <2> HIDE DEF sent, read, kept
  <2>9. /\ Cardinality(sent) \in {0, 1} /\ (Cardinality(sent) = 1 => sent # {})
        /\ Cardinality(read) \in {0, 1} /\ (Cardinality(read) = 1 => read # {})
        /\ Cardinality(kept) \in {0, 1} /\ (Cardinality(kept) = 1 => kept # {})
    BY <2>1, <2>4, <2>6, AtMostOne
  <2>10. Cardinality(sent) + Cardinality(read) + Cardinality(kept) <= 1
    BY <2>8, <2>9
  <2> QED
    BY <2>10 DEF sent, read, kept
<1> QED
  BY <1>1, Answers, PTL
=============================================================================
