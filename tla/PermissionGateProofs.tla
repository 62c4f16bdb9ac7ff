------------------------- MODULE PermissionGateProofs -------------------------
(***************************************************************************)
(* What the gates promise, for every set of calls, of questions they may   *)
(* put and of configurations they may meet.                                *)
(*                                                                         *)
(* GateInv is inductive: of the gates of a call that was judged, each is   *)
(* still to be run or was settled by someone who may settle it, a refusal  *)
(* among them is the next to be run, every rule of the session stems from  *)
(* an answer, and after the end of a session only what links were deciding *)
(* then is still with a link or the human.                                 *)
(***************************************************************************)
EXTENDS PermissionGate, SequenceTheorems, WellFoundedInduction, TLAPS

States == DOMAIN Strictness
Verdicts == [q : Questions, state : States, by : {"rule", "session", "yolo"}]
Vias == {"rule", "session", "yolo", "link", "human"}
Stages == {"idle", "blocked", "parsing", "gates", "link", "human", "ran"}
CallRecords == [stage : Stages, use : Uses, gates : Seq(Verdicts), judged : Seq(Verdicts),
                via : SUBSET (Questions \X Vias), terminal : Nat]
Answers == [q : Questions, width : {"proven", "family"}]

GateTypes ==
  /\ session \in [on : BOOLEAN, number : Nat, stale : BOOLEAN]
  /\ policy \in Policies
  /\ yoloFile \in BOOLEAN /\ yolo \in BOOLEAN
  /\ calls \in [Calls -> CallRecords]
  /\ answers \subseteq Answers
  /\ \A s \in DOMAIN skills : skills[s] \in States

(* The gate g of the call was settled by someone who may settle it. *)
Settled(call, g) ==
  \E via \in Vias :
    /\ <<g.q, via>> \in call.via
    /\ g.state = "ask" => via \in {"yolo", "link", "human"}
    /\ via = "link" => g.q.family \notin Families \/ g.q.licensed

CallInv(call) ==
  /\ call.stage \in {"idle", "blocked", "parsing"} => call.judged = <<>> /\ call.gates = <<>>
  /\ \A g \in ToSet(call.judged) : g \in ToSet(call.gates) \/ Settled(call, g)
  /\ (\E g \in ToSet(call.judged) : g.state = "deny")
       => call.stage = "gates" /\ call.gates # <<>> /\ Head(call.gates).state = "deny"
  /\ call.stage \in {"link", "human"} => call.gates # <<>> /\ Head(call.gates).state = "ask"
  /\ call.stage = "ran" => call.gates = <<>>

(* The rules of the session are those its answers made. *)
GrantsAnswered ==
  \A m \in grants : \E a \in answers :
    /\ a.q.family = m[1] /\ a.q.place = m[3]
    /\ m[2] \in a.q.effects \/ a.width = "family"

(* Whom a link or the human may still be deciding about after the end. *)
MayBePending(c) ==
  calls[c].stage \in {"link", "human"} =>
    c \in late /\ (calls[c].stage = "human" => calls[c].terminal = session.number)
PendingIsLate == ~session.on => \A c \in Calls : MayBePending(c)

(* The inductive invariant. *)
GateInv ==
  /\ GateTypes
  /\ \A c \in Calls : CallInv(calls[c])
  /\ GrantsAnswered
  /\ PendingIsLate

-----------------------------------------------------------------------------
(* Sequences. *)

(* A nonempty set of naturals has a least element.                         *)
LEMMA LeastNatural ==
  ASSUME NEW T \in SUBSET Nat, T # {}
  PROVE  \E m \in T : \A n \in T : m <= n
<1> DEFINE Less == {ss \in Nat \X Nat : ss[1] < ss[2]}
<1>1. IsWellFoundedOn(Less, Nat)
  BY NatLessThanWellFounded, Zenon DEF OpToRel
<1>2. PICK m \in T : \A n \in T : <<n, m>> \notin Less
  <2> HIDE DEF Less
  <2>1. QED
    BY <1>1, WFMin
<1>3. ASSUME NEW n \in T PROVE m <= n
  <2>1. n \in Nat /\ m \in Nat /\ ~(n < m)
    BY <1>2
  <2>2. QED
    BY <2>1
<1>4. QED
  BY <1>3

(* Keep, one element at a time: f[i] is what is kept of the first i.       *)
KeepsFirst(f, seq, T, n) ==
  f = [i \in 0 .. n |->
         IF i = 0 THEN <<>>
         ELSE IF seq[i] \in T THEN Append(f[i - 1], seq[i]) ELSE f[i - 1]]

(* There is such a function, by a least length without one.                *)
LEMMA KeepDefined ==
  ASSUME NEW S, NEW seq \in Seq(S), NEW T
  PROVE  \E f : KeepsFirst(f, seq, T, Len(seq))
<1> DEFINE Bad == {n \in 0 .. Len(seq) : ~ \E f : KeepsFirst(f, seq, T, n)}
<1>0. Len(seq) \in Nat
  OBVIOUS
<1>1. SUFFICES ASSUME Bad # {} PROVE FALSE
  BY <1>0
<1>2. PICK n \in Bad : \A k \in Bad : n <= k
  <2>1. Bad \in SUBSET Nat
    BY <1>0
  <2> HIDE DEF Bad
  <2>2. QED
    BY <1>1, <2>1, LeastNatural
<1>3. CASE n = 0
  <2>1. KeepsFirst([i \in 0 .. 0 |-> <<>>], seq, T, 0)
    BY DEF KeepsFirst
  <2>2. QED
    BY <2>1, <1>3
<1>4. CASE n # 0
  <2>1. n - 1 \in 0 .. Len(seq)
    BY <1>4, <1>0
  <2>2. n - 1 \notin Bad
    <3>1. n \in Nat /\ ~(n <= n - 1)
      BY <1>0
    <3> HIDE DEF Bad
    <3>2. QED
      BY <1>2, <3>1
  <2>3. PICK f : KeepsFirst(f, seq, T, n - 1)
    BY <2>1, <2>2
  <2> DEFINE last == IF seq[n] \in T THEN Append(f[n - 1], seq[n]) ELSE f[n - 1]
             g == [i \in 0 .. n |-> IF i = n THEN last ELSE f[i]]
  <2>4. \A i \in 0 .. n - 1 : f[i] = IF i = 0 THEN <<>>
                               ELSE IF seq[i] \in T THEN Append(f[i - 1], seq[i]) ELSE f[i - 1]
    BY <2>3 DEF KeepsFirst
  <2>5. g = [i \in 0 .. n |->
               IF i = 0 THEN <<>>
               ELSE IF seq[i] \in T THEN Append(g[i - 1], seq[i]) ELSE g[i - 1]]
    <3>1. ASSUME NEW i \in 0 .. n
          PROVE  g[i] = IF i = 0 THEN <<>>
                        ELSE IF seq[i] \in T THEN Append(g[i - 1], seq[i]) ELSE g[i - 1]
      <4>1. CASE i = n
        BY <4>1, <1>4, <1>0
      <4>2. CASE i # n
        <5>1. i \in 0 .. n - 1 /\ (i # 0 => i - 1 \in 0 .. n /\ i - 1 # n)
          BY <4>2, <1>0
        <5>2. g[i] = f[i] /\ (i # 0 => g[i - 1] = f[i - 1])
          BY <5>1, <4>2
        <5>3. QED
          BY <5>1, <5>2, <2>4
      <4>3. QED
        BY <4>1, <4>2
    <3>2. QED
      BY <3>1
  <2>6. KeepsFirst(g, seq, T, n)
    BY <2>5 DEF KeepsFirst
  <2>7. QED
    BY <2>6
<1>5. QED
  BY <1>3, <1>4

(* Of a sequence, Keep(seq, T) keeps the elements that are in T and no     *)
(* other: the gates deny-first are the gates as produced.                  *)
LEMMA KeepElements ==
  ASSUME NEW S, NEW seq \in Seq(S), NEW T
  PROVE  Keep(seq, T) \in Seq(S) /\ ToSet(Keep(seq, T)) = ToSet(seq) \cap T
<1> DEFINE f == CHOOSE f : KeepsFirst(f, seq, T, Len(seq))
<1>1. KeepsFirst(f, seq, T, Len(seq))
  BY KeepDefined
<1>2. Keep(seq, T) = f[Len(seq)]
  BY Zenon DEF Keep, KeepsFirst
<1> HIDE DEF f
<1>0. Len(seq) \in Nat
  OBVIOUS
<1> DEFINE Right(i) == f[i] \in Seq(S) /\ ToSet(f[i]) = {seq[j] : j \in 1 .. i} \cap T
           Bad == {i \in 0 .. Len(seq) : ~ Right(i)}
<1>3. f[0] = <<>> /\ \A i \in 1 .. Len(seq) :
         f[i] = IF seq[i] \in T THEN Append(f[i - 1], seq[i]) ELSE f[i - 1]
  <2>1. \A i \in 0 .. Len(seq) : f[i] = IF i = 0 THEN <<>>
                   ELSE IF seq[i] \in T THEN Append(f[i - 1], seq[i]) ELSE f[i - 1]
    BY <1>1, Zenon DEF KeepsFirst
  <2>2. QED
    BY <2>1, <1>0
<1>4. ASSUME Bad # {} PROVE FALSE
  <2>1. PICK i \in Bad : \A k \in Bad : i <= k
    <3>1. Bad \in SUBSET Nat
      BY <1>0
    <3> HIDE DEF Bad
    <3>2. QED
      BY <1>4, <3>1, LeastNatural
  <2>2. CASE i = 0
    <3>1. f[0] = <<>> /\ ToSet(<<>>) = {} /\ {seq[j] : j \in 1 .. 0} = {} /\ <<>> \in Seq(S)
      BY <1>3 DEF ToSet
    <3>2. Right(0)
      BY <3>1
    <3>3. QED
      BY <3>2, <2>2
  <2>3. CASE i # 0
    <3>1. i - 1 \in 0 .. Len(seq) /\ i \in 1 .. Len(seq)
      BY <2>3, <1>0
    <3>2. Right(i - 1)
      <4>1. i - 1 \notin Bad
        <5> HIDE DEF Bad
        <5>1. QED
          BY <2>1, <3>1
      <4>2. QED
        BY <4>1, <3>1
    <3>3. {seq[j] : j \in 1 .. i} = {seq[j] : j \in 1 .. i - 1} \cup {seq[i]}
      <4>1. 1 .. i = 1 .. (i - 1) \cup {i}
        BY <3>1
      <4>2. QED
        BY <4>1
    <3>4. seq[i] \in S
      BY <3>1, ElementOfSeq
    <3>5. ToSet(Append(f[i - 1], seq[i])) = ToSet(f[i - 1]) \cup {seq[i]}
      BY <3>2, <3>4, AppendProperties DEF ToSet
    <3>6. CASE seq[i] \in T
      <4>1. f[i] = Append(f[i - 1], seq[i])
        BY <3>1, <3>6, <1>3
      <4>2. f[i] \in Seq(S)
        BY <4>1, <3>2, <3>4, AppendProperties
      <4>3. ToSet(f[i]) = {seq[j] : j \in 1 .. i} \cap T
        BY <4>1, <3>2, <3>3, <3>5, <3>6
      <4>4. QED
        BY <4>2, <4>3
    <3>7. CASE seq[i] \notin T
      <4>1. f[i] = f[i - 1]
        BY <3>1, <3>7, <1>3
      <4>2. QED
        BY <4>1, <3>2, <3>3, <3>7
    <3>8. QED
      BY <3>6, <3>7
  <2>4. QED
    BY <2>2, <2>3
<1>5. Right(Len(seq))
  <2>1. Len(seq) \notin Bad
    <3> HIDE DEF Bad
    <3>1. QED
      BY <1>4
  <2>2. QED
    BY <2>1, <1>0
<1>6. ToSet(seq) = {seq[j] : j \in 1 .. Len(seq)}
  BY DEF ToSet
<1>7. QED
  BY <1>2, <1>5, <1>6

(* The elements of a nonempty sequence are its head and those of its tail. *)
LEMMA HeadAndTail ==
  ASSUME NEW S, NEW seq \in Seq(S), seq # <<>>
  PROVE  /\ Head(seq) \in S /\ Tail(seq) \in Seq(S)
         /\ ToSet(seq) = {Head(seq)} \cup ToSet(Tail(seq))
<1>1. Len(seq) \in Nat /\ Len(seq) >= 1 /\ DOMAIN seq = 1 .. Len(seq) /\ Head(seq) = seq[1]
  OBVIOUS
<1>2. /\ Tail(seq) \in Seq(S) /\ Len(Tail(seq)) = Len(seq) - 1
      /\ \A i \in 1 .. Len(seq) - 1 : Tail(seq)[i] = seq[i + 1]
  BY HeadTailProperties
<1>3. DOMAIN Tail(seq) = 1 .. Len(seq) - 1
  BY <1>2
<1>4. ASSUME NEW i \in 1 .. Len(seq) PROVE seq[i] \in {Head(seq)} \cup ToSet(Tail(seq))
  <2>1. CASE i = 1
    BY <2>1, <1>1
  <2>2. CASE i # 1
    <3>1. i - 1 \in 1 .. Len(seq) - 1 /\ Tail(seq)[i - 1] = seq[i]
      BY <2>2, <1>1, <1>2
    <3>2. QED
      BY <3>1, <1>3 DEF ToSet
  <2>3. QED
    BY <2>1, <2>2
<1>5. ASSUME NEW i \in 1 .. Len(seq) - 1 PROVE Tail(seq)[i] \in ToSet(seq)
  BY <1>1, <1>2 DEF ToSet
<1>6. Head(seq) \in ToSet(seq) /\ Head(seq) \in S
  BY <1>1, ElementOfSeq DEF ToSet
<1>7. QED
  BY <1>1, <1>2, <1>3, <1>4, <1>5, <1>6 DEF ToSet

(* Deny-first is the same gates, and starts with a refusal if there is one. *)
LEMMA DenyFirst ==
  ASSUME NEW S, NEW gates \in Seq(S)
  PROVE  /\ OrderDenyFirst(gates) \in Seq(S)
         /\ ToSet(OrderDenyFirst(gates)) = ToSet(gates)
         /\ (\E g \in ToSet(gates) : g.state = "deny")
              => OrderDenyFirst(gates) # <<>> /\ Head(OrderDenyFirst(gates)).state = "deny"
<1> DEFINE denies == {g \in ToSet(gates) : g.state = "deny"}
           first == Keep(gates, denies)
           rest == Keep(gates, ToSet(gates) \ denies)
<1>1. /\ first \in Seq(S) /\ ToSet(first) = ToSet(gates) \cap denies
      /\ rest \in Seq(S) /\ ToSet(rest) = ToSet(gates) \cap (ToSet(gates) \ denies)
  BY KeepElements
<1>2. OrderDenyFirst(gates) = first \o rest
  BY DEF OrderDenyFirst
<1>3. ToSet(gates) \cap denies = denies
  OBVIOUS
<1>4. denies # {} => first # <<>> /\ first[1] \in denies
  <2> SUFFICES ASSUME denies # {} PROVE first # <<>> /\ first[1] \in denies
    OBVIOUS
  <2>1. ToSet(first) = denies
    BY <1>1, <1>3
  <2> HIDE DEF first, denies
  <2>2. first # <<>>
    <3>1. ToSet(<<>>) = {}
      BY DEF ToSet
    <3>2. QED
      BY <2>1, <3>1
  <2>3. 1 \in DOMAIN first
    BY <2>2, <1>1
  <2>4. QED
    BY <2>1, <2>2, <2>3 DEF ToSet
<1>5. ToSet(first \o rest) = ToSet(first) \cup ToSet(rest)
  <2> HIDE DEF first, rest
  <2>1. Range(first \o rest) = Range(first) \cup Range(rest)
    BY <1>1, RangeConcatenation
  <2>2. \A s : ToSet(s) = Range(s)
    BY DEF ToSet, Range
  <2>3. QED
    BY <2>1, <2>2
<1>6. first \o rest \in Seq(S) /\ (first # <<>> => first \o rest # <<>> /\ Head(first \o rest) = first[1])
  <2> HIDE DEF first, rest
  <2>1. QED
    BY <1>1, ConcatProperties
<1>7. ToSet(first \o rest) = ToSet(gates)
  BY <1>1, <1>5
<1>8. (\E g \in ToSet(gates) : g.state = "deny") => denies # {}
  OBVIOUS
<1>9. \A g \in denies : g.state = "deny"
  OBVIOUS
<1> HIDE DEF first, rest, denies
<1>10. QED
  BY <1>2, <1>4, <1>6, <1>7, <1>8, <1>9

-----------------------------------------------------------------------------
(* Verdicts. *)

LEMMA StatesKnown == States = {"allow", "ask", "deny"}
  BY DEF States, Strictness

(* A state is allow, ask or deny, of every member surface.                 *)
LEMMA StateTyped ==
  ASSUME GateTypes, NEW q \in Questions, q.family # "skill", NEW m \in Members(q)
  PROVE  StateOf(m) \in States
  BY PoliciesAssumption, StatesKnown DEF StateOf, GateTypes, States

(* Of three states one is the strictest.                                   *)
LEMMA StrictestExists ==
  ASSUME GateTypes, NEW q \in Questions, q.family # "skill"
  PROVE  \E m \in Members(q) : \A n \in Members(q) :
           Strictness[StateOf(n)] <= Strictness[StateOf(m)]
<1>1. Strictness["allow"] = 0 /\ Strictness["ask"] = 1 /\ Strictness["deny"] = 2
  BY DEF Strictness
<1>2. \A m \in Members(q) : StateOf(m) \in {"allow", "ask", "deny"}
  BY StateTyped, StatesKnown
<1>3. PICK m \in Members(q) : TRUE
  BY UsesAssumption DEF Members
<1>4. CASE \E d \in Members(q) : StateOf(d) = "deny"
  BY <1>1, <1>2, <1>4
<1>5. CASE /\ \A n \in Members(q) : StateOf(n) # "deny"
           /\ \E a \in Members(q) : StateOf(a) = "ask"
  BY <1>1, <1>2, <1>5
<1>6. CASE \A n \in Members(q) : StateOf(n) \notin {"deny", "ask"}
  BY <1>1, <1>2, <1>3, <1>6
<1>7. QED
  BY <1>2, <1>4, <1>5, <1>6

(* The rules answer with a verdict on the question; they name the session  *)
(* as the authority only where every member is one of its rules.           *)
LEMMA RulesJudge ==
  ASSUME GateTypes, NEW q \in Questions, q.family # "skill"
  PROVE  /\ JudgeRules(q) \in Verdicts /\ JudgeRules(q).q = q
         /\ JudgeRules(q).by = "session" => Members(q) \subseteq grants
<1> DEFINE hard == {m \in Members(q) : \A n \in Members(q) :
                      Strictness[StateOf(n)] <= Strictness[StateOf(m)]}
           strictest == CHOOSE m \in hard : TRUE
           state == StateOf(strictest)
<1>1. strictest \in hard
  BY StrictestExists
<1>2. state \in {"allow", "ask", "deny"}
  BY <1>1, StateTyped, StatesKnown
<1>3. ASSUME state = "allow" PROVE hard = Members(q)
  <2>1. Strictness["allow"] = 0 /\ Strictness["ask"] = 1 /\ Strictness["deny"] = 2
    BY DEF Strictness
  <2>2. \A n \in Members(q) : StateOf(n) \in {"allow", "ask", "deny"}
    BY StateTyped, StatesKnown
  <2>3. \A n \in Members(q) : Strictness[StateOf(n)] <= 0
    BY <1>1, <1>3, <2>1
  <2>4. \A n \in Members(q) : StateOf(n) = "allow"
    BY <2>1, <2>2, <2>3
  <2>5. QED
    BY <2>1, <2>4
<1>4. JudgeRules(q) = IF state = "ask" /\ yolo THEN Verdict(q, "allow", "yolo")
                      ELSE IF state = "allow" /\ hard \subseteq grants THEN Verdict(q, "allow", "session")
                      ELSE Verdict(q, state, "rule")
  BY DEF JudgeRules
<1> HIDE DEF strictest, hard, state
<1>5. QED
  BY <1>2, <1>3, <1>4, StatesKnown DEF Verdict, Verdicts

(* So it is with every question whose gate is there.                       *)
LEMMA EveryGateJudged ==
  ASSUME GateTypes, NEW q \in Questions, q.family # "skill" \/ q.place \in DOMAIN skills
  PROVE  /\ Judge(q) \in Verdicts /\ Judge(q).q = q
         /\ Judge(q).by = "session" => Members(q) \subseteq grants
<1>1. CASE q.family = "skill"
  BY <1>1 DEF Judge, Verdict, Verdicts, GateTypes
<1>2. CASE q.family # "skill"
  BY <1>2, RulesJudge DEF Judge
<1>3. QED
  BY <1>1, <1>2

(* What JudgeGates stores: one verdict on each question that is asked,     *)
(* refusals first.                                                         *)
LEMMA GatesJudged ==
  ASSUME GateTypes, NEW use \in Uses,
         NEW asks, asks = Asked(use),
         NEW gates, gates = OrderDenyFirst([i \in DOMAIN asks |-> Judge(asks[i])])
  PROVE  /\ gates \in Seq(Verdicts)
         /\ \A g \in ToSet(gates) : g.by = "session" => Members(g.q) \subseteq grants
         /\ (\E g \in ToSet(gates) : g.state = "deny")
              => gates # <<>> /\ Head(gates).state = "deny"
<1> DEFINE listed == {q \in ToSet(use.asks) : q.family # "skill" \/ q.place \in DOMAIN skills}
           judged == [i \in DOMAIN asks |-> Judge(asks[i])]
<1>1. use.asks \in Seq(ToSet(use.asks)) /\ ToSet(use.asks) \subseteq Questions
  BY UsesAssumption DEF Questions
<1>2. asks = Keep(use.asks, listed)
  BY DEF Asked
<1>3. asks \in Seq(ToSet(use.asks)) /\ ToSet(asks) = ToSet(use.asks) \cap listed
  <2> HIDE DEF listed
  <2>1. QED
    BY <1>1, <1>2, KeepElements
<1>4. \A i \in DOMAIN asks : asks[i] \in Questions
                              /\ (asks[i].family # "skill" \/ asks[i].place \in DOMAIN skills)
  BY <1>1, <1>3 DEF ToSet
<1>5. ASSUME NEW i \in DOMAIN asks
      PROVE  /\ judged[i] \in Verdicts
             /\ judged[i].by = "session" => Members(judged[i].q) \subseteq grants
  BY <1>4, EveryGateJudged
<1>6. judged \in Seq(Verdicts)
  <2>1. DOMAIN asks = 1 .. Len(asks) /\ Len(asks) \in Nat
    BY <1>3
  <2>2. DOMAIN judged = 1 .. Len(asks) /\ judged = [i \in 1 .. Len(asks) |-> judged[i]]
    BY <2>1
  <2> HIDE DEF judged
  <2>3. \A i \in 1 .. Len(asks) : judged[i] \in Verdicts
    BY <1>5, <2>1
  <2>4. QED
    BY <2>1, <2>2, <2>3
<1>7. \A g \in ToSet(judged) : g.by = "session" => Members(g.q) \subseteq grants
  <2>1. DOMAIN judged = DOMAIN asks
    OBVIOUS
  <2> HIDE DEF judged
  <2>2. QED
    BY <1>5, <2>1 DEF ToSet
<1> HIDE DEF judged, listed
<1>8. /\ OrderDenyFirst(judged) \in Seq(Verdicts)
      /\ ToSet(OrderDenyFirst(judged)) = ToSet(judged)
      /\ (\E g \in ToSet(judged) : g.state = "deny")
           => OrderDenyFirst(judged) # <<>> /\ Head(OrderDenyFirst(judged)).state = "deny"
  BY <1>6, DenyFirst
<1>9. gates = OrderDenyFirst(judged)
  BY DEF judged
<1>10. QED
  BY <1>7, <1>8, <1>9

-----------------------------------------------------------------------------
(* The inductive invariant. *)

(* A call that is refused has nothing left to say.                         *)
LEMMA BlockedIsRight == Idle \in CallRecords /\ CallInv(Idle) /\ Blocked \in CallRecords /\ CallInv(Blocked)
<1>1. Idle \in CallRecords
  <2>1. (CHOOSE u \in Uses : TRUE) \in Uses
    BY UsesAssumption
  <2>2. QED
    BY <2>1 DEF Idle, CallRecords, Stages
<1>2. ToSet(<<>>) = {}
  BY DEF ToSet
<1>3. Blocked \in CallRecords
  BY <1>1 DEF Blocked, CallRecords, Stages
<1>4. QED
  BY <1>1, <1>2, <1>3 DEF CallInv, Idle, Blocked

(* A gate that does not refuse is passed; whoever passes it settles it.    *)
LEMMA PassIsRight ==
  ASSUME NEW call \in CallRecords, CallInv(call), NEW via \in Vias,
         call.stage \in {"gates", "link", "human"}, call.gates # <<>>,
         Head(call.gates).state # "deny",
         Head(call.gates).state = "ask" => via \in {"yolo", "link", "human"},
         via = "link" => Head(call.gates).q.family \notin Families \/ Head(call.gates).q.licensed,
         NEW passed, passed = [call EXCEPT !.stage = "gates", !.gates = Tail(@), !.terminal = 0,
                                           !.via = @ \cup {<<Head(call.gates).q, via>>}]
  PROVE  passed \in CallRecords /\ CallInv(passed)
<1>1. call.gates \in Seq(Verdicts) /\ call.judged \in Seq(Verdicts) /\ call.via \in SUBSET (Questions \X Vias)
  BY DEF CallRecords
<1>2. /\ Head(call.gates) \in Verdicts /\ Tail(call.gates) \in Seq(Verdicts)
      /\ ToSet(call.gates) = {Head(call.gates)} \cup ToSet(Tail(call.gates))
  BY <1>1, HeadAndTail
<1>3. /\ passed.stage = "gates" /\ passed.gates = Tail(call.gates) /\ passed.judged = call.judged
      /\ passed.via = call.via \cup {<<Head(call.gates).q, via>>}
  BY DEF CallRecords
<1>4. passed \in CallRecords
  <2>1. <<Head(call.gates).q, via>> \in Questions \X Vias
    BY <1>2 DEF Verdicts
  <2>2. QED
    BY <1>1, <1>2, <2>1 DEF CallRecords, Stages
<1>5. Settled(passed, Head(call.gates))
  BY <1>3 DEF Settled
<1>6. \A g : Settled(call, g) => Settled(passed, g)
  BY <1>3 DEF Settled
<1>7. \A g \in ToSet(call.judged) : g.state # "deny"
  BY DEF CallInv
<1>8. QED
  BY <1>2, <1>3, <1>4, <1>5, <1>6, <1>7 DEF CallInv

(* The next gate, with what its call is in.                                *)
LEMMA GateTyped ==
  ASSUME GateTypes, NEW c \in Calls, calls[c].gates # <<>>
  PROVE  Gate(c) \in Verdicts /\ Gate(c) = Head(calls[c].gates)
  BY HeadAndTail DEF GateTypes, CallRecords, Gate

LEMMA GateInvInitially == Init => GateInv
<1> SUFFICES ASSUME Init PROVE GateInv
  OBVIOUS
<1>1. GateTypes
  <2>1. calls \in [Calls -> CallRecords]
    BY BlockedIsRight DEF Init
  <2>2. DOMAIN skills = {}
    BY DEF Init
  <2>3. QED
    BY <2>1, <2>2 DEF Init, GateTypes
<1>2. \A c \in Calls : CallInv(calls[c])
  BY BlockedIsRight DEF Init
<1>3. PendingIsLate
  BY DEF Init, PendingIsLate, MayBePending, Idle
<1>4. QED
  BY <1>1, <1>2, <1>3 DEF Init, GateInv, GrantsAnswered

(* What a step of one call has to show.                                    *)
LEMMA CallStep ==
  ASSUME GateInv, NEW c \in Calls, NEW call \in CallRecords, CallInv(call), Set(c, call),
         call.stage = "link" => session.on,
         call.stage = "human" => session.on \/ (calls[c].stage = "link" /\ call.terminal = session.number),
         UNCHANGED <<session, policyVars, grants, skills, answers, late>>
  PROVE  GateInv'
<1>1. /\ calls' \in [Calls -> CallRecords]
      /\ \A d \in Calls : calls'[d] = IF d = c THEN call ELSE calls[d]
  BY DEF GateInv, GateTypes, Set
<1>2. GateTypes'
  BY <1>1 DEF GateInv, GateTypes, policyVars
<1>3. (\A d \in Calls : CallInv(calls[d]))'
  BY <1>1 DEF GateInv
<1>4. PendingIsLate'
  BY <1>1 DEF GateInv, PendingIsLate, MayBePending
<1>5. GrantsAnswered'
  BY DEF GateInv, GrantsAnswered
<1>6. QED
  BY <1>2, <1>3, <1>4, <1>5 DEF GateInv

LEMMA GateInvStep == GateInv /\ [Next]_vars => GateInv'
<1> SUFFICES ASSUME GateInv, [Next]_vars PROVE GateInv'
  OBVIOUS
<1>1. GateTypes /\ GrantsAnswered /\ \A c \in Calls : calls[c] \in CallRecords /\ CallInv(calls[c])
  BY DEF GateInv, GateTypes
<1>2. CASE \/ \E p \in Policies : EditPolicy(p)
           \/ EditYolo \/ SaveYolo \/ ChangeLinks \/ UNCHANGED vars
           \/ \E t \in Tools : ActivateTool(t) \/ DeactivateTool(t) \/ Unregister(t)
  <2>1. policy' \in Policies /\ yoloFile' \in BOOLEAN /\ yolo' \in BOOLEAN
        /\ UNCHANGED <<session, grants, skills, calls, answers, late>>
    BY <1>1, <1>2 DEF EditPolicy, EditYolo, SaveYolo, ChangeLinks, ActivateTool, DeactivateTool,
                      Unregister, vars, policyVars, GateTypes
  <2>2. QED
    BY <2>1 DEF GateInv, GateTypes, GrantsAnswered, PendingIsLate, MayBePending
<1>3. CASE SessionStart \/ Reload \/ BeforeAgentStart
  <2>1. \A s \in DOMAIN skills' : skills'[s] \in States
    <3>1. CASE SessionStart \/ Reload
      <4>1. skills' = <<>> /\ DOMAIN <<>> = {}
        BY <3>1 DEF SessionStart, Reload
      <4>2. QED
        BY <4>1
    <3>2. CASE BeforeAgentStart
      BY <1>1, <3>2, PoliciesAssumption, StatesKnown DEF BeforeAgentStart, GateTypes, States
    <3>3. QED
      BY <1>3, <3>1, <3>2
  <2>2. /\ session' \in [on : BOOLEAN, number : Nat, stale : BOOLEAN] /\ (session'.on \/ session' = session)
        /\ (session'.on \/ late' = late) /\ yolo' \in BOOLEAN
        /\ UNCHANGED <<policy, yoloFile, grants, calls, answers>>
    <3>1. CASE SessionStart
      BY <1>1, <3>1 DEF SessionStart, GateTypes
    <3>2. CASE Reload
      BY <1>1, <3>2 DEF Reload, GateTypes, policyVars
    <3>3. CASE BeforeAgentStart
      BY <1>1, <3>3 DEF BeforeAgentStart, GateTypes
    <3>4. QED
      BY <1>3, <3>1, <3>2, <3>3
  <2>3. QED
    BY <2>1, <2>2 DEF GateInv, GateTypes, GrantsAnswered, PendingIsLate, MayBePending
<1>4. CASE SessionShutdown
  <2>1. \A c \in Calls : calls'[c] = IF calls[c].stage = "human" THEN Blocked ELSE calls[c]
    BY <1>4 DEF SessionShutdown
  <2>2. \A c \in Calls : /\ calls'[c] \in CallRecords /\ CallInv(calls'[c])
                         /\ calls'[c].stage \in {"link", "human"} => calls'[c].stage = "link" /\ c \in late'
    <3>1. Blocked.stage = "blocked" /\ late' = {c \in Calls : calls[c].stage = "link"}
      BY <1>4 DEF Blocked, Idle, SessionShutdown
    <3>2. QED
      BY <1>1, <2>1, <3>1, BlockedIsRight
  <2>3. session' \in [on : BOOLEAN, number : Nat, stale : BOOLEAN]
    BY <1>1, <1>4 DEF SessionShutdown, GateTypes
  <2>4. DOMAIN skills' = {}
    BY <1>4 DEF SessionShutdown
  <2>5. calls' \in [Calls -> CallRecords]
    BY <1>4, <2>2 DEF SessionShutdown
  <2>6. UNCHANGED <<policy, yoloFile, yolo>> /\ grants' = {} /\ answers' = {}
    BY <1>4 DEF SessionShutdown, policyVars
  <2>7. GateTypes'
    BY <1>1, <2>3, <2>4, <2>5, <2>6 DEF GateTypes
  <2>8. QED
    BY <2>2, <2>6, <2>7 DEF GateInv, GrantsAnswered, PendingIsLate, MayBePending
<1>b. CASE ContextInvalidated
  <2>1. /\ session' = [session EXCEPT !.stale = TRUE]
        /\ UNCHANGED <<policyVars, grants, skills, calls, answers, late>>
    BY <1>b DEF ContextInvalidated
  <2>2. /\ session' \in [on : BOOLEAN, number : Nat, stale : BOOLEAN]
        /\ session'.on = session.on /\ session'.number = session.number
    BY <1>1, <2>1 DEF GateTypes
  <2>3. QED
    BY <2>1, <2>2 DEF GateInv, GateTypes, GrantsAnswered, PendingIsLate, MayBePending, policyVars
<1>5. ASSUME NEW c \in Calls, NEW use \in Uses, ToolCall(c, use) PROVE GateInv'
  <2> DEFINE begun == [Idle EXCEPT !.stage = "parsing", !.use = use]
  <2>1. begun \in CallRecords /\ CallInv(begun)
    BY <1>1, BlockedIsRight DEF CallRecords, Stages, CallInv, Idle, GateTypes
  <2>2. Set(c, begun) \/ Set(c, Blocked)
    BY <1>5 DEF ToolCall, Block
  <2>3. begun.stage = "parsing" /\ Blocked.stage = "blocked"
    BY BlockedIsRight DEF Blocked, CallRecords, Idle
  <2> HIDE DEF begun
  <2>4. QED
    BY <1>5, <2>1, <2>2, <2>3, BlockedIsRight, CallStep DEF ToolCall
<1>6. ASSUME NEW c \in Calls, JudgeGates(c) PROVE GateInv'
  <2> DEFINE asks == Asked(calls[c].use)
             gates == OrderDenyFirst([i \in DOMAIN asks |-> Judge(asks[i])])
             judged == [calls[c] EXCEPT !.stage = "gates", !.gates = gates, !.judged = gates]
  <2>1. /\ gates \in Seq(Verdicts)
        /\ (\E g \in ToSet(gates) : g.state = "deny") => gates # <<>> /\ Head(gates).state = "deny"
    BY <1>1, GatesJudged DEF CallRecords
  <2>2. Set(c, judged)
    BY <1>6 DEF JudgeGates
  <2> HIDE DEF gates
  <2>3. judged \in CallRecords /\ judged.stage = "gates" /\ judged.gates = gates /\ judged.judged = gates
    BY <1>1, <2>1 DEF CallRecords, Stages
  <2> HIDE DEF judged
  <2>4. CallInv(judged)
    BY <2>1, <2>3 DEF CallInv
  <2>5. QED
    BY <1>6, <2>2, <2>3, <2>4, CallStep DEF JudgeGates
<1>7. ASSUME NEW c \in Calls, GateError(c) PROVE GateInv'
  BY <1>7, BlockedIsRight, CallStep DEF GateError, Block, Blocked, CallRecords, Idle
<1>8. ASSUME NEW c \in Calls, RunGate(c) PROVE GateInv'
  <2>1. /\ calls[c].stage = "gates" /\ calls[c].gates # <<>> /\ Gate(c) = Head(calls[c].gates)
        /\ Gate(c) \in Verdicts
        /\ UNCHANGED <<session, policyVars, grants, skills, answers, late>>
    BY <1>1, <1>8, GateTyped DEF RunGate, At
  <2>2. CASE Block(c)
    BY <2>1, <2>2, BlockedIsRight, CallStep DEF Block, Blocked, CallRecords, Idle
  <2>3. ASSUME NEW via \in {Gate(c).by, "yolo"}, Pass(c, via), Gate(c).state # "deny",
               Gate(c).state = "ask" => via = "yolo"
        PROVE  GateInv'
    <3> DEFINE passed == [calls[c] EXCEPT !.stage = "gates", !.gates = Tail(@), !.terminal = 0,
                                          !.via = @ \cup {<<Head(calls[c].gates).q, via>>}]
    <3>1. via \in Vias /\ via # "link"
      BY <2>1, <2>3 DEF Verdicts, Vias
    <3>2. Set(c, passed) /\ passed.stage = "gates"
      BY <1>1, <2>3 DEF Pass, CallRecords
    <3>3. passed \in CallRecords /\ CallInv(passed)
      BY <1>1, <2>1, <2>3, <3>1, PassIsRight
    <3> HIDE DEF passed
    <3>4. QED
      BY <2>1, <3>2, <3>3, CallStep
  <2>4. CASE /\ Gate(c).state = "ask" /\ session.on
             /\ Set(c, [calls[c] EXCEPT !.stage = IF links THEN "link" ELSE "human",
                                     !.terminal = session.number])
    <3> DEFINE asking == [calls[c] EXCEPT !.stage = IF links THEN "link" ELSE "human",
                                        !.terminal = session.number]
    <3>1. asking \in CallRecords
      BY <1>1 DEF CallRecords, Stages, GateTypes
    <3>2. CallInv(asking)
      <4>1. /\ asking.gates = calls[c].gates /\ asking.judged = calls[c].judged
            /\ asking.via = calls[c].via /\ asking.stage \in {"link", "human"}
        BY <1>1 DEF CallRecords
      <4>2. \A g \in ToSet(calls[c].judged) : g.state # "deny"
        BY <1>1, <2>1, <2>4 DEF CallInv
      <4> HIDE DEF asking
      <4>3. QED
        BY <1>1, <2>1, <2>4, <4>1, <4>2 DEF CallInv, Settled
    <3> HIDE DEF asking
    <3>3. QED
      <4>1. Set(c, asking)
        BY <2>4 DEF asking
      <4>2. QED
        BY <2>1, <2>4, <3>1, <3>2, <4>1, CallStep
  <2>5. QED
    BY <1>8, <2>1, <2>2, <2>3, <2>4 DEF RunGate
<1>9. ASSUME NEW c \in Calls, Execute(c) PROVE GateInv'
  <2> DEFINE ran == [calls[c] EXCEPT !.stage = "ran"]
  <2>1. ran \in CallRecords
    BY <1>1 DEF CallRecords, Stages
  <2>2. CallInv(ran)
    <3>1. /\ ran.gates = calls[c].gates /\ ran.judged = calls[c].judged
          /\ ran.via = calls[c].via /\ ran.stage = "ran" /\ calls[c].gates = <<>>
      BY <1>1, <1>9 DEF CallRecords, Execute
    <3> HIDE DEF ran
    <3>2. QED
      BY <1>1, <3>1 DEF CallInv, Settled
  <2>3. Set(c, ran) /\ ran.stage = "ran"
    BY <1>1, <1>9 DEF Execute, CallRecords
  <2> HIDE DEF ran
  <2>4. QED
    BY <1>9, <2>1, <2>2, <2>3, CallStep DEF Execute
<1>10. ASSUME NEW c \in Calls, NEW v \in {"allow", "deny", "defer"}, LinkRules(c, v) PROVE GateInv'
  <2>1. /\ calls[c].stage = "link" /\ calls[c].gates # <<>> /\ Gate(c) = Head(calls[c].gates)
        /\ Gate(c).state = "ask"
        /\ UNCHANGED <<session, policyVars, grants, skills, answers, late>>
    BY <1>1, <1>10, GateTyped DEF LinkRules, At, CallInv
  <2>2. CASE Block(c)
    BY <2>1, <2>2, BlockedIsRight, CallStep DEF Block, Blocked, CallRecords, Idle
  <2>3. CASE LinkMayAllow(Gate(c).q) /\ Pass(c, "link")
    <3> DEFINE passed == [calls[c] EXCEPT !.stage = "gates", !.gates = Tail(@), !.terminal = 0,
                                          !.via = @ \cup {<<Head(calls[c].gates).q, "link">>}]
    <3>1. "link" \in Vias /\ (Gate(c).q.family \notin Families \/ Gate(c).q.licensed)
      BY <2>3 DEF LinkMayAllow, Vias
    <3>2. Set(c, passed) /\ passed.stage = "gates"
      BY <1>1, <2>3 DEF Pass, CallRecords
    <3>3. passed \in CallRecords /\ CallInv(passed)
      BY <1>1, <2>1, <3>1, PassIsRight
    <3> HIDE DEF passed
    <3>4. QED
      BY <2>1, <3>2, <3>3, CallStep
  <2>4. CASE CanPresent(calls[c].terminal) /\ Set(c, [calls[c] EXCEPT !.stage = "human"])
    <3> DEFINE asking == [calls[c] EXCEPT !.stage = "human"]
    <3>1. asking \in CallRecords
      BY <1>1 DEF CallRecords, Stages
    <3>2. CallInv(asking)
      <4>1. /\ asking.gates = calls[c].gates /\ asking.judged = calls[c].judged
            /\ asking.via = calls[c].via /\ asking.stage = "human"
        BY <1>1 DEF CallRecords
      <4> HIDE DEF asking
      <4>2. QED
        BY <1>1, <2>1, <4>1 DEF CallInv, Settled
    <3>3. Set(c, asking)
      BY <2>4
    <3>4. asking.stage = "human" /\ asking.terminal = session.number
      BY <1>1, <2>4 DEF CallRecords, CanPresent
    <3> HIDE DEF asking
    <3>5. QED
      BY <2>1, <3>1, <3>2, <3>3, <3>4, CallStep
  <2>5. QED
    BY <1>10, <2>2, <2>3, <2>4 DEF LinkRules
<1>11. ASSUME NEW c \in Calls, NEW a \in {"once", "proven", "family", "deny"}, HumanRules(c, a)
       PROVE  GateInv'
  <2> DEFINE q == Gate(c).q
             passed == [calls[c] EXCEPT !.stage = "gates", !.gates = Tail(@), !.terminal = 0,
                                        !.via = @ \cup {<<Head(calls[c].gates).q, "human">>}]
  <2>1. /\ calls[c].stage = "human" /\ calls[c].gates # <<>> /\ Gate(c) = Head(calls[c].gates)
        /\ Gate(c).state = "ask" /\ Gate(c) \in Verdicts /\ q \in Questions
        /\ UNCHANGED <<session, policyVars, skills, late>>
    BY <1>1, <1>11, GateTyped DEF HumanRules, At, CallInv, Verdicts
  <2>2. passed \in CallRecords /\ CallInv(passed) /\ passed.stage = "gates"
    <3>1. "human" \in Vias
      BY DEF Vias
    <3>2. QED
      BY <1>1, <2>1, <3>1, PassIsRight DEF CallRecords
  <2>3. PICK call \in {Blocked, passed} : Set(c, call)
    BY <1>11 DEF HumanRules, Block, Pass
  <2> HIDE DEF passed
  <2>4. call \in CallRecords /\ CallInv(call) /\ call.stage \notin {"link", "human"}
    BY <2>2, <2>3, BlockedIsRight DEF Blocked, CallRecords, Idle
  <2>5. /\ calls' \in [Calls -> CallRecords]
        /\ \A d \in Calls : calls'[d] = IF d = c THEN call ELSE calls[d]
    BY <1>1, <2>3, <2>4 DEF Set, GateTypes
  <2>6. \/ UNCHANGED <<grants, answers>>
        \/ /\ a \in {"proven", "family"} /\ grants' = grants \cup MembersAt(q, a)
           /\ answers' = answers \cup {[q |-> q, width |-> a]}
    BY <1>11 DEF HumanRules
  <2>7. GrantsAnswered' /\ answers' \subseteq Answers
    <3>1. CASE UNCHANGED <<grants, answers>>
      BY <1>1, <3>1 DEF GrantsAnswered, GateTypes
    <3>2. CASE /\ a \in {"proven", "family"} /\ grants' = grants \cup MembersAt(q, a)
               /\ answers' = answers \cup {[q |-> q, width |-> a]}
      <4>1. [q |-> q, width |-> a] \in Answers
        BY <2>1, <3>2 DEF Answers
      <4>2. \A m \in MembersAt(q, a) :
              m[1] = q.family /\ m[3] = q.place /\ (m[2] \in q.effects \/ a = "family")
        BY DEF MembersAt, Members
      <4> HIDE DEF q
      <4>3. QED
        BY <1>1, <3>2, <4>1, <4>2 DEF GrantsAnswered, GateTypes
    <3>3. QED
      BY <2>6, <3>1, <3>2
  <2>8. GateTypes'
    BY <1>1, <2>1, <2>5, <2>7 DEF GateTypes, policyVars
  <2>9. (\A d \in Calls : CallInv(calls[d]))'
    BY <1>1, <2>4, <2>5
  <2>10. PendingIsLate'
    BY <2>1, <2>4, <2>5 DEF GateInv, PendingIsLate, MayBePending
  <2>11. QED
    BY <2>7, <2>8, <2>9, <2>10 DEF GateInv
<1>12. QED
  BY <1>2, <1>3, <1>4, <1>b, <1>5, <1>6, <1>7, <1>8, <1>9, <1>10, <1>11 DEF Next

-----------------------------------------------------------------------------
(* The theorems. *)

(* Whatever configurations, links, tools and other calls do meanwhile, the *)
(* invariant holds at every step of every call on its way through runGates. *)
THEOREM GateInvariant == Spec => []GateInv
<1>1. Init => GateInv
  BY GateInvInitially
<1>2. GateInv /\ [Next]_vars => GateInv'
  BY GateInvStep
<1>3. QED
  BY <1>1, <1>2, PTL DEF Spec

(* Nobody is asked about a call that one of its gates refuses, and it does *)
(* not run: refusals are run before the first gate that asks.              *)
THEOREM DeniedNeverAskedAlways == Spec => []DeniedNeverAsked
<1>1. GateInv => DeniedNeverAsked
  BY DEF GateInv, CallInv, DeniedNeverAsked
<1>2. QED
  BY <1>1, GateInvariant, PTL

(* A call that ran was let pass by every gate, and what the rules left to  *)
(* be asked was decided by one who may decide it.                          *)
THEOREM RanWithAuthorityAlways == Spec => []RanWithAuthority
<1>1. GateInv => RanWithAuthority
  <2> SUFFICES ASSUME GateInv, NEW c \in Calls, At(c, "ran"), NEW g \in ToSet(calls[c].judged)
               PROVE  \E via \in {"rule", "session", "yolo", "link", "human"} :
                        /\ <<g.q, via>> \in calls[c].via
                        /\ g.state = "ask" => via \in {"yolo", "link", "human"}
                        /\ via = "link" => g.q.family \notin Families \/ g.q.licensed
    BY DEF RanWithAuthority
  <2>1. calls[c].gates = <<>> /\ (g \in ToSet(calls[c].gates) \/ Settled(calls[c], g))
    BY DEF GateInv, CallInv, At
  <2>2. ToSet(<<>>) = {}
    BY DEF ToSet
  <2>3. Settled(calls[c], g)
    BY <2>1, <2>2
  <2>4. QED
    BY <2>3 DEF Settled, Vias
<1>2. QED
  BY <1>1, GateInvariant, PTL

(* The end of a session answers its dialogs and refuses what is on its way *)
(* to one; what is asked after it was with a link when it came, and is     *)
(* asked through the session that ended.                                   *)
THEOREM LateAsksComeFromLinksAlways == Spec => []LateAsksComeFromLinks
<1>1. GateInv => LateAsksComeFromLinks
  BY DEF GateInv, PendingIsLate, MayBePending, LateAsksComeFromLinks, At
<1>2. QED
  BY <1>1, GateInvariant, PTL

(* The step that judges the gates of a call is the only one that takes it  *)
(* out of parsing and into the gates.                                      *)
LEMMA JudgingStep ==
  ASSUME GateInv, [Next]_vars, NEW c \in Calls, At(c, "parsing"), calls'[c].stage = "gates"
  PROVE  JudgeGates(c)
<1>1. /\ calls[c].stage = "parsing"
      /\ \A d \in Calls : \A call : Set(d, call) => calls'[c] = IF d = c THEN call ELSE calls[c]
  BY DEF At, GateInv, GateTypes, Set
<1>2. calls'[c] # calls[c] /\ calls'[c] # Blocked
  BY <1>1, BlockedIsRight DEF Blocked, CallRecords, Idle
<1>3. ~ UNCHANGED calls
  BY <1>2
<1>4. ~ (\/ \E p \in Policies : EditPolicy(p)
        \/ EditYolo \/ SaveYolo \/ ChangeLinks \/ UNCHANGED vars
        \/ SessionStart \/ Reload \/ ContextInvalidated \/ BeforeAgentStart
        \/ \E t \in Tools : ActivateTool(t) \/ DeactivateTool(t) \/ Unregister(t))
  BY <1>3 DEF EditPolicy, EditYolo, SaveYolo, ChangeLinks, vars, SessionStart, Reload, ContextInvalidated, BeforeAgentStart,
              ActivateTool, DeactivateTool, Unregister
<1>5. ~ SessionShutdown
  BY <1>1, <1>2 DEF SessionShutdown
<1>6. ASSUME NEW d \in Calls, NEW call, Set(d, call) PROVE d = c
  BY <1>1, <1>2, <1>6
<1>7. ASSUME NEW d \in Calls, NEW use \in Uses, ToolCall(d, use) PROVE FALSE
  BY <1>1, <1>6, <1>7 DEF ToolCall, At, Block
<1>8. ASSUME NEW d \in Calls, GateError(d) PROVE FALSE
  BY <1>1, <1>2, <1>8 DEF GateError, Block
<1>9. ASSUME NEW d \in Calls, RunGate(d) PROVE FALSE
  BY <1>1, <1>6, <1>9 DEF RunGate, At, Block, Pass
<1>10. ASSUME NEW d \in Calls, Execute(d) PROVE FALSE
  BY <1>1, <1>6, <1>10 DEF Execute, At
<1>11. ASSUME NEW d \in Calls, NEW v \in {"allow", "deny", "defer"}, LinkRules(d, v) PROVE FALSE
  BY <1>1, <1>6, <1>11 DEF LinkRules, At, Block, Pass
<1>12. ASSUME NEW d \in Calls, NEW a \in {"once", "proven", "family", "deny"}, HumanRules(d, a) PROVE FALSE
  BY <1>1, <1>6, <1>12 DEF HumanRules, At, Block, Pass
<1>13. ASSUME NEW d \in Calls, JudgeGates(d) PROVE d = c
  BY <1>6, <1>13 DEF JudgeGates
<1>14. QED
  BY <1>4, <1>5, <1>7, <1>8, <1>9, <1>10, <1>11, <1>12, <1>13 DEF Next

(* A rule of the session lets pass only what its answers were given for,   *)
(* by the member of the family and the place.                              *)
THEOREM GrantsCoverWhatWasShownAlways == Spec => GrantsCoverWhatWasShown
<1>1. GateInv /\ [Next]_vars => [\A c \in Calls : PassesWhatWasShown(c)]_vars
  <2> SUFFICES ASSUME GateInv, [Next]_vars, NEW c \in Calls, At(c, "parsing"), calls'[c].stage = "gates",
                      NEW g \in ToSet(calls'[c].judged), g.by = "session", NEW e \in g.q.effects
               PROVE  \E a \in answers : /\ a.q.family = g.q.family /\ a.q.place = g.q.place
                                         /\ e \in a.q.effects \/ a.width = "family"
    BY DEF PassesWhatWasShown
  <2> DEFINE asks == Asked(calls[c].use)
             gates == OrderDenyFirst([i \in DOMAIN asks |-> Judge(asks[i])])
  <2>1. calls[c] \in CallRecords /\ GateTypes /\ calls \in [Calls -> CallRecords]
    BY DEF GateInv, GateTypes
  <2>2. calls' = [calls EXCEPT ![c] = [calls[c] EXCEPT !.stage = "gates", !.gates = gates, !.judged = gates]]
    BY JudgingStep DEF JudgeGates, Set
  <2>3. \A h \in ToSet(gates) : h.by = "session" => Members(h.q) \subseteq grants
    BY <2>1, GatesJudged DEF CallRecords
  <2> HIDE DEF gates
  <2>4. calls'[c].judged = gates
    BY <2>1, <2>2 DEF CallRecords
  <2>5. <<g.q.family, e, g.q.place>> \in grants
    BY <2>3, <2>4 DEF Members
  <2>6. QED
    BY <2>5 DEF GateInv, GrantsAnswered
<1>2. QED
  BY <1>1, GateInvariant, PTL DEF Spec, GrantsCoverWhatWasShown
=============================================================================
