------------------------ MODULE OutcomeDeliveryProofs ------------------------
(***************************************************************************)
(* What the parent is told, for every number of runs, updates and tool     *)
(* calls, as long as an agent is resumed only when there is nothing left   *)
(* to say of its current run (CarefulResumes).                             *)
(*                                                                         *)
(* 1. CarrierInv, inductive: only the current run may have a completion on *)
(*    its way, at most one, and none once it was announced or returned.    *)
(*    Hence no outcome is announced twice or after a tool call returned    *)
(*    it.                                                                  *)
(* 2. OutcomeInv, inductive given 1 and as long as no tool call collects a *)
(*    run whose loop has not returned: an ended run was told, or is on its *)
(*    way through the event, the withheld announcements or a call.         *)
(***************************************************************************)
EXTENDS OutcomeDelivery, SequenceTheorems, WellFoundedInduction, TLAPS

CarefulResumes == Rash \cap {"resume_undelivered", "resume_withheld"} = {}
CollectsWhenOver == "collect_unwinding" \notin Rash

Ledgers == Seq([message : Message, announced : BOOLEAN])
Announcements == {Completion} \cup [kind : {"update"}, message : Message, of : Run \X Nat]
Notes == [kind : {"nudge", "report", "update"}, run : Run, over : BOOLEAN,
          updates : SUBSET (Run \X Nat)]
CallRecords == [doing : {"unused", "foreground", "resume", "wait", "done"}, run : 0 .. MaxRuns]

DeliveryTypes ==
  /\ cur \in 0 .. MaxRuns
  /\ ready \in BOOLEAN
  /\ status \in [Run -> {"unborn", "queued", "running", "stopping", "over"}]
  /\ claims \in [Run -> SUBSET (Call \cup {Outsider})]
  /\ consumed \in [Run -> BOOLEAN]
  /\ updates \in [Run -> Ledgers]
  /\ call \in [Call -> CallRecords]
  /\ reporting \in 0 .. MaxRuns
  /\ pending \in Seq(Announcements)
  /\ parentActive \in BOOLEAN
  /\ disposed \in BOOLEAN
  /\ told \in Seq(Notes)

(* The history t, of which the properties look at `told`. *)
NudgedIn(t, r) == \E i \in DOMAIN t : t[i].kind = "nudge" /\ t[i].run = r
ReturnedIn(t, r) == \E i \in DOMAIN t : t[i].kind = "report" /\ t[i].run = r /\ t[i].over
ToldIn(t, r) == NudgedIn(t, r) \/ ReturnedIn(t, r)
HeardIn(t, u) == \E i \in DOMAIN t : u \in t[i].updates
OneCarrierIn(t) ==
  \A i \in DOMAIN t : t[i].kind = "nudge" =>
    \A j \in 1 .. i - 1 : t[j].run = t[i].run =>
      ~(t[j].kind = "nudge" \/ (t[j].kind = "report" /\ t[j].over))

(* Only the current run is not over or unborn.                             *)
OneAfterAnother ==
  \A r \in Run : (r < cur => status[r] = "over") /\ (r > cur <=> status[r] = "unborn")

(* A call that is under way waits for a run there is; the foreground and   *)
(* the resume call for the current one.                                    *)
CallsAwaitRuns ==
  \A c \in Call :
    /\ InProgress(c) => call[c].run \in 1 .. cur
    /\ call[c].doing \in {"foreground", "resume"} => call[c].run = cur

(* There is a completion in p, a sequence of announcements; at most one.   *)
Completes(p) == \E i \in DOMAIN p : p[i].kind = "completion"
CompletesOnce(p) ==
  \A i, j \in DOMAIN p : p[i].kind = "completion" /\ p[j].kind = "completion" => i = j

(* At most one completion is on its way, and it is news.                   *)
OneCompletion ==
  /\ CompletesOnce(pending)
  /\ pending # <<>> => cur # 0
  /\ Completes(pending) => Idle
  /\ Completes(pending) \/ ~Idle => cur # 0 /\ status[cur] = "over" /\ ~NudgedIn(told, cur)
  /\ reporting \in {0, cur}

ToldIsOver ==
  \A r \in Run :
    /\ NudgedIn(told, r) => status[r] = "over"
    /\ ReturnedIn(told, r) => status[r] = "over" /\ consumed[r]

(* What is marked as announced was heard, and so was every update of a run *)
(* whose outcome was told.                                                 *)
MarkedIsHeard ==
  \A r \in Run : \A i \in DOMAIN updates[r] :
    updates[r][i].announced \/ ToldIn(told, r) => HeardIn(told, <<r, i>>)

(* The inductive invariant of part 1.                                      *)
CarrierInv ==
  /\ DeliveryTypes
  /\ OneAfterAnother
  /\ CallsAwaitRuns
  /\ OneCompletion
  /\ ToldIsOver
  /\ MarkedIsHeard
  /\ OneCarrierIn(told)

CollectedIsTold == \A r \in Run : consumed[r] => ReturnedIn(told, r)

(* A claim is another extension's, or of a call that is under way or has   *)
(* returned the outcome.                                                   *)
ClaimsAreKept ==
  \A r \in Run : \A c \in claims[r] \ {Outsider} :
    call[c].run = r /\ (InProgress(c) \/ (call[c].doing = "done" /\ ReturnedIn(told, r)))

(* What belongs to the parent's agent run ends with it.                    *)
WithinTheTurn ==
  ~parentActive => pending = <<>> /\ \A c \in Call : ~InProgress(c)

(* The outcome of run r is on its way.                                     *)
OnItsWay(r) ==
  /\ r = cur
  /\ \/ reporting = cur
     \/ Completes(pending)
     \/ \E c \in claims[r] \ {Outsider} : InProgress(c)
EndsAreCarried ==
  ~disposed => \A r \in Run :
    status[r] = "over" => ToldIn(told, r) \/ Outsider \in claims[r] \/ OnItsWay(r)

(* The inductive invariant of part 2.                                      *)
OutcomeInv ==
  /\ CollectedIsTold
  /\ ClaimsAreKept
  /\ WithinTheTurn
  /\ EndsAreCarried

(* What emissions read and change: the ledgers and the history.            *)
Emissions == [ledgers : [Run -> Ledgers], told : Seq(Notes)]

MarksHeard(s) ==
  \A r \in Run : \A i \in DOMAIN s.ledgers[r] :
    s.ledgers[r][i].announced => HeardIn(s.told, <<r, i>>)

(* e is what s has become through announcements, among them the            *)
(* completions of the runs in `ends`.                                      *)
Carries(s, e, ends) ==
  /\ e \in Emissions
  /\ \A r \in Run : Len(e.ledgers[r]) = Len(s.ledgers[r])
  /\ \A r \in Run : ReturnedIn(e.told, r) <=> ReturnedIn(s.told, r)
  /\ \A r \in Run : NudgedIn(e.told, r) <=> NudgedIn(s.told, r) \/ r \in ends
  /\ \A u : HeardIn(s.told, u) => HeardIn(e.told, u)
  /\ MarksHeard(s) => MarksHeard(e)
  /\ MarksHeard(s) => \A r \in ends : \A i \in DOMAIN e.ledgers[r] : HeardIn(e.told, <<r, i>>)
  /\ OneCarrierIn(s.told) /\ (\A r \in ends : ~ToldIn(s.told, r)) => OneCarrierIn(e.told)

(* The run whose completion is announced when that is tried.               *)
EndsTold == IF OwesNudge THEN {cur} ELSE {}

-----------------------------------------------------------------------------
(* A nonempty set of naturals has a least element.                         *)
LEMMA LeastNatural ==
  ASSUME NEW T \in SUBSET Nat, T # {}
  PROVE  \E m \in T : \A n \in T : m <= n
<1> DEFINE Less == {ss \in Nat \X Nat : ss[1] < ss[2]}
<1>1. IsWellFoundedOn(Less, Nat)
  BY NatLessThanWellFounded, Zenon DEF OpToRel
<1>2. PICK m \in T : \A n \in T : <<n, m>> \notin Less
  <2> HIDE DEF Less
  <2>1. QED
    BY <1>1, WFMin
<1>3. ASSUME NEW n \in T PROVE m <= n
  <2>1. n \in Nat /\ m \in Nat /\ ~(n < m)
    BY <1>2
  <2>2. QED
    BY <2>1
<1>4. QED
  BY <1>3

(* What one more note adds to the history.                                 *)
LEMMA NoteAdded ==
  ASSUME NEW t \in Seq(Notes), NEW n \in Notes
  PROVE  /\ Append(t, n) \in Seq(Notes)
         /\ \A r : NudgedIn(Append(t, n), r)
                   <=> NudgedIn(t, r) \/ (n.kind = "nudge" /\ n.run = r)
         /\ \A r : ReturnedIn(Append(t, n), r)
                   <=> ReturnedIn(t, r) \/ (n.kind = "report" /\ n.run = r /\ n.over)
         /\ \A u : HeardIn(Append(t, n), u) <=> HeardIn(t, u) \/ u \in n.updates
         /\ OneCarrierIn(t) /\ (n.kind = "nudge" => ~ToldIn(t, n.run))
              => OneCarrierIn(Append(t, n))
<1> DEFINE a == Append(t, n)
<1>1. /\ a \in Seq(Notes) /\ Len(t) \in Nat
      /\ DOMAIN t = 1 .. Len(t) /\ DOMAIN a = 1 .. Len(t) + 1
      /\ a[Len(t) + 1] = n /\ \A i \in 1 .. Len(t) : a[i] = t[i]
  BY AppendProperties
<1> HIDE DEF a
<1>2. \A i : i \in DOMAIN a <=> i \in DOMAIN t \/ i = Len(t) + 1
  BY <1>1
<1>3. \A r : NudgedIn(a, r) <=> NudgedIn(t, r) \/ (n.kind = "nudge" /\ n.run = r)
  BY <1>1, <1>2 DEF NudgedIn
<1>4. \A r : ReturnedIn(a, r) <=> ReturnedIn(t, r) \/ (n.kind = "report" /\ n.run = r /\ n.over)
  BY <1>1, <1>2 DEF ReturnedIn
<1>5. \A u : HeardIn(a, u) <=> HeardIn(t, u) \/ u \in n.updates
  BY <1>1, <1>2 DEF HeardIn
<1>6. ASSUME OneCarrierIn(t), n.kind = "nudge" => ~ToldIn(t, n.run)
      PROVE  OneCarrierIn(a)
  <2>1. SUFFICES ASSUME NEW i \in DOMAIN a, a[i].kind = "nudge",
                        NEW j \in 1 .. i - 1, a[j].run = a[i].run
                 PROVE  ~(a[j].kind = "nudge" \/ (a[j].kind = "report" /\ a[j].over))
    BY DEF OneCarrierIn
  <2>2. j \in DOMAIN t /\ a[j] = t[j]
    BY <1>1
  <2>3. CASE i \in DOMAIN t
    BY <2>1, <2>2, <2>3, <1>1, <1>6 DEF OneCarrierIn
  <2>4. CASE i = Len(t) + 1
    BY <2>1, <2>2, <2>4, <1>1, <1>6 DEF ToldIn, NudgedIn, ReturnedIn
  <2>5. QED
    BY <1>2, <2>3, <2>4
<1>7. QED
  BY <1>1, <1>3, <1>4, <1>5, <1>6 DEF a

(* markUpdateAnnounced marks at most one entry, which was not marked.      *)
LEMMA MarkedOnce ==
  ASSUME NEW ledger \in Ledgers, NEW m
  PROVE  /\ FirstOwed(ledger, m) \in {0} \cup DOMAIN ledger
         /\ MarkAnnounced(ledger, m) \in Ledgers
         /\ Len(MarkAnnounced(ledger, m)) = Len(ledger)
         /\ \A i \in DOMAIN ledger : MarkAnnounced(ledger, m)[i].announced
              => ledger[i].announced \/ i = FirstOwed(ledger, m)
<1> DEFINE copies == {i \in DOMAIN ledger : ~ledger[i].announced /\ ledger[i].message = m}
<1>0. Len(ledger) \in Nat /\ DOMAIN ledger = 1 .. Len(ledger)
  BY DEF Ledgers
<1>1. FirstOwed(ledger, m) \in {0} \cup DOMAIN ledger
  <2>1. CASE copies = {}
    BY <2>1 DEF FirstOwed
  <2>2. CASE copies # {}
    <3>1. PICK x \in copies : \A y \in copies : x <= y
      <4>1. copies \in SUBSET Nat
        BY <1>0
      <4> HIDE DEF copies
      <4>2. QED
        BY <4>1, <2>2, LeastNatural
    <3>2. Min(copies) \in copies
      <4> HIDE DEF copies
      <4>1. QED
        BY <3>1 DEF Min
    <3>3. QED
      BY <3>2, <2>2 DEF FirstOwed
  <2>3. QED
    BY <2>1, <2>2
<1> DEFINE i == FirstOwed(ledger, m)
<1>2. CASE i = 0
  BY <1>2, <1>1 DEF MarkAnnounced
<1>3. CASE i # 0
  <2>1. i \in DOMAIN ledger
    BY <1>1, <1>3
  <2>2. MarkAnnounced(ledger, m) = [ledger EXCEPT ![i].announced = TRUE]
    BY <1>3 DEF MarkAnnounced
  <2> DEFINE entry == [ledger[i] EXCEPT !.announced = TRUE]
  <2> HIDE DEF i
  <2>3. ledger[i] \in [message : Message, announced : BOOLEAN]
    BY <2>1, ElementOfSeq, <1>0 DEF Ledgers
  <2>4. entry \in [message : Message, announced : BOOLEAN]
    BY <2>3
  <2>5. MarkAnnounced(ledger, m) = [ledger EXCEPT ![i] = entry]
    BY <2>2
  <2> HIDE DEF entry
  <2>6. [ledger EXCEPT ![i] = entry] \in Ledgers /\ Len([ledger EXCEPT ![i] = entry]) = Len(ledger)
    BY <2>1, <2>4, <1>0, ExceptSeq DEF Ledgers
  <2>7. \A k \in DOMAIN ledger : k # i => [ledger EXCEPT ![i] = entry][k] = ledger[k]
    OBVIOUS
  <2>8. \A k \in DOMAIN ledger :
          MarkAnnounced(ledger, m)[k].announced => ledger[k].announced \/ k = i
    BY <2>5, <2>7
  <2>9. QED
    BY <2>5, <2>6, <2>8, <1>1 DEF i
<1>4. QED
  BY <1>2, <1>3

(* emitUpdate: the update it marks was heard, and no outcome was told.     *)
LEMMA UpdateCarried ==
  ASSUME DeliveryTypes, cur \in Run, NEW s \in Emissions,
         NEW entry \in Announcements, entry.kind = "update"
  PROVE  Carries(s, EmitUpdate(s, entry), {})
<1> DEFINE e == EmitUpdate(s, entry)
           i == FirstOwed(s.ledgers[cur], entry.message)
           copy == IF i = 0 THEN entry.of ELSE <<cur, i>>
           marked == MarkAnnounced(s.ledgers[cur], entry.message)
           note == Note("update", copy[1], {copy})
<1>1. CASE ~CanAnnounceUpdate
  <2>1. e = s
    BY <1>1 DEF EmitUpdate
  <2>2. QED
    BY <2>1 DEF Carries
<1>2. CASE CanAnnounceUpdate
  <2>1. /\ s.ledgers \in [Run -> Ledgers] /\ s.told \in Seq(Notes)
        /\ s.ledgers[cur] \in Ledgers
    BY DEF Emissions
  <2>2. /\ i \in {0} \cup DOMAIN s.ledgers[cur] /\ marked \in Ledgers
        /\ Len(marked) = Len(s.ledgers[cur])
        /\ \A k \in DOMAIN s.ledgers[cur] :
             marked[k].announced => s.ledgers[cur][k].announced \/ k = i
    BY <2>1, MarkedOnce
  <2>3. e = [ledgers |-> [s.ledgers EXCEPT ![cur] = marked], told |-> Append(s.told, note)]
    BY <1>2 DEF EmitUpdate
  <2>4. copy \in Run \X Nat
    <3>1. entry.of \in Run \X Nat
      BY DEF Announcements, Completion
    <3>2. i \in Nat
      BY <2>1, <2>2 DEF Ledgers
    <3> HIDE DEF i
    <3>3. QED
      BY <3>1, <3>2
  <2> HIDE DEF copy, i, marked
  <2>5. note \in Notes /\ note.kind = "update" /\ note.updates = {copy}
    BY <2>4 DEF Notes, Note
  <2> HIDE DEF note
  <2>6. /\ e.ledgers = [s.ledgers EXCEPT ![cur] = marked]
        /\ e.told = Append(s.told, note)
        /\ e \in [ledgers : {e.ledgers}, told : {e.told}]
    BY <2>3
  <2>7. e.ledgers \in [Run -> Ledgers] /\ e.told \in Seq(Notes)
    BY <2>1, <2>2, <2>5, <2>6, NoteAdded
  <2>8. e \in Emissions
    BY <2>6, <2>7 DEF Emissions
  <2> HIDE DEF e
  <2>9. \A r \in Run : Len(e.ledgers[r]) = Len(s.ledgers[r])
    BY <2>1, <2>2, <2>6
  <2>10. /\ \A r : ReturnedIn(e.told, r) <=> ReturnedIn(s.told, r)
         /\ \A r : NudgedIn(e.told, r) <=> NudgedIn(s.told, r)
         /\ \A u : HeardIn(e.told, u) <=> HeardIn(s.told, u) \/ u = copy
         /\ OneCarrierIn(s.told) => OneCarrierIn(e.told)
    BY <2>1, <2>5, <2>6, NoteAdded
  <2>11. ASSUME MarksHeard(s) PROVE MarksHeard(e)
    <3>1. SUFFICES ASSUME NEW r \in Run, NEW k \in DOMAIN e.ledgers[r],
                          e.ledgers[r][k].announced
                   PROVE  HeardIn(e.told, <<r, k>>)
      BY DEF MarksHeard
    <3>2. CASE r = cur
      <4>1. e.ledgers[r] = marked /\ k \in DOMAIN s.ledgers[cur]
        BY <3>2, <2>1, <2>2, <2>6 DEF Ledgers
      <4>2. s.ledgers[cur][k].announced \/ k = i
        BY <4>1, <3>1, <2>2
      <4>3. CASE k = i
        <5>1. k # 0
          BY <4>1, <2>1 DEF Ledgers
        <5>2. copy = <<r, k>>
          BY <5>1, <4>3, <3>2 DEF copy
        <5>3. QED
          BY <5>2, <2>10
      <4>4. QED
        BY <4>1, <4>2, <4>3, <3>2, <2>10, <2>11 DEF MarksHeard
    <3>3. CASE r # cur
      <4>1. e.ledgers[r] = s.ledgers[r]
        BY <3>3, <2>1, <2>6
      <4>2. QED
        BY <4>1, <3>1, <2>10, <2>11 DEF MarksHeard
    <3>4. QED
      BY <3>2, <3>3
  <2>12. QED
    BY <2>8, <2>9, <2>10, <2>11 DEF Carries, e
<1>3. QED
  BY <1>1, <1>2

(* emitIndividualNudge: the completion comes with every update still owed, *)
(* unless a carrier has, or will have, told the outcome.                   *)
LEMMA NudgeCarried ==
  ASSUME DeliveryTypes, cur \in Run, NEW s \in Emissions
  PROVE  Carries(s, EmitNudge(s), EndsTold)
<1> DEFINE e == EmitNudge(s)
           note == Note("nudge", cur, Owed(s.ledgers, cur))
<1>1. CASE ~OwesNudge
  <2>1. e = s
    BY <1>1 DEF EmitNudge
  <2>2. QED
    BY <2>1, <1>1 DEF Carries, EndsTold
<1>2. CASE OwesNudge
  <2>1. /\ s.ledgers \in [Run -> Ledgers] /\ s.told \in Seq(Notes)
        /\ s.ledgers[cur] \in Ledgers /\ s = [ledgers |-> s.ledgers, told |-> s.told]
    BY DEF Emissions
  <2>2. Owed(s.ledgers, cur) \in SUBSET (Run \X Nat)
    BY <2>1 DEF Owed, Ledgers
  <2>3. /\ note \in Notes /\ note.kind = "nudge" /\ note.run = cur
        /\ note.updates = Owed(s.ledgers, cur)
    BY <2>2 DEF Notes, Note
  <2>4. e.ledgers = s.ledgers /\ e.told = Append(s.told, note)
        /\ e = [ledgers |-> e.ledgers, told |-> e.told]
    BY <2>1, <1>2 DEF EmitNudge
  <2> HIDE DEF note
  <2>5. /\ Append(s.told, note) \in Seq(Notes)
        /\ \A r : ReturnedIn(e.told, r) <=> ReturnedIn(s.told, r)
        /\ \A r : NudgedIn(e.told, r) <=> NudgedIn(s.told, r) \/ r = cur
        /\ \A u : HeardIn(e.told, u) <=> HeardIn(s.told, u) \/ u \in Owed(s.ledgers, cur)
        /\ OneCarrierIn(s.told) /\ ~ToldIn(s.told, cur) => OneCarrierIn(e.told)
    BY <2>1, <2>3, <2>4, NoteAdded
  <2>6. e \in Emissions
    BY <2>1, <2>4, <2>5 DEF Emissions
  <2>7. MarksHeard(s) => MarksHeard(e)
    BY <2>4, <2>5 DEF MarksHeard
  <2>8. MarksHeard(s) => \A i \in DOMAIN e.ledgers[cur] : HeardIn(e.told, <<cur, i>>)
    BY <2>1, <2>4, <2>5 DEF MarksHeard, Owed
  <2> HIDE DEF e
  <2>9. QED
    BY <1>2, <2>4, <2>5, <2>6, <2>7, <2>8 DEF Carries, EndsTold, e
<1>3. QED
  BY <1>1, <1>2

(* One withheld announcement after the other, of at most one completion.   *)
LEMMA CarriedOn ==
  ASSUME NEW s, NEW e, NEW g, NEW a \in SUBSET Run, NEW b \in SUBSET Run, a \cap b = {},
         Carries(s, e, a), Carries(e, g, b)
  PROVE  Carries(s, g, a \cup b)
<1>1. /\ g \in Emissions
      /\ \A r \in Run : Len(g.ledgers[r]) = Len(s.ledgers[r])
      /\ \A r \in Run : ReturnedIn(g.told, r) <=> ReturnedIn(s.told, r)
      /\ \A u : HeardIn(s.told, u) => HeardIn(g.told, u)
      /\ MarksHeard(s) => MarksHeard(g)
  BY DEF Carries
<1>2. \A r \in Run : NudgedIn(g.told, r) <=> NudgedIn(s.told, r) \/ r \in a \cup b
  BY DEF Carries
<1>3. \A r \in Run : DOMAIN e.ledgers[r] = DOMAIN g.ledgers[r]
  BY DEF Carries, Emissions, Ledgers
<1>4. MarksHeard(s) =>
        \A r \in a \cup b : \A i \in DOMAIN g.ledgers[r] : HeardIn(g.told, <<r, i>>)
  BY <1>3 DEF Carries
<1>5. OneCarrierIn(s.told) /\ (\A r \in a \cup b : ~ToldIn(s.told, r)) => OneCarrierIn(g.told)
  BY DEF Carries, ToldIn
<1>6. QED
  BY <1>1, <1>2, <1>4, <1>5 DEF Carries

(* The withheld announcements, one at a time: f[i] is what the first i of  *)
(* them make of s.                                                         *)
FlushesFirst(f, s, n) ==
  f = [i \in 0 .. n |-> IF i = 0 THEN s ELSE Emit(f[i - 1], pending[i])]

(* There is such a function, by a least length without one.                *)
LEMMA FlushDefined ==
  ASSUME DeliveryTypes, NEW s
  PROVE  \E f : FlushesFirst(f, s, Len(pending))
<1> DEFINE Bad == {n \in 0 .. Len(pending) : ~ \E f : FlushesFirst(f, s, n)}
<1>0. Len(pending) \in Nat
  BY DEF DeliveryTypes
<1>1. SUFFICES ASSUME Bad # {} PROVE FALSE
  BY <1>0
<1>2. PICK n \in Bad : \A k \in Bad : n <= k
  <2>1. Bad \in SUBSET Nat
    BY <1>0
  <2> HIDE DEF Bad
  <2>2. QED
    BY <1>1, <2>1, LeastNatural
<1>3. CASE n = 0
  <2>1. FlushesFirst([i \in 0 .. 0 |-> s], s, 0)
    BY DEF FlushesFirst
  <2>2. QED
    BY <2>1, <1>3
<1>4. CASE n # 0
  <2>1. n - 1 \in 0 .. Len(pending)
    BY <1>4, <1>0
  <2>2. n - 1 \notin Bad
    <3>1. n \in Nat /\ ~(n <= n - 1)
      BY <1>0
    <3> HIDE DEF Bad
    <3>2. QED
      BY <1>2, <3>1
  <2>3. PICK f : FlushesFirst(f, s, n - 1)
    BY <2>1, <2>2
  <2> DEFINE last == Emit(f[n - 1], pending[n])
             g == [i \in 0 .. n |-> IF i = n THEN last ELSE f[i]]
  <2>4. \A i \in 0 .. n - 1 : f[i] = IF i = 0 THEN s ELSE Emit(f[i - 1], pending[i])
    BY <2>3 DEF FlushesFirst
  <2>5. g = [i \in 0 .. n |-> IF i = 0 THEN s ELSE Emit(g[i - 1], pending[i])]
    <3>1. ASSUME NEW i \in 0 .. n
          PROVE  g[i] = IF i = 0 THEN s ELSE Emit(g[i - 1], pending[i])
      <4>1. CASE i = n
        BY <4>1, <1>4, <1>0
      <4>2. CASE i # n
        <5>1. i \in 0 .. n - 1 /\ (i # 0 => i - 1 \in 0 .. n /\ i - 1 # n)
          BY <4>2, <1>0
        <5>2. g[i] = f[i] /\ (i # 0 => g[i - 1] = f[i - 1])
          BY <5>1, <4>2
        <5>3. QED
          BY <5>1, <5>2, <2>4
      <4>3. QED
        BY <4>1, <4>2
    <3>2. QED
      BY <3>1
  <2>6. FlushesFirst(g, s, n)
    BY <2>5 DEF FlushesFirst
  <2>7. QED
    BY <2>6
<1>5. QED
  BY <1>3, <1>4

(* The flush announces the completion if there is one and it is still      *)
(* owed, and loses no update.                                              *)
LEMMA FlushCarried ==
  ASSUME DeliveryTypes, CompletesOnce(pending), pending # <<>> => cur # 0, NEW s \in Emissions
  PROVE  Carries(s, Flush(s), IF Completes(pending) THEN EndsTold ELSE {})
<1> DEFINE f == CHOOSE f : FlushesFirst(f, s, Len(pending))
           CompletesBy(i) == \E k \in 1 .. i : pending[k].kind = "completion"
           Right(i) == Carries(s, f[i], IF CompletesBy(i) THEN EndsTold ELSE {})
           Bad == {i \in 0 .. Len(pending) : ~ Right(i)}
<1>0. Len(pending) \in Nat /\ DOMAIN pending = 1 .. Len(pending)
  BY DEF DeliveryTypes
<1>1. FlushesFirst(f, s, Len(pending))
  BY FlushDefined
<1>2. Flush(s) = f[Len(pending)]
  BY Zenon DEF Flush, FlushesFirst
<1> HIDE DEF f
<1>3. f[0] = s /\ \A i \in 1 .. Len(pending) : f[i] = Emit(f[i - 1], pending[i])
  <2>1. \A i \in 0 .. Len(pending) :
          f[i] = IF i = 0 THEN s ELSE Emit(f[i - 1], pending[i])
    BY <1>1, Zenon DEF FlushesFirst
  <2>2. QED
    BY <2>1, <1>0
<1>4. ASSUME Bad # {} PROVE FALSE
  <2>1. PICK i \in Bad : \A k \in Bad : i <= k
    <3>1. Bad \in SUBSET Nat
      BY <1>0
    <3> HIDE DEF Bad
    <3>2. QED
      BY <1>4, <3>1, LeastNatural
  <2>2. CASE i = 0
    <3>1. ~CompletesBy(0)
      OBVIOUS
    <3> HIDE DEF CompletesBy
    <3>2. Right(0)
      BY <1>3, <3>1 DEF Carries
    <3>3. QED
      BY <3>2, <2>2
  <2>3. CASE i # 0
    <3>1. i - 1 \in 0 .. Len(pending) /\ i \in 1 .. Len(pending)
      BY <2>3, <1>0
    <3>2. Right(i - 1)
      <4>1. i - 1 \notin Bad
        <5> HIDE DEF Bad
        <5>1. QED
          BY <2>1, <3>1
      <4>2. QED
        BY <4>1, <3>1
    <3>3. /\ pending[i] \in Announcements /\ cur \in Run
          /\ f[i] = Emit(f[i - 1], pending[i]) /\ f[i - 1] \in Emissions
      BY <3>1, <3>2, <1>0, <1>3, ElementOfSeq DEF DeliveryTypes, Run, Carries
    <3>4. pending[i].kind \in {"update", "completion"}
      BY <3>3 DEF Announcements, Completion
    <3>5. CompletesBy(i) <=> CompletesBy(i - 1) \/ pending[i].kind = "completion"
      BY <3>1
    <3>6. pending[i].kind = "completion" => ~CompletesBy(i - 1)
      BY <3>1, <1>0 DEF CompletesOnce
    <3> HIDE DEF CompletesBy
    <3>7. CASE pending[i].kind = "update"
      <4>1. Carries(f[i - 1], f[i], {})
        BY <3>3, <3>7, UpdateCarried DEF Emit
      <4>2. Carries(s, f[i], (IF CompletesBy(i - 1) THEN EndsTold ELSE {}) \cup {})
        BY <4>1, <3>2, <3>3, CarriedOn DEF EndsTold
      <4>3. QED
        BY <4>2, <3>5, <3>7, <3>1
    <3>8. CASE pending[i].kind = "completion"
      <4>1. Carries(f[i - 1], f[i], EndsTold)
        BY <3>3, <3>8, NudgeCarried DEF Emit
      <4>2. Carries(s, f[i - 1], {}) /\ EndsTold \in SUBSET Run
        BY <3>2, <3>3, <3>6, <3>8 DEF EndsTold
      <4>3. Carries(s, f[i], {} \cup EndsTold)
        BY <4>1, <4>2, CarriedOn
      <4>4. QED
        BY <4>3, <3>5, <3>8, <3>1
    <3>9. QED
      BY <3>4, <3>7, <3>8
  <2>4. QED
    BY <2>2, <2>3
<1>5. Right(Len(pending))
  <2>1. Len(pending) \notin Bad
    <3> HIDE DEF Bad
    <3>1. QED
      BY <1>4
  <2>2. QED
    BY <2>1, <1>0
<1>6. CompletesBy(Len(pending)) <=> Completes(pending)
  BY <1>0 DEF Completes
<1> HIDE DEF CompletesBy
<1>7. QED
  BY <1>2, <1>5, <1>6

-----------------------------------------------------------------------------
(* A tool call's report adds what it renders, and the outcome if it is     *)
(* about a run that is over.                                               *)
LEMMA ReportTold ==
  ASSUME DeliveryTypes, NEW r \in Run, Tell(r)
  PROVE  /\ told' \in Seq(Notes)
         /\ \A q : NudgedIn(told', q) <=> NudgedIn(told, q)
         /\ \A q : ReturnedIn(told', q)
                   <=> ReturnedIn(told, q) \/ (q = r /\ status[r] = "over")
         /\ \A u : HeardIn(told, u) => HeardIn(told', u)
         /\ \A i \in DOMAIN updates[r] : updates[r][i].announced \/ HeardIn(told', <<r, i>>)
         /\ OneCarrierIn(told) => OneCarrierIn(told')
<1> DEFINE note == Note("report", r, Owed(updates, r))
<1>1. Owed(updates, r) \in SUBSET (Run \X Nat)
  BY DEF Owed, DeliveryTypes, Ledgers
<1>2. /\ note \in Notes /\ note.kind = "report" /\ note.run = r
      /\ note.over <=> status[r] = "over"
      /\ note.updates = Owed(updates, r)
  BY <1>1 DEF Note, Notes
<1>3. told' = Append(told, note) /\ told \in Seq(Notes)
  BY DEF Tell, DeliveryTypes
<1> HIDE DEF note
<1>4. \A i \in DOMAIN updates[r] : updates[r][i].announced \/ <<r, i>> \in Owed(updates, r)
  BY DEF Owed
<1>5. QED
  BY <1>2, <1>3, <1>4, NoteAdded

(* withholdCompletion leaves one completion.                               *)
LEMMA CompletionWithheld ==
  ASSUME DeliveryTypes, CompletesOnce(pending)
  PROVE  /\ Withhold \in Seq(Announcements) /\ Withhold # <<>>
         /\ Completes(Withhold) /\ CompletesOnce(Withhold)
<1>0. pending \in Seq(Announcements) /\ Len(pending) \in Nat /\ DOMAIN pending = 1 .. Len(pending)
  BY DEF DeliveryTypes
<1>1. Completion \in Announcements /\ Completion.kind = "completion"
  BY DEF Announcements, Completion
<1>2. \A i \in DOMAIN pending : pending[i].kind = "completion" <=> pending[i] = Completion
  <2>1. \A e \in Announcements : e.kind = "completion" <=> e = Completion
    BY DEF Announcements, Completion
  <2>2. QED
    BY <2>1, <1>0, ElementOfSeq
<1>3. CASE Contains(pending, Completion)
  <2>1. \E i \in DOMAIN pending : pending[i] = Completion
    BY <1>0, <1>3 DEF Contains
  <2>2. QED
    BY <2>1, <1>0, <1>2, <1>3 DEF Withhold, Completes
<1>4. CASE ~Contains(pending, Completion)
  <2>1. ~Completes(pending)
    BY <1>0, <1>2, <1>4 DEF Contains, Completes
  <2> DEFINE p == Append(pending, Completion)
  <2>2. /\ p \in Seq(Announcements) /\ DOMAIN p = 1 .. Len(pending) + 1
        /\ p[Len(pending) + 1] = Completion /\ \A i \in 1 .. Len(pending) : p[i] = pending[i]
    BY <1>0, <1>1, AppendProperties
  <2>3. Withhold = p
    BY <1>4 DEF Withhold
  <2> HIDE DEF p
  <2>4. Completes(p) /\ p # <<>>
    BY <2>2, <1>0, <1>1 DEF Completes
  <2>5. \A i \in DOMAIN p : p[i].kind = "completion" => i = Len(pending) + 1
    BY <2>1, <2>2, <1>0 DEF Completes
  <2>6. QED
    BY <2>2, <2>3, <2>4, <2>5 DEF CompletesOnce
<1>5. QED
  BY <1>3, <1>4

(* A withheld update is no completion.                                     *)
LEMMA UpdateWithheld ==
  ASSUME DeliveryTypes, CompletesOnce(pending),
         NEW entry \in Announcements, entry.kind = "update"
  PROVE  /\ Append(pending, entry) \in Seq(Announcements)
         /\ Completes(Append(pending, entry)) <=> Completes(pending)
         /\ CompletesOnce(Append(pending, entry))
<1>0. pending \in Seq(Announcements) /\ Len(pending) \in Nat /\ DOMAIN pending = 1 .. Len(pending)
  BY DEF DeliveryTypes
<1> DEFINE p == Append(pending, entry)
<1>1. /\ p \in Seq(Announcements) /\ DOMAIN p = 1 .. Len(pending) + 1
      /\ p[Len(pending) + 1] = entry /\ \A i \in 1 .. Len(pending) : p[i] = pending[i]
  BY <1>0, AppendProperties
<1> HIDE DEF p
<1>2. \A i \in DOMAIN p : p[i].kind = "completion"
                          <=> i \in DOMAIN pending /\ pending[i].kind = "completion"
  BY <1>0, <1>1
<1>3. \A i \in DOMAIN pending : i \in DOMAIN p
  BY <1>0, <1>1
<1>4. (Completes(p) <=> Completes(pending)) /\ CompletesOnce(p)
  BY <1>2, <1>3 DEF Completes, CompletesOnce
<1>5. QED
  BY <1>1, <1>4 DEF p

(* Nothing is said: the history and the ledgers stay, and no run that is   *)
(* over comes back.                                                        *)
LEMMA QuietStep ==
  ASSUME CarrierInv, DeliveryTypes', OneAfterAnother', CallsAwaitRuns', OneCompletion',
         told' = told, updates' = updates, consumed' = consumed,
         \A r \in Run : status[r] = "over" => status'[r] = "over"
  PROVE  CarrierInv'
<1>1. ToldIsOver'
  BY DEF CarrierInv, ToldIsOver
<1>2. MarkedIsHeard'
  BY DEF CarrierInv, MarkedIsHeard
<1>3. OneCarrierIn(told)'
  BY DEF CarrierInv
<1>4. QED
  BY <1>1, <1>2, <1>3 DEF CarrierInv

(* A tool call reports on run r, and counts it as collected if it is over. *)
LEMMA ReportStep ==
  ASSUME CarrierInv, NEW r \in Run, Tell(r), CallsAwaitRuns',
         claims' \in [Run -> SUBSET (Call \cup {Outsider})], call' \in [Call -> CallRecords],
         consumed' \in [Run -> BOOLEAN], \A q \in Run : consumed[q] => consumed'[q],
         status[r] = "over" => consumed'[r],
         UNCHANGED <<runVars, updates, managerVars, reporting>>
  PROVE  CarrierInv'
<1>0. /\ told' \in Seq(Notes)
      /\ \A q : NudgedIn(told', q) <=> NudgedIn(told, q)
      /\ \A q : ReturnedIn(told', q) <=> ReturnedIn(told, q) \/ (q = r /\ status[r] = "over")
      /\ \A u : HeardIn(told, u) => HeardIn(told', u)
      /\ \A i \in DOMAIN updates[r] : updates[r][i].announced \/ HeardIn(told', <<r, i>>)
      /\ OneCarrierIn(told')
  BY ReportTold DEF CarrierInv
<1>1. DeliveryTypes'
  BY <1>0 DEF CarrierInv, DeliveryTypes, runVars, managerVars
<1>2. OneAfterAnother'
  BY DEF CarrierInv, OneAfterAnother, runVars
<1>3. OneCompletion'
  BY <1>0 DEF CarrierInv, OneCompletion, Idle, runVars, managerVars
<1>4. ToldIsOver'
  BY <1>0 DEF CarrierInv, ToldIsOver, runVars
<1>5. MarkedIsHeard'
  BY <1>0 DEF CarrierInv, MarkedIsHeard, ToldIn
<1>6. QED
  BY <1>0, <1>1, <1>2, <1>3, <1>4, <1>5 DEF CarrierInv

(* Announcements go out, among them the completions of `ends`, from a      *)
(* state s that has the history and may have a new update.                 *)
LEMMA CarryStep ==
  ASSUME CarrierInv, NEW s \in Emissions, s.told = told, MarksHeard(s),
         \A r \in Run : status[r] = "over" => s.ledgers[r] = updates[r],
         NEW e, NEW ends \in SUBSET Run, Carries(s, e, ends),
         updates' = e.ledgers, told' = e.told,
         \A r \in ends : status[r] = "over" /\ ~ToldIn(told, r),
         pending' \in Seq(Announcements), reporting' \in 0 .. MaxRuns, parentActive' \in BOOLEAN,
         UNCHANGED <<runVars, claims, consumed, disposed, call>>, OneCompletion'
  PROVE  CarrierInv'
<1>0. /\ updates' \in [Run -> Ledgers] /\ told' \in Seq(Notes)
      /\ \A r \in Run : ReturnedIn(told', r) <=> ReturnedIn(told, r)
      /\ \A r \in Run : NudgedIn(told', r) <=> NudgedIn(told, r) \/ r \in ends
      /\ \A u : HeardIn(told, u) => HeardIn(told', u)
      /\ MarksHeard(e)
      /\ \A r \in ends : \A i \in DOMAIN updates'[r] : HeardIn(told', <<r, i>>)
      /\ OneCarrierIn(told')
  BY DEF Carries, Emissions, CarrierInv
<1>1. DeliveryTypes'
  BY <1>0 DEF CarrierInv, DeliveryTypes, runVars
<1>2. OneAfterAnother' /\ CallsAwaitRuns'
  BY DEF CarrierInv, OneAfterAnother, CallsAwaitRuns, InProgress, runVars
<1>3. ToldIsOver'
  BY <1>0 DEF CarrierInv, ToldIsOver, runVars
<1>4. ASSUME NEW r \in Run, NEW i \in DOMAIN updates'[r],
             updates'[r][i].announced \/ ToldIn(told', r)
      PROVE  HeardIn(told', <<r, i>>)
  <2>1. CASE updates'[r][i].announced
    BY <2>1, <1>0 DEF MarksHeard
  <2>2. CASE r \in ends
    BY <2>2, <1>0
  <2>3. CASE ToldIn(told, r)
    <3>1. status[r] = "over" /\ s.ledgers[r] = updates[r]
      BY <2>3 DEF CarrierInv, ToldIsOver, ToldIn
    <3>2. updates[r] \in Ledgers /\ updates'[r] \in Ledgers /\ Len(updates'[r]) = Len(updates[r])
      BY <1>0, <3>1 DEF CarrierInv, DeliveryTypes, Carries
    <3>3. i \in DOMAIN updates[r]
      BY <3>2 DEF Ledgers
    <3>4. QED
      BY <3>3, <2>3, <1>0 DEF CarrierInv, MarkedIsHeard
  <2>4. QED
    BY <2>1, <2>2, <2>3, <1>0, <1>4 DEF ToldIn
<1>5. MarkedIsHeard'
  BY <1>4 DEF MarkedIsHeard
<1>6. QED
  BY <1>0, <1>1, <1>2, <1>3, <1>5 DEF CarrierInv

(* What is announced starts from what was.                                 *)
LEMMA UnsentMarksHeard ==
  ASSUME CarrierInv
  PROVE  Unsent \in Emissions /\ Unsent.ledgers = updates /\ Unsent.told = told
         /\ MarksHeard(Unsent)
BY DEF CarrierInv, Unsent, Emissions, DeliveryTypes, MarksHeard, MarkedIsHeard

LEMMA EmptyCompletesNothing == ~Completes(<<>>) /\ CompletesOnce(<<>>)
BY DEF Completes, CompletesOnce

(* Once a run's event has gone out, its completion is owed no more.        *)
LEMMA NotifyStep ==
  ASSUME CarrierInv, Notify
  PROVE  /\ CarrierInv'
         /\ \A r \in Run : ReturnedIn(told', r) <=> ReturnedIn(told, r)
         /\ \A r \in Run : NudgedIn(told, r) => NudgedIn(told', r)
         /\ ~disposed /\ OwesNudge => NudgedIn(told', cur) \/ Completes(pending')
         /\ ~parentActive => pending' = pending
<1>a. /\ DeliveryTypes /\ OneAfterAnother /\ CallsAwaitRuns /\ OneCompletion
      /\ ToldIsOver /\ MarkedIsHeard /\ OneCarrierIn(told)
  BY DEF CarrierInv
<1>b. cur \in Nat /\ (cur # 0 => cur \in Run) /\ 0 \notin Run
  BY <1>a DEF DeliveryTypes, Run
<1> USE MaxRunsAssumption
<1> DEFINE owes == ~Silenced /\ OwesNudge
<1>1. /\ cur \in Run /\ status[cur] = "over" /\ ~NudgedIn(told, cur) /\ ~Completes(pending)
      /\ reporting' = 0 /\ UNCHANGED <<runVars, claims, consumed, parentActive, disposed, call>>
  BY <1>a, <1>b DEF Notify, OneCompletion, Idle
<1>2. CASE owes /\ parentActive
  <2>1. pending' = Withhold /\ told' = told /\ updates' = updates
    BY UnsentMarksHeard, <1>2 DEF Notify, Becomes
  <2>2. pending' \in Seq(Announcements) /\ CompletesOnce(pending')
    BY <1>a, <2>1, CompletionWithheld DEF OneCompletion
  <2>3. DeliveryTypes' /\ OneAfterAnother' /\ CallsAwaitRuns'
    BY <1>a, <1>1, <2>1, <2>2 DEF DeliveryTypes, OneAfterAnother, CallsAwaitRuns, InProgress,
       runVars
  <2>4. OneCompletion'
    BY <1>a, <1>b, <1>1, <2>1, <2>2 DEF OneCompletion, Idle, runVars, Run
  <2>5. CarrierInv'
    BY <1>1, <2>1, <2>3, <2>4, QuietStep DEF runVars
  <2>6. Completes(pending')
    BY <1>a, <2>1, CompletionWithheld DEF OneCompletion
  <2>7. QED
    BY <1>2, <2>1, <2>5, <2>6
<1>3. CASE owes /\ ~parentActive
  <2>1. /\ pending' = pending /\ updates' = EmitNudge(Unsent).ledgers
        /\ told' = EmitNudge(Unsent).told
    BY <1>3 DEF Notify, Becomes
  <2>2. Carries(Unsent, EmitNudge(Unsent), {cur})
    BY <1>a, UnsentMarksHeard, <1>1, <1>3, NudgeCarried DEF EndsTold
  <2>3. ~ToldIn(told, cur)
    BY <1>a, <1>1, <1>3 DEF ToldIn, ToldIsOver, OwesNudge
  <2>4. /\ pending' \in Seq(Announcements) /\ reporting' \in 0 .. MaxRuns
        /\ parentActive' \in BOOLEAN
    BY <1>a, <1>1, <2>1 DEF DeliveryTypes
  <2>5. OneCompletion'
    BY <1>a, <1>1, <2>1 DEF OneCompletion, Idle, runVars
  <2>6. CarrierInv'
    BY UnsentMarksHeard, <1>1, <2>1, <2>2, <2>3, <2>4, <2>5, CarryStep
  <2>7. /\ \A r \in Run : ReturnedIn(told', r) <=> ReturnedIn(told, r)
        /\ \A r \in Run : NudgedIn(told, r) => NudgedIn(told', r)
        /\ NudgedIn(told', cur)
    BY UnsentMarksHeard, <1>1, <2>1, <2>2 DEF Carries
  <2>8. QED
    BY <2>1, <2>6, <2>7
<1>4. CASE ~owes
  <2>1. pending' = pending /\ told' = told /\ updates' = updates
    BY UnsentMarksHeard, <1>4 DEF Notify, Becomes
  <2>2. DeliveryTypes' /\ OneAfterAnother' /\ CallsAwaitRuns'
    BY <1>a, <1>1, <2>1 DEF DeliveryTypes, OneAfterAnother, CallsAwaitRuns, InProgress, runVars
  <2>3. OneCompletion'
    BY <1>a, <1>1, <2>1 DEF OneCompletion, Idle, runVars
  <2>4. CarrierInv'
    BY <1>1, <2>1, <2>2, <2>3, QuietStep DEF runVars
  <2>5. QED
    BY <1>4, <2>1, <2>4 DEF Silenced
<1>5. QED
  BY <1>2, <1>3, <1>4

(* An update is announced, withheld or left in the ledger.                 *)
LEMMA UpdateStep ==
  ASSUME CarrierInv, NEW m \in Message, ChildUpdate(m)
  PROVE  /\ CarrierInv'
         /\ \A r \in Run : ToldIn(told', r) <=> ToldIn(told, r)
         /\ \A r \in Run : ReturnedIn(told', r) <=> ReturnedIn(told, r)
         /\ Completes(pending') <=> Completes(pending)
         /\ ~parentActive => pending' = pending
<1>a. /\ DeliveryTypes /\ OneAfterAnother /\ CallsAwaitRuns /\ OneCompletion
      /\ ToldIsOver /\ MarkedIsHeard /\ OneCarrierIn(told)
  BY DEF CarrierInv
<1>b. cur \in Nat /\ (cur # 0 => cur \in Run) /\ 0 \notin Run
  BY <1>a DEF DeliveryTypes, Run
<1> DEFINE id == <<cur, Len(updates[cur]) + 1>>
           entry == [kind |-> "update", message |-> m, of |-> id]
           new == [message |-> m, announced |-> FALSE]
           recorded == [updates EXCEPT ![cur] = Append(@, new)]
           allowed == ~Silenced /\ CanAnnounceUpdate
           s == [ledgers |-> recorded, told |-> told]
           e == IF allowed /\ ~parentActive THEN EmitUpdate(s, entry) ELSE s
<1>1. /\ cur \in Run /\ Idle /\ status[cur] \in {"running", "stopping"}
      /\ UNCHANGED <<runVars, claims, consumed, parentActive, disposed, call, reporting>>
      /\ pending' = IF allowed /\ parentActive THEN Append(pending, entry) ELSE pending
      /\ updates' = e.ledgers /\ told' = e.told
  BY <1>b DEF ChildUpdate, Becomes
<1>2. updates[cur] \in Ledgers /\ Len(updates[cur]) \in Nat
  <2>1. updates[cur] \in Ledgers
    BY <1>a, <1>1 DEF DeliveryTypes
  <2>2. QED
    BY <2>1 DEF Ledgers
<1>3. entry \in Announcements /\ entry.kind = "update"
  BY <1>1, <1>2 DEF Announcements
<1>4. /\ recorded \in [Run -> Ledgers] /\ recorded[cur] = Append(updates[cur], new)
      /\ \A r \in Run \ {cur} : recorded[r] = updates[r]
  <2>1. Append(updates[cur], new) \in Ledgers
    BY <1>2, AppendProperties DEF Ledgers
  <2>2. QED
    BY <2>1, <1>a, <1>1 DEF DeliveryTypes
<1>5. s \in Emissions /\ s.ledgers = recorded /\ s.told = told
  BY <1>a, <1>4 DEF Emissions, DeliveryTypes
<1>6. \A i \in DOMAIN recorded[cur] : recorded[cur][i].announced =>
        i \in DOMAIN updates[cur] /\ updates[cur][i] = recorded[cur][i]
  BY <1>2, <1>4, AppendProperties DEF Ledgers
<1> HIDE DEF recorded, entry
<1>7. MarksHeard(s)
  <2>1. SUFFICES ASSUME NEW r \in Run, NEW i \in DOMAIN recorded[r], recorded[r][i].announced
                 PROVE  HeardIn(told, <<r, i>>)
    BY <1>5 DEF MarksHeard
  <2>2. i \in DOMAIN updates[r] /\ updates[r][i].announced
    BY <1>4, <1>6, <2>1
  <2>3. QED
    BY <1>a, <2>2 DEF MarkedIsHeard
<1> HIDE DEF s
<1>8. Carries(s, e, {})
  <2>1. Carries(s, s, {})
    BY <1>5 DEF Carries
  <2>2. Carries(s, EmitUpdate(s, entry), {})
    BY <1>a, <1>1, <1>3, <1>5, UpdateCarried
  <2>3. QED
    BY <2>1, <2>2
<1>9. \A r \in Run : status[r] = "over" => s.ledgers[r] = updates[r]
  BY <1>1, <1>4, <1>5
<1>10. /\ pending' \in Seq(Announcements) /\ CompletesOnce(pending')
       /\ Completes(pending') <=> Completes(pending)
  BY <1>a, <1>1, <1>3, UpdateWithheld DEF OneCompletion, DeliveryTypes
<1>11. NudgedIn(told', cur) <=> NudgedIn(told, cur)
  BY <1>1, <1>5, <1>8 DEF Carries
<1>12. OneCompletion'
  BY <1>a, <1>b, <1>1, <1>10, <1>11 DEF OneCompletion, Idle, runVars, Run
<1>13. reporting' \in 0 .. MaxRuns /\ parentActive' \in BOOLEAN
  BY <1>a, <1>1 DEF DeliveryTypes
<1> HIDE DEF e
<1>14. CarrierInv'
  BY <1>1, <1>5, <1>7, <1>8, <1>9, <1>10, <1>12, <1>13, CarryStep
<1>15. /\ \A r \in Run : ToldIn(told', r) <=> ToldIn(told, r)
       /\ \A r \in Run : ReturnedIn(told', r) <=> ReturnedIn(told, r)
  BY <1>1, <1>5, <1>8 DEF Carries, ToldIn
<1>16. QED
  BY <1>1, <1>10, <1>14, <1>15

(* What was withheld for the parent's agent run is said when that ends.    *)
LEMMA SettleStep ==
  ASSUME CarrierInv, ParentSettles
  PROVE  /\ CarrierInv'
         /\ \A r \in Run : ReturnedIn(told', r) <=> ReturnedIn(told, r)
         /\ \A r \in Run : NudgedIn(told, r) => NudgedIn(told', r)
         /\ OwesNudge /\ Completes(pending) => NudgedIn(told', cur)
<1>a. /\ DeliveryTypes /\ OneAfterAnother /\ CallsAwaitRuns /\ OneCompletion
      /\ ToldIsOver /\ MarkedIsHeard /\ OneCarrierIn(told)
  BY DEF CarrierInv
<1>b. cur \in Nat /\ (cur # 0 => cur \in Run) /\ 0 \notin Run
  BY <1>a DEF DeliveryTypes, Run
<1> DEFINE ends == IF Completes(pending) THEN EndsTold ELSE {}
<1>1. /\ Idle /\ pending' = <<>> /\ parentActive' = FALSE
      /\ updates' = Flush(Unsent).ledgers /\ told' = Flush(Unsent).told
      /\ UNCHANGED <<runVars, claims, consumed, disposed, call, reporting>>
  BY DEF ParentSettles, Becomes
<1>2. Carries(Unsent, Flush(Unsent), ends)
  BY <1>a, UnsentMarksHeard, FlushCarried DEF OneCompletion
<1>3. ends \in SUBSET Run /\ \A r \in ends : status[r] = "over" /\ ~ToldIn(told, r)
  BY <1>a, <1>b DEF OneCompletion, EndsTold, OwesNudge, ToldIn, ToldIsOver
<1>4. pending' \in Seq(Announcements) /\ reporting' \in 0 .. MaxRuns
  BY <1>a, <1>1 DEF DeliveryTypes
<1>5. OneCompletion'
  BY <1>a, EmptyCompletesNothing, <1>1 DEF OneCompletion, Idle, runVars
<1>6. OwesNudge /\ Completes(pending) => ends = {cur} /\ cur \in Run
  BY <1>a, <1>b DEF OneCompletion, EndsTold
<1> HIDE DEF ends
<1>7. CarrierInv'
  BY UnsentMarksHeard, <1>1, <1>2, <1>3, <1>4, <1>5, CarryStep
<1>8. /\ \A r \in Run : ReturnedIn(told', r) <=> ReturnedIn(told, r)
      /\ \A r \in Run : NudgedIn(told, r) => NudgedIn(told', r)
      /\ OwesNudge /\ Completes(pending) => NudgedIn(told', cur)
  BY UnsentMarksHeard, <1>1, <1>2, <1>6 DEF Carries
<1>9. QED
  BY <1>7, <1>8

-----------------------------------------------------------------------------
LEMMA CarrierInvInitially == Init => CarrierInv
<1> SUFFICES ASSUME Init PROVE CarrierInv
  OBVIOUS
<1> USE DEF Init
<1>1. DeliveryTypes
  <2>1. /\ <<>> \in Ledgers /\ <<>> \in Seq(Announcements) /\ <<>> \in Seq(Notes)
        /\ 0 \in 0 .. MaxRuns
    BY MaxRunsAssumption DEF Ledgers
  <2>2. QED
    BY <2>1 DEF DeliveryTypes, CallRecords
<1>2. OneAfterAnother /\ CallsAwaitRuns
  BY DEF OneAfterAnother, CallsAwaitRuns, InProgress, Run
<1>3. OneCompletion
  BY DEF OneCompletion, CompletesOnce, Completes, Idle
<1>4. ToldIsOver /\ MarkedIsHeard /\ OneCarrierIn(told)
  BY DEF ToldIsOver, MarkedIsHeard, OneCarrierIn, NudgedIn, ReturnedIn, Run
<1>5. QED
  BY <1>1, <1>2, <1>3, <1>4 DEF CarrierInv

LEMMA CarrierInvStep ==
  ASSUME CarefulResumes, CarrierInv, [Next]_vars
  PROVE  CarrierInv'
<1> USE MaxRunsAssumption
<1>0. /\ DeliveryTypes /\ OneAfterAnother /\ CallsAwaitRuns /\ OneCompletion
      /\ ToldIsOver /\ MarkedIsHeard /\ OneCarrierIn(told)
  BY DEF CarrierInv
<1>a. "resume_undelivered" \notin Rash /\ "resume_withheld" \notin Rash
  BY DEF CarefulResumes
<1>b. 1 \in Run /\ \A r \in Run : r \in Nat
  BY DEF Run
<1>c. cur \in Nat /\ (cur # 0 => cur \in Run)
  BY <1>0 DEF DeliveryTypes, Run
<1>e. ASSUME cur = 0 PROVE pending = <<>> /\ Idle /\ ~NudgedIn(told, 1) /\ status[1] = "unborn"
  BY <1>0, <1>b, <1>e DEF OneCompletion, Idle, ToldIsOver, OneAfterAnother
<1>f. ~Completes(<<>>) /\ CompletesOnce(<<>>)
  BY DEF Completes, CompletesOnce
<1>1. CASE SpawnBackground
  <2> USE <1>1 DEF SpawnBackground
  <2>1. DeliveryTypes' /\ OneAfterAnother' /\ CallsAwaitRuns'
    BY <1>0, <1>b DEF DeliveryTypes, OneAfterAnother, CallsAwaitRuns, InProgress,
       deliveryVars, managerVars, Run
  <2>2. OneCompletion'
    BY <1>0, <1>e, <1>f DEF OneCompletion, Idle, deliveryVars, managerVars
  <2>3. QED
    BY <2>1, <2>2, <1>b, <1>e, <1>0, QuietStep DEF deliveryVars, DeliveryTypes
<1>2. ASSUME NEW c \in Call, SpawnForeground(c) PROVE CarrierInv'
  <2> USE <1>2 DEF SpawnForeground
  <2>1. DeliveryTypes'
    BY <1>0, <1>b DEF DeliveryTypes, CallRecords, managerVars
  <2>2. OneAfterAnother' /\ CallsAwaitRuns'
    BY <1>0, <1>b DEF DeliveryTypes, OneAfterAnother, CallsAwaitRuns, InProgress, Run
  <2>3. OneCompletion'
    BY <1>0, <1>e, <1>f DEF OneCompletion, Idle, managerVars
  <2>4. QED
    BY <2>1, <2>2, <2>3, <1>b, <1>e, <1>0, QuietStep DEF DeliveryTypes
<1>3. ASSUME NEW c \in Call, SpawnForegroundCancelled(c) PROVE CarrierInv'
  <2> USE <1>3 DEF SpawnForegroundCancelled
  <2>0. pending' \in Seq(Announcements) /\ CompletesOnce(pending')
    BY <1>0, CompletionWithheld DEF OneCompletion
  <2>1. DeliveryTypes'
    BY <1>0, <1>b, <2>0 DEF DeliveryTypes, CallRecords
  <2>2. OneAfterAnother' /\ CallsAwaitRuns'
    BY <1>0, <1>b DEF DeliveryTypes, OneAfterAnother, CallsAwaitRuns, InProgress, Run
  <2>3. OneCompletion'
    BY <1>0, <1>b, <1>e, <2>0 DEF OneCompletion, Idle, DeliveryTypes
  <2>4. QED
    BY <2>1, <2>2, <2>3, <1>b, <1>e, <1>0, QuietStep DEF DeliveryTypes
<1>4. ASSUME ResumeAllowed
      PROVE  /\ cur + 1 \in Run /\ cur \in Run /\ status[cur] = "over" /\ pending = <<>>
             /\ Idle /\ ~NudgedIn(told, cur + 1) /\ status[cur + 1] = "unborn"
             /\ \A c \in Call : call[c].doing \notin {"foreground", "resume"}
  <2>1. /\ cur + 1 \in Run /\ cur \in Run /\ Idle /\ status[cur] = "over" /\ pending = <<>>
        /\ \A c \in Call : call[c].doing \notin {"foreground", "resume"}
    BY <1>4, <1>a DEF ResumeAllowed, Delivered, Run
  <2>2. status[cur + 1] = "unborn"
    BY <2>1, <1>0, <1>c DEF OneAfterAnother
  <2>3. QED
    BY <2>1, <2>2, <1>0 DEF ToldIsOver
<1>5. CASE ResumeBackground
  <2> USE <1>5 DEF ResumeBackground
  <2>1. DeliveryTypes'
    BY <1>0, <1>4, <1>c DEF DeliveryTypes, managerVars, Run
  <2>2. OneAfterAnother' /\ CallsAwaitRuns'
    BY <1>0, <1>4, <1>b, <1>c DEF DeliveryTypes, OneAfterAnother, CallsAwaitRuns, InProgress
  <2>3. OneCompletion'
    BY <1>4, <1>f, <1>c DEF OneCompletion, Idle, managerVars
  <2>4. QED
    BY <2>1, <2>2, <2>3, <1>4, <1>0, QuietStep DEF DeliveryTypes
<1>6. ASSUME NEW c \in Call, ResumeForeground(c) PROVE CarrierInv'
  <2> USE <1>6 DEF ResumeForeground
  <2>1. DeliveryTypes'
    BY <1>0, <1>4, <1>c DEF DeliveryTypes, CallRecords, managerVars, Run
  <2>2. OneAfterAnother' /\ CallsAwaitRuns'
    BY <1>0, <1>4, <1>b, <1>c DEF DeliveryTypes, OneAfterAnother, CallsAwaitRuns, InProgress
  <2>3. OneCompletion'
    BY <1>4, <1>f, <1>c DEF OneCompletion, Idle, managerVars
  <2>4. QED
    BY <2>1, <2>2, <2>3, <1>4, <1>0, QuietStep DEF DeliveryTypes
<1>7. CASE Start
  <2> USE <1>7 DEF Start
  <2>1. /\ cur \in Run /\ status[cur] = "queued" /\ ~Completes(pending) /\ Idle
        /\ \E st \in {"running", "stopping"} : status' = [status EXCEPT ![cur] = st]
    BY <1>0, <1>c DEF OneCompletion
  <2>2. DeliveryTypes' /\ OneAfterAnother' /\ CallsAwaitRuns'
    BY <1>0, <2>1 DEF DeliveryTypes, OneAfterAnother, CallsAwaitRuns, InProgress,
       deliveryVars, managerVars
  <2>3. OneCompletion'
    BY <1>0, <2>1 DEF OneCompletion, Idle, managerVars
  <2>4. QED
    BY <2>1, <2>2, <2>3, <1>0, QuietStep DEF DeliveryTypes, deliveryVars
<1>8. CASE SessionReady
  <2> USE <1>8 DEF SessionReady
  <2>1. DeliveryTypes' /\ OneAfterAnother' /\ CallsAwaitRuns' /\ OneCompletion'
    BY <1>0 DEF DeliveryTypes, OneAfterAnother, CallsAwaitRuns, InProgress, OneCompletion,
       Idle, deliveryVars, managerVars
  <2>2. QED
    BY <2>1, <1>0, QuietStep DEF deliveryVars
<1>9. CASE Abort
  <2> USE <1>9 DEF Abort
  <2>1. /\ cur \in Run /\ status[cur] \in {"queued", "running"} /\ ~Completes(pending) /\ Idle
        /\ ~NudgedIn(told, cur)
    BY <1>0, <1>c DEF OneCompletion, ToldIsOver, Active
  <2>2. DeliveryTypes' /\ OneAfterAnother' /\ CallsAwaitRuns'
    BY <1>0, <2>1 DEF DeliveryTypes, OneAfterAnother, CallsAwaitRuns, InProgress,
       deliveryVars, managerVars
  <2>3. OneCompletion'
    BY <1>0, <1>c, <2>1 DEF OneCompletion, Idle, managerVars, DeliveryTypes
  <2>4. QED
    BY <2>1, <2>2, <2>3, <1>0, QuietStep DEF DeliveryTypes, deliveryVars
<1>10. ASSUME NEW r \in Run, Finish(r) PROVE CarrierInv'
  <2> USE <1>10 DEF Finish
  <2>1. r = cur
    BY <1>0, <1>b, <1>c DEF OneAfterAnother
  <2>2. ~Completes(pending) /\ Idle /\ ~NudgedIn(told, cur) /\ cur # 0
    BY <1>0, <1>b, <2>1 DEF OneCompletion, ToldIsOver, Run
  <2>3. DeliveryTypes' /\ OneAfterAnother' /\ CallsAwaitRuns'
    BY <1>0, <2>1 DEF DeliveryTypes, OneAfterAnother, CallsAwaitRuns, InProgress,
       deliveryVars, managerVars
  <2>4. OneCompletion'
    BY <1>0, <1>c, <2>1, <2>2 DEF OneCompletion, Idle, managerVars, DeliveryTypes
  <2>5. QED
    BY <2>3, <2>4, <1>0, QuietStep DEF DeliveryTypes, deliveryVars
<1>11. ASSUME NEW c \in Call, WaitBegins(c) PROVE CarrierInv'
  <2> USE <1>11 DEF WaitBegins
  <2>1. DeliveryTypes'
    BY <1>0, <1>c DEF DeliveryTypes, CallRecords, runVars, managerVars
  <2>2. OneAfterAnother' /\ CallsAwaitRuns' /\ OneCompletion'
    BY <1>0, <1>c DEF DeliveryTypes, OneAfterAnother, CallsAwaitRuns, InProgress, OneCompletion,
       Idle, runVars, managerVars
  <2>3. QED
    BY <2>1, <2>2, <1>0, QuietStep DEF runVars
<1>12. CASE ParentStarts \/ Dispose
  <2>1. /\ UNCHANGED <<runVars, deliveryVars, call, reporting, told>>
        /\ pending' \in {pending, <<>>}
        /\ parentActive' \in {parentActive, TRUE} /\ disposed' \in {disposed, TRUE}
    BY <1>12 DEF ParentStarts, Dispose
  <2>2. DeliveryTypes' /\ OneAfterAnother' /\ CallsAwaitRuns' /\ OneCompletion'
    <3>0. pending' \in Seq(Announcements) /\ parentActive' \in BOOLEAN /\ disposed' \in BOOLEAN
      <4>1. <<>> \in Seq(Announcements)
        OBVIOUS
      <4>2. QED
        BY <1>0, <2>1, <4>1 DEF DeliveryTypes
    <3>1. DeliveryTypes'
      BY <1>0, <2>1, <3>0 DEF DeliveryTypes, runVars, deliveryVars
    <3>2. OneAfterAnother' /\ CallsAwaitRuns'
      BY <1>0, <2>1 DEF OneAfterAnother, CallsAwaitRuns, InProgress, runVars
    <3>3. OneCompletion'
      BY <1>0, <1>f, <2>1 DEF OneCompletion, Idle, runVars
    <3>4. QED
      BY <3>1, <3>2, <3>3
  <2>3. QED
    BY <2>1, <2>2, <1>0, QuietStep DEF runVars, deliveryVars
<1>13. ASSUME NEW c \in Call, Done(c)
       PROVE  /\ call' \in [Call -> CallRecords] /\ ~InProgress(c)'
              /\ \A d \in Call : InProgress(d)' => call'[d] = call[d]
              /\ cur' = cur => CallsAwaitRuns'
  BY <1>0, <1>13 DEF Done, InProgress, CallsAwaitRuns, DeliveryTypes, CallRecords
<1>14. ASSUME NEW c \in Call, Return(c) PROVE CarrierInv'
  <2>1. cur \in Run
    BY <1>0, <1>c, <1>14 DEF Return, CallsAwaitRuns, InProgress
  <2>2. /\ consumed' \in [Run -> BOOLEAN] /\ \A q \in Run : consumed[q] => consumed'[q]
        /\ consumed'[cur] /\ claims' \in [Run -> SUBSET (Call \cup {Outsider})]
    BY <1>0, <1>14, <2>1 DEF Return, DeliveryTypes
  <2>3. QED
    BY <1>13, <1>14, <2>1, <2>2, ReportStep DEF Return, runVars
<1>15. ASSUME NEW r \in Run, Report(r), claims' \in [Run -> SUBSET (Call \cup {Outsider})],
              NEW c \in Call, Done(c), UNCHANGED <<runVars, updates, managerVars, reporting>>
       PROVE  CarrierInv'
  <2>1. /\ consumed' \in [Run -> BOOLEAN] /\ \A q \in Run : consumed[q] => consumed'[q]
        /\ status[r] = "over" => consumed'[r]
    BY <1>0, <1>15 DEF Report, Active, DeliveryTypes
  <2>2. QED
    BY <1>13, <1>15, <2>1, ReportStep DEF Report, runVars
<1>16. ASSUME NEW c \in Call, Pull(c) PROVE CarrierInv'
  <2>1. cur \in Run /\ claims' \in [Run -> SUBSET (Call \cup {Outsider})]
    BY <1>0, <1>c, <1>16 DEF Pull, DeliveryTypes
  <2>2. QED
    BY <2>1, <1>15, <1>16 DEF Pull
<1>17. ASSUME NEW c \in Call, WaitReturns(c) PROVE CarrierInv'
  <2>1. call[c].run \in Run /\ claims' \in [Run -> SUBSET (Call \cup {Outsider})]
    BY <1>0, <1>c, <1>17 DEF WaitReturns, DeliveryTypes, CallsAwaitRuns, InProgress, Run
  <2>2. QED
    BY <2>1, <1>15, <1>17 DEF WaitReturns
<1>18. ASSUME NEW c \in Call, WaitAbandoned(c) PROVE CarrierInv'
  <2>1. call[c].run \in Run
    BY <1>0, <1>c, <1>18 DEF WaitAbandoned, DeliveryTypes, CallsAwaitRuns, InProgress, Run
  <2>2. claims' \in [Run -> SUBSET (Call \cup {Outsider})]
    BY <1>0, <2>1, <1>18 DEF WaitAbandoned, Release, DeliveryTypes
  <2>3. QED
    BY <2>1, <2>2, <1>15, <1>18 DEF WaitAbandoned
<1>20. CASE Notify
  BY <1>20, NotifyStep
<1>21. ASSUME NEW m \in Message, ChildUpdate(m) PROVE CarrierInv'
  BY <1>21, UpdateStep
<1>22. CASE ParentSettles
  BY <1>22, SettleStep
<1>23. CASE UNCHANGED vars
  BY <1>0, <1>23, QuietStep DEF vars, runVars, deliveryVars, managerVars, DeliveryTypes,
     OneAfterAnother, CallsAwaitRuns, InProgress, OneCompletion, Idle
<1>24. QED
  BY <1>1, <1>2, <1>3, <1>5, <1>6, <1>7, <1>8, <1>9, <1>10, <1>11, <1>12, <1>14, <1>16,
     <1>17, <1>18, <1>20, <1>21, <1>22, <1>23 DEF Next

-----------------------------------------------------------------------------
THEOREM CarrierInvariant ==
  ASSUME CarefulResumes
  PROVE  Spec => []CarrierInv
<1>1. CarrierInv /\ [Next]_vars => CarrierInv'
  BY CarrierInvStep
<1>2. QED
  BY CarrierInvInitially, <1>1, PTL DEF Spec

(* The history's predicates, by their two names.                           *)
LEMMA HistoryNames ==
  /\ \A r : Told(r) <=> ToldIn(told, r)
  /\ \A u : Heard(u) <=> HeardIn(told, u)
  /\ OneCarrier <=> OneCarrierIn(told)
BY DEF Told, ToldIn, Nudged, NudgedIn, Returned, ReturnedIn, Heard, HeardIn, OneCarrier,
   OneCarrierIn

(* A run's outcome is announced at most once, and never after a tool call  *)
(* has returned it.                                                        *)
THEOREM EveryOutcomeHasOneCarrier ==
  ASSUME CarefulResumes
  PROVE  Spec => []OneCarrier
<1>1. CarrierInv => OneCarrier
  BY HistoryNames DEF CarrierInv
<1>2. QED
  BY <1>1, CarrierInvariant, PTL

-----------------------------------------------------------------------------
LEMMA OutcomeInvInitially == Init => OutcomeInv
<1> SUFFICES ASSUME Init PROVE OutcomeInv
  OBVIOUS
<1>1. CollectedIsTold /\ ClaimsAreKept /\ EndsAreCarried
  BY DEF Init, CollectedIsTold, ClaimsAreKept, EndsAreCarried
<1>2. WithinTheTurn
  BY DEF Init, WithinTheTurn, InProgress
<1>3. QED
  BY <1>1, <1>2 DEF OutcomeInv

(* A call that has not been made has no claim.                             *)
LEMMA UnusedClaimsNothing ==
  ASSUME OutcomeInv, NEW c \in Call, call[c].doing = "unused"
  PROVE  ~InProgress(c) /\ \A r \in Run : c \notin claims[r]
<1>1. c # Outsider
  BY DEF Call, Outsider
<1>2. QED
  BY <1>1 DEF OutcomeInv, ClaimsAreKept, InProgress

(* The report of call c on run r: an active run's is preliminary, and a    *)
(* call that was waiting for r ends its claim with it, or leaves it for    *)
(* the outcome it has told.                                                *)
LEMMA ReportCarries ==
  ASSUME CarrierInv, OutcomeInv, NEW r \in Run, Tell(r), NEW c \in Call, Done(c),
         InProgress(c) => call[c].run = r,
         \A q \in Run : consumed'[q] => consumed[q] \/ (q = r /\ status[r] = "over"),
         \/ claims' = claims /\ (call[c].doing = "unused" \/ (InProgress(c) /\ status[r] = "over"))
         \/ Release(c, r) /\ InProgress(c) /\ status[r] # "over",
         UNCHANGED <<runVars, updates, managerVars, reporting>>
  PROVE  OutcomeInv'
<1>0. /\ DeliveryTypes /\ CollectedIsTold /\ ClaimsAreKept /\ WithinTheTurn /\ EndsAreCarried
  BY DEF CarrierInv, OutcomeInv
<1>1. /\ \A q : NudgedIn(told', q) <=> NudgedIn(told, q)
      /\ \A q : ReturnedIn(told', q) <=> ReturnedIn(told, q) \/ (q = r /\ status[r] = "over")
  BY <1>0, ReportTold
<1>2. CollectedIsTold'
  BY <1>0, <1>1 DEF CollectedIsTold
<1>3. /\ \A d \in Call \ {c} : call'[d] = call[d] /\ (InProgress(d)' <=> InProgress(d))
      /\ call'[c].run = call[c].run /\ call'[c].doing = "done" /\ ~InProgress(c)'
  BY <1>0 DEF Done, InProgress, DeliveryTypes, CallRecords
<1>4. \A q \in Run : claims'[q] \subseteq claims[q] /\ claims[q] \subseteq claims'[q] \cup {c}
  BY <1>0 DEF Release, DeliveryTypes
<1>5. c # Outsider /\ \A q \in Run : claims[q] \subseteq Call \cup {Outsider}
  BY <1>0 DEF Call, Outsider, DeliveryTypes
<1>6. ASSUME NEW q \in Run, c \in claims[q]
      PROVE  call[c].run = q /\ (InProgress(c) => q = r)
             /\ (InProgress(c) \/ (call[c].doing = "done" /\ ReturnedIn(told, q)))
  BY <1>0, <1>5, <1>6 DEF ClaimsAreKept
<1>7. ClaimsAreKept'
  <2>1. SUFFICES ASSUME NEW q \in Run, NEW d \in claims'[q] \ {Outsider}
                 PROVE  /\ call'[d].run = q
                        /\ InProgress(d)' \/ (call'[d].doing = "done" /\ ReturnedIn(told', q))
    BY DEF ClaimsAreKept
  <2>2. d \in claims[q] /\ d \in Call
    BY <1>4, <1>5
  <2>3. CASE d # c
    BY <2>2, <2>3, <1>0, <1>1, <1>3 DEF ClaimsAreKept
  <2>4. CASE d = c
    <3>1. call[c].run = q /\ (InProgress(c) => q = r)
      BY <2>2, <2>4, <1>6
    <3>2. CASE Release(c, r) /\ InProgress(c)
      <4>1. claims'[r] = claims[r] \ {c}
        BY <3>2, <1>0 DEF Release, DeliveryTypes
      <4>2. QED
        BY <4>1, <3>1, <3>2, <2>4
    <3>3. CASE claims' = claims
      <4>1. ~(call[c].doing = "unused")
        BY <2>2, <2>4, UnusedClaimsNothing
      <4>2. CASE InProgress(c) /\ status[r] = "over"
        BY <3>1, <4>2, <2>4, <1>1, <1>3
      <4>3. QED
        BY <4>1, <4>2, <3>2
    <3>4. QED
      BY <3>2, <3>3
  <2>5. QED
    BY <2>3, <2>4
<1>8. WithinTheTurn'
  <2>1. \A d \in Call : InProgress(d)' => InProgress(d)
    BY <1>3
  <2>2. QED
    BY <1>0, <2>1 DEF WithinTheTurn, managerVars
<1>9. EndsAreCarried'
  <2>1. SUFFICES ASSUME ~disposed, NEW q \in Run, status[q] = "over"
                 PROVE  ToldIn(told', q) \/ Outsider \in claims'[q] \/ OnItsWay(q)'
    BY DEF EndsAreCarried, runVars, managerVars
  <2>2. ToldIn(told, q) \/ Outsider \in claims[q] \/ OnItsWay(q)
    BY <1>0, <2>1 DEF EndsAreCarried
  <2>3. ToldIn(told, q) => ToldIn(told', q)
    BY <1>1 DEF ToldIn
  <2>4. Outsider \in claims[q] => Outsider \in claims'[q]
    BY <1>4, <1>5
  <2>5. CASE OnItsWay(q)
    <3>1. CASE \E d \in claims[q] \ {Outsider} : InProgress(d)
      <4>1. PICK d \in claims[q] \ {Outsider} : InProgress(d)
        BY <3>1
      <4>2. CASE d = c
        <5>1. q = r /\ InProgress(c)
          BY <4>1, <4>2, <1>6
        <5>2. ReturnedIn(told', q)
          BY <5>1, <2>1, <1>1
        <5>3. QED
          BY <5>2 DEF ToldIn
      <4>3. CASE d # c
        <5>1. d \in Call /\ d \in claims'[q]
          BY <4>1, <4>3, <1>4, <1>5
        <5>2. InProgress(d)'
          BY <5>1, <4>1, <4>3, <1>3
        <5>3. q = cur'
          BY <2>5 DEF OnItsWay, runVars
        <5>4. OnItsWay(q)'
          BY <5>1, <5>2, <5>3, <4>1 DEF OnItsWay
        <5>5. QED
          BY <5>4
      <4>4. QED
        BY <4>2, <4>3
    <3>2. CASE ~ \E d \in claims[q] \ {Outsider} : InProgress(d)
      BY <3>2, <2>5 DEF OnItsWay, runVars, managerVars
    <3>3. QED
      BY <3>1, <3>2
  <2>6. QED
    BY <2>2, <2>3, <2>4, <2>5
<1>10. QED
  BY <1>2, <1>7, <1>8, <1>9 DEF OutcomeInv

LEMMA OutcomeInvStep ==
  ASSUME CarefulResumes, CollectsWhenOver, CarrierInv, CarrierInv', OutcomeInv, [Next]_vars
  PROVE  OutcomeInv'
<1>0. /\ DeliveryTypes /\ OneAfterAnother /\ CallsAwaitRuns /\ OneCompletion /\ ToldIsOver
      /\ CollectedIsTold /\ ClaimsAreKept /\ WithinTheTurn /\ EndsAreCarried
  BY DEF CarrierInv, OutcomeInv
<1>a. "resume_undelivered" \notin Rash /\ "collect_unwinding" \notin Rash
  BY DEF CarefulResumes, CollectsWhenOver
<1>b. cur \in Nat /\ (cur # 0 => cur \in Run) /\ \A r \in Run : r \in Nat /\ r # 0
  BY <1>0 DEF DeliveryTypes, Run
<1>c. ASSUME cur = 0, NEW r \in Run PROVE status[r] = "unborn"
  BY <1>b, <1>c, <1>0 DEF OneAfterAnother
<1>d. \A c \in Call : c # Outsider
  BY DEF Call, Outsider
<1>1. CASE SpawnBackground
  <2>1. /\ \A r \in Run : status'[r] # "over"
        /\ UNCHANGED <<deliveryVars, managerVars, call, told>>
    BY <1>0, <1>1, <1>c DEF SpawnBackground, DeliveryTypes
  <2>2. QED
    BY <1>0, <2>1 DEF OutcomeInv, CollectedIsTold, ClaimsAreKept, WithinTheTurn, EndsAreCarried,
       InProgress, deliveryVars, managerVars
<1>2. ASSUME NEW c \in Call, call[c].doing = "unused", NEW r \in Run, parentActive' = parentActive,
             parentActive, claims' = [claims EXCEPT ![r] = {c}],
             call'[c].doing \in {"foreground", "resume"}, call'[c].run = r,
             \A d \in Call \ {c} : call'[d] = call[d],
             consumed' = consumed, told' = told
      PROVE  CollectedIsTold' /\ ClaimsAreKept' /\ WithinTheTurn' /\ InProgress(c)'
             /\ claims'[r] = {c} /\ \A q \in Run \ {r} : claims'[q] = claims[q]
  <2>1. claims'[r] = {c} /\ \A q \in Run \ {r} : claims'[q] = claims[q]
    BY <1>0, <1>2 DEF DeliveryTypes
  <2>2. InProgress(c)' /\ \A d \in Call \ {c} : InProgress(d)' <=> InProgress(d)
    BY <1>2 DEF InProgress
  <2>3. \A q \in Run : c \notin claims[q] /\ claims[q] \subseteq Call \cup {Outsider}
    BY <1>0, <1>2, UnusedClaimsNothing DEF DeliveryTypes
  <2>4. ClaimsAreKept'
    <3>1. SUFFICES ASSUME NEW q \in Run, NEW d \in claims'[q] \ {Outsider}
                   PROVE  /\ call'[d].run = q
                          /\ InProgress(d)' \/ (call'[d].doing = "done" /\ ReturnedIn(told', q))
      BY DEF ClaimsAreKept
    <3>2. CASE q = r
      BY <3>2, <2>1, <2>2, <1>2
    <3>3. CASE q # r
      <4>1. d \in claims[q] /\ d \in Call \ {c}
        BY <3>3, <2>1, <2>3
      <4>2. QED
        BY <4>1, <2>2, <1>0, <1>2 DEF ClaimsAreKept
    <3>4. QED
      BY <3>2, <3>3
  <2>5. CollectedIsTold' /\ WithinTheTurn'
    BY <1>0, <1>2 DEF CollectedIsTold, WithinTheTurn
  <2>6. QED
    BY <2>1, <2>2, <2>4, <2>5
<1>3. ASSUME NEW c \in Call, SpawnForeground(c) PROVE OutcomeInv'
  <2>1. /\ 1 \in Run /\ cur = 0 /\ call[c].doing = "unused" /\ parentActive
        /\ call'[c].doing = "foreground" /\ call'[c].run = 1
        /\ parentActive' = parentActive /\ claims' = [claims EXCEPT ![1] = {c}]
        /\ consumed' = consumed /\ told' = told
        /\ \A d \in Call \ {c} : call'[d] = call[d]
    BY <1>0, <1>3, MaxRunsAssumption DEF SpawnForeground, NextCall, DeliveryTypes, Run, managerVars
  <2>2. CollectedIsTold' /\ ClaimsAreKept' /\ WithinTheTurn'
    BY <1>2, <2>1
  <2>3. \A r \in Run : status'[r] # "over"
    BY <1>0, <1>3, <1>c, <2>1 DEF SpawnForeground, DeliveryTypes
  <2>4. QED
    BY <2>2, <2>3 DEF OutcomeInv, EndsAreCarried
<1>4. ASSUME NEW c \in Call, SpawnForegroundCancelled(c) PROVE OutcomeInv'
  <2>1. /\ 1 \in Run /\ cur = 0 /\ cur' = 1 /\ call[c].doing = "unused" /\ parentActive
        /\ call'[c].doing = "foreground" /\ call'[c].run = 1
        /\ parentActive' = parentActive /\ claims' = [claims EXCEPT ![1] = {c}]
        /\ consumed' = consumed /\ told' = told
        /\ \A d \in Call \ {c} : call'[d] = call[d]
    BY <1>0, <1>4, MaxRunsAssumption DEF SpawnForegroundCancelled, NextCall, DeliveryTypes, Run
  <2>2. CollectedIsTold' /\ ClaimsAreKept' /\ WithinTheTurn' /\ InProgress(c)' /\ claims'[1] = {c}
    BY <1>2, <2>1
  <2>3. \A r \in Run : status'[r] = "over" => r = 1
    BY <1>0, <1>4, <1>c, <2>1 DEF SpawnForegroundCancelled, DeliveryTypes
  <2>4. OnItsWay(1)'
    BY <1>d, <2>1, <2>2 DEF OnItsWay
  <2>5. QED
    BY <2>2, <2>3, <2>4 DEF OutcomeInv, EndsAreCarried
<1>5. ASSUME ResumeAllowed
      PROVE  /\ cur + 1 \in Run /\ cur \in Run
             /\ ~disposed => \A r \in Run : status[r] = "over" =>
                  ToldIn(told, r) \/ Outsider \in claims[r]
  <2>1. cur + 1 \in Run /\ cur \in Run /\ (Told(cur) \/ Outsider \in claims[cur])
    BY <1>5, <1>a, MaxRunsAssumption DEF ResumeAllowed, Delivered, Run
  <2>2. ToldIn(told, cur) \/ Outsider \in claims[cur]
    BY <2>1, HistoryNames
  <2>3. QED
    BY <2>1, <2>2, <1>0 DEF EndsAreCarried, OnItsWay
<1>6. CASE ResumeBackground
  <2>1. /\ cur + 1 \in Run /\ cur \in Run
        /\ claims'[cur + 1] \subseteq {Outsider} /\ status'[cur + 1] # "over"
        /\ \A r \in Run \ {cur + 1} : claims'[r] = claims[r] /\ status'[r] = status[r]
    BY <1>0, <1>5, <1>6 DEF ResumeBackground, DeliveryTypes
  <2>2. UNCHANGED <<consumed, updates, managerVars, call, reporting, told>>
    BY <1>6 DEF ResumeBackground
  <2>3. CollectedIsTold' /\ WithinTheTurn'
    BY <1>0, <2>2 DEF CollectedIsTold, WithinTheTurn, InProgress, managerVars
  <2>4. ClaimsAreKept'
    BY <1>0, <2>1, <2>2 DEF ClaimsAreKept, InProgress
  <2>5. EndsAreCarried'
    BY <1>5, <1>6, <2>1, <2>2 DEF EndsAreCarried, ResumeBackground, managerVars
  <2>6. QED
    BY <2>3, <2>4, <2>5 DEF OutcomeInv
<1>7. ASSUME NEW c \in Call, ResumeForeground(c) PROVE OutcomeInv'
  <2>1. /\ cur + 1 \in Run /\ cur \in Run /\ call[c].doing = "unused" /\ parentActive
        /\ call'[c].doing = "resume" /\ call'[c].run = cur + 1
        /\ claims' = [claims EXCEPT ![cur + 1] = {c}] /\ parentActive' = parentActive
        /\ \A d \in Call \ {c} : call'[d] = call[d]
        /\ status'[cur + 1] # "over" /\ \A r \in Run \ {cur + 1} : status'[r] = status[r]
        /\ UNCHANGED <<consumed, managerVars, told>>
    BY <1>0, <1>5, <1>7 DEF ResumeForeground, NextCall, DeliveryTypes, managerVars
  <2>2. /\ CollectedIsTold' /\ ClaimsAreKept' /\ WithinTheTurn'
        /\ \A q \in Run \ {cur + 1} : claims'[q] = claims[q]
    BY <1>2, <2>1
  <2>3. EndsAreCarried'
    BY <1>5, <1>7, <2>1, <2>2 DEF EndsAreCarried, ResumeForeground, managerVars
  <2>4. QED
    BY <2>2, <2>3 DEF OutcomeInv
<1>8. ASSUME UNCHANGED <<claims, consumed, call, told>>, CollectedIsTold', WithinTheTurn', cur' = cur,
             ~disposed' => ~disposed,
             ~disposed' => \A r \in Run : status'[r] = "over" =>
               (status[r] = "over" /\ (OnItsWay(r) => OnItsWay(r)')) \/ (r = cur /\ reporting' = cur)
      PROVE  OutcomeInv'
  <2>1. ClaimsAreKept'
    BY <1>0, <1>8 DEF ClaimsAreKept, InProgress
  <2>2. EndsAreCarried'
    BY <1>0, <1>8 DEF EndsAreCarried, OnItsWay
  <2>3. QED
    BY <1>8, <2>1, <2>2 DEF OutcomeInv
<1>9. CASE Start \/ SessionReady
  <2>1. /\ UNCHANGED <<cur, deliveryVars, managerVars, call, reporting, told>>
        /\ \A r \in Run : status'[r] = "over" => status[r] = "over"
    BY <1>0, <1>9 DEF Start, SessionReady, DeliveryTypes
  <2>2. CollectedIsTold' /\ WithinTheTurn' /\ \A r \in Run : OnItsWay(r)' <=> OnItsWay(r)
    BY <1>0, <2>1 DEF CollectedIsTold, WithinTheTurn, OnItsWay, InProgress, deliveryVars,
       managerVars
  <2>3. QED
    BY <1>8, <2>1, <2>2 DEF deliveryVars, managerVars
<1>10. ASSUME Abort \/ \E r \in Run : Finish(r) PROVE OutcomeInv'
  <2>1. UNCHANGED <<cur, deliveryVars, managerVars, call, told>> /\ Idle
    BY <1>10 DEF Abort, Finish
  <2>2. /\ reporting' = reporting \/ reporting' = cur
        /\ \A r \in Run : status'[r] = "over" => status[r] = "over" \/ (r = cur /\ reporting' = cur)
    <3>1. CASE Abort
      BY <3>1, <1>0 DEF Abort, DeliveryTypes
    <3>2. ASSUME NEW r \in Run, Finish(r)
          PROVE  r = cur /\ reporting' = cur
                 /\ \A q \in Run : status'[q] = "over" => status[q] = "over" \/ q = cur
      <4>1. status[r] \in {"running", "stopping"} /\ reporting' = r
            /\ status' = [status EXCEPT ![r] = "over"]
        BY <3>2 DEF Finish
      <4>2. r = cur
        BY <4>1, <1>0, <1>b DEF OneAfterAnother
      <4>3. \A q \in Run : status'[q] = IF q = r THEN "over" ELSE status[q]
        BY <4>1, <1>0 DEF DeliveryTypes
      <4>4. QED
        BY <4>1, <4>2, <4>3
    <3>3. QED
      BY <1>10, <3>1, <3>2
  <2>3. CollectedIsTold' /\ WithinTheTurn' /\ \A r \in Run : OnItsWay(r) => OnItsWay(r)'
    BY <1>0, <1>b, <2>1, <2>2 DEF CollectedIsTold, WithinTheTurn, OnItsWay, InProgress, Idle,
       deliveryVars, managerVars
  <2>4. QED
    BY <1>8, <2>1, <2>2, <2>3 DEF deliveryVars, managerVars
<1>11. ASSUME NEW c \in Call, WaitBegins(c) PROVE OutcomeInv'
  <2>1. /\ cur \in Run /\ call[c].doing = "unused" /\ parentActive
        /\ call'[c] = [doing |-> "wait", run |-> cur]
        /\ \A d \in Call \ {c} : call'[d] = call[d]
        /\ claims'[cur] = claims[cur] \cup {c}
        /\ \A r \in Run \ {cur} : claims'[r] = claims[r]
        /\ UNCHANGED <<runVars, consumed, updates, managerVars, reporting, told>>
    BY <1>0, <1>b, <1>11 DEF WaitBegins, NextCall, DeliveryTypes
  <2>2. InProgress(c)' /\ \A d \in Call \ {c} : InProgress(d)' <=> InProgress(d)
    BY <2>1 DEF InProgress
  <2>3. /\ \A q \in Run : c \notin claims[q] /\ claims[q] \subseteq Call \cup {Outsider}
    BY <1>0, <2>1, UnusedClaimsNothing DEF DeliveryTypes
  <2>4. ClaimsAreKept'
    <3>1. SUFFICES ASSUME NEW q \in Run, NEW d \in claims'[q] \ {Outsider}
                   PROVE  /\ call'[d].run = q
                          /\ InProgress(d)' \/ (call'[d].doing = "done" /\ ReturnedIn(told', q))
      BY DEF ClaimsAreKept
    <3>2. CASE d = c
      BY <3>2, <2>1, <2>2, <2>3
    <3>3. CASE d # c
      <4>1. d \in claims[q] /\ d \in Call \ {c}
        BY <3>3, <2>1, <2>3
      <4>2. QED
        BY <4>1, <2>1, <2>2, <1>0 DEF ClaimsAreKept
    <3>4. QED
      BY <3>2, <3>3
  <2>5. CollectedIsTold' /\ WithinTheTurn'
    BY <1>0, <2>1 DEF CollectedIsTold, WithinTheTurn, managerVars
  <2>6. \A r \in Run : OnItsWay(r) => OnItsWay(r)'
    BY <2>1, <2>2, <2>3 DEF OnItsWay, runVars, managerVars
  <2>7. EndsAreCarried'
    BY <1>0, <2>1, <2>6 DEF EndsAreCarried, runVars, managerVars
  <2>8. QED
    BY <2>4, <2>5, <2>7 DEF OutcomeInv
<1>12. CASE ParentStarts
  <2>1. /\ UNCHANGED <<runVars, deliveryVars, pending, disposed, call, reporting, told>>
        /\ parentActive'
    BY <1>12 DEF ParentStarts
  <2>2. CollectedIsTold' /\ WithinTheTurn' /\ \A r \in Run : OnItsWay(r) => OnItsWay(r)'
    BY <1>0, <2>1 DEF CollectedIsTold, WithinTheTurn, OnItsWay, InProgress, runVars, deliveryVars
  <2>3. QED
    BY <1>8, <2>1, <2>2 DEF runVars, deliveryVars
<1>22. CASE Dispose
  <2>1. /\ UNCHANGED <<runVars, deliveryVars, parentActive, call, reporting, told>>
        /\ disposed' /\ pending' = <<>>
    BY <1>22 DEF Dispose
  <2>2. CollectedIsTold' /\ WithinTheTurn'
    BY <1>0, <2>1 DEF CollectedIsTold, WithinTheTurn, InProgress, deliveryVars
  <2>3. QED
    BY <1>8, <2>1, <2>2 DEF runVars, deliveryVars
<1>13. ASSUME NEW c \in Call, Return(c) PROVE OutcomeInv'
  <2>1. /\ cur \in Run /\ InProgress(c) /\ call[c].run = cur /\ status[cur] = "over"
        /\ Tell(cur) /\ Done(c) /\ consumed' = [consumed EXCEPT ![cur] = TRUE]
        /\ UNCHANGED <<runVars, claims, updates, managerVars, reporting>>
    BY <1>0, <1>b, <1>13 DEF Return, CallsAwaitRuns, InProgress
  <2>2. \A q \in Run : consumed'[q] => consumed[q] \/ (q = cur /\ status[cur] = "over")
    BY <1>0, <2>1 DEF DeliveryTypes
  <2>3. QED
    BY <2>1, <2>2, ReportCarries
<1>14. ASSUME NEW r \in Run, r <= cur, Report(r), MayReport(r)
       PROVE  /\ Tell(r)
              /\ \A q \in Run : consumed'[q] => consumed[q] \/ (q = r /\ status[r] = "over")
  <2>1. Active(r) \/ status[r] = "over"
    <3>1. status[r] # "unborn" /\ status[r] # "stopping"
      BY <1>0, <1>a, <1>b, <1>14 DEF MayReport, OneAfterAnother
    <3>2. QED
      BY <3>1, <1>0 DEF Active, DeliveryTypes
  <2>2. QED
    BY <2>1, <1>0, <1>14 DEF Report, Active, DeliveryTypes
<1>15. ASSUME NEW c \in Call, Pull(c) PROVE OutcomeInv'
  <2>1. /\ cur \in Run /\ cur <= cur /\ call[c].doing = "unused" /\ ~InProgress(c)
        /\ Report(cur) /\ MayReport(cur) /\ Done(c)
        /\ UNCHANGED <<runVars, claims, updates, managerVars, reporting>>
    BY <1>b, <1>15 DEF Pull, NextCall, InProgress
  <2>2. QED
    BY <2>1, <1>14, ReportCarries
<1>16. ASSUME NEW c \in Call, InProgress(c) PROVE call[c].run \in Run /\ call[c].run <= cur
  <2>1. call[c].run \in 1 .. cur /\ cur \in 0 .. MaxRuns
    BY <1>0, <1>16 DEF CallsAwaitRuns, DeliveryTypes
  <2>2. QED
    BY <2>1, MaxRunsAssumption DEF Run
<1>17. ASSUME NEW c \in Call, WaitReturns(c) PROVE OutcomeInv'
  <2> DEFINE r == call[c].run
  <2>1. /\ InProgress(c) /\ ~Active(r) /\ Report(r) /\ MayReport(r) /\ Done(c)
        /\ UNCHANGED <<runVars, claims, updates, managerVars, reporting>>
    BY <1>17 DEF WaitReturns, InProgress
  <2>2. r \in Run /\ r <= cur
    BY <2>1, <1>16
  <2>3. status[r] = "over"
    BY <2>1, <2>2, <1>0, <1>a, <1>b DEF MayReport, OneAfterAnother, Active, DeliveryTypes
  <2>4. QED
    BY <2>1, <2>2, <2>3, <1>14, ReportCarries
<1>18. ASSUME NEW c \in Call, WaitAbandoned(c) PROVE OutcomeInv'
  <2> DEFINE r == call[c].run
  <2>1. /\ InProgress(c) /\ Active(r) /\ Report(r) /\ MayReport(r) /\ Done(c) /\ Release(c, r)
        /\ UNCHANGED <<runVars, updates, managerVars, reporting>>
    BY <1>18 DEF WaitAbandoned, InProgress
  <2>2. r \in Run /\ r <= cur /\ status[r] # "over"
    BY <2>1, <1>16 DEF Active
  <2>3. QED
    BY <2>1, <2>2, <1>14, ReportCarries
<1>19. ASSUME /\ UNCHANGED <<runVars, claims, consumed, disposed, call>>
              /\ \A r \in Run : ReturnedIn(told', r) <=> ReturnedIn(told, r)
       PROVE  CollectedIsTold' /\ ClaimsAreKept'
  BY <1>0, <1>19 DEF CollectedIsTold, ClaimsAreKept, InProgress
<1>20. ASSUME ~OwesNudge, cur \in Run
       PROVE  \/ ReturnedIn(told, cur) \/ Outsider \in claims[cur]
              \/ \E c \in claims[cur] \ {Outsider} : InProgress(c)
  BY <1>0, <1>20 DEF OwesNudge, CollectedIsTold, ClaimsAreKept
<1>23. CASE Notify
  <2>1. /\ UNCHANGED <<runVars, claims, consumed, disposed, call>> /\ parentActive' = parentActive
        /\ cur \in Run
    BY <1>0, <1>b, <1>23 DEF Notify, OneCompletion, Idle
  <2>2. /\ \A r \in Run : ReturnedIn(told', r) <=> ReturnedIn(told, r)
        /\ \A r \in Run : NudgedIn(told, r) => NudgedIn(told', r)
        /\ ~disposed /\ OwesNudge => NudgedIn(told', cur) \/ Completes(pending')
        /\ ~parentActive => pending' = pending
    BY <1>23, NotifyStep
  <2>3. CollectedIsTold' /\ ClaimsAreKept'
    BY <1>19, <2>1, <2>2
  <2>4. WithinTheTurn'
    BY <1>0, <2>1, <2>2 DEF WithinTheTurn, InProgress
  <2>5. ASSUME ~disposed, NEW r \in Run, status[r] = "over"
        PROVE  ToldIn(told', r) \/ Outsider \in claims'[r] \/ OnItsWay(r)'
    <3>1. CASE ToldIn(told, r) \/ Outsider \in claims[r]
      BY <3>1, <2>1, <2>2 DEF ToldIn
    <3>2. CASE OnItsWay(r)
      <4>1. r = cur /\ r = cur'
        BY <3>2, <2>1 DEF OnItsWay, runVars
      <4>2. CASE OwesNudge
        BY <4>1, <4>2, <2>2, <2>5 DEF ToldIn, OnItsWay
      <4>3. CASE ~OwesNudge
        BY <4>1, <4>3, <1>20, <2>1, <2>2 DEF ToldIn, OnItsWay, InProgress
      <4>4. QED
        BY <4>2, <4>3
    <3>3. QED
      BY <3>1, <3>2, <2>5, <1>0 DEF EndsAreCarried
  <2>6. QED
    BY <2>1, <2>3, <2>4, <2>5 DEF OutcomeInv, EndsAreCarried, runVars
<1>24. ASSUME NEW m \in Message, ChildUpdate(m) PROVE OutcomeInv'
  <2>1. UNCHANGED <<runVars, claims, consumed, disposed, call, parentActive, reporting>>
    BY <1>24 DEF ChildUpdate
  <2>2. /\ \A r \in Run : ToldIn(told', r) <=> ToldIn(told, r)
        /\ \A r \in Run : ReturnedIn(told', r) <=> ReturnedIn(told, r)
        /\ Completes(pending') <=> Completes(pending)
        /\ ~parentActive => pending' = pending
    BY <1>24, UpdateStep
  <2>3. CollectedIsTold' /\ ClaimsAreKept'
    BY <1>19, <2>1, <2>2
  <2>4. WithinTheTurn'
    BY <1>0, <2>1, <2>2 DEF WithinTheTurn, InProgress
  <2>5. \A r \in Run : OnItsWay(r)' <=> OnItsWay(r)
    BY <2>1, <2>2 DEF OnItsWay, InProgress, runVars
  <2>6. EndsAreCarried'
    BY <1>0, <2>1, <2>2, <2>5 DEF EndsAreCarried, runVars
  <2>7. QED
    BY <2>3, <2>4, <2>6 DEF OutcomeInv
<1>25. CASE ParentSettles
  <2>1. /\ UNCHANGED <<runVars, claims, consumed, disposed, call, reporting>>
        /\ pending' = <<>> /\ Idle /\ \A c \in Call : ~InProgress(c)
    BY <1>25 DEF ParentSettles
  <2>2. /\ \A r \in Run : ReturnedIn(told', r) <=> ReturnedIn(told, r)
        /\ \A r \in Run : NudgedIn(told, r) => NudgedIn(told', r)
        /\ OwesNudge /\ Completes(pending) => NudgedIn(told', cur)
    BY <1>25, SettleStep
  <2>3. CollectedIsTold' /\ ClaimsAreKept'
    BY <1>19, <2>1, <2>2
  <2>4. WithinTheTurn'
    BY <2>1 DEF WithinTheTurn, InProgress
  <2>5. ASSUME ~disposed, NEW r \in Run, status[r] = "over"
        PROVE  ToldIn(told', r) \/ Outsider \in claims'[r]
    <3>1. CASE ToldIn(told, r) \/ Outsider \in claims[r]
      BY <3>1, <2>1, <2>2 DEF ToldIn
    <3>2. CASE OnItsWay(r)
      <4>1. r = cur /\ cur \in Run /\ cur # 0 /\ claims[cur] \subseteq Call \cup {Outsider}
        BY <3>2, <1>0, <1>b DEF OnItsWay, DeliveryTypes
      <4>2. Completes(pending)
        BY <3>2, <4>1, <2>1 DEF OnItsWay, Idle
      <4>3. CASE OwesNudge
        BY <4>1, <4>2, <4>3, <2>2 DEF ToldIn
      <4>4. CASE ~OwesNudge
        BY <4>1, <4>4, <1>20, <2>1, <2>2 DEF ToldIn
      <4>5. QED
        BY <4>3, <4>4
    <3>3. QED
      BY <3>1, <3>2, <2>5, <1>0 DEF EndsAreCarried
  <2>6. QED
    BY <2>1, <2>3, <2>4, <2>5 DEF OutcomeInv, EndsAreCarried, runVars
<1>26. CASE UNCHANGED vars
  <2>1. UNCHANGED <<runVars, deliveryVars, managerVars, call, reporting, told>>
    BY <1>26 DEF vars
  <2>2. CollectedIsTold' /\ WithinTheTurn' /\ \A r \in Run : OnItsWay(r) => OnItsWay(r)'
    BY <1>0, <2>1 DEF CollectedIsTold, WithinTheTurn, OnItsWay, InProgress, runVars, deliveryVars,
       managerVars
  <2>3. QED
    BY <1>8, <2>1, <2>2 DEF runVars, deliveryVars, managerVars
<1>27. QED
  BY <1>1, <1>3, <1>4, <1>6, <1>7, <1>9, <1>10, <1>11, <1>12, <1>13, <1>15, <1>17, <1>18,
     <1>22, <1>23, <1>24, <1>25, <1>26 DEF Next

THEOREM OutcomeInvariant ==
  ASSUME CarefulResumes, CollectsWhenOver
  PROVE  Spec => []OutcomeInv
<1>1. CarrierInv /\ CarrierInv' /\ OutcomeInv /\ [Next]_vars => OutcomeInv'
  BY OutcomeInvStep
<1>2. QED
  BY OutcomeInvInitially, <1>1, CarrierInvariant, PTL DEF Spec

(* With nothing under way, the parent has been told how every ended run    *)
(* ended.                                                                  *)
THEOREM OutcomesAreAlwaysTold ==
  ASSUME CarefulResumes, CollectsWhenOver
  PROVE  Spec => []OutcomesTold
<1>1. CarrierInv /\ OutcomeInv => OutcomesTold
  <2> SUFFICES ASSUME CarrierInv, OutcomeInv, AtRest, NEW r \in Run, status[r] = "over",
                      Outsider \notin claims[r]
               PROVE  Told(r)
    BY DEF OutcomesTold
  <2>1. /\ pending = <<>> /\ ~disposed /\ Idle /\ \A c \in Call : ~InProgress(c)
        /\ claims[r] \subseteq Call \cup {Outsider} /\ (cur = r => cur # 0)
    BY DEF AtRest, OutcomeInv, WithinTheTurn, CarrierInv, DeliveryTypes, Run
  <2>2. ~OnItsWay(r)
    BY <2>1 DEF OnItsWay, Idle, Completes
  <2>3. QED
    BY <2>1, <2>2, HistoryNames DEF OutcomeInv, EndsAreCarried
<1>2. QED
  BY <1>1, CarrierInvariant, OutcomeInvariant, PTL

(* ... and of every update its child sent along the way.                   *)
THEOREM UpdatesAreAlwaysTold ==
  ASSUME CarefulResumes, CollectsWhenOver
  PROVE  Spec => []UpdatesTold
<1>1. CarrierInv /\ OutcomesTold => UpdatesTold
  BY HistoryNames DEF UpdatesTold, OutcomesTold, CarrierInv, MarkedIsHeard
<1>2. QED
  BY <1>1, CarrierInvariant, OutcomesAreAlwaysTold, PTL
=============================================================================
