---------------------------- MODULE AdmissionGate ----------------------------
(* What the callers of ConcurrencyLimiter may rely on, without its counter,   *)
(* its loop and the calls that come back into it: tasks wait in a line, the   *)
(* first of the line is let in while fewer hold a slot than the limit of that *)
(* moment allows, and whoever is in stays in until it leaves by itself.       *)
EXTENDS Naturals, Sequences, FiniteSets

CONSTANTS Task, Limit

VARIABLES
  limit,    \* of the moment
  queue,    \* tasks in line
  holders   \* tasks that hold a slot

gateVars == <<limit, queue, holders>>

GateInit == limit \in Limit /\ queue = <<>> /\ holders = {}

InLine == {queue[i] : i \in 1 .. Len(queue)}

Arrive(t) ==
  /\ t \notin InLine \cup holders
  /\ queue' = Append(queue, t)
  /\ UNCHANGED <<limit, holders>>

Admit ==
  /\ queue # <<>> /\ Cardinality(holders) < limit
  /\ queue' = Tail(queue) /\ holders' = holders \cup {Head(queue)}
  /\ UNCHANGED limit

Leave(t) ==
  /\ t \in holders /\ holders' = holders \ {t}
  /\ UNCHANGED <<limit, queue>>

Disperse == queue' = <<>> /\ UNCHANGED <<limit, holders>>

ChangeLimit(n) == limit' = n /\ UNCHANGED <<queue, holders>>

GateNext ==
  \/ \E t \in Task : Arrive(t) \/ Leave(t)
  \/ Admit \/ Disperse
  \/ \E n \in Limit : ChangeLimit(n)

GateSpec == GateInit /\ [][GateNext]_gateVars
=============================================================================
