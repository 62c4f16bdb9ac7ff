---------------------------- MODULE PermissionGate ----------------------------
(* The tool calls of one session on their way through the gates.  The gates   *)
(* of a call are judged together and then run one by one, and a gate that     *)
(* asks suspends the call until a link or the human rules on it.  Meanwhile   *)
(* the configuration is edited, yolo is switched, other calls are granted,    *)
(* other extensions change the set of tools, and the session ends.            *)
(*                                                                            *)
(* What the gates of a call are is the matter of GateDescriptors; here each   *)
(* is a question [family, effects, place, licensed], to be judged on every    *)
(* member surface <<family, effect, place>>.                                  *)
EXTENDS Integers, Sequences, FiniteSets, SequencesExt

CONSTANTS Calls,        \* tool calls
          Tools,
          Uses,         \* what calls may be: [tool, asks], asks a sequence of questions
          Skills,       \* places that belong to skills
          Policies,     \* the configurations: member surface -> state
          MaxEdits,     \* bound: edits of the configuration and changes of the tools
          MaxSessions   \* bound: sessions, one after the other

Families == {"path", "external_directory"}
Strictness == [allow |-> 0, ask |-> 1, deny |-> 2]
Members(q) == {<<q.family, e, q.place>> : e \in q.effects}

\* A gate is there because the call has an effect, and its questions are finitely many.
Questions == UNION {ToSet(u.asks) : u \in Uses}
ASSUME UsesAssumption ==
  /\ Uses # {}
  /\ \A u \in Uses : u.asks \in Seq(ToSet(u.asks))
  /\ \A q \in Questions : q.effects # {}
\* A configuration decides every surface there is: what it does not name has a default.
ASSUME PoliciesAssumption ==
  /\ \A p \in Policies, q \in Questions : q.family # "skill" =>
       \A m \in Members(q) : p[m] \in DOMAIN Strictness
  /\ \A p \in Policies, s \in Skills : p[<<"skill", "any", s>>] \in DOMAIN Strictness

VARIABLES session,      \* [on, number, stale]: on until shut down, stale once Pi invalidated its context
          policy,       \* the configuration on disk, read at every verdict
          yoloFile,     \* "yoloMode" on disk
          yolo,         \* and as last refreshed
          edits,
          links,        \* a link is configured and registered
          grants,       \* the session's rules, member surfaces
          skills,       \* states of the skills the last prompt listed, by place
          calls,        \* call -> [stage, use, gates, judged, via, terminal]: terminal, the session that asks
          answers,      \* history: what the human granted since the rules were last cleared
          late,         \* history: once the session ended, the calls links were thinking about then
          tools         \* [active, registered, baseline, withheld, wanted, touched]

policyVars == <<policy, yoloFile, yolo, edits, links>>
vars == <<session, policyVars, grants, skills, calls, answers, late, tools>>

-----------------------------------------------------------------------------
(* Verdicts. *)

\* (A grant that always covers the family.)
MembersAlwaysWide(q, width) ==
  IF q.family \in Families THEN {<<q.family, e, q.place>> : e \in {"read", "write"}}
                           ELSE Members(q)

MembersAt(q, width) ==
  IF width = "family" /\ q.family \in Families
  THEN {<<q.family, e, q.place>> : e \in {"read", "write"}} ELSE Members(q)

\* A grant outranks the rules; yolo turns what would ask into an allow; of the
\* members of a surface the strictest decides.
Verdict(q, state, by) == [q |-> q, state |-> state, by |-> by]
StateOf(m) == IF m \in grants THEN "allow" ELSE policy[m]
JudgeRules(q) ==
  LET hard == {m \in Members(q) : \A n \in Members(q) :
                 Strictness[StateOf(n)] <= Strictness[StateOf(m)]}
      state == StateOf(CHOOSE m \in hard : TRUE)
  IN  IF state = "ask" /\ yolo THEN Verdict(q, "allow", "yolo")
      ELSE IF state = "allow" /\ hard \subseteq grants THEN Verdict(q, "allow", "session")
      ELSE Verdict(q, state, "rule")
Judge(q) ==
  IF q.family = "skill" THEN Verdict(q, skills[q.place], "rule") ELSE JudgeRules(q)

\* The elements of a sequence that belong to T, in their order.
Keep(seq, T) ==
  LET kept[i \in 0 .. Len(seq)] ==
        IF i = 0 THEN <<>>
        ELSE IF seq[i] \in T THEN Append(kept[i - 1], seq[i]) ELSE kept[i - 1]
  IN  kept[Len(seq)]

\* The gate of a skill's file is there only if the prompt listed the skill.
Asked(use) == LET listed == {q \in ToSet(use.asks) :
                               q.family # "skill" \/ q.place \in DOMAIN skills}
              IN  Keep(use.asks, listed)
\* (The gates are run in the order they are produced in.)
OrderAsProduced(gates) == gates

OrderDenyFirst(gates) ==
  LET denies == {g \in ToSet(gates) : g.state = "deny"}
  IN  Keep(gates, denies) \o Keep(gates, ToSet(gates) \ denies)

IsExposed(t) == policy[<<"tool", "any", t>>] # "deny"

-----------------------------------------------------------------------------

Idle == [stage |-> "idle", use |-> CHOOSE u \in Uses : TRUE, gates |-> <<>>,
         judged |-> <<>>, via |-> {}, terminal |-> 0]
Blocked == [Idle EXCEPT !.stage = "blocked"]

Init ==
  /\ session = [on |-> FALSE, number |-> 0, stale |-> FALSE]
  /\ policy \in Policies
  /\ yoloFile = FALSE /\ yolo = FALSE /\ edits = 0
  /\ links \in BOOLEAN
  /\ grants = {} /\ answers = {} /\ late = {}
  /\ skills = <<>>
  /\ calls = [c \in Calls |-> Idle]
  /\ tools = [active |-> Tools, registered |-> Tools, baseline |-> {}, withheld |-> {},
              wanted |-> Tools, touched |-> {}]

Edited == edits < MaxEdits /\ edits' = edits + 1

\* The user edits a configuration file.  The rules are read from disk at the
\* next verdict, "yoloMode" at the next turn.
EditPolicy(p) ==
  /\ Edited /\ p # policy
  /\ policy' = p
  /\ UNCHANGED <<session, yoloFile, yolo, links, grants, skills, calls, answers, late, tools>>
EditYolo ==
  /\ Edited
  /\ yoloFile' = ~yoloFile
  /\ UNCHANGED <<session, policy, yolo, links, grants, skills, calls, answers, late, tools>>
\* The settings dialog writes the file and takes effect at once.
SaveYolo ==
  /\ Edited /\ session.on
  /\ yoloFile' = ~yolo /\ yolo' = ~yolo
  /\ UNCHANGED <<session, policy, links, grants, skills, calls, answers, late, tools>>

\* Another extension registers its link, or takes it back.
ChangeLinks ==
  /\ Edited
  /\ links' = ~links
  /\ UNCHANGED <<session, policy, yoloFile, yolo, grants, skills, calls, answers, late, tools>>

-----------------------------------------------------------------------------
(* The session. *)

\* A session starts when Pi is done with the one before it.  The rules of that one
\* were cleared when it was shut down.
SessionStart ==
  /\ ~session.on /\ session.number < MaxSessions
  /\ session.number = 0 \/ session.stale
  /\ session' = [on |-> TRUE, number |-> session.number + 1, stale |-> FALSE]
  /\ yolo' = yoloFile
  /\ skills' = <<>>
  /\ tools' = [tools EXCEPT !.baseline = {}, !.withheld = {}, !.wanted = tools.active]
  /\ late' = {}
  /\ UNCHANGED <<policy, yoloFile, edits, links, grants, calls, answers>>

\* Reloading resources forgets the skills; the tools' baseline stays.
Reload ==
  /\ session.on /\ skills # <<>>
  /\ skills' = <<>>
  /\ UNCHANGED <<session, policyVars, grants, calls, answers, late, tools>>

\* (The dialogs are left standing.)
SessionShutdownOnly ==
  /\ session.on
  /\ session' = [session EXCEPT !.on = FALSE]
  /\ late' = {c \in Calls : calls[c].stage = "link"}
  /\ grants' = {} /\ answers' = {}
  /\ skills' = <<>>
  /\ tools' = [tools EXCEPT !.baseline = {}, !.withheld = {}]
  /\ UNCHANGED <<policyVars, calls>>

\* Dialogs are released first, as refusals.  A call a link is thinking about is
\* still on its way, with the terminal it was given.
SessionShutdown ==
  /\ session.on
  /\ session' = [session EXCEPT !.on = FALSE]
  /\ late' = {c \in Calls : calls[c].stage = "link"}
  /\ calls' = [c \in Calls |-> IF calls[c].stage = "human"
                               THEN Blocked
                               ELSE calls[c]]
  /\ grants' = {} /\ answers' = {}
  /\ skills' = <<>>
  /\ tools' = [tools EXCEPT !.baseline = {}, !.withheld = {}]
  /\ UNCHANGED policyVars

\* Pi invalidates the context of a session when every extension's handlers of its
\* end have returned; until then it can still be asked through.
ContextInvalidated ==
  /\ ~session.on /\ session.number > 0 /\ ~session.stale
  /\ session' = [session EXCEPT !.stale = TRUE]
  /\ UNCHANGED <<policyVars, grants, skills, calls, answers, late, tools>>

\* What the tools are narrowed from: those still active, those only the policy
\* withholds, and those another extension has activated.
Rebuilt ==
  {t \in tools.baseline : t \in tools.active \/ t \in tools.withheld \cap tools.registered}
    \cup tools.active

\* Before the agent's turn: configuration, tools and the skills of the prompt.
BeforeAgentStart ==
  /\ session.on
  /\ yolo' = yoloFile
  /\ LET exposed == {t \in Rebuilt : IsExposed(t)}
     IN  tools' = [tools EXCEPT !.active = exposed, !.baseline = Rebuilt,
                                !.withheld = Rebuilt \ exposed, !.touched = {}]
  /\ skills' = [s \in {x \in Skills : policy[<<"skill", "any", x>>] # "deny"} |->
                  IF policy[<<"skill", "any", s>>] = "ask" /\ yoloFile THEN "allow"
                  ELSE policy[<<"skill", "any", s>>]]
  /\ UNCHANGED <<session, policy, yoloFile, edits, links, grants, calls, answers, late>>

\* Another extension activates or deactivates a tool, at most once between two
\* turns; "wanted" is what the extensions other than this one want active.
ActivateTool(t) ==
  /\ Edited
  /\ t \in tools.registered \ (tools.active \cup tools.touched)
  /\ tools' = [tools EXCEPT !.active = @ \cup {t}, !.wanted = @ \cup {t},
                            !.touched = @ \cup {t}]
  /\ UNCHANGED <<session, policy, yoloFile, yolo, links, grants, skills, calls, answers, late>>
DeactivateTool(t) ==
  /\ Edited
  /\ t \in tools.active \ tools.touched
  /\ tools' = [tools EXCEPT !.active = @ \ {t}, !.wanted = @ \ {t}, !.touched = @ \cup {t}]
  /\ UNCHANGED <<session, policy, yoloFile, yolo, links, grants, skills, calls, answers, late>>
Unregister(t) ==
  /\ Edited
  /\ t \in tools.registered \ tools.touched
  /\ tools' = [tools EXCEPT !.registered = @ \ {t}, !.active = @ \ {t}, !.wanted = @ \ {t},
                            !.touched = @ \cup {t}]
  /\ UNCHANGED <<session, policy, yoloFile, yolo, links, grants, skills, calls, answers, late>>

-----------------------------------------------------------------------------
(* A call. *)

Set(c, call) == calls' = [calls EXCEPT ![c] = call]
Block(c) == Set(c, Blocked)
Pass(c, via) ==
  Set(c, [calls[c] EXCEPT !.stage = "gates", !.gates = Tail(@), !.terminal = 0,
                          !.via = @ \cup {<<Head(calls[c].gates).q, via>>}])
At(c, stage) == calls[c].stage = stage
Gate(c) == Head(calls[c].gates)

\* The name of the tool is checked at once, a shell command is parsed first.
ToolCall(c, use) ==
  /\ session.on /\ At(c, "idle")
  /\ IF use.tool \in tools.registered
     THEN Set(c, [Idle EXCEPT !.stage = "parsing", !.use = use])
     ELSE Block(c)
  /\ UNCHANGED <<session, policyVars, grants, skills, answers, late, tools>>

\* Every gate is judged before any of them is run.
JudgeGates(c) ==
  /\ At(c, "parsing")
  /\ LET asks == Asked(calls[c].use)
         gates == OrderDenyFirst([i \in DOMAIN asks |-> Judge(asks[i])])
     IN  Set(c, [calls[c] EXCEPT !.stage = "gates", !.gates = gates, !.judged = gates])
  /\ UNCHANGED <<session, policyVars, grants, skills, answers, late, tools>>

\* What throws blocks, whatever it is.
GateError(c) ==
  /\ calls[c].stage \in {"parsing", "gates", "link", "human"}
  /\ Block(c)
  /\ UNCHANGED <<session, policyVars, grants, skills, answers, late, tools>>

\* A gate that can be settled without asking; yolo counts as it is now.  Who is
\* asked is the authority of the session as it is now, and nobody once it ended.
RunGate(c) ==
  /\ At(c, "gates") /\ calls[c].gates # <<>>
  /\ \/ Gate(c).state = "deny" /\ Block(c)
     \/ Gate(c).state = "allow" /\ Pass(c, Gate(c).by)
     \/ Gate(c).state = "ask" /\ yolo /\ Pass(c, "yolo")
     \/ Gate(c).state = "ask" /\ ~yolo /\ ~session.on /\ Block(c)
     \/ /\ Gate(c).state = "ask" /\ ~yolo /\ session.on
        /\ Set(c, [calls[c] EXCEPT !.stage = IF links THEN "link" ELSE "human",
                                   !.terminal = session.number])
  /\ UNCHANGED <<session, policyVars, grants, skills, answers, late, tools>>

\* (Any "allow" of a link outside the family "path" counts.)
LinkMayAllowPlaces(q) == q.family # "path"

\* A link's "allow" about a file counts only where nothing can be there yet.
LinkMayAllow(q) ==
  q.family \notin Families \/ (q.family = "external_directory" /\ q.licensed)

\* A link that defers leaves the question to the terminal the chain was composed
\* with.  Its dialog opens as long as Pi has not invalidated the context it was
\* made from, also when the session ended meanwhile; describing the session of a
\* stale context throws.
CanPresent(terminal) == terminal = session.number /\ ~session.stale
LinkRules(c, verdict) ==
  /\ At(c, "link")
  /\ IF verdict = "deny" THEN Block(c)
     ELSE IF verdict = "allow" /\ LinkMayAllow(Gate(c).q) THEN Pass(c, "link")
     ELSE IF CanPresent(calls[c].terminal) THEN Set(c, [calls[c] EXCEPT !.stage = "human"])
     ELSE Block(c)
  /\ UNCHANGED <<session, policyVars, grants, skills, answers, late, tools>>

\* For this session is offered at two widths: what was proven, or the family.
HumanRules(c, answer) ==
  /\ At(c, "human")
  /\ IF answer = "deny" THEN Block(c) ELSE Pass(c, "human")
  /\ LET q == Gate(c).q
         granting == answer \in {"proven", "family"} /\ q.family # "skill"
     IN  /\ grants' = IF granting THEN grants \cup MembersAt(q, answer) ELSE grants
         /\ answers' = IF granting THEN answers \cup {[q |-> q, width |-> answer]} ELSE answers
  /\ UNCHANGED <<session, policyVars, skills, late, tools>>

\* Every gate has let the call pass.
Execute(c) ==
  /\ At(c, "gates") /\ calls[c].gates = <<>>
  /\ Set(c, [calls[c] EXCEPT !.stage = "ran"])
  /\ UNCHANGED <<session, policyVars, grants, skills, answers, late, tools>>

Next ==
  \/ \E p \in Policies : EditPolicy(p)
  \/ EditYolo \/ SaveYolo \/ ChangeLinks
  \/ SessionStart \/ Reload \/ SessionShutdown \/ ContextInvalidated
  \/ BeforeAgentStart
  \/ \E t \in Tools : ActivateTool(t) \/ DeactivateTool(t) \/ Unregister(t)
  \/ \E c \in Calls, use \in Uses : ToolCall(c, use)
  \/ \E c \in Calls : JudgeGates(c) \/ GateError(c) \/ RunGate(c) \/ Execute(c)
  \/ \E c \in Calls, v \in {"allow", "deny", "defer"} : LinkRules(c, v)
  \/ \E c \in Calls, a \in {"once", "proven", "family", "deny"} : HumanRules(c, a)

Spec == Init /\ [][Next]_vars

-----------------------------------------------------------------------------

\* Nobody is asked about a call that some gate refuses outright, and it does not
\* run, whatever else is decided or changed while it is on its way.
DeniedNeverAsked ==
  \A c \in Calls : (\E g \in ToSet(calls[c].judged) : g.state = "deny")
                     => calls[c].stage \notin {"link", "human", "ran"}

\* A call that ran was let pass by every one of its gates; where the rules asked,
\* by the human, by yolo, or by a link that may decide such a thing: what
\* touches the user's files is never left to a link.
RanWithAuthority ==
  \A c \in Calls : At(c, "ran") =>
    \A g \in ToSet(calls[c].judged) :
      \E via \in {"rule", "session", "yolo", "link", "human"} :
        /\ <<g.q, via>> \in calls[c].via
        /\ g.state = "ask" => via \in {"yolo", "link", "human"}
        /\ via = "link" => g.q.family \notin Families \/ g.q.licensed

\* When the session ends every dialog is answered, as a refusal, and a call that
\* is anywhere else on its way is refused rather than asked about.  The exception:
\* a link that was thinking about a call then may still leave it to the human, in
\* a dialog of the session that ended, never of an earlier one.
LateAsksComeFromLinks ==
  ~session.on => \A c \in Calls : At(c, "human") =>
                   c \in late /\ calls[c].terminal = session.number

\* A call that an earlier answer lets pass does only what the human was shown
\* then, since the rules were last cleared: reading where reading was asked about,
\* and writing only where it was, or where the answer was given for both.
PassesWhatWasShown(c) ==
  At(c, "parsing") /\ calls'[c].stage = "gates" =>
    \A g \in ToSet(calls'[c].judged) : g.by = "session" =>
      \A e \in g.q.effects : \E a \in answers :
        /\ a.q.family = g.q.family /\ a.q.place = g.q.place
        /\ e \in a.q.effects \/ a.width = "family"
GrantsCoverWhatWasShown == [][\A c \in Calls : PassesWhatWasShown(c)]_vars

=============================================================================
