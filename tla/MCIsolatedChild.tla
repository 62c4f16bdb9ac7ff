--------------------------- MODULE MCIsolatedChild ---------------------------
(* Two callers of dispose, two runs, and one turn more than either limit.   *)
EXTENDS IsolatedChild

Missing == [kind |-> "missing"]
Malformed == [kind |-> "malformed"]
Object(keys) == [kind |-> "object", keys |-> keys]

LowercaseOf(name) ==
  CASE name = "Explore" -> "explore" [] name = "Plan" -> "plan"
    [] name = "EXPLORE" -> "explore" [] OTHER -> name

Empty == [name \in {} |-> DefaultAgent]
File(maxTurns, locked, enabled) ==
  [readable |-> TRUE, maxTurns |-> maxTurns, enabled |-> enabled,
   locked |-> [flag |-> FALSE, names |-> locked]]
NoEdit == [key |-> "none", number |-> 0]

(* One turn asked for, raised to two and warned of after the first: the    *)
(* project's wrap-up turns win over the global ones, and a default past    *)
(* the ceiling is dropped.                                                 *)
Short ==
  [door |-> "tool", type |-> "EXPLORE", maxTurns |-> 1, dirs |-> [global |-> Empty, project |-> Empty],
   global |-> Object([wrapUpTurns |-> 7, defaultMaxTurns |-> 20000]),
   project |-> Object([wrapUpTurns |-> 1]), edit |-> NoEdit]

(* Two turns the project's agent file locks, all of them wrap-up turns.    *)
Locked ==
  [door |-> "tool", type |-> "audit", maxTurns |-> 3,
   dirs |-> [global |-> [audit |-> File(9, {}, FALSE)],
             project |-> [audit |-> File(2, {"max_turns", "tempo"}, TRUE)]],
   global |-> Missing, project |-> Malformed, edit |-> NoEdit]

(* Another extension's spawn of an unknown type, under a default of one    *)
(* turn set in the dialog.                                                 *)
ByDefault ==
  [Locked EXCEPT !.door = "service", !.type = "nobody", !.maxTurns = Absent,
                 !.edit = [key |-> "defaultMaxTurns", number |-> 1]]

(* A disabled type is refused.                                             *)
Disabled == [Locked EXCEPT !.dirs.project = Empty]

Choices == {Short, Locked, ByDefault, Disabled}
=============================================================================
