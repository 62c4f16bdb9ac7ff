-------------------------- MODULE MCPermissionGate --------------------------
(* Two calls over one place that belongs to a skill.  One policy asks about   *)
(* the place and withholds a tool, the other lets read and not write.         *)
EXTENDS PermissionGate

CONSTANTS c1, c2, place, reader, editor

Question(family, effects, licensed) ==
  [family |-> family, effects |-> effects, place |-> place, licensed |-> licensed]
OfTool(t) == [family |-> "tool", effects |-> {"any"}, place |-> t, licensed |-> FALSE]
MCUses ==
  {[tool |-> reader, asks |-> <<Question("skill", {"any"}, FALSE), Question("path", {"read"}, FALSE)>>],
   [tool |-> editor, asks |-> <<Question("path", {"read", "write"}, FALSE), OfTool(editor)>>],
   [tool |-> reader, asks |-> <<Question("external_directory", {"read"}, TRUE),
                                Question("external_directory", {"write"}, FALSE)>>]}
MCTools == {reader, editor}
MCSkills == {place}
Surfaces == {<<f, e, place>> : f \in Families, e \in {"read", "write"}}
              \cup {<<"tool", "any", t>> : t \in MCTools} \cup {<<"skill", "any", place>>}
Policy(Of(_)) == [m \in Surfaces |-> Of(m)]
MCPolicies ==
  {Policy(LAMBDA m : IF m[1] = "tool" /\ m[3] = editor THEN "deny" ELSE "ask"),
   Policy(LAMBDA m : CASE m[1] = "path" /\ m[2] = "write" -> "ask"
                       [] m[1] = "external_directory" -> "ask"
                       [] OTHER -> "allow")}
MCSymmetry == Permutations(Calls)
=============================================================================
