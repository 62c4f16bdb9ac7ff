----------------------- MODULE MCPermissionForwarding -----------------------
(* Two requests, one from each side of the process boundary and of one     *)
(* kind, so that a grant for the first answers the second; two ids; a      *)
(* dialog of the parent's own.                                             *)
EXTENDS PermissionForwarding

TwoRequests == {1, 2}
FirstInProcess == {1}
SameKind == [r \in {1, 2} |-> "k"]
RecordedIds == [r \in {1, 2} |-> IF r = 1 THEN {"i1"} ELSE {"i1", "i2"}]
TwoDrains == {"d1", "d2"}
OneDrain == {"d1"}
BothFirst == [r \in {1, 2} |-> {"i1"}]
OneLocal == {"gate"}
DrainsAndGate == TwoDrains \cup OneLocal
DrainAndGate == OneDrain \cup OneLocal
TwoIds == {"i1", "i2"}
=============================================================================
