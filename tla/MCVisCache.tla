----------------------------- MODULE MCVisCache -----------------------------
(***************************************************************************)
(* The instance of VisCache that TLC checks.  One of the three keys has a  *)
(* negative hash, which misses the larger tables and not that of one slot. *)
(* A cache without resets is as large as it takes for a clear to leave two *)
(* entries behind that the index knows; one with resets has torn lists and *)
(* stays smaller.                                                          *)
(***************************************************************************)
EXTENDS VisCache

CONSTANTS ka, kb, kc, e1, e2, e3, e4

MCKey == {ka, kb, kc}
MCHash == [k \in MCKey |-> IF k = kb THEN -5 ELSE 7]
MCEntry == {e1, e2, e3, e4}
MCLimits == [r \in BOOLEAN |-> IF r THEN {0, 1, 3} ELSE {0, 1, 4}]
MCBlocks == [r \in BOOLEAN |-> IF r THEN {e1, e2, e3} ELSE MCEntry]

=============================================================================
