------------------------- MODULE MCMessageDelivery -------------------------
(* Small instances of MessageDelivery: one message of each kind that the   *)
(* code treats differently.                                                *)
EXTENDS MessageDelivery

CONSTANTS direct, group

DirectOnly == {direct}
GroupOnly  == {group}
Both       == {direct, group}
None       == {}
=============================================================================
