--------------------------- MODULE OperationMutex ---------------------------
(***************************************************************************)
(* What the data operation lease promises its callers: of all backups,     *)
(* restores, settings updates and maintenance runs, at most one at a time  *)
(* believes that it owns the instance's data.                              *)
(***************************************************************************)
CONSTANT Operations

VARIABLE inside   \* the operations that believe they own the data

Init == inside = {}

Enter(o) == inside = {} /\ inside' = {o}

Leave == inside # {} /\ inside' = {}

Next == Leave \/ \E o \in Operations : Enter(o)

Spec == Init /\ [][Next]_inside
=============================================================================
