--------------------------- MODULE BackendSelection ---------------------------
(***************************************************************************)
(* What the consumers of a home are promised about its storage backend     *)
(* (docs/backend-publication.md): while the home is open, configuration    *)
(* and project map name one backend; a change of backend closes the home,  *)
(* and the home opens again with both files changed or with neither.       *)
(***************************************************************************)
CONSTANT Backends

VARIABLES
    open,       \* a consumer is admitted
    selected    \* the map and the configuration a consumer reads

vars == <<open, selected>>

Selections == { [map |-> b, config |-> b] : b \in Backends }

Init == open = TRUE /\ selected \in Selections

Close == open /\ open' = FALSE /\ UNCHANGED selected

Reopen == ~open /\ open' = TRUE /\ selected' \in Selections

Next == Close \/ Reopen

Spec == Init /\ [][Next]_vars
=============================================================================
