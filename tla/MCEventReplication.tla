------------------------- MODULE MCEventReplication -------------------------
(* Two daemons of the sending machine and one of another machine.          *)
EXTENDS EventReplication

CONSTANTS d1, d2, q

MCResources == {DrainLease(w, p) : w \in Processes, p \in Projects}
MCUnsafe == {<<d2, 1>>}
MCUnsupported == {<<d2, 1>>, <<q, 2>>}
=============================================================================
