---------------------------- MODULE MCCompaction ----------------------------
(* Requests for the model-checking runs of Compaction.                     *)
EXTENDS CompactionHistory

\* What the daemon's /compact route asks of the engine.
RouteRequests == {[mode |-> "sweep", force |-> TRUE, hard |-> FALSE]}

\* The other entry points of the engine.
EngineRequests ==
    {[mode |-> "sweep", force |-> FALSE, hard |-> FALSE],
     [mode |-> "sweep", force |-> TRUE, hard |-> TRUE],
     [mode |-> "incremental", force |-> FALSE, hard |-> FALSE],
     [mode |-> "until", force |-> TRUE, hard |-> FALSE]}
=============================================================================
