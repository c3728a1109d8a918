----------------------- MODULE BackendPublicationProofs -----------------------
(***************************************************************************)
(* The safety of a change of backend, for any number of projects,          *)
(* publications, crashes, expiries, aborts and rival homes: the guards are *)
(* held while files are moved forward, nothing recorded is left held at    *)
(* the end, and consumers see the change as one step.                      *)
(*                                                                         *)
(* None of these is inductive alone.  The invariant has five parts: the    *)
(* types; what the running call has established (CallInv); how far the     *)
(* acquisition has come (GuardInv); how far the release has come           *)
(* (ReleaseInv); and which backend each file has in each phase (FileInv).  *)
(* A walk over the projects belongs to one call: it starts again at the    *)
(* first project when a call is cut off, so both walks speak of a phase    *)
(* and of the operation in hand.                                           *)
(***************************************************************************)
EXTENDS BackendPublication, TLAPS

\* A call that has not begun to work is at the first project; rows are taken
\* only where activation takes them, and for a publication within the bound.
CallInv ==
    /\ call.op \in {"none", "lease"} => call.at = 1
    /\ call.op = "lease" => journal.phase \in LeasePhases \cup TerminalPhases
    /\ call.op \in {"lease", "prepare"} => Wanted <= MaxPublications

\* A row once taken has a token.  The projects an acquisition has passed are
\* guarded already.
GuardInv ==
    /\ GuardsHeld
    /\ \A p \in Projects : rows[p].state # "absent" => rows[p].token > 0
    /\ journal.phase = "acquiring" /\ call.op = "resume" =>
           \A p \in Projects : p < call.at =>
               /\ Unreleased(p, journal.id)
               /\ 0 < journal.fences[p].token /\ journal.fences[p].token <= rows[p].token

\* A fence recorded as released was released, whoever has the row now: tokens
\* only grow.  Fences are recorded only under sealed material.  The projects a
\* release has passed are released, and recorded so.
ReleaseInv ==
    /\ ReleasedAtEnd
    /\ \A p \in Projects :
           journal.fences[p].released /\ rows[p].token = journal.fences[p].token
               => rows[p].state = "released"
    /\ ~journal.sealed => \A p \in Projects : journal.fences[p].token = 0
    /\ journal.phase \in {"prepared", "acquiring"} => journal.sealed
    /\ journal.phase = "preparing" => ~journal.sealed
    /\ \/ call.op = "resume" /\ journal.phase = "releasing"
       \/ call.op = "abort" /\ journal.phase = "abort-releasing"
       => \A p \in Projects : p < call.at /\ journal.fences[p].token # 0 =>
              ~Unreleased(p, journal.id) /\ journal.fences[p].released
    /\ journal.phase \in {"released", "completed"} =>
           \A p \in Projects : journal.fences[p].token # 0 => journal.fences[p].released
    /\ journal.phase = "completed" => material /\ journal.sealed

\* The two files in each phase.
FileInv ==
    /\ journal.source.map = journal.source.config
    /\ journal.phase \in {"none", "preparing", "prepared", "acquiring", "guarded",
                          "maintenance-aborted", "selection-completed",
                          "abort-releasing", "aborted"} \cup HoldPhases =>
           local = journal.source
    /\ journal.phase \in {"map-publishing", "map-published", "map-restoring"} =>
           local.config = journal.source.config
    /\ journal.phase \in {"map-published", "config-publishing"} => local.map = Target.map
    /\ journal.phase \in {"config-published", "releasing", "released", "completed"} =>
           local = Target

(* A walk that moves on has passed one more project.                       *)
LEMMA WalkedSoFar ==
  ASSUME NEW a \in Projects, NEW p \in Projects, p < a + 1
  PROVE  p < a \/ p = a
  BY PublicationAssumption DEF Projects

(* The phases of the four moves: two forwards, two backwards.              *)
LEMMA MovePhases ==
  ASSUME NEW m \in Moves
  PROVE  \/ /\ m.op = "resume" /\ m.before \in {"guarded", "map-published"}
            /\ m.during \in {"map-publishing", "config-publishing"}
            /\ m.after \in {"map-published", "config-published"}
         \/ /\ m.op = "abort" /\ m.before \in {"aborting", "map-restoring"}
            /\ m.during \in {"config-restoring", "map-restoring"}
            /\ m.after \in {"map-restoring", "abort-releasing"}
  BY DEF Moves, PublishMap, PublishConfig, RestoreConfig, RestoreMap

-----------------------------------------------------------------------------
(* The types.  The sets the variables range over, for a sequence that has  *)
(* reached s, and what the writes of the actions do to their members.      *)

FileSet == [map : Backends, config : Backends]
FenceSet(s) == [token : 0 .. s, released : BOOLEAN]
JournalSet(s) == [id : 0 .. MaxPublications, phase : Phases, source : FileSet,
                  sealed : BOOLEAN, fences : [Projects -> FenceSet(s)]]
RowStates == {"absent", "held", "expired", "released"}
RowSet(s) == [owner : Nobody .. Foreign, token : 0 .. s, state : RowStates]
CallSet == [op : {"none", "lease", "prepare", "resume", "abort"},
            at : 1 .. Last + 1, asked : BOOLEAN]
FaultSet == [crash : 0 .. MaxCrashes, abort : 0 .. MaxAborts,
             foreign : 0 .. MaxForeign, expire : [Projects -> 0 .. MaxExpiries]]

(* TypeOK in terms of these sets.                                          *)
LEMMA TypeParts ==
  TypeOK <=> /\ journal \in JournalSet(sequence) /\ local \in FileSet
             /\ material \in BOOLEAN /\ sequence \in Nat
             /\ rows \in [Projects -> RowSet(sequence)]
             /\ call \in CallSet /\ faults \in FaultSet
  BY DEF TypeOK, JournalSet, FileSet, FenceSet, RowSet, RowStates, CallSet,
     FaultSet

(* The same of the next state.                                             *)
LEMMA TypePartsNext ==
  TypeOK' <=> /\ journal' \in JournalSet(sequence') /\ local' \in FileSet
              /\ material' \in BOOLEAN /\ sequence' \in Nat
              /\ rows' \in [Projects -> RowSet(sequence')]
              /\ call' \in CallSet /\ faults' \in FaultSet
  BY DEF TypeOK, JournalSet, FileSet, FenceSet, RowSet, RowStates, CallSet,
     FaultSet

(* A write of the phase keeps the journal's type.                          *)
LEMMA PhaseWritten ==
  ASSUME NEW s \in Nat, NEW j \in JournalSet(s), NEW phase \in Phases
  PROVE  [j EXCEPT !.phase = phase] \in JournalSet(s)
  BY DEF JournalSet

(* A write of a fence keeps the journal's type.                            *)
LEMMA FenceWritten ==
  ASSUME NEW s \in Nat, NEW j \in JournalSet(s), NEW p \in Projects,
         NEW fence \in FenceSet(s)
  PROVE  [j EXCEPT !.fences[p] = fence] \in JournalSet(s)
  BY DEF JournalSet

(* A token below the sequence stays below it.                              *)
LEMMA FencesBelow ==
  ASSUME NEW s \in Nat, NEW j \in JournalSet(s)
  PROVE  j \in JournalSet(s + 1)
<1>1. FenceSet(s) \subseteq FenceSet(s + 1)
  BY DEF FenceSet
<1>2. j.fences \in [Projects -> FenceSet(s + 1)]
  BY <1>1 DEF JournalSet
<1> QED
  BY <1>2 DEF JournalSet

(* A row taken under the next token has its type.                          *)
LEMMA RowTaken ==
  ASSUME NEW s \in Nat, NEW r \in [Projects -> RowSet(s)], NEW p \in Projects,
         NEW id \in Nobody .. Foreign
  PROVE  [r EXCEPT ![p] = [owner |-> id, token |-> s + 1, state |-> "held"]]
             \in [Projects -> RowSet(s + 1)]
<1>1. RowSet(s) \subseteq RowSet(s + 1)
  BY DEF RowSet
<1>2. [owner |-> id, token |-> s + 1, state |-> "held"] \in RowSet(s + 1)
  BY DEF RowSet, RowStates
<1> QED
  BY <1>1, <1>2

(* A row whose state changes keeps its type.                               *)
LEMMA RowSettled ==
  ASSUME NEW s \in Nat, NEW r \in [Projects -> RowSet(s)], NEW p \in Projects,
         NEW state \in RowStates
  PROVE  [r EXCEPT ![p].state = state] \in [Projects -> RowSet(s)]
<1>1. [r[p] EXCEPT !.state = state] \in RowSet(s)
  BY DEF RowSet
<1> QED
  BY <1>1

(* The writes of the call keep its type.                                   *)
LEMMA CallWritten ==
  ASSUME NEW c \in CallSet
  PROVE  /\ NoCall \in CallSet
         /\ \A op \in {"none", "lease", "prepare", "resume", "abort"} :
                [c EXCEPT !.op = op] \in CallSet /\ [NoCall EXCEPT !.op = op] \in CallSet
         /\ [c EXCEPT !.at = 1, !.asked = FALSE] \in CallSet
         /\ [c EXCEPT !.asked = TRUE] \in CallSet
         /\ c.at <= Last => /\ c.at \in Projects
                            /\ [c EXCEPT !.at = @ + 1, !.asked = FALSE] \in CallSet
                            /\ [c EXCEPT !.at = @ + 1] \in CallSet
<1> 1 \in 1 .. Last + 1
  BY PublicationAssumption
<1>1. /\ NoCall \in CallSet
      /\ \A op \in {"none", "lease", "prepare", "resume", "abort"} :
             [c EXCEPT !.op = op] \in CallSet /\ [NoCall EXCEPT !.op = op] \in CallSet
  BY DEF CallSet, NoCall
<1>2. /\ [c EXCEPT !.at = 1, !.asked = FALSE] \in CallSet
      /\ [c EXCEPT !.asked = TRUE] \in CallSet
  BY DEF CallSet
<1>3. ASSUME c.at <= Last
      PROVE  c.at \in Projects /\ c.at + 1 \in 1 .. Last + 1
  BY <1>3, PublicationAssumption DEF CallSet, Projects
<1>4. ASSUME c.at + 1 \in 1 .. Last + 1
      PROVE  /\ [c EXCEPT !.at = @ + 1, !.asked = FALSE] \in CallSet
             /\ [c EXCEPT !.at = @ + 1] \in CallSet
  BY <1>4 DEF CallSet
<1> QED
  BY <1>1, <1>2, <1>3, <1>4

(* A checkpoint of the journal keeps the types.                            *)
LEMMA CheckpointTyped ==
  ASSUME TypeOK, NEW op, NEW from, NEW to \in Phases, Checkpoint(op, from, to)
  PROVE  TypeOK'
  BY TypeParts, TypePartsNext, PhaseWritten, CallWritten DEF Checkpoint, Write

(* Taking a row keeps the types of all that the sequence bounds.           *)
LEMMA TakeTyped ==
  ASSUME TypeOK, NEW p \in Projects, NEW id \in Nobody .. Foreign, Take(p, id)
  PROVE  /\ journal \in JournalSet(sequence') /\ sequence' \in Nat
         /\ rows' \in [Projects -> RowSet(sequence')]
  BY TypeParts, FencesBelow, RowTaken DEF Take

(* One step keeps the types.                                               *)
LEMMA TypeStep ==
  ASSUME TypeOK, CallInv, [Next]_vars
  PROVE  TypeOK'
<1>1. CASE EnterMaintenance
  <2>1. journal.id + 1 \in 0 .. MaxPublications
    BY <1>1, TypeParts, TypePartsNext,
       PublicationAssumption DEF EnterMaintenance, JournalSet
  <2>2. journal' \in JournalSet(sequence)
    BY <1>1, <2>1, TypeParts, TypePartsNext DEF EnterMaintenance, JournalSet,
       Phases, HoldPhases, AbortPhases, LeasePhases, GuardedPhases,
       TerminalPhases
  <2> QED
    BY <1>1, <2>2, TypeParts, TypePartsNext DEF EnterMaintenance
<1>2. CASE HoldMaintenance
  BY <1>2, TypeParts, TypePartsNext, PhaseWritten DEF HoldMaintenance,
     MaintenanceStep, Write, Phases, HoldPhases, AbortPhases, LeasePhases,
     GuardedPhases, TerminalPhases
<1>3. CASE PrepareMaintenanceSelection
  BY <1>3, TypeParts, TypePartsNext,
     PhaseWritten DEF PrepareMaintenanceSelection, MaintenanceStep, Write,
     Phases, HoldPhases, AbortPhases, LeasePhases, GuardedPhases,
     TerminalPhases
<1>4. CASE CompleteMaintenanceSelection
  BY <1>4, TypeParts, TypePartsNext,
     PhaseWritten DEF CompleteMaintenanceSelection, MaintenanceStep, Write,
     Phases, HoldPhases, AbortPhases, LeasePhases, GuardedPhases,
     TerminalPhases
<1>5. CASE AbortMaintenance
  BY <1>5, TypeParts, TypePartsNext, PhaseWritten DEF AbortMaintenance,
     MaintenanceStep, Write, Phases, HoldPhases, AbortPhases, LeasePhases,
     GuardedPhases, TerminalPhases
<1>6. CASE Activate
  BY <1>6, TypeParts, TypePartsNext, CallWritten DEF Activate
<1>7. ASSUME NEW p \in Projects, TakeLease(p) PROVE TypeOK'
  <2>1. Wanted \in Nobody .. Foreign
    BY <1>7, TypeParts, TypePartsNext, PublicationAssumption
       DEF TakeLease, CallInv, Wanted, NextId, JournalSet, Nobody, Foreign
  <2>2. UNCHANGED <<journal, local, material, call, faults>> /\ Take(p, Wanted)
    BY <1>7 DEF TakeLease
  <2> QED
    BY <2>1, <2>2, TakeTyped, TypeParts, TypePartsNext
<1>8. CASE Drive
  BY <1>8, TypeParts, TypePartsNext, CallWritten DEF Drive
<1>9. CASE Refuse
  BY <1>9, TypeParts, TypePartsNext, CallWritten DEF Refuse, Finish
<1>10. CASE WritePreparing
  <2>1. NextId \in 0 .. MaxPublications
    BY <1>10, TypeParts, TypePartsNext, PublicationAssumption
       DEF WritePreparing, CallInv, Wanted, NextId, JournalSet
  <2>2. [p \in Projects |-> NoFence] \in [Projects -> FenceSet(sequence)]
    BY TypeParts, TypePartsNext DEF NoFence, FenceSet
  <2>3. journal' \in JournalSet(sequence)
    BY <1>10, <2>1, <2>2, TypeParts, TypePartsNext DEF WritePreparing,
       JournalSet, Phases, HoldPhases, AbortPhases, LeasePhases, GuardedPhases,
       TerminalPhases
  <2> QED
    BY <1>10, <2>3, TypeParts, TypePartsNext DEF WritePreparing
<1>11. CASE SealMaterial
  BY <1>11, TypeParts, TypePartsNext DEF SealMaterial
<1>12. CASE Prepared
  <2>1. [journal EXCEPT !.phase = "prepared", !.sealed = TRUE] \in JournalSet(sequence)
    BY TypeParts, TypePartsNext DEF JournalSet, Phases, HoldPhases,
       AbortPhases, LeasePhases, GuardedPhases, TerminalPhases
  <2> QED
    BY <1>12, <2>1, TypeParts, TypePartsNext, CallWritten DEF Prepared
<1>13. CASE StartAcquiring
  BY <1>13, CheckpointTyped DEF StartAcquiring, Phases, HoldPhases,
     AbortPhases, LeasePhases, GuardedPhases, TerminalPhases
<1>14. CASE AcquireGuard
  <2>1. journal.id \in Nobody .. Foreign
    BY TypeParts, TypePartsNext, PublicationAssumption DEF JournalSet, Nobody,
       Foreign
  <2>2. call.at \in Projects /\ Take(call.at, journal.id)
    BY <1>14, TypeParts, TypePartsNext, CallWritten DEF AcquireGuard, Acquiring
  <2> QED
    BY <1>14, <2>1, <2>2, TakeTyped, TypeParts, TypePartsNext,
       CallWritten DEF AcquireGuard
<1>15. CASE RecordGuard
  <2>1. call.at \in Projects /\ call' \in CallSet
    BY <1>15, TypeParts, TypePartsNext, CallWritten DEF RecordGuard, Acquiring
  <2>2. [token |-> rows[call.at].token, released |-> FALSE] \in FenceSet(sequence)
    BY <2>1, TypeParts, TypePartsNext DEF RowSet, FenceSet
  <2> QED
    BY <1>15, <2>1, <2>2, TypeParts, TypePartsNext,
       FenceWritten DEF RecordGuard, WriteFence
<1>16. CASE Guarded
  BY <1>16, CheckpointTyped DEF Guarded, Phases, HoldPhases, AbortPhases,
     LeasePhases, GuardedPhases, TerminalPhases
<1>17. ASSUME NEW m \in Moves, StartMove(m) PROVE TypeOK'
  BY <1>17, MovePhases, CheckpointTyped DEF StartMove, Phases, HoldPhases,
     AbortPhases, LeasePhases, GuardedPhases, TerminalPhases
<1>18. ASSUME NEW m \in Moves, MoveFile(m) PROVE TypeOK'
  <2>1. Goal(m) \in Backends /\ m.file \in {"map", "config"}
    BY TypeParts, TypePartsNext DEF Goal, Target, Opposite, Backends,
       JournalSet, FileSet, Moves,
       PublishMap, PublishConfig, RestoreConfig, RestoreMap
  <2>2. local' \in FileSet
    BY <1>18, <2>1, TypeParts, TypePartsNext DEF MoveFile, FileSet
  <2> QED
    BY <1>18, <2>2, TypeParts, TypePartsNext DEF MoveFile
<1>19. ASSUME NEW m \in Moves, Moved(m) PROVE TypeOK'
  BY <1>19, MovePhases, CheckpointTyped DEF Moved, Phases, HoldPhases,
     AbortPhases, LeasePhases, GuardedPhases, TerminalPhases
<1>20. CASE StartReleasing
  BY <1>20, CheckpointTyped DEF StartReleasing, Phases, HoldPhases,
     AbortPhases, LeasePhases, GuardedPhases, TerminalPhases
<1>21. CASE RecordReleased
  <2>1. call.at \in Projects /\ call' \in CallSet
    BY <1>21, TypeParts, TypePartsNext, CallWritten DEF RecordReleased,
       Releasing, NextProject
  <2>2. [Recorded EXCEPT !.released = TRUE] \in FenceSet(sequence)
    BY <2>1, TypeParts, TypePartsNext DEF Recorded, JournalSet, FenceSet
  <2> QED
    BY <1>21, <2>1, <2>2, TypeParts, TypePartsNext,
       FenceWritten DEF RecordReleased, WriteFence
<1>22. CASE RecordSuccessor
  <2>1. call.at \in Projects
    BY <1>22, TypeParts, TypePartsNext, CallWritten DEF RecordSuccessor,
       Releasing
  <2>2. [token |-> Row.token, released |-> FALSE] \in FenceSet(sequence)
    BY <2>1, TypeParts, TypePartsNext DEF Row, RowSet, FenceSet
  <2> QED
    BY <1>22, <2>1, <2>2, TypeParts, TypePartsNext,
       FenceWritten DEF RecordSuccessor, WriteFence
<1>23. CASE Retake
  <2>1. journal.id \in Nobody .. Foreign
    BY TypeParts, TypePartsNext, PublicationAssumption DEF JournalSet, Nobody,
       Foreign
  <2>2. call.at \in Projects /\ Take(call.at, journal.id)
    BY <1>23, TypeParts, TypePartsNext, CallWritten DEF Retake, Releasing
  <2> QED
    BY <1>23, <2>1, <2>2, TakeTyped, TypeParts, TypePartsNext DEF Retake
<1>24. CASE ReleaseRow
  <2>1. call.at \in Projects
    BY <1>24, TypeParts, TypePartsNext, CallWritten DEF ReleaseRow, Releasing
  <2> QED
    BY <1>24, <2>1, TypeParts, TypePartsNext, RowSettled DEF ReleaseRow,
       RowStates
<1>25. CASE Released
  BY <1>25, CheckpointTyped DEF Released, Phases, HoldPhases, AbortPhases,
     LeasePhases, GuardedPhases, TerminalPhases
<1>26. CASE Completed
  BY <1>26, TypeParts, TypePartsNext, PhaseWritten, CallWritten DEF Completed,
     Write, Finish, Phases, HoldPhases, AbortPhases, LeasePhases,
     GuardedPhases, TerminalPhases
<1>27. CASE AbortUnsealed
  BY <1>27, TypeParts, TypePartsNext, PhaseWritten,
     CallWritten DEF AbortUnsealed, Write, Finish, Phases, HoldPhases,
     AbortPhases, LeasePhases, GuardedPhases, TerminalPhases
<1>28. CASE StartAborting
  BY <1>28, CheckpointTyped DEF StartAborting, Phases, HoldPhases, AbortPhases,
     LeasePhases, GuardedPhases, TerminalPhases
<1>29. CASE CleanupMaterial
  BY <1>29, TypeParts, TypePartsNext DEF CleanupMaterial
<1>30. CASE Aborted
  BY <1>30, TypeParts, TypePartsNext, PhaseWritten, CallWritten DEF Aborted,
     Write, Finish, Phases, HoldPhases, AbortPhases, LeasePhases,
     GuardedPhases, TerminalPhases
<1>31. CASE Abort
  <2>1. [faults EXCEPT !.abort = faults.abort + 1] \in FaultSet
    BY <1>31, TypeParts, TypePartsNext, PublicationAssumption DEF Abort,
       FaultSet
  <2> QED
    BY <1>31, <2>1, TypeParts, TypePartsNext, CallWritten DEF Abort
<1>32. CASE Crash
  <2>1. [faults EXCEPT !.crash = faults.crash + 1] \in FaultSet
    BY <1>32, TypeParts, TypePartsNext, PublicationAssumption DEF Crash,
       FaultSet
  <2> QED
    BY <1>32, <2>1, TypeParts, TypePartsNext, CallWritten DEF Crash, Finish
<1>33. ASSUME NEW p \in Projects, Expire(p) PROVE TypeOK'
  <2>1. [faults EXCEPT !.expire[p] = faults.expire[p] + 1] \in FaultSet
    BY <1>33, TypeParts, TypePartsNext, PublicationAssumption DEF Expire,
       FaultSet
  <2> QED
    BY <1>33, <2>1, TypeParts, TypePartsNext, RowSettled DEF Expire, RowStates
<1>34. ASSUME NEW p \in Projects, ForeignAcquire(p) PROVE TypeOK'
  <2>1. Foreign \in Nobody .. Foreign
    BY PublicationAssumption DEF Nobody, Foreign
  <2>2. [faults EXCEPT !.foreign = faults.foreign + 1] \in FaultSet
    BY <1>34, TypeParts, TypePartsNext,
       PublicationAssumption DEF ForeignAcquire, FaultSet
  <2> QED
    BY <1>34, <2>1, <2>2, TakeTyped, TypeParts,
       TypePartsNext DEF ForeignAcquire
<1>35. ASSUME NEW p \in Projects, ForeignRelease(p) PROVE TypeOK'
  BY <1>35, TypeParts, TypePartsNext, RowSettled DEF ForeignRelease, RowStates
<1>36. CASE UNCHANGED vars
  BY <1>36, TypeParts, TypePartsNext DEF vars
<1> QED
  BY <1>1, <1>2, <1>3, <1>4, <1>5, <1>6, <1>7, <1>8, <1>9, <1>10, <1>11, <1>12,
     <1>13, <1>14, <1>15, <1>16, <1>17, <1>18, <1>19, <1>20, <1>21, <1>22,
     <1>23, <1>24, <1>25, <1>26, <1>27, <1>28, <1>29, <1>30, <1>31, <1>32,
     <1>33, <1>34, <1>35, <1>36 DEF Next, CoordinatorStep, DriverStep

(* One step keeps what the phases say of the two files.                    *)
LEMMA FileStep ==
  ASSUME TypeOK, FileInv, [Next]_vars
  PROVE  FileInv'
<1> USE PublicationAssumption DEF FileInv, Phases, HoldPhases, AbortPhases,
         LeasePhases, GuardedPhases, TerminalPhases, Target, Opposite, TypeOK
<1>1. CASE EnterMaintenance
  BY <1>1 DEF EnterMaintenance
<1>2. CASE HoldMaintenance
  BY <1>2 DEF HoldMaintenance, MaintenanceStep, Write
<1>3. CASE PrepareMaintenanceSelection
  BY <1>3 DEF PrepareMaintenanceSelection, MaintenanceStep, Write
<1>4. CASE CompleteMaintenanceSelection
  BY <1>4 DEF CompleteMaintenanceSelection, MaintenanceStep, Write
<1>5. CASE AbortMaintenance
  BY <1>5 DEF AbortMaintenance, MaintenanceStep, Write
<1>6. CASE Activate
  BY <1>6 DEF Activate
<1>7. ASSUME NEW p \in Projects, TakeLease(p) PROVE FileInv'
  BY <1>7 DEF TakeLease
<1>8. CASE Drive
  BY <1>8 DEF Drive
<1>9. CASE Refuse
  BY <1>9 DEF Refuse
<1>10. CASE WritePreparing
  BY <1>10 DEF WritePreparing
<1>11. CASE SealMaterial
  BY <1>11 DEF SealMaterial
<1>12. CASE Prepared
  BY <1>12 DEF Prepared
<1>13. CASE StartAcquiring
  BY <1>13 DEF StartAcquiring, Checkpoint, Write
<1>14. CASE AcquireGuard
  BY <1>14 DEF AcquireGuard, Acquiring
<1>15. CASE RecordGuard
  BY <1>15 DEF RecordGuard, Acquiring, WriteFence
<1>16. CASE Guarded
  BY <1>16 DEF Guarded, Checkpoint, Write
<1>17. ASSUME NEW m \in Moves, StartMove(m) PROVE FileInv'
  BY <1>17 DEF StartMove, MayMove, Checkpoint, Write, Moves, PublishMap,
     PublishConfig, RestoreConfig, RestoreMap, Backends
<1>18. ASSUME NEW m \in Moves, MoveFile(m) PROVE FileInv'
  BY <1>18 DEF MoveFile, MayMove, Goal, Moves, PublishMap, PublishConfig,
     RestoreConfig, RestoreMap, Backends
<1>19. ASSUME NEW m \in Moves, Moved(m) PROVE FileInv'
  BY <1>19 DEF Moved, MayMove, Checkpoint, Write, Goal, Moves, PublishMap,
     PublishConfig, RestoreConfig, RestoreMap, Backends
<1>20. CASE StartReleasing
  BY <1>20 DEF StartReleasing, Checkpoint, Write
<1>21. CASE RecordReleased
  BY <1>21 DEF RecordReleased, Releasing, WriteFence
<1>22. CASE RecordSuccessor
  BY <1>22 DEF RecordSuccessor, Releasing, WriteFence
<1>23. CASE Retake
  BY <1>23 DEF Retake, Releasing
<1>24. CASE ReleaseRow
  BY <1>24 DEF ReleaseRow, Releasing
<1>25. CASE Released
  BY <1>25 DEF Released, Checkpoint, Write
<1>26. CASE Completed
  BY <1>26 DEF Completed, Write
<1>27. CASE AbortUnsealed
  BY <1>27 DEF AbortUnsealed, Write
<1>28. CASE StartAborting
  BY <1>28 DEF StartAborting, Checkpoint, Write
<1>29. CASE CleanupMaterial
  BY <1>29 DEF CleanupMaterial, AbortReleased
<1>30. CASE Aborted
  BY <1>30 DEF Aborted, AbortReleased, Write
<1>31. CASE Abort
  BY <1>31 DEF Abort
<1>32. CASE Crash
  BY <1>32 DEF Crash
<1>33. ASSUME NEW p \in Projects, Expire(p) PROVE FileInv'
  BY <1>33 DEF Expire
<1>34. ASSUME NEW p \in Projects, ForeignAcquire(p) PROVE FileInv'
  BY <1>34 DEF ForeignAcquire
<1>35. ASSUME NEW p \in Projects, ForeignRelease(p) PROVE FileInv'
  BY <1>35 DEF ForeignRelease
<1>36. CASE UNCHANGED vars
  BY <1>36 DEF vars
<1> QED
  BY <1>1, <1>2, <1>3, <1>4, <1>5, <1>6, <1>7, <1>8, <1>9, <1>10, <1>11, <1>12,
     <1>13, <1>14, <1>15, <1>16, <1>17, <1>18, <1>19, <1>20, <1>21, <1>22,
     <1>23, <1>24, <1>25, <1>26, <1>27, <1>28, <1>29, <1>30, <1>31, <1>32,
     <1>33, <1>34, <1>35, <1>36 DEF Next, CoordinatorStep, DriverStep

(* One step keeps what is known of the running call.                       *)
LEMMA CallStep ==
  ASSUME TypeOK, CallInv, [Next]_vars
  PROVE  CallInv'
<1> USE PublicationAssumption DEF CallInv, TypeOK, Phases, HoldPhases,
         AbortPhases, LeasePhases, GuardedPhases, TerminalPhases, Wanted,
         NextId, Unsealed
<1>1. CASE EnterMaintenance
  BY <1>1 DEF EnterMaintenance, Idle
<1>2. CASE HoldMaintenance
  BY <1>2 DEF HoldMaintenance, MaintenanceStep, Idle, Write
<1>3. CASE PrepareMaintenanceSelection
  BY <1>3 DEF PrepareMaintenanceSelection, MaintenanceStep, Idle, Write
<1>4. CASE CompleteMaintenanceSelection
  BY <1>4 DEF CompleteMaintenanceSelection, MaintenanceStep, Idle, Write
<1>5. CASE AbortMaintenance
  BY <1>5 DEF AbortMaintenance, MaintenanceStep, Idle, Write
<1>6. CASE Activate
  BY <1>6 DEF Activate, Idle, NoCall
<1>7. ASSUME NEW p \in Projects, TakeLease(p) PROVE CallInv'
  BY <1>7 DEF TakeLease
<1>8. CASE Drive
  BY <1>8 DEF Drive
<1>9. CASE Refuse
  BY <1>9 DEF Refuse, Finish, NoCall
<1>10. CASE WritePreparing
  BY <1>10 DEF WritePreparing
<1>11. CASE SealMaterial
  BY <1>11 DEF SealMaterial
<1>12. CASE Prepared
  BY <1>12 DEF Prepared
<1>13. CASE StartAcquiring
  BY <1>13 DEF StartAcquiring, Checkpoint, Write
<1>14. CASE AcquireGuard
  BY <1>14 DEF AcquireGuard, Acquiring
<1>15. CASE RecordGuard
  BY <1>15 DEF RecordGuard, Acquiring
<1>16. CASE Guarded
  BY <1>16 DEF Guarded, Checkpoint, Write
<1>17. ASSUME NEW m \in Moves, StartMove(m) PROVE CallInv'
  BY <1>17, MovePhases DEF StartMove, MayMove, Checkpoint, Write
<1>18. ASSUME NEW m \in Moves, MoveFile(m) PROVE CallInv'
  BY <1>18 DEF MoveFile, MayMove
<1>19. ASSUME NEW m \in Moves, Moved(m) PROVE CallInv'
  BY <1>19, MovePhases DEF Moved, MayMove, Checkpoint, Write
<1>20. CASE StartReleasing
  BY <1>20 DEF StartReleasing, Checkpoint, Write
<1>21. CASE RecordReleased
  BY <1>21 DEF RecordReleased, Releasing, NextProject
<1>22. CASE RecordSuccessor
  BY <1>22 DEF RecordSuccessor, Releasing
<1>23. CASE Retake
  BY <1>23 DEF Retake, Releasing
<1>24. CASE ReleaseRow
  BY <1>24 DEF ReleaseRow, Releasing
<1>25. CASE Released
  BY <1>25 DEF Released, Checkpoint, Write
<1>26. CASE Completed
  BY <1>26 DEF Completed, Write, Finish, NoCall
<1>27. CASE AbortUnsealed
  BY <1>27 DEF AbortUnsealed, Write, Finish, NoCall
<1>28. CASE StartAborting
  BY <1>28 DEF StartAborting, Checkpoint, Write
<1>29. CASE CleanupMaterial
  BY <1>29 DEF CleanupMaterial, AbortReleased
<1>30. CASE Aborted
  BY <1>30 DEF Aborted, AbortReleased, Write, Finish, NoCall
<1>31. CASE Abort
  BY <1>31 DEF Abort, Idle, NoCall
<1>32. CASE Crash
  BY <1>32 DEF Crash, Finish, NoCall
<1>33. ASSUME NEW p \in Projects, Expire(p) PROVE CallInv'
  BY <1>33 DEF Expire
<1>34. ASSUME NEW p \in Projects, ForeignAcquire(p) PROVE CallInv'
  BY <1>34 DEF ForeignAcquire
<1>35. ASSUME NEW p \in Projects, ForeignRelease(p) PROVE CallInv'
  BY <1>35 DEF ForeignRelease
<1>36. CASE UNCHANGED vars
  BY <1>36 DEF vars
<1> QED
  BY <1>1, <1>2, <1>3, <1>4, <1>5, <1>6, <1>7, <1>8, <1>9, <1>10, <1>11, <1>12,
     <1>13, <1>14, <1>15, <1>16, <1>17, <1>18, <1>19, <1>20, <1>21, <1>22,
     <1>23, <1>24, <1>25, <1>26, <1>27, <1>28, <1>29, <1>30, <1>31, <1>32,
     <1>33, <1>34, <1>35, <1>36 DEF Next, CoordinatorStep, DriverStep

(* One step keeps the guards.                                              *)
LEMMA GuardStep ==
  ASSUME TypeOK, CallInv, GuardInv, [Next]_vars
  PROVE  GuardInv'
<1> USE PublicationAssumption DEF GuardInv, GuardsHeld, Unreleased, Mine,
         TypeOK, Phases, HoldPhases, AbortPhases, LeasePhases, GuardedPhases,
         TerminalPhases
<1>1. CASE EnterMaintenance
  BY <1>1 DEF EnterMaintenance, Idle
<1>2. CASE HoldMaintenance
  BY <1>2 DEF HoldMaintenance, MaintenanceStep, Idle, Write
<1>3. CASE PrepareMaintenanceSelection
  BY <1>3 DEF PrepareMaintenanceSelection, MaintenanceStep, Idle, Write
<1>4. CASE CompleteMaintenanceSelection
  BY <1>4 DEF CompleteMaintenanceSelection, MaintenanceStep, Idle, Write
<1>5. CASE AbortMaintenance
  BY <1>5 DEF AbortMaintenance, MaintenanceStep, Idle, Write
<1>6. CASE Activate
  BY <1>6 DEF Activate, Idle, NoCall, Wanted, CallInv
<1>7. ASSUME NEW p \in Projects, TakeLease(p) PROVE GuardInv'
  BY <1>7 DEF TakeLease, Take, Obtainable, Active, Wanted, NextId, Unsealed,
     CallInv
<1>8. CASE Drive
  BY <1>8 DEF Drive, CallInv, Projects
<1>9. CASE Refuse
  BY <1>9 DEF Refuse, Finish, NoCall
<1>10. CASE WritePreparing
  BY <1>10 DEF WritePreparing, NextId, Unsealed
<1>11. CASE SealMaterial
  BY <1>11 DEF SealMaterial
<1>12. CASE Prepared
  BY <1>12 DEF Prepared
<1>13. CASE StartAcquiring
  BY <1>13 DEF StartAcquiring, Checkpoint, Write, Projects
<1>14. CASE AcquireGuard
  BY <1>14 DEF AcquireGuard, Acquiring, Take, Obtainable, Active
<1>15. CASE RecordGuard
  <2>1. call.at \in Projects /\ call'.op = call.op /\ call'.at = call.at + 1
        /\ call.op = "resume" /\ journal.phase = "acquiring"
    BY <1>15 DEF RecordGuard, Acquiring, Projects
  <2>2. /\ journal'.phase = "acquiring" /\ journal'.id = journal.id /\ rows' = rows
        /\ \A p \in Projects : p # call.at => journal'.fences[p] = journal.fences[p]
        /\ journal'.fences[call.at].token = rows[call.at].token
    BY <1>15, <2>1 DEF RecordGuard, Acquiring, WriteFence
  <2>3. Unreleased(call.at, journal.id) /\ rows[call.at].token > 0
    BY <1>15, <2>1 DEF RecordGuard, Active
  <2>4. \A p \in Projects : p < call'.at => p < call.at \/ p = call.at
    BY <2>1, WalkedSoFar
  <2> QED
    BY <2>1, <2>2, <2>3, <2>4
<1>16. CASE Guarded
  <2>1. /\ call.op = "resume" /\ journal.phase = "acquiring"
        /\ \A p \in Projects : p < call.at
    BY <1>16 DEF Guarded, Checkpoint, Projects
  <2>2. /\ journal'.phase = "guarded" /\ journal'.id = journal.id
        /\ journal'.fences = journal.fences /\ rows' = rows
    BY <1>16 DEF Guarded, Checkpoint, Write
  <2> QED
    BY <2>1, <2>2
<1>17. ASSUME NEW m \in Moves, StartMove(m) PROVE GuardInv'
  BY <1>17, MovePhases DEF StartMove, Checkpoint, Write
<1>18. ASSUME NEW m \in Moves, MoveFile(m) PROVE GuardInv'
  BY <1>18 DEF MoveFile
<1>19. ASSUME NEW m \in Moves, Moved(m) PROVE GuardInv'
  BY <1>19, MovePhases DEF Moved, MayMove, Checkpoint, Write
<1>20. CASE StartReleasing
  BY <1>20 DEF StartReleasing, Checkpoint, Write
<1>21. CASE RecordReleased
  BY <1>21 DEF RecordReleased, Releasing, WriteFence, NextProject, Recorded,
     Row
<1>22. CASE RecordSuccessor
  BY <1>22 DEF RecordSuccessor, Releasing, WriteFence, Recorded, Row, Active
<1>23. CASE Retake
  BY <1>23 DEF Retake, Releasing, Take, Recorded, Row, Obtainable
<1>24. CASE ReleaseRow
  BY <1>24 DEF ReleaseRow, Releasing, Recorded, Row, Active
<1>25. CASE Released
  BY <1>25 DEF Released, Checkpoint, Write
<1>26. CASE Completed
  BY <1>26 DEF Completed, Write, Finish, NoCall
<1>27. CASE AbortUnsealed
  BY <1>27 DEF AbortUnsealed, Write, Finish, NoCall
<1>28. CASE StartAborting
  BY <1>28 DEF StartAborting, Checkpoint, Write
<1>29. CASE CleanupMaterial
  BY <1>29 DEF CleanupMaterial, AbortReleased
<1>30. CASE Aborted
  BY <1>30 DEF Aborted, AbortReleased, Write, Finish, NoCall
<1>31. CASE Abort
  BY <1>31 DEF Abort, Idle, NoCall
<1>32. CASE Crash
  BY <1>32 DEF Crash, Finish, NoCall
<1>33. ASSUME NEW p \in Projects, Expire(p) PROVE GuardInv'
  BY <1>33 DEF Expire
<1>34. ASSUME NEW p \in Projects, ForeignAcquire(p) PROVE GuardInv'
  BY <1>34 DEF ForeignAcquire, Take, Obtainable
<1>35. ASSUME NEW p \in Projects, ForeignRelease(p) PROVE GuardInv'
  BY <1>35 DEF ForeignRelease, Active, Foreign
<1>36. CASE UNCHANGED vars
  BY <1>36 DEF vars
<1> QED
  BY <1>1, <1>2, <1>3, <1>4, <1>5, <1>6, <1>7, <1>8, <1>9, <1>10, <1>11, <1>12,
     <1>13, <1>14, <1>15, <1>16, <1>17, <1>18, <1>19, <1>20, <1>21, <1>22,
     <1>23, <1>24, <1>25, <1>26, <1>27, <1>28, <1>29, <1>30, <1>31, <1>32,
     <1>33, <1>34, <1>35, <1>36 DEF Next, CoordinatorStep, DriverStep

(* One step keeps what is known of the released rows.                      *)
LEMMA ReleaseStep ==
  ASSUME TypeOK, CallInv, ReleaseInv, [Next]_vars
  PROVE  ReleaseInv'
<1> USE PublicationAssumption DEF ReleaseInv, ReleasedAtEnd, Unreleased, Mine,
         TypeOK, Phases, HoldPhases, AbortPhases, LeasePhases, GuardedPhases,
         TerminalPhases
<1>1. CASE EnterMaintenance
  BY <1>1 DEF EnterMaintenance, Idle
<1>2. CASE HoldMaintenance
  BY <1>2 DEF HoldMaintenance, MaintenanceStep, Idle, Write
<1>3. CASE PrepareMaintenanceSelection
  BY <1>3 DEF PrepareMaintenanceSelection, MaintenanceStep, Idle, Write
<1>4. CASE CompleteMaintenanceSelection
  BY <1>4 DEF CompleteMaintenanceSelection, MaintenanceStep, Idle, Write
<1>5. CASE AbortMaintenance
  BY <1>5 DEF AbortMaintenance, MaintenanceStep, Idle, Write
<1>6. CASE Activate
  BY <1>6 DEF Activate, Idle, NoCall, Wanted, CallInv, Projects
<1>7. ASSUME NEW p \in Projects, TakeLease(p) PROVE ReleaseInv'
  BY <1>7 DEF TakeLease, Take, Obtainable, Active, Wanted, NextId, Unsealed,
     CallInv
<1>8. CASE Drive
  BY <1>8 DEF Drive, CallInv, Projects
<1>9. CASE Refuse
  BY <1>9 DEF Refuse, Finish, NoCall
<1>10. CASE WritePreparing
  BY <1>10 DEF WritePreparing, NextId, Unsealed, NoFence
<1>11. CASE SealMaterial
  BY <1>11 DEF SealMaterial
<1>12. CASE Prepared
  BY <1>12 DEF Prepared
<1>13. CASE StartAcquiring
  BY <1>13 DEF StartAcquiring, Checkpoint, Write
<1>14. CASE AcquireGuard
  BY <1>14 DEF AcquireGuard, Acquiring, Take, Obtainable, Active
<1>15. CASE RecordGuard
  BY <1>15 DEF RecordGuard, Acquiring, WriteFence, Active
<1>16. CASE Guarded
  BY <1>16 DEF Guarded, Checkpoint, Write
<1>17. ASSUME NEW m \in Moves, StartMove(m) PROVE ReleaseInv'
  <2>1. /\ rows' = rows /\ journal'.id = journal.id /\ journal'.sealed = journal.sealed
        /\ journal'.fences = journal.fences
    BY <1>17 DEF StartMove, Checkpoint, Write
  <2>2. journal'.phase \in {"map-publishing", "config-publishing", "config-restoring",
                           "map-restoring"}
    BY <1>17, MovePhases DEF StartMove, Checkpoint, Write
  <2> QED
    BY <2>1, <2>2
<1>18. ASSUME NEW m \in Moves, MoveFile(m) PROVE ReleaseInv'
  BY <1>18 DEF MoveFile, MayMove
<1>19. ASSUME NEW m \in Moves, Moved(m) PROVE ReleaseInv'
  <2>1. /\ rows' = rows /\ journal'.id = journal.id /\ journal'.sealed = journal.sealed
        /\ journal'.fences = journal.fences /\ call'.at = 1
    BY <1>19 DEF Moved, Checkpoint, Write
  <2>2. journal'.phase \in {"map-published", "config-published", "map-restoring",
                           "abort-releasing"}
    BY <1>19, MovePhases DEF Moved, Checkpoint, Write
  <2>3. \A p \in Projects : ~(p < call'.at)
    BY <2>1 DEF Projects
  <2> QED
    BY <2>1, <2>2, <2>3
<1>20. CASE StartReleasing
  BY <1>20 DEF StartReleasing, Checkpoint, Write, Projects
<1>21. CASE RecordReleased
  <2>1. call.at \in Projects /\ call'.op = call.op /\ call'.at = call.at + 1
    BY <1>21 DEF RecordReleased, Releasing, NextProject, Projects
  <2>2. /\ journal'.phase = journal.phase /\ journal'.id = journal.id
        /\ journal'.sealed = journal.sealed /\ rows' = rows
        /\ \A p \in Projects : /\ journal'.fences[p].token = journal.fences[p].token
                               /\ p # call.at => journal'.fences[p] = journal.fences[p]
    BY <1>21, <2>1 DEF RecordReleased, WriteFence, Recorded
  <2>3. journal.fences[call.at].token # 0 =>
            /\ journal'.fences[call.at].released
            /\ ~Unreleased(call.at, journal.id)
            /\ rows[call.at].token = journal.fences[call.at].token
                  => rows[call.at].state = "released"
    BY <1>21, <2>1 DEF RecordReleased, WriteFence, Recorded, Row,
       SupersededByReleasedSuccessor
  <2>4. journal.fences[call.at].token = 0 => journal' = journal
    BY <1>21 DEF RecordReleased, Recorded
  <2>5. \/ call.op = "resume" /\ journal.phase = "releasing"
        \/ call.op = "abort" /\ journal.phase = "abort-releasing"
    BY <1>21 DEF RecordReleased, Releasing
  <2>6. ASSUME NEW p \in Projects, journal'.fences[p].released,
               rows[p].token = journal'.fences[p].token
        PROVE  rows[p].state = "released"
    <3>1. CASE p # call.at \/ journal.fences[p].token = 0
      BY <2>2, <2>4, <2>6, <3>1
    <3>2. CASE p = call.at /\ journal.fences[p].token # 0
      BY <2>2, <2>3, <2>6, <3>2
    <3> QED
      BY <3>1, <3>2
  <2>7. ASSUME NEW p \in Projects, p < call'.at, journal'.fences[p].token # 0
        PROVE  ~Unreleased(p, journal.id) /\ journal'.fences[p].released
    <3>1. CASE p = call.at
      BY <2>2, <2>3, <2>7, <3>1
    <3>2. CASE p # call.at
      <4>1. p < call.at
        BY <2>1, <2>7, <3>2, WalkedSoFar
      <4> QED
        BY <2>2, <2>5, <2>7, <3>2, <4>1
    <3> QED
      BY <3>1, <3>2
  <2>8. ReleasedAtEnd'
    BY <2>2, <2>5, <2>6
  <2> QED
    BY <2>1, <2>2, <2>5, <2>6, <2>7, <2>8
<1>22. CASE RecordSuccessor
  BY <1>22 DEF RecordSuccessor, Releasing, WriteFence, Recorded, Row, Active
<1>23. CASE Retake
  BY <1>23 DEF Retake, Releasing, Take, Recorded, Row, Obtainable
<1>24. CASE ReleaseRow
  BY <1>24 DEF ReleaseRow, Releasing, Recorded, Row, Active
<1>25. CASE Released
  <2>1. /\ rows' = rows /\ journal'.id = journal.id /\ journal'.sealed = journal.sealed
        /\ journal'.fences = journal.fences /\ journal'.phase = "released"
    BY <1>25 DEF Released, Checkpoint, Write
  <2>2. /\ call.op = "resume" /\ journal.phase = "releasing"
        /\ \A p \in Projects : p < call.at
    BY <1>25 DEF Released, Checkpoint, Projects
  <2> QED
    BY <2>1, <2>2
<1>26. CASE Completed
  <2>1. 1 \in Projects
    BY DEF Projects
  <2>2. journal.phase = "released" /\ material /\ journal.fences[1].token # 0
    BY <1>26, <2>1 DEF Completed, FencesRecorded
  <2>3. journal.sealed
    BY <2>1, <2>2
  <2>4. /\ journal'.phase = "completed" /\ journal'.id = journal.id
        /\ journal'.sealed = journal.sealed /\ journal'.fences = journal.fences
        /\ rows' = rows /\ material' = material /\ call'.op = "none"
    BY <1>26 DEF Completed, Write, Finish, NoCall
  <2> QED
    BY <2>2, <2>3, <2>4
<1>27. CASE AbortUnsealed
  BY <1>27 DEF AbortUnsealed, Write, Finish, NoCall
<1>28. CASE StartAborting
  BY <1>28 DEF StartAborting, Checkpoint, Write
<1>29. CASE CleanupMaterial
  BY <1>29 DEF CleanupMaterial, AbortReleased
<1>30. CASE Aborted
  <2>1. /\ call.op = "abort" /\ journal.phase = "abort-releasing"
        /\ \A p \in Projects : p < call.at
    BY <1>30 DEF Aborted, AbortReleased, Projects
  <2>2. /\ rows' = rows /\ journal'.id = journal.id /\ journal'.sealed = journal.sealed
        /\ journal'.fences = journal.fences /\ journal'.phase = "aborted"
    BY <1>30 DEF Aborted, Write
  <2> QED
    BY <2>1, <2>2
<1>31. CASE Abort
  BY <1>31 DEF Abort, Idle, NoCall, Projects
<1>32. CASE Crash
  BY <1>32 DEF Crash, Finish, NoCall
<1>33. ASSUME NEW p \in Projects, Expire(p) PROVE ReleaseInv'
  BY <1>33 DEF Expire
<1>34. ASSUME NEW p \in Projects, ForeignAcquire(p) PROVE ReleaseInv'
  BY <1>34 DEF ForeignAcquire, Take, Obtainable, Foreign
<1>35. ASSUME NEW p \in Projects, ForeignRelease(p) PROVE ReleaseInv'
  BY <1>35 DEF ForeignRelease, Active
<1>36. CASE UNCHANGED vars
  BY <1>36 DEF vars
<1> QED
  BY <1>1, <1>2, <1>3, <1>4, <1>5, <1>6, <1>7, <1>8, <1>9, <1>10, <1>11, <1>12,
     <1>13, <1>14, <1>15, <1>16, <1>17, <1>18, <1>19, <1>20, <1>21, <1>22,
     <1>23, <1>24, <1>25, <1>26, <1>27, <1>28, <1>29, <1>30, <1>31, <1>32,
     <1>33, <1>34, <1>35, <1>36 DEF Next, CoordinatorStep, DriverStep

-----------------------------------------------------------------------------
\* The inductive invariant.
PublicationInv == TypeOK /\ CallInv /\ GuardInv /\ ReleaseInv /\ FileInv

(* The invariant holds at the start.                                       *)
LEMMA PublicationInit == Init => PublicationInv
<1> SUFFICES ASSUME Init PROVE PublicationInv
  OBVIOUS
<1>1. /\ journal.phase = "none" /\ ~journal.sealed /\ call = NoCall
      /\ journal.source = local /\ local = [map |-> "sqlite", config |-> "sqlite"]
      /\ \A p \in Projects : journal.fences[p] = NoFence /\ rows[p].state = "absent"
  BY DEF Init
<1>2. TypeOK
  <2>1. journal \in JournalSet(sequence)
    BY PublicationAssumption DEF Init, JournalSet, FileSet, FenceSet, NoFence,
       Backends,
       Phases, TerminalPhases
  <2>2. rows \in [Projects -> RowSet(sequence)]
    BY PublicationAssumption DEF Init, RowSet, RowStates, Nobody, Foreign
  <2>3. call \in CallSet
    BY PublicationAssumption DEF Init, NoCall, CallSet
  <2>4. faults \in FaultSet
    BY PublicationAssumption DEF Init, FaultSet
  <2> QED
    BY <2>1, <2>2, <2>3, <2>4, TypeParts DEF Init, FileSet, Backends
<1>3. CallInv
  BY <1>1 DEF CallInv, NoCall
<1>4. GuardInv
  BY <1>1 DEF GuardInv, GuardsHeld, GuardedPhases
<1>5. ReleaseInv
  BY <1>1 DEF ReleaseInv, ReleasedAtEnd, NoFence
<1>6. FileInv
  BY <1>1 DEF FileInv, HoldPhases
<1> QED
  BY <1>2, <1>3, <1>4, <1>5, <1>6 DEF PublicationInv

(* The five steps together: a step keeps the invariant.                    *)
LEMMA PublicationStep == PublicationInv /\ [Next]_vars => PublicationInv'
  BY TypeStep, CallStep, GuardStep, ReleaseStep, FileStep DEF PublicationInv

(* The invariant holds in every reachable state.                           *)
LEMMA PublicationInvAlways == Spec => []PublicationInv
  BY PublicationInit, PublicationStep, PTL DEF Spec

(* Every file, journal, row and call keeps its type: in particular no      *)
(* token is ahead of the sequence it was drawn from.                       *)
THEOREM PublicationTyped == Spec => []TypeOK
<1>1. PublicationInv => TypeOK
  BY DEF PublicationInv
<1> QED
  BY <1>1, PublicationInvAlways, PTL

(* For any number of projects, crashes, expiries and rival homes: in the   *)
(* phases that move the files forward, from guarded to config-published,   *)
(* every project's row is this publication's and unreleased, under the     *)
(* token the journal has recorded or a greater one (acquireAll, takeover). *)
(* Nothing is said of a release or of an abort: an abort from releasing    *)
(* restores files after rows were given back.                              *)
THEOREM GuardsHeldAlways == Spec => []GuardsHeld
<1>1. PublicationInv => GuardsHeld
  BY DEF PublicationInv, GuardInv
<1> QED
  BY <1>1, PublicationInvAlways, PTL

(* For any number of projects, crashes, expiries and rival homes: a        *)
(* journal that has ended holds no row it has recorded.                    *)
THEOREM ReleasedAtEndAlways == Spec => []ReleasedAtEnd
<1>1. PublicationInv => ReleasedAtEnd
  BY DEF PublicationInv, ReleaseInv
<1> QED
  BY <1>1, PublicationInvAlways, PTL

-----------------------------------------------------------------------------
(* The refinement.  A completed publication admits consumers of its        *)
(* target; every other terminal phase leaves the files at their source.    *)
LEMMA TerminalFiles ==
  ASSUME PublicationInv, journal.phase \in TerminalPhases
  PROVE  /\ local \in Selection!Selections
         /\ journal.phase = "completed" => Admitted
         /\ journal.phase # "completed" => local = journal.source
<1> USE DEF PublicationInv, TypeOK
<1>1. journal.source.map = journal.source.config /\ journal.source.config \in Backends
      /\ journal.source = [map |-> journal.source.map, config |-> journal.source.config]
  BY DEF FileInv
<1>2. CASE journal.phase = "completed"
  <2>1. local = [map |-> Opposite(journal.source.config),
                 config |-> Opposite(journal.source.config)]
    BY <1>2 DEF FileInv, Target
  <2>2. Opposite(journal.source.config) \in Backends
    BY DEF Opposite, Backends
  <2>3. Evidence
    BY <1>2 DEF Evidence, ReleaseInv
  <2> QED
    BY <1>2, <2>1, <2>2, <2>3 DEF Admitted, Expected, TerminalPhases,
       Selection!Selections
<1>3. CASE journal.phase # "completed"
  <2>1. local = journal.source
    BY <1>3 DEF FileInv, TerminalPhases
  <2> QED
    BY <1>1, <1>3, <2>1 DEF Selection!Selections
<1> QED
  BY <1>2, <1>3

(* In the next state too, a terminal phase has both files at one backend.  *)
LEMMA TerminalFilesNext ==
  ASSUME PublicationInv', journal'.phase \in TerminalPhases
  PROVE  local' \in Selection!Selections
<1>1. local'.map = local'.config /\ local' \in [map : Backends, config : Backends]
  BY DEF PublicationInv, FileInv, TypeOK, TerminalPhases, Target
<1> QED
  BY <1>1 DEF Selection!Selections

\* A step that starts nothing new.
SourceKept ==
    /\ journal'.source = journal.source
    /\ journal.phase \in TerminalPhases => UNCHANGED <<journal, local, material>>

(* Only the start of a maintenance or of a publication leaves a terminal phase. *)
LEMMA SourceStep ==
  ASSUME TypeOK, [Next]_vars
  PROVE  EnterMaintenance \/ WritePreparing \/ SourceKept
<1> USE PublicationAssumption DEF TypeOK, SourceKept, TerminalPhases
<1>1. CASE EnterMaintenance
  BY <1>1
<1>2. CASE HoldMaintenance
  BY <1>2 DEF HoldMaintenance, MaintenanceStep, Idle, Write
<1>3. CASE PrepareMaintenanceSelection
  BY <1>3 DEF PrepareMaintenanceSelection, MaintenanceStep, Idle, Write
<1>4. CASE CompleteMaintenanceSelection
  BY <1>4 DEF CompleteMaintenanceSelection, MaintenanceStep, Idle, Write
<1>5. CASE AbortMaintenance
  BY <1>5 DEF AbortMaintenance, MaintenanceStep, Idle, Write
<1>6. CASE Activate
  BY <1>6 DEF Activate, Idle, NoCall, Wanted
<1>7. ASSUME NEW p \in Projects, TakeLease(p) PROVE SourceKept
  BY <1>7 DEF TakeLease, Take, Obtainable, Active, Mine, Wanted, NextId,
     Unsealed
<1>8. CASE Drive
  BY <1>8 DEF Drive
<1>9. CASE Refuse
  BY <1>9 DEF Refuse, Finish, NoCall
<1>10. CASE WritePreparing
  BY <1>10
<1>11. CASE SealMaterial
  BY <1>11 DEF SealMaterial
<1>12. CASE Prepared
  BY <1>12 DEF Prepared
<1>13. CASE StartAcquiring
  BY <1>13 DEF StartAcquiring, Checkpoint, Write
<1>14. CASE AcquireGuard
  BY <1>14 DEF AcquireGuard, Acquiring, Take, Obtainable, Active, Mine
<1>15. CASE RecordGuard
  BY <1>15 DEF RecordGuard, Acquiring, WriteFence, Active, Mine
<1>16. CASE Guarded
  BY <1>16 DEF Guarded, Checkpoint, Write
<1>17. ASSUME NEW m \in Moves, StartMove(m) PROVE SourceKept
  BY <1>17, MovePhases DEF StartMove, MayMove, Checkpoint, Write
<1>18. ASSUME NEW m \in Moves, MoveFile(m) PROVE SourceKept
  BY <1>18, MovePhases DEF MoveFile, MayMove
<1>19. ASSUME NEW m \in Moves, Moved(m) PROVE SourceKept
  BY <1>19, MovePhases DEF Moved, MayMove, Checkpoint, Write
<1>20. CASE StartReleasing
  BY <1>20 DEF StartReleasing, Checkpoint, Write
<1>21. CASE RecordReleased
  BY <1>21 DEF RecordReleased, Releasing, WriteFence, NextProject, Recorded,
     Row, SupersededByReleasedSuccessor, Mine
<1>22. CASE RecordSuccessor
  BY <1>22 DEF RecordSuccessor, Releasing, WriteFence, Recorded, Row, Active,
     Mine
<1>23. CASE Retake
  BY <1>23 DEF Retake, Releasing, Take, Recorded, Row, Mine, Obtainable
<1>24. CASE ReleaseRow
  BY <1>24 DEF ReleaseRow, Releasing, Recorded, Row, Active, Mine
<1>25. CASE Released
  BY <1>25 DEF Released, Checkpoint, Write
<1>26. CASE Completed
  BY <1>26 DEF Completed, Write, Finish, NoCall, FencesRecorded
<1>27. CASE AbortUnsealed
  BY <1>27 DEF AbortUnsealed, Write, Finish, NoCall
<1>28. CASE StartAborting
  BY <1>28 DEF StartAborting, Checkpoint, Write, LeasePhases, GuardedPhases
<1>29. CASE CleanupMaterial
  BY <1>29 DEF CleanupMaterial, AbortReleased
<1>30. CASE Aborted
  BY <1>30 DEF Aborted, AbortReleased, Write, Finish, NoCall
<1>31. CASE Abort
  BY <1>31 DEF Abort, Idle, NoCall
<1>32. CASE Crash
  BY <1>32 DEF Crash, Finish, NoCall
<1>33. ASSUME NEW p \in Projects, Expire(p) PROVE SourceKept
  BY <1>33 DEF Expire
<1>34. ASSUME NEW p \in Projects, ForeignAcquire(p) PROVE SourceKept
  BY <1>34 DEF ForeignAcquire, Take, Obtainable, Mine
<1>35. ASSUME NEW p \in Projects, ForeignRelease(p) PROVE SourceKept
  BY <1>35 DEF ForeignRelease, Active, Mine
<1>36. CASE UNCHANGED vars
  BY <1>36 DEF vars
<1> QED
  BY <1>1, <1>2, <1>3, <1>4, <1>5, <1>6, <1>7, <1>8, <1>9, <1>10, <1>11, <1>12,
     <1>13, <1>14, <1>15, <1>16, <1>17, <1>18, <1>19, <1>20, <1>21, <1>22,
     <1>23, <1>24, <1>25, <1>26, <1>27, <1>28, <1>29, <1>30, <1>31, <1>32,
     <1>33, <1>34, <1>35, <1>36 DEF Next, CoordinatorStep, DriverStep

(* Every step closes the home, opens it, or is invisible to consumers.     *)
LEMMA SelectionStep ==
  ASSUME PublicationInv, PublicationInv', [Next]_vars
  PROVE  [Selection!Next]_(Selection!vars)
<1> USE DEF Selection!Next, Selection!Close, Selection!Reopen, Selection!vars
<1> DEFINE shown == IF Admitted THEN local ELSE journal.source
<1>1. /\ Admitted = TRUE \/ Admitted = FALSE
      /\ Admitted' = TRUE \/ Admitted' = FALSE
  BY DEF Admitted
<1>2. CASE EnterMaintenance \/ WritePreparing
  <2>1. /\ journal.phase \in TerminalPhases
        /\ journal'.phase \in {"maintenance-entering", "preparing"}
        /\ journal'.source = local /\ local' = local
    <3>1. CASE EnterMaintenance
      BY <3>1 DEF EnterMaintenance, PublicationInv, TypeOK
    <3>2. CASE WritePreparing
      BY <3>2 DEF WritePreparing
    <3> QED
      BY <1>2, <3>1, <3>2
  <2>2. Admitted' = FALSE
    BY <2>1, <1>1 DEF Admitted, TerminalPhases
  <2>3. ~Admitted => local = journal.source
    BY <2>1, TerminalFiles
  <2>4. shown' = shown
    BY <2>1, <2>2, <2>3
  <2> QED
    BY <1>1, <2>2, <2>4
<1>3. CASE SourceKept /\ journal.phase \in TerminalPhases
  BY <1>3 DEF SourceKept, Admitted, Evidence, Expected
<1>4. CASE SourceKept /\ journal.phase \notin TerminalPhases
  <2>1. Admitted = FALSE
    BY <1>4 DEF Admitted
  <2>2. CASE Admitted'
    <3>1. Admitted' = TRUE /\ shown' = local' /\ local' \in Selection!Selections
      BY <1>1, <2>2, TerminalFilesNext DEF Admitted
    <3> QED
      BY <2>1, <3>1
  <2>3. CASE ~Admitted'
    <3>1. Admitted' = FALSE /\ shown' = shown
      BY <1>1, <1>4, <2>1, <2>3 DEF SourceKept
    <3> QED
      BY <2>1, <3>1
  <2> QED
    BY <2>2, <2>3
<1> QED
  BY <1>2, <1>3, <1>4, SourceStep DEF PublicationInv

(* A change of backend is one step to the home's consumers: whatever       *)
(* crashes, runs out or is undone, the home is closed while the files      *)
(* change, and opens with both at one backend.                             *)
THEOREM SwitchIsAtomic == Spec => AtomicSwitch
<1>1. Init => Selection!Init
  <2> SUFFICES ASSUME Init PROVE Selection!Init
    OBVIOUS
  <2>1. Admitted /\ local = [map |-> "sqlite", config |-> "sqlite"]
    BY DEF Init, Admitted, Evidence, Expected, TerminalPhases
  <2> QED
    BY <2>1 DEF Selection!Init, Selection!Selections, Backends
<1>2. PublicationInv /\ PublicationInv' /\ [Next]_vars => [Selection!Next]_(Selection!vars)
  BY SelectionStep
<1> QED
  BY <1>1, <1>2, PublicationInvAlways, PTL DEF Spec, AtomicSwitch,
     Selection!Spec
=============================================================================
