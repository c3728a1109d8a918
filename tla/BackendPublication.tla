-------------------------- MODULE BackendPublication --------------------------
(***************************************************************************)
(* The change of a home's storage backend.  BackendPublicationCoordinator  *)
(* moves two local files, the project map and the configuration, from one  *)
(* backend to the other, in steps recorded in a journal, while a row per   *)
(* project in PostgreSQL (the remote guard) keeps writers out.  A process  *)
(* may stop between any two steps; a later one reads the journal and goes  *)
(* on or undoes what was done.  Activation drives the coordinator: it      *)
(* takes or keeps the rows of the projects, then prepares or resumes.      *)
(*                                                                         *)
(* Calls hold the home's publication lock, so there is one at a time.  A   *)
(* crash and an error of the database or of a file have the same effect:   *)
(* the call ends where it is.  A file is abstracted to the backend it is   *)
(* written for; publications are numbered in the order they are started.   *)
(***************************************************************************)
EXTENDS Naturals

CONSTANTS
    Last,             \* the projects are 1 .. Last, in the journal's order
    MaxPublications,  \* bound: publications and maintenance holds started
    MaxCrashes,       \* bound: calls cut off
    MaxExpiries,      \* bound: times the row of a project runs out
    MaxAborts,        \* bound: aborts asked for from outside
    MaxForeign        \* bound: rows taken by a publication of another home

ASSUME PublicationAssumption ==
    /\ Last \in Nat \ {0} /\ MaxPublications \in Nat
    /\ MaxCrashes \in Nat /\ MaxExpiries \in Nat /\ MaxAborts \in Nat /\ MaxForeign \in Nat

Projects == 1 .. Last
Backends == {"sqlite", "postgresql"}
Opposite(b) == IF b = "sqlite" THEN "postgresql" ELSE "sqlite"

\* Owners of a row: a publication of this home by its number, or another home.
Nobody == 0
Foreign == MaxPublications + 1

VARIABLES
    journal,    \* the journal file
    local,      \* the project map and the configuration
    material,   \* the sealed recovery material of the journal's publication
    rows,       \* the backend-publication row of each project
    sequence,   \* the fencing-token sequence: the last token drawn
    call,       \* the operation that holds the publication lock
    faults      \* what has gone wrong so far

vars == <<journal, local, material, rows, sequence, call, faults>>

NoFence == [token |-> 0, released |-> FALSE]
NoCall == [op |-> "none", at |-> 1, asked |-> FALSE]

HoldPhases == {"maintenance-entering", "maintenance-held", "selection-prepared"}
AbortPhases == {"aborting", "config-restoring", "map-restoring", "abort-releasing"}
GuardedPhases == {"guarded", "map-publishing", "map-published",
                  "config-publishing", "config-published"}
LeasePhases == {"preparing", "prepared", "acquiring"} \cup GuardedPhases
TerminalPhases == {"none", "completed", "aborted", "selection-completed",
                   "maintenance-aborted"}
Phases == HoldPhases \cup AbortPhases \cup LeasePhases \cup TerminalPhases
          \cup {"releasing", "released"}

TypeOK ==
    /\ journal \in [id : 0 .. MaxPublications, phase : Phases,
                    source : [map : Backends, config : Backends],
                    sealed : BOOLEAN,
                    fences : [Projects -> [token : 0 .. sequence, released : BOOLEAN]]]
    /\ local \in [map : Backends, config : Backends]
    /\ material \in BOOLEAN
    /\ sequence \in Nat
    /\ rows \in [Projects -> [owner : Nobody .. Foreign, token : 0 .. sequence,
                              state : {"absent", "held", "expired", "released"}]]
    /\ call \in [op : {"none", "lease", "prepare", "resume", "abort"},
                 at : 1 .. Last + 1, asked : BOOLEAN]
    /\ faults \in [crash : 0 .. MaxCrashes, abort : 0 .. MaxAborts,
                   foreign : 0 .. MaxForeign,
                   expire : [Projects -> 0 .. MaxExpiries]]

Init ==
    /\ local = [map |-> "sqlite", config |-> "sqlite"]
    /\ journal = [id |-> 0, phase |-> "none", source |-> local, sealed |-> FALSE,
                  fences |-> [p \in Projects |-> NoFence]]
    /\ material = FALSE
    /\ rows = [p \in Projects |-> [owner |-> Nobody, token |-> 0, state |-> "absent"]]
    /\ sequence = 0
    /\ call = NoCall
    /\ faults = [crash |-> 0, abort |-> 0, foreign |-> 0,
                 expire |-> [p \in Projects |-> 0]]

-----------------------------------------------------------------------------
(* The rows.  A row that is not released is never given to another owner,  *)
(* not even when it has run out; its own publication may take it over.     *)

Mine(p, id) == rows[p].owner = id
Active(p, id) == Mine(p, id) /\ rows[p].state = "held"

\* Fault: a row out of time is given to whoever asks.
ExpiredIsFree(p, id) == rows[p].state # "held"

Obtainable(p, id) ==
    \/ rows[p].state \in {"absent", "released"}
    \/ Mine(p, id) /\ rows[p].state = "expired"

\* Fault: the token is not drawn from the sequence.
TakeUncounted(p, id) ==
    /\ Obtainable(p, id)
    /\ rows' = [rows EXCEPT ![p] = [owner |-> id, token |-> sequence + 1,
                                    state |-> "held"]]
    /\ UNCHANGED sequence

Take(p, id) ==
    /\ Obtainable(p, id)
    /\ sequence' = sequence + 1
    /\ rows' = [rows EXCEPT ![p] = [owner |-> id, token |-> sequence + 1,
                                    state |-> "held"]]

\* The row of p still belongs to publication id and is not released.
Unreleased(p, id) == Mine(p, id) /\ rows[p].state \in {"held", "expired"}

-----------------------------------------------------------------------------
(* The journal. *)

Write(phase) == journal' = [journal EXCEPT !.phase = phase]

WriteFence(p, fence) == journal' = [journal EXCEPT !.fences[p] = fence]

\* An abort that found nothing sealed.  The same publication is prepared again.
Unsealed == journal.phase = "aborted" /\ ~journal.sealed

\* A new publication: after a completed selection or an unsealed abort it
\* keeps the number the journal has.
NextId == IF journal.phase = "selection-completed" \/ Unsealed
          THEN journal.id ELSE journal.id + 1

\* The publication the activation works for.
Wanted == IF journal.phase \in TerminalPhases THEN NextId ELSE journal.id

Idle == call.op = "none"

Finish == call' = NoCall

-----------------------------------------------------------------------------
(* Maintenance: a migration holds the home, then selects the backend or    *)
(* gives up.  Each operation is one journal write; enterMaintenance is two *)
(* and may be repeated from the first.                                     *)

EnterMaintenance ==
    /\ Idle
    /\ journal.phase \in TerminalPhases
    /\ journal.id < MaxPublications
    /\ journal' = [journal EXCEPT !.phase = "maintenance-entering",
                                  !.id = journal.id + 1, !.source = local]
    /\ UNCHANGED <<local, material, rows, sequence, call, faults>>

MaintenanceStep(from, to) ==
    /\ Idle
    /\ journal.phase \in from
    /\ Write(to)
    /\ UNCHANGED <<local, material, rows, sequence, call, faults>>

HoldMaintenance == MaintenanceStep({"maintenance-entering"}, "maintenance-held")

PrepareMaintenanceSelection ==
    MaintenanceStep({"maintenance-held"}, "selection-prepared")

CompleteMaintenanceSelection ==
    MaintenanceStep({"selection-prepared"}, "selection-completed")

AbortMaintenance ==
    MaintenanceStep({"maintenance-entering", "maintenance-held"}, "maintenance-aborted")

-----------------------------------------------------------------------------
(* Activation.  The rows are taken or taken over before the coordinator is *)
(* called, except once it is releasing them itself or undoing its work.    *)

Activate ==
    /\ Idle
    /\ journal.phase \notin HoldPhases
    /\ Wanted <= MaxPublications
    /\ call' = [NoCall EXCEPT !.op =
                   IF journal.phase \in LeasePhases \cup TerminalPhases THEN "lease"
                   ELSE IF journal.phase \in AbortPhases THEN "abort" ELSE "resume"]
    /\ UNCHANGED <<journal, local, material, rows, sequence, faults>>

\* stepLeaseAcquire and continueLease.  The latter calls a row lost that is
\* absent or released; where it is called the row is never found so.
TakeLease(p) ==
    /\ call.op = "lease"
    /\ ~Active(p, Wanted)
    /\ Take(p, Wanted)
    /\ UNCHANGED <<journal, local, material, call, faults>>

\* The assertion of every row, then the dispatch on the journal.
Drive ==
    /\ call.op = "lease"
    /\ \A p \in Projects : Active(p, Wanted)
    /\ call' = [call EXCEPT !.op =
                   IF journal.phase \in TerminalPhases THEN "prepare"
                   ELSE IF journal.phase = "preparing" /\ ~material THEN "abort"
                   ELSE "resume"]
    /\ UNCHANGED <<journal, local, material, rows, sequence, faults>>

-----------------------------------------------------------------------------
(* prepare: the journal, then the sealed material, then the checkpoint.    *)

WritePreparing ==
    /\ call.op = "prepare"
    /\ journal.phase \in TerminalPhases
    /\ journal' = [id |-> NextId, phase |-> "preparing", source |-> local,
                   sealed |-> FALSE, fences |-> [p \in Projects |-> NoFence]]
    /\ material' = FALSE
    /\ UNCHANGED <<local, rows, sequence, call, faults>>

SealMaterial ==
    /\ call.op = "prepare"
    /\ journal.phase = "preparing" /\ ~material
    /\ material' = TRUE
    /\ UNCHANGED <<journal, local, rows, sequence, call, faults>>

\* A later resume or abort that finds the material makes this step as well.
Prepared ==
    /\ call.op \in {"prepare", "resume", "abort"}
    /\ journal.phase = "preparing" /\ material
    /\ journal' = [journal EXCEPT !.phase = "prepared", !.sealed = TRUE]
    /\ call' = [call EXCEPT !.op = IF @ = "prepare" THEN "resume" ELSE @]
    /\ UNCHANGED <<local, material, rows, sequence, faults>>

-----------------------------------------------------------------------------
(* resume: acquire every row, publish the map, then the configuration,     *)
(* then release every row.                                                 *)

\* A step that only moves the journal on; the walk over the projects restarts.
Checkpoint(op, from, to) ==
    /\ call.op = op
    /\ journal.phase = from
    /\ Write(to)
    /\ call' = [call EXCEPT !.at = 1, !.asked = FALSE]
    /\ UNCHANGED <<local, material, rows, sequence, faults>>

StartAcquiring == Checkpoint("resume", "prepared", "acquiring")

Acquiring == call.op = "resume" /\ journal.phase = "acquiring" /\ call.at <= Last

AcquireGuard ==
    /\ Acquiring
    /\ ~Active(call.at, journal.id) /\ ~call.asked
    /\ Take(call.at, journal.id)
    /\ call' = [call EXCEPT !.asked = TRUE]
    /\ UNCHANGED <<journal, local, material, faults>>

RecordGuard ==
    /\ Acquiring
    /\ Active(call.at, journal.id)
    /\ WriteFence(call.at, [token |-> rows[call.at].token, released |-> FALSE])
    /\ call' = [call EXCEPT !.at = @ + 1, !.asked = FALSE]
    /\ UNCHANGED <<local, material, rows, sequence, faults>>

Guarded == call.at > Last /\ Checkpoint("resume", "acquiring", "guarded")

\* One file taken from one content to the other: the phase before, the phase
\* during the write (the same, where the code has no checkpoint of its own),
\* and the phase after.
Target == LET b == Opposite(journal.source.config) IN [map |-> b, config |-> b]

PublishMap == [op |-> "resume", file |-> "map", before |-> "guarded",
               during |-> "map-publishing", after |-> "map-published"]
PublishConfig == [op |-> "resume", file |-> "config", before |-> "map-published",
                  during |-> "config-publishing", after |-> "config-published"]
\* Fault: the undoing ends with the configuration.
RestoreConfigOnly == [op |-> "abort", file |-> "config", before |-> "aborting",
                      during |-> "config-restoring", after |-> "abort-releasing"]
RestoreConfig == [op |-> "abort", file |-> "config", before |-> "aborting",
                  during |-> "config-restoring", after |-> "map-restoring"]
RestoreMap == [op |-> "abort", file |-> "map", before |-> "map-restoring",
               during |-> "map-restoring", after |-> "abort-releasing"]

Moves == {PublishMap, PublishConfig, RestoreConfig, RestoreMap}

Goal(m) == IF m.op = "resume" THEN Target[m.file] ELSE journal.source[m.file]

FencesRecorded == \A p \in Projects : journal.fences[p].token # 0

\* What both the forward and the undoing steps ask before they go on.
MayMove(m) ==
    /\ call.op = m.op /\ material
    /\ journal.phase \in {m.before, m.during}
    /\ m.op = "resume" => FencesRecorded

StartMove(m) ==
    /\ MayMove(m) /\ m.before # m.during
    /\ local[m.file] # Goal(m)
    /\ Checkpoint(m.op, m.before, m.during)

MoveFile(m) ==
    /\ MayMove(m)
    /\ journal.phase = m.during
    /\ local[m.file] # Goal(m)
    /\ local' = [local EXCEPT ![m.file] = Goal(m)]
    /\ UNCHANGED <<journal, material, rows, sequence, call, faults>>

\* The file is read back, or is found as it should be after a crash.
Moved(m) ==
    /\ MayMove(m)
    /\ local[m.file] = Goal(m)
    /\ Checkpoint(m.op, journal.phase, m.after)

StartReleasing ==
    /\ FencesRecorded
    /\ Checkpoint("resume", "config-published", "releasing")

-----------------------------------------------------------------------------
(* releaseAll, of both directions, one project at a time.                  *)

Releasing ==
    /\ \/ call.op = "resume" /\ journal.phase = "releasing" /\ FencesRecorded
       \/ call.op = "abort" /\ journal.phase = "abort-releasing"
    /\ call.at <= Last

Recorded == journal.fences[call.at]
Row == rows[call.at]

\* Fault: a greater token alone is taken for the proof.
GreaterToken == Row.token > Recorded.token

\* Another publication has the row under a greater token, which it can only
\* have got after the recorded fence was released.
SupersededByReleasedSuccessor ==
    ~Mine(call.at, journal.id) /\ Row.token > Recorded.token

NextProject == call' = [call EXCEPT !.at = @ + 1]

\* No fence was recorded for the project, or it is found released.
RecordReleased ==
    /\ Releasing
    /\ \/ Recorded.token = 0 /\ UNCHANGED journal
       \/ /\ Recorded.token # 0
          /\ \/ SupersededByReleasedSuccessor
             \/ /\ Mine(call.at, journal.id) /\ Row.token = Recorded.token
                /\ Row.state = "released"
          /\ WriteFence(call.at, [Recorded EXCEPT !.released = TRUE])
    /\ NextProject
    /\ UNCHANGED <<local, material, rows, sequence, faults>>

\* The row was taken over under a greater token since the fence was recorded.
RecordSuccessor ==
    /\ Releasing /\ Recorded.token # 0
    /\ Active(call.at, journal.id) /\ Row.token > Recorded.token
    /\ WriteFence(call.at, [token |-> Row.token, released |-> FALSE])
    /\ UNCHANGED <<local, material, rows, sequence, call, faults>>

\* Fault: an abort does not take over the rows it has to release.
RetakeOnResume ==
    /\ call.op = "resume"
    /\ Releasing /\ Recorded.token # 0
    /\ Mine(call.at, journal.id) /\ Row.token = Recorded.token
    /\ Row.state = "expired"
    /\ Take(call.at, journal.id)
    /\ UNCHANGED <<journal, local, material, call, faults>>

\* A row out of time cannot be released: it is taken over first.
Retake ==
    /\ Releasing /\ Recorded.token # 0
    /\ Mine(call.at, journal.id) /\ Row.token = Recorded.token
    /\ Row.state = "expired"
    /\ Take(call.at, journal.id)
    /\ UNCHANGED <<journal, local, material, call, faults>>

ReleaseRow ==
    /\ Releasing /\ Recorded.token # 0
    /\ Active(call.at, journal.id) /\ Row.token = Recorded.token
    /\ rows' = [rows EXCEPT ![call.at].state = "released"]
    /\ UNCHANGED <<journal, local, material, sequence, call, faults>>

Released == call.at > Last /\ Checkpoint("resume", "releasing", "released")

Completed ==
    /\ call.op = "resume" /\ journal.phase = "released"
    /\ material /\ FencesRecorded
    /\ Write("completed")
    /\ Finish
    /\ UNCHANGED <<local, material, rows, sequence, faults>>

-----------------------------------------------------------------------------
(* abort: restore the configuration, then the map, release what was        *)
(* recorded, delete the material.                                          *)

\* Asked for from outside, at any phase a publication can be in.
Abort ==
    /\ Idle
    /\ journal.phase \notin TerminalPhases \cup HoldPhases
    /\ faults.abort < MaxAborts
    /\ faults' = [faults EXCEPT !.abort = @ + 1]
    /\ call' = [NoCall EXCEPT !.op = "abort"]
    /\ UNCHANGED <<journal, local, material, rows, sequence>>

AbortUnsealed ==
    /\ call.op = "abort"
    /\ journal.phase = "preparing" /\ ~material
    /\ Write("aborted")
    /\ Finish
    /\ UNCHANGED <<local, material, rows, sequence, faults>>

StartAborting ==
    \E from \in (LeasePhases \ {"preparing"}) \cup {"releasing", "released"} :
        Checkpoint("abort", from, "aborting")

AbortReleased == call.op = "abort" /\ journal.phase = "abort-releasing" /\ call.at > Last

CleanupMaterial ==
    /\ AbortReleased /\ material
    /\ material' = FALSE
    /\ UNCHANGED <<journal, local, rows, sequence, call, faults>>

Aborted ==
    /\ AbortReleased /\ ~material
    /\ Write("aborted")
    /\ Finish
    /\ UNCHANGED <<local, material, rows, sequence, faults>>

-----------------------------------------------------------------------------
(* Refusals, crashes, the clock and the other home.                        *)

\* The row of the project in hand answers neither to the recorded fence nor to
\* a released successor.
ReleaseRefused ==
    /\ Releasing /\ Recorded.token # 0 /\ ~SupersededByReleasedSuccessor
    /\ \/ ~Mine(call.at, journal.id) \/ Row.token < Recorded.token
       \/ Row.token > Recorded.token /\ Row.state # "held"

AcquireRefused ==
    /\ Acquiring
    /\ ~Active(call.at, journal.id)
    /\ call.asked \/ ~Obtainable(call.at, journal.id)

LeaseRefused ==
    /\ call.op = "lease"
    /\ \E p \in Projects : ~Active(p, Wanted) /\ ~Obtainable(p, Wanted)

Refuse ==
    /\ ReleaseRefused \/ AcquireRefused \/ LeaseRefused
    /\ Finish
    /\ UNCHANGED <<journal, local, material, rows, sequence, faults>>

Crash ==
    /\ ~Idle
    /\ faults.crash < MaxCrashes
    /\ faults' = [faults EXCEPT !.crash = @ + 1]
    /\ Finish
    /\ UNCHANGED <<journal, local, material, rows, sequence>>

Expire(p) ==
    /\ rows[p].state = "held" /\ rows[p].owner # Foreign
    /\ faults.expire[p] < MaxExpiries
    /\ faults' = [faults EXCEPT !.expire[p] = @ + 1]
    /\ rows' = [rows EXCEPT ![p].state = "expired"]
    /\ UNCHANGED <<journal, local, material, sequence, call>>

ForeignAcquire(p) ==
    /\ faults.foreign < MaxForeign
    /\ Take(p, Foreign)
    /\ faults' = [faults EXCEPT !.foreign = @ + 1]
    /\ UNCHANGED <<journal, local, material, call>>

ForeignRelease(p) ==
    /\ Active(p, Foreign)
    /\ rows' = [rows EXCEPT ![p].state = "released"]
    /\ UNCHANGED <<journal, local, material, sequence, call, faults>>

-----------------------------------------------------------------------------
CoordinatorStep ==
    \/ WritePreparing \/ SealMaterial \/ Prepared
    \/ StartAcquiring \/ AcquireGuard \/ RecordGuard \/ Guarded
    \/ \E m \in Moves : StartMove(m) \/ MoveFile(m) \/ Moved(m)
    \/ StartReleasing \/ RecordReleased \/ RecordSuccessor \/ Retake \/ ReleaseRow
    \/ Released \/ Completed
    \/ AbortUnsealed \/ StartAborting \/ CleanupMaterial \/ Aborted

DriverStep == \/ Activate \/ Drive \/ Refuse
              \/ \E p \in Projects : TakeLease(p)

Next ==
    \/ EnterMaintenance \/ HoldMaintenance \/ PrepareMaintenanceSelection
    \/ CompleteMaintenanceSelection \/ AbortMaintenance
    \/ CoordinatorStep \/ DriverStep
    \/ Abort \/ Crash
    \/ \E p \in Projects : Expire(p) \/ ForeignAcquire(p) \/ ForeignRelease(p)

Spec == Init /\ [][Next]_vars

(* A call that is running goes on, and an activation that was cut off is   *)
(* run again: `lcm migrate activate` is repeated until it reports the end. *)
FairSpec == Spec /\ WF_vars(CoordinatorStep \/ DriverStep)

-----------------------------------------------------------------------------
(* What a consumer is admitted to (assertBackendPublicationConsumerAccess  *)
(* and the terminal evidence it asks for).                                 *)

Expected ==
    IF journal.phase \in {"completed", "selection-completed"}
    THEN Opposite(journal.source.config) ELSE journal.source.config

Evidence ==
    journal.phase \in {"completed", "aborted"} =>
        /\ journal.sealed
        /\ \A p \in Projects : journal.fences[p].token # 0 => journal.fences[p].released
        /\ journal.phase = "completed" => material

Admitted == journal.phase \in TerminalPhases /\ Evidence /\ local.config = Expected

-----------------------------------------------------------------------------
(* From the first change of a local file to the start of the release or of *)
(* an abort, every project's row is this publication's and unreleased,     *)
(* under the recorded token or a greater one: no rival gets a row, even    *)
(* one that has run out, while files are moved forward (acquireAll,        *)
(* takeover).                                                              *)
GuardsHeld ==
    journal.phase \in GuardedPhases =>
        \A p \in Projects :
            /\ Unreleased(p, journal.id)
            /\ 0 < journal.fences[p].token /\ journal.fences[p].token <= rows[p].token

(* No journal ends while a row it has recorded is still held for it: what  *)
(* it records as released was released, also when the proof is another     *)
(* publication's row (supersededByReleasedSuccessor), and no later         *)
(* recovery has taken the row again (releaseAll).                          *)
ReleasedAtEnd ==
    /\ \A p \in Projects : journal.fences[p].released =>
           ~(Mine(p, journal.id) /\ rows[p].token = journal.fences[p].token
               /\ rows[p].state # "released")
    /\ journal.phase \in {"released", "completed", "aborted"} =>
           \A p \in Projects : journal.fences[p].token # 0 => ~Unreleased(p, journal.id)

(* Consumers see the switch as one step: whenever one is admitted, map and *)
(* configuration name the same backend, whatever crashed and wherever the  *)
(* publication was resumed or aborted.                                     *)
Selection == INSTANCE BackendSelection WITH
    open <- Admitted,
    selected <- IF Admitted THEN local ELSE journal.source

AtomicSwitch == Selection!Spec

(* A publication that was cut off ends, completed or aborted, when its     *)
(* activation is run again (recoverPending).                               *)
RecoveryEnds ==
    (journal.phase \notin TerminalPhases \cup HoldPhases)
        ~> (journal.phase \in TerminalPhases)
=============================================================================
