# Verification of lcm

TLA+ modules, TLC runs and TLAPS proofs for lcm, the daemon that keeps the
history of coding-agent conversations, folds old messages into a tree of
summaries, and lets agents read it back. Source paths below are relative to the
repository (`src/compaction.ts` is the engine's file).

## 1. The system

| Part | State it keeps | Operations | What is hard about it |
|---|---|---|---|
| Compaction engine (`src/compaction.ts`) | nothing between calls; the locals of a run | `compact`, `compactLeaf`, `compactFullSweep`, `compactUntilUnder` | a pass reads the list, waits for a model for minutes, then writes by ordinals it read before |
| Conversation and summary store (`src/store/`, `src/storage/postgresql/`) | messages, context list, summaries and links | `appendMessages`, `appendContextMessages`, `insertSummary`, `replaceContextRangeWithSummary` | one transaction against another; ordinals that shift |
| Transcript ingestion (`src/daemon/routes/ingest.ts`) | no cursor; counts rows | `appendSessionTranscript`, slot adoption, Codex lineage | cumulative lists sent again, late and shortened; rows of older versions |
| Invocation coordinator (`src/daemon/invocation-coordinator.ts`) and `/compact` | records, tombstones, permit counts, lease timers | `start heartbeat cancel finish admitWork acquireCommit shutdown` | timers, disconnects and control calls race with permits |
| Retrieval (`src/retrieval.ts`) | none | `expand`, `describe`, `grep` | direction of links, token cap |
| Project and publication queues (`src/daemon/*-queue.ts`) | promise chains | `enqueue` | admission from inside an admission; cancellation before and after the callback starts |
| PostgreSQL coordination (`src/storage/postgresql/coordination.ts`) | leases with fencing tokens, the inbox of passive events | acquire, renew, release, fenced commit, ordered claim, cleanup | paused holders, expiry during a commit |
| Passive events (`src/hooks/`, `src/daemon/passive-event-*.ts`, `src/storage/local-hook-outbox.ts`) | local outbox, remote inbox, claims, acknowledgements, timers | capture, replicate, claim, apply, acknowledge, prune, replay, relink | at-least-once delivery, crashes between two stores, timers against stopping |
| Private mutation lock (`src/private-mutation-lock.ts`) | a lock file | acquire, reclaim, release | owners that die |
| Backend publication (`src/storage/backend-publication.ts`) and its driver in migration (`src/migration/activation-publication.ts`) | a journal, project map, configuration, sealed material, a row per project in PostgreSQL | prepare, resume, abort, maintenance holds, activation | a crash between any two writes to five places; rows that run out |
| Migration, worktree reconciliation, lifecycle, identity, connectors, providers, CLI, MCP | files and processes | | I/O of the operating system |

`/ingest` and `/compact` run in one Node.js process: handlers interleave only
where they await. `/compact` takes a work permit of the coordinator, refuses a
session that this process already compacts (`compactingNow`), ingests the
transcript, and runs the engine, which takes a commit permit around each
transaction. Several daemons may share one PostgreSQL store.

Hooks write events to a SQLite outbox. The background processor of each daemon
promotes them and, where a project is linked to a remote one, runs replication
passes, which insert the events into PostgreSQL, claim and apply them under a
fenced lease, and read back what became of them. Requests and background tasks
that touch a home's storage are admitted through the publication queue, because a
backend publication may be changing the home's backend; the publication itself
keeps consumers out by its journal and writers out by a row in PostgreSQL.

`PROJECT.json` lists each part with its status, and under `hazards` what in this
code is hard to test, each at its line, with the properties that would catch it.

## 2. Modules

| Module | Models |
|---|---|
| `ContextStore` | the tables messages, context_items, summaries, summary_messages, summary_parents of one conversation, and the store's writes |
| `Compaction` | the engine's runs, one per daemon, interleaved with ingestion |
| `ConversationHistory` | abstract: a list to whose end messages are added, and nothing else |
| `CompactionHistory` | the refinement mapping: expanding the context list down its links yields that history |
| `MCCompaction` | the request sets of the runs |
| `CompactionProofs` | theorems about `Compaction`, and its refinement of `ConversationHistory` |
| `InvocationCoordinator`, `InvocationCoordinatorProofs` | the coordinator with the requests of `/compact`, and its theorems |
| `TranscriptSlots`, `TranscriptSlotsProofs` | which messages of a cumulative list are stored; slot markers; its theorems |
| `Retrieval` | `expand` on the links compaction writes |
| `FencedLease`, `FencedLeaseProofs` | lcm.fenced_leases and the token sequence, and its theorems |
| `EventOutbox` | the delivery columns of the local outbox and each UPDATE on them |
| `EventInbox` | lcm.passive_event_inbox and each transaction on it |
| `EventReplication` | composes the three above: the replication pass of several daemons, with replay, relink, retention and crashes |
| `EventReplicationTypes`, `EventReplicationProofs` | theorems about `EventReplication`: what each step does, types, lock, leases; then what the replication promises |
| `MCEventReplication` | the rows each worker refuses, and the lease names |
| `PublicationQueue` | the queue that admits requests and background tasks |
| `PassiveEventProcessor`, `PassiveEventProcessorProofs` | composes the queue with the scheduler of promotion and replication; its theorems |
| `BackendSelection` | abstract: what consumers of a home are promised about its backend |
| `BackendPublication`, `BackendPublicationProofs` | journal, files, rows and driver of a change of backend; its refinement of `BackendSelection`, and its theorems |

### ContextStore and Compaction

State: `messages` (kind and tokens), `context` (a sequence; position minus one
is the code's ordinal, which the store keeps contiguous), `summaries` (depth,
source ids, tokens, time range, counts). Ids are positions: both tables only
grow here. A message's id also stands for its `created_at`; the code compares
wall-clock times, so equal or backward times are outside the model.

A run is cut at the awaits that matter: `StartRun` (the route's guard),
`BeginSweep` (`tokensBefore`), `Evaluate`, `SelectLeaf` / `SelectCondensed` (the
chunk and its ordinals are copied into `job`), `MeasureBefore`, `Summarize` (the
model's reply, of any size in `ReplyTokens`, or the fallback), `Commit` (one
transaction: summary, links, context change), `MeasureAfter`, `PersistEvent`
(which may fail and is then ignored), `Finish` (with the rounds of
`compactUntilUnder`). `Ingest` may happen between any two of them. Reads that are
split in the code but see the same answer are one step: the items of a list that
only grows at its end cannot change between the two reads of one selection.
`RunStops` is a cancellation, an error of the model or of the store, a failed
`replaceContextRangeWithSummary`, or a crash of the daemon.

The texts of messages and summaries are token counts. The prior-summary context
and the file ids are not modelled: they change the prompt and nothing stored that
a property speaks of. `descendantTokenCount` is left out, being the same kind of
sum as the two counts that are kept. `compactUntilUnder` is modelled without its
optional `currentTokens`, a count observed by the caller that can start a run the
stored count would not, and against which the first round's progress is then
measured: only tests pass it.

### InvocationCoordinator

`records`, `tombstones` (least recently used first), `requests` (phase and the
record, by its number `born`, that each permit was taken from), `calls` (cancel
and finish calls that wait), `closing` and `closed` are the code's state; `proofs`
(terminal replies given) and `dead` (clients that are gone) are history
variables. Every function of the coordinator is synchronous up to its last await,
so each is one action; `Settle` is `transitionToCancel`, `maybeDrainRecord`,
`terminalize` and the resolution of waiters, which run in one turn. A lease counts
down by `Tick`, and at zero waits for `leaseTimer`: a timer that runs late is part
of the model. A request gives its work permit back before it waits for its own
cancellation, as the route's `finally` does. The TTL of tombstones and its reaper
are not modelled: production sets no TTL.

### TranscriptSlots

`rows` is the session in order: transcript rows carry the index of the client's
list they came from, event rows their slot markers. `appendSessionTranscript(n)`
is `prepareSessionTranscript` (adopting events without a marker) and
`appendTranscriptMessages` for the list 1..n, in one transaction under the
session's lock. The daemon before markers (`LegacyIngest`, `LegacyEvent`) is the
environment that produces the unmarked rows the adoption rule is for, as the
comment above `prepareSessionTranscript` and the tests describe it.

### Retrieval

`expand` with its depth, its token cap and its truncation flag, over the rows
that `linkSummaryToParents` wrote. It uses a recursive operator and holds no
theorem.

### FencedLease

`leases` is the row of each resource, `sequence` the database sequence tokens are
drawn from, `held` what each process remembers, `fenced` a history variable: the
token of the last mutation committed under the lease. The database clock is
abstracted: a held lease may run out at any moment, so a renewal is the check it
makes (`Current`) and postpones nothing the model would count. `assertLeaseFence`
holds the row locked until the mutation commits, so the two are one action.

### EventOutbox, EventInbox and EventReplication

The outbox's operators give the row after one UPDATE, whose WHERE clause is their
condition; the inbox's operators are one transaction each. A pass of
`PassiveEventReplicationWorker` is a record in `worker`: `pc` is the phase, or
the place inside one, `project` the binding it was started for, `moved` whether
`checkBinding` has seen another since, `todo`, `view` and `again` the rows in hand
and what the worker has learned of them, `claim` the event it claimed, `budget`
the claims it may still make. A phase starts with an admission (`Admitted`: the
lock of the home is free) and re-reads the binding; inside a phase each statement
on either store is a step, each remote call may fail before or after it commits,
and the process may die anywhere. `binding` is what `lcm project link` changes,
`replay` the two transactions of `lcm events replay`, and `trouble` counts what
went wrong, against one bound, `MaxTrouble`: with separate bounds the interesting
pairs (a crash and a relink, a late claim and a replay) would cost far more
states than they add. A pass that has nothing to do is left out (`HasWork`), as
it only draws a token.

A second machine that drains the same inbox is in the `replay` run only. Events
that a worker refuses (`Unsafe`, `Unsupported`) are constants, because daemons of
different versions differ in them.

### PublicationQueue and PassiveEventProcessor

The queue is a line of admissions with the state each is in, and the answer each
caller sees; a nested admission runs inside its parent's. The processor's three
tasks (drain of the queue, sweep, follow-up) are records in `task`; its timers are
flags that may fire at any time, early or late against each other. Rows are counts
of promotion and replication batches. A stop, a halt for a changed backend, a call
that is rejected and a log that cannot be written are actions.

### BackendPublication

`journal` holds the phase, the source selection, the fences and whether the
material was sealed; `local` the two files, each abstracted to the backend it is
written for; `rows` the backend-publication row of each project. A call holds the
home's publication lock, so there is at most one, in `call`; its steps are the
writes the code makes, each between two journal checkpoints. `Crash` ends a call
anywhere, and stands for an error of a file or of the database as well. `Expire`
is the clock, `ForeignAcquire` a publication of another home. `Activate`,
`TakeLease` and `Drive` are `activation-publication.ts`: it takes or takes over
the rows, asserts all of them, and dispatches on the journal. `Admitted` is the
access rule of consumers. Archives, permits, file modes and the convergence
report of a publication are left out: they add refusals, which here are crashes.

## 3. Properties and runs

| Run | Checks | Shows |
|---|---|---|
| `route` | `TypeOK ChunkFresh ContextTiles LineageTiles SummariesReferenced CountsExact Lossless FreshTailProtected` | forced sweeps of `/compact` on one daemon: the context list and the links stand for the whole transcript, once and in order |
| `engine` | `Lossless RunEnds` | soft sweep, hard trigger, incremental, until-under; every run ends |
| `invocations` | `TypeOK CountsMatch DrainProof ShutdownDrained CancelWins AbandonedDrains RequestsEnd` | permits are counted exactly; a terminal reply is a proof; nothing waits for ever |
| `slots` | `TypeOK StoredOnce NothingSkipped SlotsStable` | each message stored once, none skipped |
| `passive` | `TypeOK AcknowledgedIsApplied AppliedOnce AppliedInOrder PrunedIsGone FenceMonotone Delivered` | no event is dropped before it was applied, applied twice or out of order; each is settled in the end; no commit under an old token |
| `processor` | `TypeOK DrainsApart NothingForgotten RestsAfterStop StopResolves AdmissionsSettle RowsWorkedOff` | tasks do not overlap, nothing that waits loses its timer, stopping ends, rows are worked off |
| `publication` | `TypeOK GuardsHeld ReleasedAtEnd AtomicSwitch RecoveryEnds` | the switch is one step to consumers, rows are held while files are moved forward, recovery ends |
| `two_daemons` | `ContextTiles` is violated | see Findings |
| `fallback` | `PassSavesTokens` is violated | see Findings |
| `expand` | `ExpandListsSources` is violated | see Findings |
| `replay` | `ReplayObserved` is violated | see Findings |
| `release_tail` | `RecoveryEnds` is violated | see Findings |

### Bounds

- `route`: five transcript messages of one or two tokens, chunks of three tokens,
  fan-out two and a fresh tail of one make leaf passes, condensed passes of depth
  one and two, summaries that fill a chunk alone and empty selections all happen,
  over two compactions. `engine` runs the four other kinds of request with four
  messages.
- `invocations`: two ids and three starts with room for one tombstone, so that an
  id is evicted and started again; two requests, so that permits of one invocation
  overlap. `LeaseTicks = 1` is enough because only "ended" and "not ended" are
  compared.
- `slots`: lists of up to five and events until the session has six rows, before
  and after the upgrade.
- `passive`: two daemons of one machine, two events, two projects, batches of two,
  quarantine after two attempts, and `MaxTrouble = 2`: any two of a failed or
  unanswered call, a crash, a late clock, a relink and a replay, at any step. Two
  events are needed for order, two projects for a relink, two daemons for a claim
  or a lease that is taken over. The daemons differ in the events they refuse.
- `replay`: one daemon and one process of another machine, which applies the copy
  between the operator's two transactions.
- `processor`: two projects, three background tasks, one request that may nest an
  admission, two captures, one failure, at most two rows and two batches.
- `publication`: two projects (so that one row is acquired or released and the
  other not), two publications or holds (so that a row is found under a successor's
  token), two crashes, one expiry of each row, one abort from outside, one rival
  home. `release_tail` has one project and allows its row to run out twice.

All runs switch the deadlock check off: with their bounds used up and nothing in
progress these systems rightly stop. That they do not stop too early is what the
liveness properties say.

### Fairness

- `Compaction.FairSpec`: a run takes its next step; the event loop resumes it, and
  every call to a model ends by a reply, an error or a timeout.
- `InvocationCoordinator.FairSpec`: the clock and its timers run, and code between
  the acquisition and the release of a permit ends. Clients promise nothing.
- `EventReplication.FairSpec`: the sweep starts passes again and again, a process
  that is in a pass goes on, and a lease nobody renews runs out. Calls to
  PostgreSQL fail only as often as `MaxTrouble` allows.
- `PassiveEventProcessor.FairSpec`: timers fire, promise chains go on and the
  processor's own calls end. Operations of requests are not assumed to end:
  `StopResolves` holds without it, and `AdmissionsSettle` and `RowsWorkedOff` have
  it as their premise (`OperationsEnd`).
- `BackendPublication.FairSpec`: a running call goes on, and an activation that was
  cut off is run again, because `lcm migrate activate` is repeated until it reports
  the end.

Each property has a mutant: a definition marked `Fault` beside the one it
distorts, with which TLC finds the property violated.

## 4. Findings

- `two_daemons`: `compactingNow` is per process and a compaction takes no lease.
  Two daemons on one PostgreSQL store select overlapping chunks of one session;
  the second commit deletes, by ordinals that have shifted, items its summary does
  not cover. The adapter only checks that the ordinals exist.
- `fallback`: the truncation fallback can be larger than its sources, whose
  timestamps it keeps and to which it adds a line; the documentation says that
  compaction always makes progress. The sweep then stops, so it does not loop.
- `expand`: the writer stores (summary, parent = source); the reader looks for
  rows whose parent is the expanded summary, and so walks towards the root.
- `replay`: the operator's replay moves the local row and the remote copy in two
  transactions with no lock between them. A pass that read the copy as quarantined
  in between puts the local row back; the copy is then applied, and the row stays
  quarantined for good.
- `release_tail`: a row that has run out is taken over before the new token is in
  the journal. A crash between the two and a second expiry leave a greater token
  on a row that is not active, which every later resume and abort refuses.

Observations without a run of their own:

- `admit` (`src/daemon/invocation-coordinator.ts:358`) does not compare
  `leaseExpiresAt`: a permit can be granted after a lease has ended and before its
  timer has run, though `docs/cli.md:925` says it cannot. The write is still
  counted and drained.
- After a relink, a crash between the withdrawal of an applied copy and the local
  acknowledgement lets the event be sent and applied again. `AppliedOnce`
  therefore leaves out behaviours with both a relink and a failure.
- The proof that a pruned copy is missing reads the bound project only
  (`docs/passive-learning.md:322`); after a relink it may be satisfied by a copy
  that lies elsewhere.
- An abort before a fence is journalled leaves a row that activation has taken: it
  is not released by the publication. An abort from `releasing` or `released`
  restores the files after rows were given back, so `GuardsHeld` speaks of the
  forward phases only.
- An abort that found nothing sealed leaves a journal that admits no consumer until
  the publication is prepared again; a completed selection admits none whose
  configuration still names the source.

## 5. Proofs

Every invariant, every action property and both refinements of the passing runs are
theorems, and none of the liveness properties: a run shows a property for one value
of the constants, the theorem for all. Each proof strengthens the property
to an inductive invariant, which is named here because it says why the code works.

### CompactionProofs

Under `OneDaemon` (there are not two daemons in `Daemons`), for every
configuration, token count and number of messages, passes and runs:

- `ChunkFreshAlways`, `ContextTilesAlways`, `LineageTilesAlways`,
  `FreshTailAlways`. `ContextTiles` is not inductive: that a commit keeps it needs
  that the chunk still names what was read (`ChunkFresh`), that the summary's range
  is exactly the chunk's (`Spans`), and that items refer to rows that exist. `IInv`
  conjoins these with the lineage of every summary; appends touch only positions
  after a chunk, and the only other writer of the list is the run itself, which is
  where `OneDaemon` is used, and without it `two_daemons` is the counterexample.
- `SummariesReferencedAlways`. `AllPlaced` says where each summary is: at one
  position of the list and a source of no row, or a source of one row and not in
  the list. A commit moves the items of its chunk from the first to the second.
- `CountsExactAlways`. `CountsInv` says that ranges nest and that the two counters
  are a sum over the messages of the range and the number of summaries reached. A
  commit adds up the counters of a chunk: that nothing is counted twice is because
  the ranges of two items of the list are disjoint and what is below a summary lies
  within its range.
- `LosslessAlways`: `Compaction` implements `ConversationHistory`. The mapping
  expands the context down its links; `ContextAscending` shows that the result is
  the one ascending list of the transcript's ids, so that a step which leaves the
  transcript alone leaves the list alone, and an appended message comes at its end.
  `AllInOrder`, which the proof adds, says that the links of a summary are in the
  order of the chunk.

Without `OneDaemon`, `CompactionWellFormed` gives the types for any number of
daemons that share a store. A chunk may then be stale, so `WellFormed` asks less of
it: what a pass has selected still names stored rows.

Token sums, descendants and the expansion are recursive functions. The provers
cannot use the library's induction theorems with an operator parameter; the module
derives induction on finite sets and on numbers as facts about sets of good
subsets and of bad numbers (`GoodSubsets`, `LeastNumber`, `Upwards`), builds the
function step by step and shows it unique (`SumTable`, `ReachesExist`,
`ExpansionExists`), and then reasons by one step at a time (`SumAdd`, `ReachNext`,
`ExpandedRow`).

### InvocationCoordinatorProofs

`TypeCorrect`, `CountsMatchAlways`, `DrainProofAlways`, `ShutdownDrainedAlways` and
`CancelWinsAlways`, for any finite sets of ids and requests. `CoordinatorInv` adds
that a record's number is not larger than `started`, that a closed record alone
drains, that proofs and tombstones name invocations that have ended, and that
shutdown leaves no record active: without the second part a reused id could give a
new permit the number of an old proof. For `CancelWins` the third part means that
nothing has been said of an invocation that lives, so every answer about it is new,
and new answers are made by `Settle` alone or repeat what was kept.

### TranscriptSlotsProofs

`SlotsWellFormed`, `StoredOnceAlways`, `NothingSkippedAlways`, `SlotsStableAlways`,
for lists and sessions of any length. The next index of the client's list is a
*count* of rows, and the proof is that this count is an index: `Accounted` says
that the indices stored or lost are exactly those from 1 to the number of counted
rows. Writing down the slots of old events (the upgrade) does not change which rows
count, and before it a row's index was its place (`LegacyRows`).

### FencedLeaseProofs

`FencesGrow` (`FenceMonotone`) and `LeasesWellFormed`, for any processes and
resources. The invariant adds that no token is ahead of the sequence and that the
last fence of a resource is not ahead of its row (`TokensFromSequence`): a cleanup
deletes the row, and only the sequence keeps the next token above the fences of the
old one.

### EventReplicationTypes and EventReplicationProofs

For any processes, projects and events, in layers, each inductive over those before
it:

| Layer | Says | Gives |
|---|---|---|
| `Core` | types; where a worker can be; one daemon of a home inside a phase; no unknown copy | `ReplicationWellFormed`, `LeasesImplemented` (the composition implements `LeaseSpec`), `DrainsAreFenced` |
| `Custody` | rows on their way out are claimed by the worker that sends them; what it saw applied was applied | `NothingAcknowledgedUnapplied` |
| `LinkedInv` | until a relink all copies are in one project, and a row recorded as pruned has none | `PruneIsProven` |
| `OnceOnly` | an applied event has its applied copy, or none and a row that is settled or about to be | `DeliveredOnce` |
| `CapturedInOrder`, `Ordered` | until a replay, events arrive in order, and a pass sends no row before one that has to go first | `AppliedInSequence` |

The argument under all of them is the lock: a daemon in a phase has the publication
admission of its home, so the other daemons can only claim from the inbox, settle
claims, end their passes or die (`Resting`); hooks, retention and a replay's local
step wait for it too. So what the daemon has read of the outbox stays true until it
acts on it. Peers of other machines never touch the
outbox. What it has read of the *inbox* may be stale, and the layers say how:
`Arrived` and `Finished` are stable, so an answer that is late is still an answer.

### PassiveEventProcessorProofs

`ProcessorWellFormed`, `TasksApart`, `WorkHasWakeUp`, `StoppedIsAtRest`, for any
projects and requests. Two facts about the queue carry the proof: only the head of
the line has been entered (`OneEntered`), and a caller has at most one live slot
(`LiveOnce`). A task whose slot is live is then inside a call without an answer
(`CallsPending`), so a task that has ended left nothing in line, which is what
remains of a stopped processor (`QuietAfterStop`).

### BackendPublicationProofs

`PublicationTyped`, `GuardsHeldAlways`, `ReleasedAtEndAlways` and the refinement
`SwitchIsAtomic` (`BackendPublication` implements `BackendSelection`), for any
number of projects, publications, crashes, expiries, aborts and rival rows.
`GuardsHeldAlways` covers the forward phases, `guarded` to `config-published`; of an
abort and of the release tail it says nothing (section 4 says why), and what is left
of the rows there is `ReleasedAtEndAlways`.
`PublicationInv` has, besides the types, what the running call has established, how
far the acquisition and the release have walked, and which backend each file has in
each phase. That a fence recorded as released stays so needs no knowledge of who
holds the row: tokens only grow. The refinement follows from the file part: a
completed publication admits consumers of its target, every other terminal phase
has both files at their source, and a step out of a terminal phase copies the files
it finds into the new journal's source.

### Assumptions

`ConfigAssumption` (token counts and fan-outs as the code's `resolve...` functions
normalise them), `CoordinatorAssumption` (finite sets), `BoundsAssumption`,
`QueueAssumption` and `PublicationAssumption` (bounds are numbers; there is a
project), `LeaseAssumption` (no process is called like the owner of a missing row),
`EventsAssumption` (finitely many events, numbered in the order of capture),
`ReplicationAssumption` (batches and the quarantine limit are positive, as the code
normalises them; the lease names exist), `ProcessorAssumption` (the three tasks; the
batch limit is positive). `OneDaemon` is a hypothesis of the theorems that need it,
never of the model. The bounds of section 3 are guards: the theorems hold for each
of their values.

### Only model-checked

- Liveness (`RunEnds`, `AbandonedDrains`, `RequestsEnd`, `Delivered`,
  `StopResolves`, `AdmissionsSettle`, `RowsWorkedOff`, `RecoveryEnds`): fairness is
  out of the prover's reach.
- The violations of section 4, which are counterexamples, and with them
  `Retrieval`, whose one property is among them.

## 6. Plan

1. Proofs: what the violations leave true, as theorems next to the counterexamples:
   `ContextTiles` without a concurrent commit, the pass that saves tokens when the
   model's reply is short; the invariants under `Delivered` and `RecoveryEnds`
   (what each fair action finds enabled) as state properties.
2. `CodexLineage`: the prefix a forked session inherits, composed with
   `TranscriptSlots`.
3. `CompactionService`: `Compaction` with `InvocationCoordinator`, where a commit
   needs a permit.
4. `ProjectQueue` (the chain of the publication queue once per working directory)
   and `PrivateMutationLock`.

## 7. Not modelled

Search indexes, large files, redaction and promotion (rules about texts); parsing
of transcripts; process supervision, installation, configuration files and network
protocols (I/O). `PROJECT.json` gives the reason part by part.

Most of the repository's lines are outside what a state machine says something
about. The largest files are schema migrations and the checks of a database's
readiness (`src/storage/postgresql/migrations.ts`, `runtime-readiness.ts`: SQL text
and comparisons with it), process start and ownership (`src/daemon/lifecycle.ts`,
`supervisor.ts`: signals, sockets, files), the command line (`bin/lcm.ts`:
arguments and reports), and the copying and comparing of stores
(`src/migration/`, `src/worktree-reconciliation.ts`). A model of
`backend-publication.ts` covers its protocol; the greater part of that file reads
and validates files, which here is the refusal of a call. The map therefore names
the protocol's lines and covers a small share of all lines.
