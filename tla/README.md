# SkillLoop: specifications, model checking and proofs

SkillLoop watches coding agents through hooks, ingests the sessions, derives
learning cards, groups them into clusters, prepares a change of a registered
skill in an isolated Git worktree, evaluates it against its baseline, and
promotes it by switching a pair of symbolic links. Several processes do this
at once: hooks, any number of `skillloop daemon`s, `skillloop monitor`s and
commands. Nothing but file locks, renames, SQLite transactions and leases
coordinates them. That coordination is what is specified here.

All line numbers are those of the repository beside this directory.

## Inventory

| Component | State it keeps | Operations | Hard part | Module |
| --- | --- | --- | --- | --- |
| Policy lock, `internal/config` | `config.yaml`, two lock files | shared and exclusive acquisition, `Save`, load under the lock | decisions against mode changes, starvation of writers, failed second acquisition, crashes | `PolicyLock` |
| Release directory, `internal/improvement/release.go` | links `current` and `previous`, journal, materialized releases, `.release.lock` | `Promote`, `Rollback`, `RollbackExpected`, `CurrentRelease` | a crash or a failing file operation between two link switches | `ReleaseSwitch`, `ReleasePair` |
| Spool capture, `internal/capture` | `incoming/` and its temporaries | `Write` | the drain lists while a hook writes | `SpoolIngest` |
| Daemon, `internal/daemon` | `processing/`, `failed/` | `Drain`: recover, prune, list, process | two daemons, dead daemons, expired leases, bounded scans | `SpoolIngest` |
| Jobs, `internal/store` | table `jobs` | `EnqueueJob`, `ClaimJob`, `CommitIngestJob`, `CompleteJob`, `RetryJob`, `PruneRetention` | fencing by claim count, rows that serve as tombstones | `SpoolIngest` |
| Proposals, `internal/store`, `internal/pipeline` | `proposals`, candidate branches | `Create`: reserve, prepare, save, audit, abort; recovery of abandoned reservations | steps in the database and in Git that no transaction joins | `Reservation` |
| Approval and monitor, `internal/pipeline` | `proposals`, `evaluation_results`, `promotions`; the skill fence | `Evaluate`, `Approve`, `Reject`, `Rollback`, `Monitor` | the same, between the tables and the release pair | `Promotion` |
| Evaluator runs, `internal/improvement` | a process tree, a pipe, a buffer | `runExactPair`, `runOneAt`, the bootstrap, `terminate` | deadlines, kills and forks at any step | `EvaluatorRun` |
| Learning tables, `internal/store`, `internal/reanalysis` | `sessions`, `learning_cards`, `clusters` | `CommitIngestJob`, `RebuildClusters`, `PruneRetention`, reanalysis `Run` | rebuilds beside ingests, prunes and a reanalysis | `Learning` |
| Transcripts, `internal/transcript`; analysis, `internal/learning` | none | `normalizeReader`, `Analyze` | a growing file, reused call ids, partial identities | `Transcript`, `Analysis` |
| Activation, `internal/activation` | the agents' skill links | `Install`, `Uninstall` | partial failure with roll-back, beside others | `Activation` |
| Hook settings, `internal/hooks` | the agents' settings files | `Install`, `Uninstall` | read, change and rename without a lock | `HookInstall` |
| Sanitizer, Git and state paths, command line, migrations | none of their own | pure, or input and output | outside of these models | |

Interactions: a hook writes a file the daemon reads; the daemon leases the
event in the jobs table, normalizes and analyzes the transcript it names,
commits session and cards, rebuilds the clusters, and calls the pipeline; the
pipeline takes the policy lock shared, reserves and fills a proposal, runs the
evaluator on both revisions, takes the skill fence, switches the release pair
(which has a lock of its own), and records the promotion; a monitor evaluates
without the fence and rolls back with it; activation links an agent's skill
directory to `current`.

What makes each component correct is stated by the properties below; the
hazards they answer, at their lines, are in `PROJECT.json`.

## Modules

| Module | What it is | Theorems |
| --- | --- | --- |
| `PolicyLock` | the two policy locks and the configuration file | `PolicyLockProofs` |
| `ReleasePair` | abstract specification: one pair of revisions, replaced in one step | |
| `ReleaseSwitch` | links, journal, lock and recovery; implements `ReleasePair` | `ReleaseSwitchProofs` |
| `SpoolIngest` | capture, drain, recovery, job leases and retention | `SpoolProofs` |
| `Reservation` | how one cluster becomes one proposal: reservation, recovery, failure | `ReservationProofs` |
| `Promotion` | the approval pipeline and the monitor, composed with `ReleasePair` | `PromotionProofs` |
| `EvaluatorRun` | two evaluator runs, their process trees and the deadline | `EvaluatorRunProofs` |
| `Learning` | sessions, cards and clusters under ingests, prunes and reanalysis | `EvidenceProofs` |
| `Analysis` | correlation, attribution, outcome and cards as functions of the messages | |
| `Transcript` | the normalizer, record by record, with the analysis of what it has read | `EvidenceProofs` |
| `Activation` | install and uninstall of the agents' links | `AgentProofs` |
| `HookInstall` | install and uninstall of the handlers in a settings file | `AgentProofs` |
| `MC*` | constants, symmetry and search bounds for TLC | |

`Promotion` uses `Releases == INSTANCE ReleasePair` for its variable `pair`, so
the pipeline is checked against the abstract release directory and
`ReleaseSwitch` is what shows that the real one behaves like it. `Transcript`
extends `Analysis`, so every analysis is one of a transcript that the
normalizer lets through. `Promotion` starts where `Reservation` ends, at an
evaluated proposal, and `Learning` starts where `SpoolIngest` and `Transcript`
end, at a claimed event and the topics its transcript teaches.

Definitions marked *Deviation* are not part of any specification. Each is a
plausible mistake in the definition below it; the list in `PROJECT.json`
names the property that notices it.

### PolicyLock

`gate` and `policy` are the holders of the two lock files, `config` the
contents of `config.yaml`, `view` what a decision loaded. A reader is
`StartRead`, `ReadGate`, `ReadPolicy`, `ReadUngate`, `Load`, `ReadRelease`
(`AcquirePolicyReadLock` and the callers of `acquireCurrentPolicy`); a writer
is `StartWrite` ... `WriteUngate` (`config.Save`). `Fail` is an acquisition
that is cancelled or fails, `Crash` the death of a holder.

An attempt that polls `EWOULDBLOCK` changes nothing and is not a step.

### ReleaseSwitch

`links` and `journal` are the files, `releases` the directories that exist,
`owner` the holder of `.release.lock`, `undo` the transition in a process's
memory. Every operation enters by `Acquire` and recovers first (`ReadJournal`,
`RestorePrevious`, `RestoreCurrent`, `RestoreJournal`), evaluates its guard
(`Decide`), and for a switch runs `Materialize`, `WriteJournal`,
`SwitchPrevious`, `SwitchCurrent`, `CommitSwitch`. Each file operation
succeeds, fails before its effect, or fails after it (the rename is done and
the fsync is not). `JournalSyncFails` separates one fault from the others: the
fsync after the unlink that commits a switch.

### SpoolIngest

`hook` is what the hook process does, `place` where the event's file is, `job`
its row, `pc`, `event`, `token`, `left`, `whole` the memory of each daemon
(`whole` is "the recovery scan saw every entry"). `outcome` and `ingested` are
history variables. A rename or unlink acts on whatever the name stands for at
that moment, as in the code; a job is read in one step and acted on in a later
one. `LeaseExpires` and `JobAges` are time.

### Reservation

One cluster, because the id of a proposal is derived from its cluster's
(`stableID`) and rows of different clusters never meet. `cluster` and `row`
are the two tables, `branches` the candidate branches of the repository, `pc`
and `made` what a worker is doing and the candidate it holds. A worker lists
(`ListPending`), recovers an abandoned reservation (`AbandonIfUnchanged`),
creates (`LoadCluster`, `ReserveProposal`, `Prepare`, `SaveProposal`,
`AppendAudit`), aborts (`Cleanup`, `AbandonProposal`), evaluates or rejects.
Every transaction is one step, and so is every use of Git.

`unchanged` stands for the comparison of `updated_at` in
`AbandonProposalIfUnchanged`: the workers whose listed time is still the
row's. The five minutes of `emptyReservationStaleAfter` are a flag of the row:
`GrowStale` when its maker is gone, `Overtake` when its maker is still
preparing. The second happens at most once in a behaviour and is remembered
in `overtaken`. `row.by` and `lost` are history variables; `lost` has the
candidates left by a crash, by a removal that failed, or by a preparation that
failed after Git had made the branch (`FailWithBranch`): the removal of a new
branch is deferred only once `addWorktreeAt` has returned, and ignores errors.

### Promotion

`pair` is the release pair, `status`, `proof` and `row` are the tables,
`branch` the candidates whose branch exists, `fence` the skill fence. Each
database transaction, each branch removal, each switch of the pair is a step;
`pc` and `task` are what a command remembers between them. A proposal is named
by its exact commits. `Mishap`s are crashes and failing transactions or
clean-ups.

### EvaluatorRun

The caller's position is `pc`, the run it is in `run`. `leader` is the process
that starts as the bootstrap and becomes the evaluator, `sent` what it wrote to
the handshake pipe, `contained` whether its descendants can leave the process
group; `alive` are the descendants. `watcher` is the goroutine of `os/exec`
that calls `command.Cancel`, `once` the `sync.Once` around the kill. On Linux
the evaluator may fork and the group is killed once more after `Wait`; on
macOS it may not fork, and nothing is signalled after the leader was reaped.
`ReadReady` and `ReadExec` are the two reads of `confirmContainment`. `own` is
a history variable: how each evaluator ended without being killed.

### Learning

`file` is what the providers have under each path, `events` the hook events
not claimed yet, `sessions`, `cards`, `count` and `status` the tables. A
daemon claims an event and normalizes (`Claim`), commits (`Commit`), prunes
locators (`Prune`) and rebuilds (`Snapshot`, `Upsert`). A reanalysis lists
sessions, lists cards, resolves each transcript, inserts what is missing and
rebuilds. A transaction whose first statement is a write takes the write lock
at once and is one step; `RebuildClusters` reads first, so its first write
fails when another connection has committed since (`unchanged` holds the
processes whose snapshot is still the newest). Locators move, transcripts are
replaced by another session's under the same path, and a session is bound to
the path it came from for ever (`binding`).

### Analysis and Transcript

`Analysis` has no variables. Whose instructions a call reads is not in the
transcript: the code compares paths, links and file contents on disk when it
analyzes (`trustedInstructionPaths`, `sameInstructionPath`). A call reads a
`Place`, and every analysis is given `stands`, the enabled skills whose
instructions each place holds at that moment; `Shows` asks it. `CallOf` is `correlateToolCalls`, a loop over the
messages whose body is `Correlate`, `Outcome`
`sessionOutcome`, `Attributed` `attributedSkill`, `Recovery`
`nextSuccessfulTool`, `Cards` the rest of `Analyze` with its deduplication.
`Transcript` reads one record a step: one that only counts (`ScanOther`), one
that names a session, a directory or both (`ScanIdentity`, with `Observe` for
Codex and `ObserveClaude` for Claude), or a message; the limits reject.
`Compact` is the loop of `compact`, with `Keep` for its body.
`Accepted` says whether an ingest at this moment would take the transcript, and
`taught` collects the cards of all the ingests so far: hooks run many times in
a session, and each time the file is longer. `stands` changes between two
ingests (`ChangeInstructions`): a skill is registered or edited, a copy is
installed, a release link is switched. `withdrawn` is a history variable: the
skills that a place has lost after a call had read it.

### Activation and HookInstall

`Activation` has the two agents' destinations for skills of one name. For each
call it keeps the plan and the links created; looking at an entry (`Plan`,
`Keep`, `Undo`, `Look`) and changing it (`Link`, `UndoRemove`, `Remove`) are
two steps. `maker`, `stuck` and `raced` are history variables: whose call made
an entry, which removals failed, which entries others changed in between.

`HookInstall` is one settings file, since a command for both providers is one
call after the other. `Read` computes the new document, `WriteDocument`
renames it over whatever the file is by then. Two `Variant`s are the handlers
of two `--config` options, and a handler may stand in a group with a foreign
one or with a matcher. `Only` is the loop that keeps some elements of a
sequence: the handlers that are not the one to remove (`Without`), and the
groups that stay (`Stays`). It is a recursive function, so that it can be
reasoned about. `standing`, `outdated` and `since` are history variables: what
the last call for a handler made of it, whose file others changed since the
read, and which handlers were reported on since the read. A rename undoes what
was reported since its caller read the file, and nothing else is forgotten.

## Runs

| Run | Bounds | Result |
| --- | --- | --- |
| `policy_lock` | 3 processes, 2 policies | all properties hold |
| `release_switch` | 2 processes, 4 commits, 3 candidates | all hold; the switch implements the pair |
| `release_sync_fault` | 1 process, the committing fsync may fail | `RestingPairComplete` is violated |
| `spool_recovery` | 2 events, 1 daemon, scans of 1 entry, 4 claims, 2 mishaps, retention | all hold, liveness included |
| `spool_workers` | 2 events, 2 daemons, scans of 2 entries, 3 claims, 1 mishap | all hold |
| `promotion` | 2 actors, 3 candidates, 1 mishap | all hold |
| `reservation` | 2 workers, 3 candidates, 2 mishaps | all hold, liveness included |
| `evaluator_run` | 2 descendants, both platforms, 3 bytes of output for a buffer of 2 | all hold, liveness included |
| `learning` | 2 sessions, 1 topic, 1 daemon and a reanalysis, a quorum of 2, 3 hook events, 3 changes | all hold, liveness included |
| `transcript` | 6 records, 5 messages, 2 skills, 2 places, 2 call ids, 1 change of a place | all hold |
| `activation` | 2 processes, 2 skills of one name, 2 mishaps | all hold |
| `hook_install` | 2 callers, 2 handlers, 1 edit or crash | all hold |

Why the bounds are enough for the questions asked:

* Three processes at the policy lock give a waiting writer, a reader inside
  and a reader that arrives, with a second writer in place of any of them.
* Two candidates in a row and a rival on the first base give a first
  promotion (which adopts its base), a second one, a promotion that has lost
  the race for its base, and rollbacks to a base and to an earlier candidate.
  Two processes let one die or fail while another waits with a request.
* A scan limit below the number of entries exercises the incomplete scan that
  keeps tombstones. Four claims let a lease run out three times. A bound on
  claims is a bound on expiring leases only: `LeaseExpires` stops below
  `MaxAttempts`, never `ClaimJob`.
* Two actors are enough for every pair of operations to overlap at every
  step; one mishap gives a crash or a failed transaction anywhere.
* Two workers give a maker and another that recovers, competes or rejects.
  Three candidates are one for each worker and one for the row.
* An evaluator is started twice, whatever the bounds; two descendants let one
  outlive the other, and three bytes fill, exceed or just miss the buffer.
* Two sessions are the quorum. Three hook events give a session that is
  ingested again and one that is not; three changes are a transcript for each
  session and one more move, replacement, prune, reopened cluster or crash.
  The second rebuilding process is the reanalysis.
* Five messages hold a call, a second call under the same id, two results and
  a correction; six records leave one for the identity. `AcceptedEarly` cuts
  the search, not the transcripts that are taken: a longer list of messages is
  continued only where the identity is already settled, and for one provider,
  since it matters to the identity alone. Two places let both
  skills be read, or one place be read and then hold another skill;
  `FirstPlaceRead` takes them as alike until one is read. `Reading` changes a
  place only in an accepted transcript of reads and corrections: what else
  teaches a card does so in the same way. One change takes a place from any
  set of skills to any other.
* Two processes and the owner meet on every entry between any look and the
  change that follows it. The second mishap is an edit beside a crash.
* Two calls, one for each handler, meet on the file, with an edit between.
  `MCLayouts` has the handler beside a foreign one and under a matcher, and the
  calls add it in a group of its own. `MCInit` starts with the same layout for
  both events; an edit makes them differ.

`MaxAttempts`, `MaxMishaps`, `MaxUpsets`, `MaxHooks`, `MaxChanges`, `MaxEdits`, `MaxOutput`,
`MaxSkills` and `MaxIds` are the bounds on counters and names; `MaximumRecords` and
`MaximumMessages` are limits of the program with small values. `Overtake` and
its flag bound the overtaken preparations to one. `Promotion` may stop when
every proposal is decided, and `Transcript` when the file has been read or
rejected, so their runs do not look for deadlocks; all the others do.

Actors in `MCPromotion`, and callers and handlers in `MCHookInstall`, are
interchangeable and the properties name none, so their permutations are
symmetries; those runs check no liveness.

### What the runs show

*Policy lock.* A decision's policy is the file's content for as long as the
decision lasts (`DecisionUsesCurrentPolicy`), every failure leaves nothing
locked (`LockOwnership`), a reader past the gate never waits for a writer
(`GateHolderNeverWaits`), and a writer at the gate is served although
decisions keep arriving (`QueuedWriterServed`).

*Release directory.* Guards see settled pairs only (`DecidesOnSettledPair`);
what the directory durably says is always a complete pair
(`RollbackTargetExists`); and the whole protocol is one step of `ReleasePair`
under the mapping `pair <- StablePair`, the journal's pair while there is one
and the links otherwise (`ImplementsReleasePair`).

*Spool.* No file is deleted before its event was committed or recorded as
failed (`GoneOnlyWhenSettled`); no event is ingested twice although drains are
replayed and rows pruned (`IngestedOnce`); a stale worker never ends the job
of the current lease holder (`LeaseHolderKeepsJob`); with one daemon, failed
events are kept (`FailedEventKept`) and every published event settles
(`PublishedEventSettles`).

*Reservation.* The recovery of abandoned reservations takes none that is
younger than the list it read (`RecoveryTakesStaleOnly`); a populated proposal
is deleted only by the worker whose own creation failed, as long as no
preparation outlasts the five minutes (`LiveWorkKeptInTime`), and never once
it is evaluated (`EvaluatedKept`); a creation that loses or fails leaves no
branch, apart from those that a crash or a failing Git command leaves
(`BranchHasOwner`); a cluster is offered exactly while it has no
proposal (`ClusterFollowsProposal`), and no reservation blocks it for ever
(`ReservationEnds`).

*Promotion.* Records are written only while the links agree
(`RecordsFollowLinks`); decided proposals and their proof stay as decided
(`DecisionsAreFinal`); a monitor undoes only what it evaluated
(`MonitorKeepsNewerRelease`); and without a crash or failed transaction the
active promotion is the release in use, a discarded one never is
(`ActiveReleaseInUse`, `DiscardedNeverInUse`).

*Evaluator runs.* Nothing an evaluator has forked is left when its run is used
(`NoProcessOutlivesItsRun`); a proof rests on a failing and a passing verdict
that the evaluator gave itself, not on a bootstrap that failed, a signal or a
worktree that was swapped (`ProofIsGenuine`); the call returns
(`CallReturns`).

*Learning.* The sessions a cluster counts are bound to as many transcripts,
though locators are pruned and files replaced (`QuorumOfTranscripts`); a
rebuild takes back no count and no decision (`ClustersAdvance`); every card is
counted in the end (`CardsAreCounted`); two processes that find a card at once
store it once (`TypeOK`).

*Transcripts.* A tool result is evidence for the last call under its key and
for no other, and the outcome agrees with a reference definition
(`CorrelationExact`); an accepted transcript has one record that names both
the event's session and its directory, and none that contradicts it
(`IdentityIsNative`); all the ingests of a growing transcript teach one skill,
unless a place that was read has lost the instructions of one it taught
(`OneSkillPerSession`).

*Activation and hook settings.* An install that fails has removed its links or
says which it could not (`NoHalfInstall`); what is not the skill's link stays,
unless it is put there between a look and a removal (`ForeignKept`). In a
settings file a call changes its own handler only, unless the file changed
between its read and its rename (`OthersKept`), and both events have what the
last call for a handler reported, once, until the owner or a call that had read
the file before that report undoes it (`HooksAsReported`). Neither property
rules out the race between a read and a rename; it is listed below.

### Where the program and its documents differ

`release_sync_fault` ends in a counterexample that README.md:52 of the
repository rules out ("serialized, crash-recoverable"). In the first promotion
both links are switched and the journal is unlinked; the fsync of that unlink
fails, `previous` is removed again from memory, and then a second operation
fails or the process dies. At rest `current` is the candidate, `previous` is
missing, and no journal is left to recover from.

Other disagreements are of the same models, with the constants or the property
named here; their hazards in `PROJECT.json` quote the documents.

* A failed event can be deleted by a second daemon: `FailedEventKept` fails in
  `SpoolRecovery.cfg` with two workers (processor.go:299).
* A second daemon can also leave an ingested event's file in `incoming/`, when
  it moves it back on a job it has read before the commit. If all daemons then
  rest for longer than the retention, the tombstone is pruned and the event is
  ingested again: `IngestedOnce` fails in `SpoolWorkers.cfg` with `Retention`
  (processor.go:408).
* A drain takes the temporaries of hooks that are still writing
  (processor.go:123); their rename then fails and the event is quarantined.
* Two daemons may hand an unleased entry back and forth, so
  `PublishedEventSettles` is one daemon's (processor.go:408).
* When the record of a promotion fails and the approver compensates, the
  earlier promotion stays active, and no rollback accepts it any more
  (proposals.go:595).
* An approval can act on a comparison that has been replaced since it was read
  (proposals.go:322).
* A preparation that outlasts its reservation fills another daemon's row and
  can lose it to that daemon's failure (store.go:1186).
* A preparation that is cancelled while `git worktree add -b` runs can leave
  its branch (candidate.go:109, git.go:335-338); no document speaks of it.
* The instructions that attribute a read are those on disk at each analysis.
  When a skill is edited, or a link switched, between two ingests, a session
  that had read one skill can teach a second one (analyzer.go:130).
* An edit of a settings file between a call's read and its rename is lost, and
  so is a handler that another call has reported in between
  (install.go:59); so is an edit of `config.yaml` that `mode set` has not
  read (init.go:68).

## Fairness

* `PolicyLock`: weak fairness of the protocol steps of each process
  (`Read`, `Write`), none of starting. A holder is a running process whose
  work is bounded by the evaluator's timeout, and a waiting one polls. Strong
  fairness is not assumed: a writer that has not got the gate may lose every
  poll, and `QueuedWriterServed` promises nothing to it.
* `SpoolIngest`: weak fairness of each daemon's loop, which polls for ever,
  and of the expiry of leases, which is time. Crashes and store failures are
  not fair and are bounded.
* `Reservation`: weak fairness of each worker's next step and of the five
  minutes that pass over an abandoned reservation. Daemons list again at every
  poll; evaluation by command, rejection, crashes and overtaken preparations
  are not fair.
* `EvaluatorRun`: weak fairness of the caller, of the goroutine that watches
  the context and of the deadline, which is time. Nothing is assumed of the
  evaluator, of its bootstrap, or of what it forks.
* `Learning`: weak fairness of each daemon's pass. Nobody has to run a
  reanalysis, and providers, prunes and crashes are not fair.
* The other modules state no fairness; nothing in them has to happen.

## Proofs

Every theorem is for any number of processes, events, candidates and so on,
and any value of the bounds. Assumptions on constants are the named `ASSUME`s
of the modules; TLC evaluates them in every run. Each inductive invariant was
first checked by TLC as an invariant of the runs above.

`PolicyLockProofs` proves the type invariant, `LockOwnership`,
`DecisionUsesCurrentPolicy`, `GateHolderNeverWaits` and the action property
`NoReaderPassesQueuedWriter`. The inductive invariant adds to the types that
ownership of both locks is determined by the program counters; that a view is
current then follows from the policy lock's exclusion, since only its
exclusive holder replaces the file.

`ReleaseSwitchProofs` proves `TypeOK` and `DecidesOnSettledPair` under every
fault of the model. For the other two it assumes `~JournalSyncFails`, the
fault whose counterexample `release_sync_fault` shows. `SwitchInv` says, for
each step of the protocol, what the journal and the two links hold: the
journal's pair is the one to restore, the links that have moved hold the
target's commits, and everything a link or the journal names is materialized.
It is needed because `RollbackTargetExists` speaks of the journal, and the
journal is only right because of where its owner is. With it every step is a
stutter of `ReleasePair` except `CommitSwitch`, which is its promotion or its
rollback.

`SpoolProofs` proves `TypeOK`, `GoneOnlyWhenSettled` and `LeaseHolderKeepsJob`,
and `IngestedOnce` where no job outlives its retention. Three facts carry it.
A worker about to delete a file has seen the event settled, and outcomes are
never taken back (`Settled`). The fencing token of a worker that holds a job
is one of the claims counted in the row, and no two workers have the same
(`Tokens`): only the holder of the newest can end the job. And a job is pruned
only after it has grown old, which it does only while nobody works, so no
holder's claim count starts again at zero.

For one daemon (`Alone`) two more theorems hold of every retention:
`IngestedOnce` and `FailedEventKept`. `AloneInv` ties an event's file, its job
and its outcome: a file that is still in the spool after its event has ended is
under processing, and its job says how the event ended; an event that the
daemon has taken has not ended. The tombstone is needed as long as that file is
there, so the invariant also follows the recovery scan: one that will be
complete still has every such file before it, and jobs are pruned only after
it. Neither theorem holds of two daemons (see above).

`ReservationProofs` proves all the safety properties of `Reservation`. Without
an overtaken preparation, whoever is between its reservation and the end of
its creation is the one the row was made by, and the row holds what that
worker has in memory. `BranchHasOwner` excepts the branches in `lost`.

`PromotionProofs` proves all the properties of `Promotion`. What the fence
gives holds always: between a switch of the links and its record nobody else
changes them. That alone gives the action properties. What ties the records to
the links (`Calm`) holds as long as no process died and no transaction failed;
it has to say of each candidate that a rollback could bring back that it was
promoted and is in force no more, since otherwise a rollback could bring a
discarded one into use.

`EvaluatorRunProofs` proves both safety properties of `EvaluatorRun`. The
invariant follows the process tree, the handshake (one byte on the pipe means
a bootstrap that has not failed) and the verdicts.

`EvidenceProofs` proves all the safety properties of `Transcript` and of
`Learning`, which are what a quorum of evidence rests on.

* `IdentityIsNative`: what the normalizer remembers is all that the identity
  records have said.
* `CorrelationExact`, for transcripts of any length. Both loops, `Compact` and
  `CallOf`, are recursive functions. `LoopRuns` shows once that such a function
  exists and what each of its steps is, by the least number at which it would
  not be so; an invariant of the loop is proved the same way. The one of
  `CallOf` is that the call open under a key is the last message under that key,
  if that is a call. For the outcome, the last result that has a call at all is
  shown to be the last that answers one, unless an id was answered twice.
* `OneSkillPerSession`: more messages only add skills whose instructions were
  shown to be read (`MatchingGrows`), because a call keeps the result it had
  (`CallOfPrefix`) and the compacted transcript is only appended to
  (`CompactAppend`, `CompactKeeps`). A change of what a place holds takes away
  only skills that it puts into `withdrawn` (`MatchingChanges`). `SkillInv`
  therefore keeps, for all that was taught, that its skill is withdrawn or among
  those shown now; while something new is taught there is one such skill.
* `TypeOK` of `Learning`, which says that a card found twice is stored once.
* `QuorumOfTranscripts` needs `EvidenceBound` (a transcript is bound to one
  session, and whoever has a card, a pending card or is to be resolved is
  bound) and `CountsBacked` (no count, group or decided quorum exceeds the
  sessions that hold the topic, and a rebuild whose snapshot is current has
  counted all of them). Sessions then map one to one to transcripts.
* `ClustersAdvance` follows from `CountsBacked`: a rebuild writes only from a
  current snapshot, which counts all that was ever counted.
* `BindingsKept`, an action property that no run checks: a session's binding
  is never changed or forgotten, whatever happens to its locator.

`AgentProofs` proves all the properties of `Activation` and of `HookInstall`.

* `NoHalfInstall` and `ForeignKept`: what is about to be removed is the link
  that was seen, or others have changed the entry since; and every link on disk
  is known to the call that made it, as one to undo or one it could not.
* `OthersKept`, for settings of any shape. What is left without a handler is the
  same before and after `RemoveHandler` (`LeftRemoved`) and `AddHandler`
  (`LeftAdded`), one group at a time: `OnlyAppend` and `CopiesAppend` say what
  one element more changes, and `AllSequences` that every sequence is reached
  that way. A draft equals the document updated from the file as it is, as long
  as nobody else has changed that (`Draft`).
* `HooksAsReported`: `RemoveHandler` leaves no copy of its handler and as many
  of the others (`CopiesRemoved`), `AddHandler` adds the first only
  (`CopiesAdded`). A draft agrees with what was reported of the other handlers
  before its caller read the file, and `since` has those reported after
  (`ReportNoted`). The settings may have any layout without duplicates
  (`LayoutsAssumption`), for `addHandler` removes none it finds.

Only model-checked: the liveness properties (`QueuedWriterServed`,
`PublishedEventSettles`, `ReservationEnds`, `CallReturns`, `CardsAreCounted`),
which are out of the prover's reach.

## Not modelled

* The sanitizer and the wording of lessons: text without state.
* Git, the `*at` system calls and the checks of paths beneath a root: calls
  without state beyond what the release and promotion modules keep.
* The splitting of shell commands into words and the list of validation
  commands: a command is one of three kinds in `Analysis`.
* The JSON shapes of transcripts, of settings files and of hook input
  (`internal/hooks/normalize.go`): models start from what was parsed.
* Schema migrations, domain types, flags and printing.
* `mode set` reads the configuration before it takes the lock; `PolicyLock`
  starts at the lock.
* Names of spool files do not collide in the model (they are fresh UUIDs), the
  expiry of `failed/` is left out, and a drain does not outlast the retention
  of jobs.

## Plan

The lost update of `mode set` as an extension of `PolicyLock`, and what
`IngestedOnce` needs of a retention that two daemons share.

The project is meant to stay quick to check: a new question replaces the
narrowest run or becomes a property of an existing one.
