# A verification of orchestrator-pack

orchestrator-pack is the governance layer of a fleet of coding agents: TypeScript
programs, started by hand, by hooks and by one long-running scheduler, that tell
workers what to do, review what they push and recover them when they stop. No
server holds the state. Everything the programs agree on is in files, and several
processes read and replace these files at the same time. What makes the system
correct is therefore a set of protocols over files: locks, claims, journals and
fences. This project models those protocols in TLA+, checks them with TLC and
proves the most important results with TLAPS.

## 1. The system

### Components, their state and what makes them right

| Component | State | Operations | Hard behaviour | What makes it right |
|---|---|---|---|---|
| journal lock (`pr2-foundation/journal-lock.ts`) | one lock file `{pid, nonce}` | `withCrashRecoverableFileLock`, `reclaimStaleJournalLock` | a holder that dies, a file without an owner, reclaimers that race | mutual exclusion; live owners keep their lock; a dead owner does not block the path; calls end |
| worker nudge claim store (`worker-nudge-claim-store.ts`) | a claim file and a terminal record per episode, a mutex directory | acquire, hash, mark, release, finalise, prune | crash or deadline between any two writes; stale takeover; pruning | one send per episode; the attempt is on disk before the message is out |
| worker dispatch journal (`worker-dispatch-journal.ts`) | one JSON file of rows | admit, finalise | re-admission; crash between claim and journal | a verdict is final, can be relied on and agrees with the claim |
| fleet nudge actuator (`fleet-nudge-actuator.ts`) | the run of a tick: three deadlines, starts, failure | candidate loop | late answers of the runtime | every tick returns; what is called definitive is not tried again |
| worker assignment store (`lib/worker-assignment-store.ts`) | one JSON file: assignments, revision, operator primary | publish, attach issue, dead ticks, retire, bind, fence | compare-and-set by callers that read long ago; write errors before and after the rename | generations increase; no lost update; the fence excludes reassignment |
| assignment sweep and terminal mail (`reconcile-worker-assignments.ts`, `orca-runtime/dispatch-terminal-mail.ts`) | the count of dead observations in each row of the store; a ledger of mails | observe, reset or count, mail, retire; resolve a worker and mail | an observation that is stale when used; a refused or a lost send; a death; a reset that waits for a busy store | the run is told once; retired only with the mail on record or at the bound; the count is of consecutive observations; no dead worker keeps its assignment for ever |
| side process supervisor (`lib/orchestrator-side-process-supervisor.ts`) with the single instance lease, the crash backoff and the child process runner it is built from | a lease file under `flock`, a status file, the counts of failures and stalls, one child | run, signal, stall, reset of a stall refusal | a kill that leaves the child behind; a signal at any step; a drift of epoch or registry; a reset that races a start | one tick at a time; a status that does not lie; a signal ends the run; ticks that never complete are given up |
| cutover activation (`lib/cutover/`, `orchestrator-cutover-activate.ts`) | cordon, two barrier files, phase-one log, snapshots, targets and markers, epoch, bindings, follow-up steps | activate, recover, roll back | a death between any two durable writes; each file says what the others do not | one change of hands without a lost content; no way back after the boundary; what is begun can be finished |
| side effect fence, recovery claim, worker recovery (`scripts/runtime/`) | files with an owner record, under `flock` | admit, mark, finalise; recover | holder dies with a record; torn record; duplicate recovery | one side effect per key; one recovery per target |
| worker notification and nudge gate | claim, journal row, fence of one message | notify | crash around the send; exit code 44 | at most one send; unknown is not resent |
| scheduler | generation lease, child table, tick | start, tick, stop | takeover, overlapping generations | one scheduler acts |
| fleet observer, escalation delivery, reconciliation hand-off | per-unit observation, delivery records | observe, classify, deliver | flapping terminals, restart | escalated once, not on stale evidence |
| review start claims, run store, runner, delivery | claims per head, run records, delivery ledger | claim, bind, start, finish, deliver, reap | crash of a reviewer, new head pushed meanwhile | one run per head, verdict bound to its head |
| browser chat turns | turn state, coordination lease | acquire, send, observe, publish | page reloads, duplicated turns | one prompt per turn |
| worktree lifecycle | worktrees, exclusion file | create, continue, clean up | interrupted git command | no work is deleted |
| GitHub governor, CI watchdog, worker status store | JSON state under a lock directory | admit, record | lost update | quotas hold |
| gate runner, toolchain, plugins, text gates | none | pure decisions | none | the decision table |

PROJECT.json lists every component with its sources, and says of each that is not
modelled why.

### How they interact

A cutover hands the project over from a legacy installation to the TypeScript
supervisor. The supervisor has the single instance lease; under it it starts one
scheduler tick after another, and stops when its epoch is not the committed one.
A tick of the fleet observer classifies terminals; the *eligible* units go to the
fleet nudge actuator. For each unit the actuator claims the episode (claim store),
writes a row of the dispatch journal (under the journal lock), records the attempt
(claim store), and calls the runtime under the assignment fence, which is the lock
of the assignment store. Claim and journal are then settled. Worker notification
follows the same path for other messages. Recovery takes the recovery claim,
enters the assignment fence and removes the workspace through the runtime. A new
assignment is published in the same store by the start of a worker, by an operator
or by the attachment of an issue; binding to an operator primary is a pointer to
an assignment, compared when it is used. The scheduler also sweeps the store: it
asks the runtime about the worker of each assignment, mails the run about one that
is dead, counts or retires, all by compare-and-set against the row it listed.
Every program that resolves the worker of an assignment sends the same mail through
the same ledger.

## 2. Plan

Order of work, the most important behaviour first.

1. `JournalLock` (done): every shared JSON file depends on it.
2. `FleetNudge` over `SingleNudge` (done): the write-ahead protocol that must not
   send twice, shown to implement one nudge with one record and one row.
3. `AssignmentStore` (done): compare-and-set over one file by callers that read it
   long ago. It is also the abstract specification of what its users may do.
4. `AssignmentSweep` (done): composes the store with the sweep, the mail ledger and
   the runtime, and is shown to implement the store.
5. `Cutover` over `Handover` (done): the commands of an activation as sequences of
   durable writes, shown to implement one change of hands.
6. `Supervisor` (done): the loop with its lease, backoff, signals and stalls.
7. Recovery claim and worker recovery: a claim under `flock` with an age after which
   it no longer counts, and the recovery under the assignment fence.
8. Worker notification: composes claim, journal and fence of 1 to 3, and is to be
   shown to implement `SingleNudge` or a variant of it with the retries it has.
9. The mutex directory of the claim store on its own, with its takeover race, and
   pruning across generations.
10. Review start claims with the run store; then what remains of the table above.

As modules are added, runs whose only properties are proved for every value of the
constants are merged into others, so that each run keeps a question of its own.

Rules for every module: parameters are CONSTANTS with a named assumption, one
action per operation or file system step, invariants are conjunctions of named
parts, and recursion is written as functions, so that each module can be proved
about. Each theorem is first checked by TLC.

## 3. The modules and the code

PROJECT.json maps every definition to its lines; this is the overview.

### JournalLock

`scripts/pr2-foundation/journal-lock.ts`. One step per file system call, because
between any two of them another process may run.

| In the model | In the code |
|---|---|
| `file` = `None` or `[gen, owner, aged]` | the lock path; `gen` stands for inode and nonce, `owner` for the pid in the JSON, `None` while it is not yet written; `aged` for an `mtime` older than `lockStaleMs` |
| `pc`, `att`, `my`, `res` | the position in `withCrashRecoverableFileLock`, its `attempt`, its descriptor and nonce, how the attempt ends |
| `st`, `raw` | what `statSync` and `readLockRaw` returned to `reclaimStaleJournalLock` |
| `Open`, `WriteOwner`, `WriteFails`, `ActionEnds`, `ActionThrowsEEXIST` | `openSync(path, 'wx')`, the write of the owner, its failure, the end of the action, an action that itself throws `EEXIST` (taken by the code for a lock that is held) |
| `ReleaseCheck`, `ReleaseUnlink` | `stillOwnedBy`, then `unlinkSync` |
| `ReclaimStat` ... `ReclaimUnlink` | stat, read, stat, read, unlink of `reclaimStaleJournalLock` |
| `AfterReclaim` | the loop: a successful reclaim retries without counting the attempt |
| `Crash`, `Age` | the process dies; a file without an owner gets old |

`faults` counts crashes, failed writes and stalls. A stall is an ownerless file that
gets old while its creator is still between `open` and `write`.

### FleetNudge

`fleet-nudge-actuator.ts` over the one-shot claims of `worker-nudge-claim-store.ts`
and the rows of `worker-dispatch-journal.ts`. An *episode* is a unit in a tick.

| In the model | In the code |
|---|---|
| `phase`, `holder`, `lapsed` | the active claim file: absent, torn (created and not yet written), or its phase; who wrote it; whether its lease ran out |
| `terminal` | the terminal record of the episode |
| `journal` | the row of the dispatch journal |
| `sends`, `stray` | what became of the message: submissions, and calls nobody waits for any more |
| `mutex` | the mutex directory of the episode |
| `tick`, `todo`, `starts`, `failed`, `unit`, `dl` | the local variables of `runFleetNudgeActuator`; `dl` is how many of the three deadlines (admission, dispatch, hard return) have passed |
| `op`, `ret`, `out` | the claim operation under way, its result, the outcome to settle |
| `Pick`, `Validate`, `AdmitJournal`, `Gate`, `Send`, `Late`, `FinalizeJournal` | the steps of the candidate loop |
| `Enter`, `Exit`, `GiveUp`, `Expire` | `withClaimMutexUntil` and `assertBeforeDeadline` |
| `Acquire`, `Create`, `Fill`, `Hash`, `Mark`, `Inspect`, `Release`, `Finalize`, `MoveCheck` ... `MoveUnlink` | the claim operations, one step per file system call that matters |
| `Continue` | what the actuator does with the result of a claim operation |
| `Submit` | in `orca-runtime/adapter.ts`: the native command submits, or the POST of `/tui/submit-prompt` does |
| `Answer` = `NativeAnswer`, `OpenCodeAnswer` or `FenceFails` | what `dispatchInput` makes of it on its two routes, and the fence around it that fails (`fleet-nudge-production.ts`). After a submission the native route answers `dispatched` or `dispatch_unknown`; the OpenCode route and the fence may also say `send_failed` |
| `SubmitStray` | a call nobody waits for is carried out (external) |
| `Crash`, `Time`, `NextTick`, `LeaseExpires` | a process dies, a deadline passes, the next tick, a lease ends |

`SingleNudge` is what this promises of an episode: a journal row, then a record of
the attempt, then a call, which the message goes out by at most once. The verdict of
a success is borne out by the message. That of a failure is not, because two of the
three answers above report a failure of a message that went out; what it does say is
that nobody calls again. So the abstract nudge makes no call once a record or row has
a verdict of either kind (`Call`), while one that is out may still deliver.
`FleetNudge!Nudge(e)` maps `record` to what `inspectS2SendAttemptState` would make of
claim and terminal file together (`recordOf`): the attempt is on record while either
has it, its verdict is that of the terminal record, and an episode old enough to be
pruned is forgotten whether its records are gone yet or not. `callOf` says whether a
call that may submit is under way, be it of a process that waits or a stray one.

### AssignmentStore

`lib/worker-assignment-store.ts`. A program reads without a lock and later compares
and sets under the lock of the file.

| In the model | In the code |
|---|---|
| `rows`, `primary` | `assignments` and `operatorPrimary` of the file |
| `minted` | how many assignment ids were made |
| `stage`, `seen`, `goal`, `ptr` | what one caller read, and what it is going to do: the row, the issue it publishes for, the pointer |
| `fence` | the caller whose fenced action runs, that is, who keeps the lock |
| `ReadIssue`, `ReadRow`, `ReadPrimary` | `currentWorkerAssignment`, `currentWorkerAssignmentByDeliverable`, `readOperatorPrimaryBinding` |
| `Publish`, `Attach`, `SetTicks`, `Retire`, `Bind`, `Unbind` | the mutations of the same names, with all that each compares |
| `Enter`, `EnterAdmission`, `EnterPrimary`, `Leave` | the three fenced actions |
| `Fail` | any mutation that is refused or not tried: the caller drops what it read |
| `Readable` | `inspectWorkerAssignmentStore` refuses a file with too many rows |

### AssignmentSweep

`reconcile-worker-assignments.ts`, `orca-runtime/dispatch-terminal-mail.ts`, and of
`task-adapter.ts` and `lib/worker-assignment-runtime.ts` what they observe. It
EXTENDS `AssignmentStore`; the sweep is one of the actors.

| In the model | In the code |
|---|---|
| `worker` | what the runtime has for the worker (external, it moves freely) |
| `ledger`, `sending` | `notified` in the mail ledger; who holds its kernel lock and how far the send is |
| `pc`, `todo`, `obs`, and `seen[Sweeper]` | the loop, the listed assignments, the observation, the row it works on |
| `told`, `dead` | not in any file: how often the run was told, and the true number of dead observations since one that was not; properties compare the files with them |
| `undone` | nor this: another process took its mail off the ledger, as its send failed, after the sweep had decided to retire |
| `Look`, `Observe`, `Unresolved` | `observeCurrentWorkerAssignmentLifecycle` |
| `Check`, `Reset`, `Advance`, `AtBound`, `Consume`, `RetireRow`, `RetainOrGiveUp` | the helpers of the same intent in the sweep; each `...Stale`, `...Busy`, `...Fails` is its early return |
| `SendMail`, `MailAnswered`, `MailSettled` | `maybeNotifyRunOnTerminalDispatch` under the assignment fence |
| `ResolveSend`, `ResolveAnswered`, `ResolveSettled` | the same from `resolveAssignmentWorker`, without the fence |
| `SweeperDies`, `ClientDies` | a process dies: the kernel lock goes, the ledger entry stays as it is |

### Cutover and Handover

`lib/cutover/activation-*.ts`, driven by `orchestrator-cutover-activate.ts`. A command
is a sequence of steps, one for each durable write, and may die between any two.

| In the model | In the code |
|---|---|
| `cordon` | the cordon file: state, nonce, `importBegunAt`, digests of the preflight captures |
| `stopping`, `maintenance` | the two files of the legacy start barrier |
| `log`, `snapshots`, `followups`, `bound` | phase-one envelope, snapshot files, follow-up envelope, project bindings |
| `epoch`, `lock` | the epoch authority and its lock directory |
| `source`, `target`, `marker` | per store, a number for a digest, of the covered fields in a JSON store; 0 is an absent file |
| `Malformed`, `Normalizable` | the contents `normalizedPayload` refuses for an unknown or missing field; `snapshotBytes` takes them |
| `pc`, `mem` | where a command is, and its local variables |
| `Activate` ... `Close` | `createCordon`: a fresh capture, or a preparing cordon resumed |
| `Record`, `RecordSnapshots`, `Ensure` | `appendPhaseOne`; `ensurePhaseOneStep` of a recovery |
| `Drain`, `Terminate`, `Snapshot`, `Boundary`, `Begin` | drain and kill of the old installation, `snapshotStores`, `markImportBegun` as a read and a write |
| `Recover` | the tests of `recoverCommittedCutover`: repeat what was committed, or resume a complete prefix |
| `Import`, `Mark`, `Lock`, `Commit`, `Unlock`, `Verify` | `importSnapshot` (refusal of the payload, target, then marker), the compare-and-set of the epoch, its verification |
| `Bind`, `Retire`, `Remove`, `Follow`, `StartSupervisor`, `Observe` | what follows the commit |
| `Rollback` ... `Abandon` | `rollback-preimport` |
| `LegacyWrite`, `LegacyStart`, `SupervisorWrite`, `SupervisorDies`, `Crash` | the world (external) |

`Handover` is what this promises: one content per store, served by the old
installation, by nobody, or by the new one. `Cutover!H` maps `serving` to *new* once
an epoch is committed, and `content` to the sources before and the targets after.

### Supervisor

`lib/orchestrator-side-process-supervisor.ts`, with `single-instance-lease.ts`,
`crash-backoff.ts` and `kernel/subprocess.ts` as far as it uses them. A *run* is one
supervisor process.

| In the model | In the code |
|---|---|
| `lock`, `owner` | the kernel's lock and the owner record in the lease file |
| `status`, `memory` | the status file, and the `status` object of each run |
| `stopping`, `cancelled`, `stalled` | the flag of the signal handler; the abort of the child, and whether the stall deadline caused it |
| `tick` | the child of the run: alive, or how it ended |
| `Acquire`, `Refuse`, `Begin` | the lease, the first verification of epoch and registry, the first status |
| `Top`, `Backoff`, `Spawn`, `OnSpawn`, `Over`, `Return`, `RefuseStalls`, `Rest`, `Leave`, `Release` | the loop, between one await, or one write, and the next |
| `Stop`, `Stall` | the signal handler and the stall timer, which run during the awaits |
| `Exited`, `Late`, `Settled` | `recordChildExit` and `supervisorChildExitTransition` |
| `ResetRead`, `ResetWrite` | `resetStallLoopRefusal` of another process |
| `TickEnds`, `Kill`, `Drift` | the tick, a SIGKILL, a change of registry or epoch (external) |

## 4. The runs

`tlc -config <cfg> <module>` in this directory. Counts are distinct states (after
symmetry, where it is used).

| Run | Instance | What it shows |
|---|---|---|
| `journal_lock_calls` | 2 callers, 3 files, 1 fault of any kind, fair | types; before the first fault the actions exclude each other; calls end; the lock of a dead owner is reclaimed |
| `journal_lock_reclaim_race` | 3 callers, 1 crash | **violated**: two reclaimers, see section 8 |
| `fleet_nudge_replay` | 2 processes, 1 episode, 1 crash, leases that run out; 386 thousand | attempt on disk first; verdicts in claim and journal reliable, final and in agreement; the whole implements the single nudge |
| `fleet_nudge_prune` | 1 process, 3 ticks, records kept for 2, room for 1; 5.8 million | types; one send, which pruning does not make two; the caps hold |
| `fleet_nudge_live` | 2 processes, one episode, fair; 360 thousand | every tick returns, although the runtime need not answer |
| `assignment_store_races` | 2 actors, 2 issues, 3 deliverables, 3 publications; 396 thousand | the six properties of the store against stale callers |
| `assignment_store_cap` | 2 deliverables, room for 1 row | **violated**, see section 8 |
| `assignment_sweep_safe` | the sweep and a client, 1 deliverable published twice, bound 2, 3 moves of the worker, sends that succeed or are refused; 1.4 million | the sweep implements the store; retirements are justified; the count is of consecutive observations |
| `assignment_sweep_live` | the same with one publication, bound 1 and one death, fair; 66 thousand | the run is told once; sweeps end; no dead assignment stays |
| `cutover_forward` | commands one at a time, a store of each kind, 2 writes, the second of them malformed, 2 transactions, 2 deaths, fair; 225 thousand | the cutover implements the handover; nothing before the boundary, no way back after it; evidence is true; a begun cutover is finished or stuck for a named reason |
| `cutover_orphan` | the same without fairness | **violated**, see section 8 |
| `supervisor` | 2 runs, limit 2, one kill, one drift, one reset, fair; 89 thousand | one tick at a time, a true status, signals that end a run, runs that give up, a status that heals after a reset |

### The bounds

*JournalLock.* Three callers are the least for two reclaimers to race over a dead
third, and the run of that race has them. The other run has two, which suffice for
its liveness; that its mutual exclusion holds for any number is a theorem. Two
attempts reach both the counted and the uncounted retry. One fault is what the
property before the fault, and the finding after it, need; without a bound the
state space is infinite only because of the counter.

*FleetNudge.* One-shot is a property of one episode, so one unit suffices for it,
with two processes to steal and replay, and one crash that may fall on either. Three
ticks and a retention of two let a record be pruned in a later tick, and room for
one record makes the cap bite. That run has one process and no crash, because it is
about time; takeover, crash and replay are in `fleet_nudge_replay`, where one message
per episode is part of what `SingleNudges` says (`Deliver` wants `sends = 0`).

*AssignmentStore.* A row can be replaced twice and an issue wanted by two
deliverables while a third is published. Two actors suffice for a stale writer:
one reads, the other changes, and the first may read before several changes.

*AssignmentSweep.* A bound of two is the least at which a count can be wrong
without being at its limit; two publications let an observation belong to the
predecessor of a row; three moves of the worker are dead, live and dead again. A send
that is refused after the sweep has seen its claim in the ledger is the one thing that
can undo the reason of a retirement, so refusals belong to this run. The liveness run
has one publication, no issues and a bound of one, because its fairness conditions
are expensive; a death and refused sends are what it is about, and the numbers
it leaves out are in the safety run. A row thus never changes under a reset there:
that a sweep ends although it waits for a busy store is shown, that a reset finds
another row is in the safety run only.

*Cutover.* There is a store of each kind: a JSON store is overwritten and never
retired, a file is retired in one step, a directory entry by entry. Two writes of the
old installation give a source that changes after the capture, and the second writes
what no import accepts, so a JSON store may be importable at the capture and not at
the snapshot. Two transactions let a second activation meet the log of the first; two
deaths reach a command that dies while it recovers from another's death. Commands run
one at a time; what two of them can do to each other is told in section 8 and not
shown by a run.

*Supervisor.* Two runs are the least at which a dead one's status, tick or owner
record can matter to a live one. A limit of two lets failures and stalls alternate
without either count reaching it. One kill, one drift and one reset may come at any
step; with two, only the second run could suffer, and it has no successor. With a
limit of three the same properties hold over 342 thousand states, which takes two
and a half minutes.

Symmetry is used only in runs without liveness properties.

Deadlock checking is off in `assignment_store_cap`, where a store that nobody can read
any more has no further step, and in `supervisor`, where the last run has ended and
nobody need start another.

Each property has a mutant in PROJECT.json: an operator beside the definition it
replaces (`...Unchecked`, `...Early`, `...IgnoresLease` and so on) that is the same
code with a plausible mistake, under which the property fails in the same run.

## 5. Fairness

- `JournalLock`: weak fairness of each live caller's steps, of the end of its
  action and of the ageing of an ownerless file. The operating system schedules
  processes, the actions are bounded computations, and clocks run. A crash is
  never forced, a call is made again only because `OrphanReclaimed` is about a
  path that is in use.
- `FleetNudge`: weak fairness, per process, of *its next step or the passing of
  its time*. Nothing is assumed of the runtime, of the mutex or of the other
  process: that the tick still returns is the point of the hard deadline, whose
  timer is the only thing that must go off.
- `AssignmentStore`: no liveness and no fairness. Who comes first is open.
- `AssignmentSweep`: weak fairness of the sweep as a whole, because the scheduler
  ticks for ever. Strong fairness of an observation that resolves, for each
  deliverable: an observation may fail any number of times but not always when it
  could succeed. Strong fairness of `Advance`, `RetireRow` and `Reset`: each is
  tried again on every sweep, ten times each, against a lock that others hold for
  short whiles. A client ends its fenced action and its send. That the store is
  free again and again when the sweep wants it is not fairness but an assumption
  about the load, and stands as the hypothesis `StoreObtained` of `DeadRetired`.
- `Cutover`: weak fairness of the next step of a running command. Strong fairness of
  the start of `recover`: an operator faced with an unfinished cutover runs it again.
  Strong fairness of a start of the supervisor that succeeds and of an observation
  that does: each has a deadline and may miss it any number of times, not always.
- `Supervisor`: weak fairness of the loop's own step, of the stall timer, and of the
  end of a tick that was cancelled, because SIGKILL follows SIGTERM
  (`terminateProcessTree`). A tick that nobody cancels may run for ever; nobody has to
  start or stop a supervisor.

## 6. What is proved

Eight modules of proofs, checked by tlapm without a remaining obligation. Every
theorem holds for any values of the constants that satisfy the module's ASSUME:
`None` is not a member of the other sets and the bounds are natural numbers
(`MaxAttempts`, `MaxTick`, `Retention` positive, `Units` finite, and `Bound`
positive for the sweep; `Kind` a sequence of store kinds; `Limit` at least 2). The
ASSUMEs are evaluated in every run.

**JournalLockProofs.** `TypeCorrect`; `MutexHolds`. Mutual exclusion is not inductive:
a caller keeps out others because the path exists, and it exists because nobody
unlinks it. `FaultFree` says, while there was no fault, that at most one caller has a
descriptor, that the path then names its file, that this file carries its pid from the
write on and never gets old, and that no reclaim gets past its first staleness test.
The case where `faults` is about to become positive is not needed, as `faults` never
decreases (`FaultsGrow`). `OneReclaimerIsSafe` says what is left after a fault. Its
hypotheses are that creators do not stall and that no two callers are between the last
stat and the unlink of a reclaim at the same time (`OneReclaimer`); then actions
exclude each other and a live owner keeps its lock (`LiveOwnerKept`), through any
number of deaths and failed writes. So, stalls apart, the race of section 8 is the
only way to lose the lock, and a reclaim that is exclusive from its last stat on would
close it. That the last read is part of this window is no slack: the identity of the
file is compared before its content, and two files without an owner have the same
content, so with only the unlink exclusive TLC finds `LiveOwnerKept` violated.
`OneInv` follows the file from both ends: whose descriptor it is (`Descriptors`) and
what a reclaimer saw of it (`Sightings`): a file that was stale remains so for as long
as it is the same file.

**FleetNudgeProofs.** `TypeCorrect`; `OneShot` (at most one send); `RecordedFirst`
(attempt on disk). A process is *armed* when it may still make the runtime send.
The invariant says that an armed process is the only one for its episode
(`OneArmed`), that nothing was sent for it so far and that the attempt is recorded
(`ArmedOnce`), and that an episode with a submission, or with a call that may still
be submitted, is recorded (`SentOnce`); an active claim that is not marked has no
terminal record (`ClaimedFresh`). The other conjuncts say where a process may be
inside the mutex, and which file it has created there. Two of them are about time:
a run so old that its record may be pruned is past its last deadline (`Timely`), and
an inspection after a failed mark comes too late to send (`LateInspect`). Without
`Timely`, pruning would make an episode claimable while a process is armed for it.

**FleetNudgeVerdicts.** What claim and journal say of an attempt. `VerdictsStand` and
`SettledAlike` need, besides the invariant above, where a process is when it moves a
claim to its terminal record (`MoveSlot`: the claim is its own and the slot it
found free stays free) and that one past the move has its record in place
(`SettledClaim`). `RecordsAreTrue` says what a reader may conclude from a verdict:
that a message recorded as sent or dispatched is out, and that nobody calls, or comes
to call, for an attempt recorded as failed. It follows the outcome from the answer to
the files: `Quiet` is an episode which nobody is about to call for or in a call for,
and whose attempt is on record; `Honest` says that a process about to settle has an
outcome that can be relied on, `TrueRecords` the same of both files. The hard case is
*definitely failed*: the answer may come after the submission, or leave a call behind
that still submits, and yet no other process may start one.
The cap of terminal records is compared under the mutex of one episode, so two
processes at two episodes can both find the last room free
(`worker-nudge-claim-store.ts:792`). `OvershootBounded` says by how much it can be
passed: by less than n, when at most n processes run at once; `Roomy` counts the records
together with the processes that have found room and not yet used it. `CapKept` is
the case of one process at a time (`OneRunning`), which is what the generation
lease of the scheduler ensures; crashes and restarts are part of it.

**FleetNudgeSingle.** `NudgesAreSingle`: at every episode the fleet nudge implements
`SingleNudge`. Most steps of a process leave an episode alone; admission, the mark,
the call, the submission by a waiting or a stray call, the two settlements and pruning
are the steps of the single nudge. The invariants of the two modules above give the
guards: `OneArmed` and `ArmedOnce` that a call is the only one and recorded
(`MayCall`, `OneCall`), `Honest` that a success is borne out, and `TrueRecords` that
no call is made against a verdict. What they lack is `JournalInv`: whoever is past the
admission, or is a call still out, has a row.

**AssignmentStoreProofs.** `TypeCorrect`, `OneHolder`, `FenceKept`, `IssueKept`,
`TargetProtected`, `PointerStaysStale`, `OverByOne`, `OverfullForGood`. The invariant
adds to the checked ones that ids are below the counter (`Minted`) and not shared
(`Distinct`), that a row read earlier had no other issue than the current one of the
same id (`SeenIssue`), and that a publisher's goal is the issue of the row it read
(`GoalOfSeen`). All theorems are of the specification with any number of callers, each
of which may hold a copy of a row that is arbitrarily old. The last two measure the
finding `assignment_store_cap`: a publication passes the cap by one row and never by
more, because it reads the file before it writes it; and from then on the store is
unreadable for good, whoever does what.

**AssignmentSweepProofs.** `SweepTypeCorrect`; `Implements`: every step of the sweep,
of its clients and of the runtime is a step of `AssignmentStore` or leaves its
variables alone, so the theorems above hold of this system too. `ToldOnce`:
if no answer of the runtime is lost, the run is told at most once, for any number of
processes and deaths. Its invariant ties the number of tellings to the ledger entry
and to the step of the send under way. Its hypothesis about `Answers` is the only one;
what happens without it is in section 8. `RetiredJustly`: however sends are answered, a
retirement has a dead observation of this very publication, and the mail on record
or the bound reached, unless another process has taken its claim back since the sweep
decided. The invariant follows the observation and the record along the sweep's steps
(`Counted`, `Settled`), and through the steps of the others (`UndoneStep`). `CountedInARow`:
the count on disk is of consecutive dead observations. The invariant compares it with
the true number (`CountsTrue`) and looks one step ahead, at the observation that is
about to be added (`NextCounted`). The property is stated while no process has died, for
the reason in section 9. `CountsTrue` moreover holds only of a store that can be read: one
over its cap accepts neither reset nor addition, so its counts go stale, but they do
not grow.

**CutoverProofs.** `TypeCorrect`, for any number of commands at a time. The other four
are for commands one at a time (`OneAtATime`, a hypothesis on `Procs`), any roster of
stores and any number of writes, transactions and deaths: `RestorableBefore`,
`EvidenceIsTrue`, `NoWayBack`, and `HandsOver`, the refinement of `Handover`. None of
these is inductive: what a command does next is right because of what it found before.
The invariant therefore says what the files mean (`Barred`: behind the boundary the
barrier is up, the old installation down and the log that of this transaction; `Kept`:
between boundary and commit the logged snapshots are the sources) and, place by place,
what a command knows (`Opened`, `Resumed`, `Finished`, `Undone`): up to the boundary
that the cordon is its own and not begun, from the drain on that nobody writes the
sources, during the import how far the targets are written, after the commit which
sources are gone. `HandsOver` needs of it that targets equal sources at the commit,
and that nothing but the commit and the end of the old installation can be seen from
outside (`Unseen`). Which contents an import refuses is a parameter (`Malformed`), so the
theorems hold whatever the sources contain; a refusal is one more place where the
command stops. Two commands at a time break the invariant, see section 8.

**SupervisorProofs.** `TypeCorrect` (failures and stalls are counted up to the limit
and not beyond), `OneTickAtATime`, `OperationalIsTrue`, `StoppingIsFinal`, for any
number of runs, kills, drifts and resets. The invariant says that the lock is the live
run's (`Lease`), that a live tick is awaited or was left by a kill (`Awaited`), what
counts and outcome a status object can have (`Counted`), that a run that handled a
signal is past its last tick or cancels it and says so (`Signalled`), and that the
status file is the live run's object (`Filed`). `HeldOfGone` is about the reset: what it
holds is the status of a run that is gone and was never told to stop, so that writing
it back, however late, says nothing false about a stop.

## 7. What is only model-checked

- `NoOrphanBarrier`, `LiveOwnerKept` and `CapHolds` fail, see section 8; of the last two
  it is proved when they hold (`OneReclaimerIsSafe`) and by how much (`OverByOne`).
- All liveness: `CallTerminates`, `OrphanReclaimed`, `TickReturns`, `SweepEnds`,
  `DeadRetired`, `ForwardRepair`, `GivesUp`, `StopEnds`, `DriftEnds`, `StatusHeals`.
  Liveness under fairness and ENABLED are out of the prover's reach, as is induction
  over data and whatever a RECURSIVE operator computes; no module here uses one.

Every invariant and every action property of a passing run is a theorem, under the
hypotheses that section 6 names.

## 8. Findings

- `journal_lock_reclaim_race`. `reclaimStaleJournalLock` reads the file twice and
  then unlinks by path. Two reclaimers can both pass the second read for the lock of
  a dead process; the first unlinks it, and its caller creates a new lock; the second
  unlinks that one, although the owner is alive. The comment at
  `journal-lock.ts:83-86` says this cannot happen.
- `assignment_store_cap`. `publishCurrentWorkerAssignment` compares the size of the
  file with its limit before the rename, but the number of rows only in the
  readback, after it. A publication at the cap replaces the file by one that every
  reader and writer refuses, the retirement of a row included.
- `cutover_orphan`. `activateCutover` writes `importBegunAt` into the cordon and then
  appends `import-begun` to the log. A death between the two leaves a cordon that is
  begun with a log of five steps: activation, rollback and recovery all refuse it, and
  the old installation stays stopped behind the barrier. The comment at
  `activation-cordon.ts:588-589` says a crash leaves no orphan barrier. `Stuck` names
  this and the other places from which no recovery gets on: the lock directory of the
  epoch authority, which nobody reclaims; a directory half removed; a store the new
  installation has written to before the last follow-up step is on record; and a JSON
  store with an unknown or a missing field. The snapshot only wants JSON with a version
  (`activation-import.ts:163-168`), and covered fields are checked before the boundary
  for opaque stores alone (`activation-transaction.ts:702-713`). `normalizedPayload`
  throws in the import, behind the boundary, and again in every recovery, which reads
  the same snapshot.

Four more disagreements and exposures that have no run of their own.

*A definitive failure of a message that was sent.* `#openCodeDispatch` posts
`/tui/submit-prompt` and then answers `send_failed` when the reply is late, is not 200
or cannot be parsed (`adapter.ts:774-786`), and the nudge's fence reports a failure
after its action was entered as `..._before_dispatch`
(`fleet-nudge-production.ts:166-168`), although the comment at
`worker-assignment-store.ts:1087-1089` says that callers must not flatten an exception
after the beginning of a side effect into a zero-attempt outcome. The actuator then
records FAILED_DEFINITIVE (`fleet-nudge-actuator.ts:395-407`). The properties therefore
do not say that such a message is not out: `Truthful` and `SingleNudges` say that it is
not sent again.

*A claim taken for a mail.* `hasRecordedDispatchTerminalMail` reads the ledger without
its lock and takes a pending entry for a recorded mail, in spite of its comment, "the
smallest durable proof" (`dispatch-terminal-mail.ts:134-137`). While another process is
sending, the sweep may decide to retire; the send is refused, the entry is cleared, the
assignment is retired and nobody has told the run. `Justified` admits exactly this:
`undone` records that the reason was there when the sweep decided and that another
process took it away.

*Two cutover commands at a time* break `ForwardOnly`: nothing locks them against each
other, and a rollback that has read the cordon before an activation begins the import
removes barrier and cordon after it.

*No activation after a rollback.* A rollback leaves the phase-one log of its nonce, and
`appendPhaseOne` refuses that of another one: each later activation stops at its first
record, behind the barrier it has just raised, until it is rolled back again. Nothing
is lost by it, so no property denies it.

An answer that is lost (the runtime sent, the call reports failure) is not a run: the
entry is cleared when `response.ok` is false (`dispatch-terminal-mail.ts:247-254`)
and the mail is sent again, so `MailOnce` fails as soon as `Answers` has "lost".
The comment at line 135 calls the ledger "the existing at-most-once authority"; the
hypothesis of `ToldOnce` says how far that goes, and PROJECT.json lists the rest among
the hazards.

## 9. Limits of the models

- The mutex directory of the claim store is taken, and taken over from a dead holder,
  in one step. A holder's process guid is its process: reused pids are not modelled.
- `FleetNudge` has one generation. File system errors other than those of a deadline
  or a crash are not modelled; the bounded scan of a prune is one step; the journal
  lock inside the journal's operations is atomic.
- `AssignmentStore` takes mutual exclusion from the lock, which has the race of
  section 8 after a crash. A mutation is one step, and so is one whose caller is told
  of a failure after the rename. Ids are numbers in order in place of random UUIDs.
  Legacy keys, sizes in bytes and descriptive fields are left out.
- `AssignmentSweep` has one deliverable per instance; a store lock left by a dead
  process is free at once (its reclaim is `JournalLock`). A scheduler that dies
  between an active observation and the reset loses that observation: the next dead
  ones continue the old count, and `Consecutive` is stated while no process has died.
  Batches, remote bindings, hand-offs and an unreadable ledger are not modelled. *On
  record* in `Justified` is what the sweep reads: the entry of a process that died
  between claim and send stays pending, and the run is never told.
- Pids are not reused in `JournalLock` either: a dead owner whose pid another process
  has got would keep its lock. In the store, a replacement that changes the
  deliverable overwrites an unrelated assignment at the new key, and nothing promises
  otherwise. The cap of terminal records can be passed by overlapping processes of a
  generation, which the lease excludes (`OvershootBounded`, `CapKept`); pruning by
  another generation is not modelled.
- `Cutover` has one request: epoch, predecessor, host and roster never change, and a
  digest identifies a content. A greenfield activation, the admission evidence, the
  preflight and the registry projection, which every command repeats, are left out. So
  are sources the snapshot itself cannot read (no JSON, no version): it then stops the
  command before the boundary, where a rollback undoes it. An external writer of the
  targets other than the new installation is left out.
- `Supervisor` has no clock: a backoff, a cadence and a deadline pass when they pass.
  `OneTick` allows the two ticks that a kill can lead to, as the code does: the orphan
  is in a process group of its own. The registry that is read before a start is
  unreadable only after a backoff, as the loop verifies and starts without an await
  otherwise. A run never reads the status of its predecessor, so a refusal on disk
  does not keep the next one from starting, and the reset only rewrites a file. It
  reads and writes without the lease: the status of a run that has started in between
  is overwritten, and right again at that run's next write (`StatusHeals`). An owner
  record torn by a full disk is not modelled.
- What is not modelled at all is listed, with the reason, in PROJECT.json.
