# weavatrix-worktree: TLA+ models and proofs

`weavatrix-worktree` applies a plan of edits, creations, deletions and renames to a
directory. No file system replaces several files at once, so the crate promises something
weaker than atomicity and harder to get right: *crash-recoverable all-or-restored*
(`src/docs/transaction-model.md`). Every path is staged beside its target, a journal is
written ahead of every change, a failed commit puts the changed paths back, and after a
crash the next process reads the journal and restores the old set. This directory models
that machinery, checks it with TLC on small plans, and proves with TLAPS, for plans of any
size, most of what the runs check.

## 1. The system

| Component (`PROJECT.json`) | State it keeps | Operations | Modelled by |
| --- | --- | --- | --- |
| worker pool, `scheduler.rs` | queue, cancellation flag, result slots | `map_ordered` | `Scheduler` |
| journal grammar and strict replay, `operation/journal*`, `operation/recovery_model/parse*`, `validate.rs` | phase, counters, four sets of paths, two latest indices | `apply_record`, `parse_journal` | `JournalGrammar`, `JournalReplay` |
| prepare and stage, `operation/mod.rs`, `stage*` | journal, stage and backup artifacts, job results | `prepare_operation_plan` | `OperationPrepare` |
| commit, rollback, retention, `operation/commit*`, `undo/receipt.rs` | targets, artifacts, receipt, retained backups, journal | `commit`, `commit_retained`, `abort`, drop | `OperationCommit`, `OperationCleanup` |
| recovery, `operation/recovery*` | the same, read from the disk | `recover_operation_transaction` | `OperationRecovery`, `OperationCleanup` |
| file-system slots and artifacts, `filesystem/slot.rs`, `target.rs`, `control*` | directory entries | link, unlink, rename, sync | partly: the steps above take them one at a time |
| root lock, `transaction/lock.rs`, `operation/pending.rs`, `worktree.rs` | advisory lock, which journals exist | acquire, look for journals, `recover` with its two halves | `RootLock` |
| undo store, `operation/undo/*` | receipts, retained backups, `active-undo.jsonl` | `rollback_undo`, `discard_undo`, `recover_undo` | `UndoStore`, one receipt at a time |
| edit transaction v1, `transaction/*`, `journal.rs` | targets, its own artifacts, `active.jsonl` | prepare, commit, abort, drop, recover | `EditJournal`, `EditTransaction` |
| plan compilation and projection, `plan/compile*`, `operation/projection*` | none (pure) | rename chains and cycles to one transition per path | `PlanCompile` (the edits' content is left out) |
| contract adapter, evidence and durability, codec, options, limits, reports | none, or pure I/O | | no: see section 8 |

**Interaction.** The facade takes the root lock, tests that no journal is pending and
projects the plan to one before/after pair per unique path. Prepare creates
`active-v3.jsonl`, writes its preamble and runs one staging job per path on the worker
pool; the jobs share nothing but the queue and the flag. Commit walks the paths in ascending
order: look, intent, mutate, sync, committed. A failure classifies the path by what it finds
on the disk and rolls back what changed. A retained commit also writes a receipt before the
first change and moves the backups into the state directory after the last. A later process
that finds the journal calls recovery, which uses nothing else: the journal as it parses it
and the disk as it finds it. A retained commit can be undone later: `rollback_undo` compares
every path and backup with the receipt, then restores the paths in descending order behind
`active-undo.jsonl`, a journal of its own with the same record types and a simpler grammar.
Plans that only edit existing files may take the older v1 route: the same idea, but separate
code with a separate journal, `active.jsonl`, and other rules of rollback and recovery.
`recover()` tries the operation and undo journals first, gives the lock back, and then tries
the v1 journal.

**What is hard here.** A change is a sequence of system calls, each of which may fail with or
without its effect. A create is a link and an unlink, so a death in between leaves one file
with two names, which the ordinary evidence check refuses. Recovery writes to the journal
it reads, may die as well and must be understood by the next recovery. The writer (commit,
rollback, recovery) and the reader (the parser) are separate pieces of code with separate
ideas of what a legal journal is. Staging jobs fail concurrently, and the answer must not
depend on the threads. Somebody else may write to a target at any time, because the lock is
advisory, and a child process may inherit the lock. A path may be the source of one operation
and the destination of another. `PROJECT.json` lists these hazards one by one with their lines.

**What makes a component correct.** The pool: one deterministic error, no lost job, it
ends. The parser: it takes exactly the grammar, and reports what the records say. The
transaction: all paths changed or all restored, nothing left over, nothing lost on the way,
no foreign file destroyed, and every journal can be resolved by recovery. The undo: the old
set is back and the receipt is gone, or nothing has happened, and no backup is lost. The lock:
one transaction at a time, no pending journal overlooked, no lock left behind. The compiler:
the legal plans and no others, with the result of carrying them out by hand.

## 2. Modules

```
JournalGrammar ──── JournalReplay ─┬─ MCJournalReplay
      │                            └─ JournalReplayProofs
      │
      ├─ OperationState ─┬─ OperationPrepare ──┐
      │                  ├─ OperationCommit ───┼─ OperationTransaction ─┬─ MCOperationTransaction
      │                  ├─ OperationCleanup ──┤            ┊           └─ OperationTransactionProofs
      │                  └─ OperationRecovery ─┘            ┊                └─ OperationSafetyProofs
      │                                                AtomicApply
      │                                                     ┊
      │                            EditJournal ── EditTransaction ─┬─ MCEditTransaction
      │                                                            └─ EditTransactionProofs
      └─ UndoStore ─┬─ MCUndoStore
            ┊       └─ UndoStoreProofs
        ExactUndo

Scheduler ─┬─ MCScheduler      RootLock ─┬─ MCRootLock       PlanCompile ─┬─ MCPlanCompile
           └─ SchedulerProofs            └─ RootLockProofs                └─ PlanCompileProofs
```

A line is EXTENDS; a dotted one is a refinement, `INSTANCE AtomicApply WITH ...`
or `INSTANCE ExactUndo WITH ...`.

**Scheduler.** One action per critical section of `run_worker`: `Leave` (flag or empty queue
seen under the lock), `Admit` (pop), `Store` (the outcome becomes visible), `Cancel` (the
flag is raised after it). `verdict` is what each job would return; it is fixed by the
inputs, so the model can ask whether the reported error depends on anything else. A panic is
caught by `run_job` and is an outcome like an error. `Primary` is the selection of
`stage.rs`, `collect`.

**JournalGrammar** says which record may follow which journal, as predicates over the
sequence of records. It is the abstract specification of the parser and what the
transaction uses to say that a journal is readable. **JournalReplay** is the parser as it
is written: seven phases, three counters, four sets, two registers, one action per record
kind, and `Reject` for everything else. Payloads (schema, digests, artifact names, kinds) are
left out: a record is its type and its index. Paths and operations are numbered from 1.

**OperationState** holds the variables of one transaction and the helpers. A file is
represented by where it came from, which is what identity, hash and permissions tell the code:

| Variable | Stands for |
| --- | --- |
| `slot[p]` | the target: `none`, `old` (found at preparation), `new` (our output), `bak` (the restored backup), `ext` (somebody else's) |
| `stage[p]`, `backup[p]` | the artifacts beside it: `none`, `partial` (created, not written), complete |
| `kept[p]`, `receipt` | the retained backup and the receipt in the state directory |
| `journal`, `log`, `poisoned` | `active-v3.jsonl`, its complete records, and whether its writer saw a failed append |
| `pc`, `at`, `job`, `retain` | the running call, the path it is at, its staging jobs, and whether it is `commit_retained` |
| `parsed` | the snapshot of the journal a running recovery decides from |
| `report` | what the last call returned |

`Before`, `After`, `Readable`, `MatchesBefore` and `MatchesAfter` are the evidence checks;
`slot = "new" /\ stage = "new"` *is* the two-link file, since after the rename or unlink the
stage is gone. `Call` is one system call: it works, or it fails with or without its effect.
`Log` is `Writer::append`: durable, refused because the journal is full or poisoned, or failed
with or without the record becoming durable (and the writer poisoned).

**OperationPrepare, OperationCommit, OperationCleanup, OperationRecovery** are the calls.
Control points (`pc`) are named for what comes next, each action is the code from one
system call to the next, and `map` in `PROJECT.json` names its lines. Some points of
correspondence that are easy to miss:

* `OperationPrepare`: `AdmitJob`/`Cancelled` are the pool of `Scheduler` seen from the jobs
  (in order, never behind a raised flag, at most `Workers` at once). `UndoJob` is the clean-up
  of a failed job, `Collect` that of the jobs that went well, then the lowest error.
* `OperationCommit`: `Check` and `Intend` are `commit_one` before the mutation; `LinkStage`,
  `UnlinkStage`, `ReplaceTarget`, `RemoveSource` the calls of `mutate`; `Classify` is
  `MutationState`; `Unwind` starts `rollback_changed`, behind `DropReceipt` when retained.
* `OperationCleanup` is shared, since the tail of a commit and the tail of a recovery do the
  same: remove artifacts in path order, relocate retained backups, remove the journal last.
* `OperationRecovery`: one action per arm of the decision in `recovery/apply.rs`. `Explained`
  is the disjunction of the arms, so `RefusePath` is the fall-through error.

**OperationTransaction** composes them with the environment: `Crash` (the process is gone, the
disk and the journal stay), `Foreign` (a program that ignores the lock replaces or deletes a
target) and `Resolved` (the transaction is over). It holds the properties.

**AtomicApply** is what a transaction promises, whichever engine runs it. It is decided in one
step (`Decide`), nobody may rely on the paths before it is closed, and when it is closed
(`Close`) every path is found as the decision says and the caller is told that or nothing;
after a foreign change (`Disturb`) nothing is promised. Both transactions implement it with the
same mapping: the tree is decided when the record `Finished(COMMITTED)` is durable, it is closed
when the journal is removed, and a path is found in its before or its after state by the
evidence recovery uses.

**MCOperationTransaction** gives TLC sets of system calls that may fail, as `<<call, path>>`
pairs.

**UndoStore** begins where a retained commit ends: targets as committed, one receipt, a backup
in the state directory for each path that had a content. `slot`, `journal`, `log`, `pc`, `at`
and `parsed` mean the same as above; `kept[p]` is the backup, and `slot[p] = "bak"` beside
`kept[p] = "bak"` is the two-link file of a half-done install. `RollbackUndo` is the comparison
before the first change, `CreateJournal` to `DropJournal` the restore; `Recover`, the three
`Recover...` actions and one action per arm of `converge_path` are `recover_undo`, which joins
the restore again at `restore`, `unlink` or `record`; `DiscardUndo` and `DiscardPath` are
`discard`. No undo call turns back after a failure: it returns the error and leaves the
rest to recovery, with the failed call's effect or without it. A failing system call and a
death are therefore one action, `Stop`. `Foreign` is possible at any time, also before the call,
when a later transaction may have changed the path. The last look at a target and the system
call that follows are one step, as the documented race lies between them. `MayFollowUndo` is
the grammar of `undo/recovery/replay.rs`: unlike that of a commit it does not fix the order of
the paths.

**ExactUndo** is what the undo of one commit promises: its receipt is redeemed at most once and
only while all of it is there; one step decides whether the paths are restored (`Decide`) and it is
not taken back; an undo given up before it (`Abandon`) leaves receipt and paths as they were; one
that is closed (`Close`) has restored every path and left nothing in the store. `Break` and
`Discard` are the other end of a receipt: a discard may be interrupted, and what it leaves then
cannot be redeemed. `UndoStore` implements it as long as nobody else changes a path (`Disturb`):

| `ExactUndo` | in `UndoStore` |
| --- | --- |
| `open` | the journal is there |
| `tree` | restored: the record `Finished` is in the journal, or there is none and every target is as before the commit |
| `held` | whole: the receipt is there and, unless the undo is open, every backup; spent: it is not, and no backup is left when the undo is not open; otherwise broken, or leaked, which the abstract undo never is |
| `found` | unknown while the undo is open, then what the target of each path is |
| `answer` | what the last call reported, if it was "restored" or "discarded" |
| `Begin`, `Decide`, `Consume` | `CreateJournal`, `Finish`, `DropReceipt` behind a journal |
| `Close`, `Abandon` | `DropJournal`, with `Finished` or without |
| `Break`, `Discard` | `DiscardPath`, `DropReceipt` without a journal |
| a stutter | every other step: what a call or recovery does to a path is not seen while it is open |

**EditJournal** and **EditTransaction** are the v1 engine. Its files are modified in place, so a
target is `old`, `new`, `bak` or `ext` as above. Points where it differs from V3, and where the
model follows it: the parser fixes no order between paths; `Classify` turns a failed rename into
"changed", "unchanged" or an unresolvable state; `Look` and `RecoverPath` inspect target and
backup *before* `Announce` writes the intent, so `RaceWindow` spans that record as well; recovery
(`Recovering`) passes paths without an intent and paths already restored without writing a record
(`PassRestored`), and announces again what a dead process had announced; a preparation that
failed removes the artifacts of every path, whatever its job said (`CollectStaged`), where V3
removes those of the jobs that went well.

**RootLock** has any number of processes, each making one call after the other. `Lock`, `Look`
(one journal file per step, in the order of the code) and what the call then does are separate
steps, so another process may act between any two of them. `Locked` is the lock as the kernel
sees it: held by a handle or by a duplicate of it in a child process. `Release` is where the
implementations differ: a `LockGuard` unlocks the description, a plain `File` only closes its
handle. `recover` takes the lock twice, `NextHalf` gives it back in between. What a call does to its
journal (`Finish`, `Abandon`) is one step here and modelled in detail above.

**PlanCompile** takes the operations one by one (`Register`: `insert_input`, `insert_output`),
checks paths with two roles (`Validate`), compares every touched path with the plan
(`Snapshot`: the error of the lowest failing path) and computes what every path is to contain
(`Assemble`). Content is its provenance: found at which path, last written by which operation.

What the representation rests on:

* A torn last line of the journal is ignored by the reader and truncated by the resume, so
  a death during an append is a death before or after it.
* A power loss that forgets an unsynchronized directory operation is a death before
  the operation.
* Recovery's decisions are taken from one parse (`parsed`), as in the code; its own records
  go to `log`.
* Removing an artifact with two links is refused by the code. In the model such a state has no
  successor and deadlock checking is on: no run meets one, and `CleanupGoesOn` (section 6) proves
  that no instance does.
* A rename onto a target follows the last look at it after a moment. `RaceWindow` keeps
  foreign writers out of that moment, which the documentation excludes from the guarantee
  (`src/docs/transaction-model.md:81`).
* Read-only checks of several paths (`verify_all`, `verify_finished`, the test before
  `discard_uncommitted`) are one action each. The synchronization before an attested
  record is not given a fault of its own: it stops the call exactly like a recovery that
  could not be opened. A path that a failed mutation leaves unreadable is a fault of its own
  (`classify`), since it decides whether the call rolls back.
* Recovery compares the paths its journal lists (`Listed`). A preparation that died early has
  not listed all of them, and has not touched the others.
* After a rollback that succeeds the code may still flag the error as one that requires recovery
  (a failed sync or append before it, `operation/commit.rs:160` to `200`). `report` is then "unchanged", which
  is what the disk says; no property depends on the flag.
* One transaction per behaviour: `ensure_no_pending` keeps a second one out until the journal
  of the first is gone, which is `OneTransaction` of `RootLock`.
* `EditTransaction` starts its jobs in order but does not limit the workers; that admits every
  schedule of the pool and a few more.

## 3. Runs

| Run | Instance | States | Shows |
| --- | --- | --- | --- |
| `scheduler` | 4 jobs, 3 workers, every assignment of ok/error/panic | 69 k | type invariant, `PrimaryIsFirstFailure`, `AdmittedOnce`, `EventuallyJoined` |
| `journal_replay` | 2 paths, 1 operation, every sequence of up to 17 records | 1.3 k | the phase machine accepts exactly the grammar (`AcceptsTheGrammar`), its sets are those of the records (`ReportsTheRecords`), an interrupted rollback can always be continued (`RollbackCanResume`) |
| `operation_faults` | 2 paths of every kind, 2 staging workers, both commits, 2 deaths, 2 failing calls, nobody interfering | 100 k | `JournalReplayable`, `RecoveryNeverRefuses`, `ImplementsAtomicApply`, `NoOrphans`, `ReceiptBacked`, `Resolves` |
| `operation_adverse` | 2 paths of every kind, both commits, 1 death, 1 failure of any call, 1 foreign write | 140 k | `BeforeSurvives`, `WriteAhead`, `ForeignPreserved`, `FinishedIsFinal`, `RollbackNeverForward` |
| `edit` | 2 files, 2 deaths, 2 failing calls, 1 foreign write | 48 k | `EditNeverRefuses`, `EditNoOrphans`, `ImplementsAtomicApply`, `ForeignPreserved`, `EditResolves` |
| `undo` | 3 paths of every kind, 2 deaths or failing calls, 1 foreign change, rollback, discard and recovery in any order | 78 k | `ImplementsExactUndo`, `UndoNeverRefuses`, `JournalReadable`, `IntentBeforeRestore`, `BackupBecomesTarget`, `ForeignPreserved`, `NeverAbandoned`, `UndoResolves` |
| `root_lock` | 3 processes, any calls, with or without a journal of an earlier release | 321 k | `OneTransaction`, `NothingOverlooked`, `NotLeftLocked` |
| `plan_compile` | 4 paths, every plan of up to 3 operations, every disk | 460 k | `AcceptsTheLegal`, `CompiledAsByHand` |
| `torn_receipt`, `first_check`, `unchanged_intent`, `repeated_intent` | one property and the failures that refute it | | the findings of section 5 |

**Bounds and why they are enough.** `N = 2` paths is the smallest plan with an order
between paths: one changed, one not; a rollback that is half done; a gap in the intents; two
jobs that fail. All nine pairs of kinds are initial states. `Ops = 1`: operation records only
count. Two deaths let recovery itself die and be recovered; two failures let the failure of
a failure's clean-up happen; `operation_adverse` trades one of each for the foreign writer and
was also run once with two deaths and two failures (570 k states), with the same
outcome, as was `edit` with three files and one failure (103 k). `Capacity = 100` never binds;
what happens when it does is described in section 5.
The longest journal the grammar has for two paths is 16 records, so `MaxLength = 17` lets
every one of them be rejected at one record too many. Three workers on four jobs let one
worker be late with two jobs behind it. `undo` has three paths, so that recovery can meet one
restored and recorded, one restored and not recorded and one untouched; two stops let the
recovery be interrupted as well. Three processes in `root_lock` let one recover between the
two halves of another's `recover` while a third prepares; the processes are symmetric. Four paths
and three operations in `plan_compile` include chains and cycles of three renames, a swap
beside another operation, and every way in which two operations can meet on a path. For the
properties with a theorem (section 6) the bounds do not matter.

`operation_faults` lets every system call fail but the few (`HandledCalls`) whose failure is
the subject of section 5: the first revalidation of commit, the mutation of a later path, the
clean-up of a later staging job, and the receipt's directory synchronization and removal.
`operation_adverse` and `edit` have no such exception.

**Fairness.** `Scheduler`: weak fairness of each worker, since every started thread is
scheduled until the scope joins it. `OperationTransaction` and `EditTransaction`: weak fairness
of the running call as a whole (`WF_vars(Process)`): a call is not suspended for ever, the
caller of a prepared transaction commits, aborts or drops it, and a process that finds a journal
calls `recover`, again if it failed. Nothing is assumed of deaths, failures or foreign writers;
their number is bounded, which is what "once the failures stop" means. `UndoStore`: the same for
a running call and for the recovery of a journal that was left (`WF_vars(Running)`); nobody has
to start an undo or a discard. The safety properties need none; `RootLock` promises no liveness,
since the code never waits for the lock.

## 4. Properties

The properties are stated and explained beside their definitions. The ones about the
transaction, with what each would miss if it were weaker:

* `ImplementsAtomicApply` ties the disk to what was reported and to the journal: a transaction
  that ends restored but said "committed" fails it as much as a mixture does, and so does one
  that decides, dies, and is reversed by a recovery.
* `RecoveryNeverRefuses` is the other side of fail-closed. A recovery that refuses everything is
  safe; this one must explain every state the engine itself can leave behind.
* `JournalReplayable` compares the writers with the parser at every step, not only where a
  death was tried.
* `BeforeSurvives` and `WriteAhead` hold in every state in between, and are what makes the
  recovery possible at all.
* `NoOrphans` and `ReceiptBacked` are about what remains after the journal, the only record of
  the names, is gone.
* `ForeignPreserved`, `FinishedIsFinal`, `RollbackNeverForward` say what no step may do,
  whichever process takes it and whatever was parsed.

The v1 transaction has the same four questions to answer: is it atomic, can recovery explain
what it left (`EditNeverRefuses`), is anything left behind, and does it spare foreign files. It
answers them for every failing call, where V3 has exceptions; its own exception is
`repeated_intent`.

The ones about the undo follow the same lines. `ImplementsExactUndo` fails when some paths are
restored and others are not, but also when a restored commit leaves its receipt or a backup, when a
receipt that has lost a backup is redeemed, or when somebody is told "restored" or "discarded" too
early. With `UndoNeverRefuses` it belongs together: nothing the engine leaves behind may look like
interference. `NeverAbandoned`
is about the order in which receipt and journal go, `BackupBecomesTarget` about the only copy
of the old content, which must not be unlinked when the target it was linked to is gone again.

`NothingOverlooked` is about the gap between the two halves of `recover`: another process may
take the root there, recover, and prepare anew. A journal that was there all the time must not
be answered with "nothing pending". `NotLeftLocked` is what the test
`dropping_a_prepared_transaction_unlocks_even_with_a_live_duplicate` tries for one call.
`AcceptsTheLegal` compares a check that sees one operation or one path at a time with a
condition on the whole plan and the whole disk, in both directions. `CompiledAsByHand` compares
transitions computed path by path with carrying out the operations one after the other.

Every property of a passing run has a mutant in `PROJECT.json`: a plausible slip in one
mapped definition (a receipt not dropped before a rollback, a classification that forgets the
current path, results read before the join, a lock whose error is dropped, ...) that TLC
refutes with the property under the run's own configuration.

## 5. Findings

Four places where the code does not do what the documentation says, each with a run that ends
in a counterexample:

1. `torn_receipt`: `write_new` creates the undo receipt under its final name and then
   writes it. A death in between leaves a receipt no recovery can parse, and every recovery
   stops at it. The documentation says that such a crash "resolves deterministically".
2. `first_check`: a commit whose first step fails has changed nothing and still writes
   `Finished(ROLLED_BACK)`, which the parser takes only behind a commit intent. If the process
   dies before the journal is gone, `recover()` calls it corrupt.
3. `unchanged_intent`: a mutation that failed without effect keeps its intent. If the rollback
   of the lower paths is interrupted, recovery attests that path behind them, out of
   order, and its journal is corrupt for the next recovery.
4. `repeated_intent` (v1): a recovery that resumes an announced restore announces it again, and
   the v1 parser rejects a second `RollbackIntent` of one file. A commit whose rollback and next
   recovery both die behind the announcement leaves a journal that is corrupt for ever.

Three more are consequences of failing system calls or of a limit, and contradict the documentation
as well. They have no run of their own; TLC finds each counterexample at once, with
`MCOperationTransaction` and the values given over those of `MCOperationFaults.cfg`:

* *A journal that fills up.* The byte bound keeps nothing back for rollback records
  (`operation/journal.rs:173`). A commit that reaches it cannot turn back, neither in this process
  nor, with the same limits, in a later one, although a failed commit "rolls already-committed
  targets back" (`src/docs/transaction-model.md:41`). (`Capacity = 15`, `Faulty <- NoCalls`,
  `MaxFaults = 0`, `MaxCrashes = 0`: `Resolves` is violated in 32 states. The first path is
  committed, the intent of the second refused, its rollback intent too, and so is that of every
  recovery.)
* *A receipt without a commit.* The receipt is complete but its directory cannot be synchronized
  (`operation/undo/receipt.rs:221`). The commit is given up and the journal removed; the receipt
  stays, which an "in-process commit failure removes" (`src/docs/transaction-model.md:343`).
  (`SPECIFICATION Spec`, `Modes = {TRUE}`, `MaxFaults = 1`, `MaxCrashes = 0`,
  `Faulty <- ReceiptSync`: `ReceiptBacked` is violated in 28 states.)
* *A forgotten artifact.* Two staging jobs fail and the higher one cannot clean up
  (`operation/stage.rs:171`). Only the lower error is returned, so nobody asks for recovery; the
  journal is removed and the higher job's artifact stays, although "all known artifacts are
  accounted for" (`src/docs/transaction-model.md:181`). (`SPECIFICATION Spec`, `Modes = {FALSE}`,
  `MaxFaults = 3`, `MaxCrashes = 0`, `Faulty <- DirtyJob`: `NoOrphans` is violated in 18 states.)

Weaknesses that contradict no line of the documentation:

* `discard` of the undo store removes the backups one by one without a journal, so a death
  half-way leaves a receipt that can neither be discarded (`DiscardPath` fails at the first missing
  backup) nor rolled back (`operation/undo/receipt/store.rs:56`) and still counts against the
  bounds of the store. `ExactUndo` therefore has the state `broken`; `ImplementsExactUndo` says that
  nothing is redeemed from there, and nobody told that it is gone.
* A *modified* path whose new file a foreign program deleted is restored by a link and an unlink,
  while the resume rule for a half-done link takes deleted paths only
  (`operation/recovery/linked.rs:61`), so a death between the two makes every later recovery
  refuse. It needs a foreign writer, where `RecoveryNeverRefuses` promises nothing.
* Operation recovery and the undo sessions hold the lock in a plain `File`
  (`operation/recovery/mod.rs:23`, `operation/undo/api.rs:11`). If a child process inherits the
  handle, the root stays locked after the call has returned, which `LockGuard` was written to
  prevent; `NotLeftLocked` is therefore about the guarded calls only.

## 6. Proofs

All theorems are for every value of the constants under the named assumptions of the modules
(`SchedulerAssumption`, `JournalAssumption`, `ReplayAssumption`, `OperationAssumption`,
`UndoAssumption`, `EditAssumption`, `EditBounds`, `PlanAssumption`: sizes and bounds are natural
numbers, there is at least one path and one worker, plans are sequences of operations). The
number of deaths, failures and foreign writes is any. Four theorems of `OperationSafetyProofs` have
one hypothesis more, about which calls can fail; it is in their statement.

**SchedulerProofs.** `SchedulerTypeOK`, `ReportedErrorIsDeterministic`
(`PrimaryIsFirstFailure`) and `EveryJobAdmittedOnce` (`AdmittedOnce`), for any number of jobs
and workers. The properties speak of the state after the join, so the invariant has to say how
it comes about: the jobs admitted so far are exactly those in front of `next`, each is either
stored or in the hands of exactly one worker, stored results are the job's verdict, and the
flag is raised only when some stored result failed and will be raised, by the worker that
stored it, whenever one did. At the join nobody holds a job, so the results are a prefix,
which is the whole queue unless a failure is in it.

**JournalReplayProofs.** `ReplayTypeOK`, `ParserIsTheGrammar` (`AcceptsTheGrammar`),
`ParserReportsTheRecords` (`ReportsTheRecords`) and `RollbackAlwaysResumes`
(`RollbackCanResume`), for plans of any size and journals of any length. The parser keeps
phase, counters, sets and two registers; the grammar is about the whole journal. The invariant
says what the former know of the latter: phase and counters together are the length of the
preamble, the sets and the flag are those of the records, and a register holds the latest
intent, the only one that may still be open. With it, "the action for this record is enabled"
and "this record may follow" are proved equivalent kind by kind (`Fits` and `MayFollow`), and
acceptance of the whole journal follows by the step lemma on `SubSeq` and `Append`.

**OperationTransactionProofs.** `TransactionTypeOK`: the type invariant of the transaction, one
lemma per group of actions. Its content is `AtFits`: a call that is at a path is at a path of the
plan, so no loop of commit, rollback or recovery runs off either end.

**OperationSafetyProofs.** First the three action properties, from two inductive facts:

* `LookedAt`: at the control points where an unconditional rename may follow, the target of the
  current path is not a foreign file. `Foreign` is excluded exactly there (`RaceWindow`), and
  every way into these points looks first. With it `ForeignFilesSurvive`: the remaining
  writes are a link (which clobbers nothing) and removals of an exact file.
* `Direction`: once the log holds a rollback intent or a `Finished` record, the running call is
  at none of the control points from which a change is intended or installed (and behind
  `Finished` at none that restores), and a recovery's snapshot agrees with the log where
  it decides by it. `RollbackStaysRollback` and `FinishedStaysFinal` are then a look at the few
  actions that write to a target.

The lemmas `PrepareSlots`, `CommitSlots`, `CleanupSlots`, `RecoverSlots` name those actions, and
similar ones name the actions that append to the log.

Then `IntentsComeFirst` (`WriteAhead`) and `OldContentSurvivesCommit` (`BeforeSurvives`). Neither
property is inductive, because neither says how far the running call has come. `Good` does:
`Ladder` (changed paths are a prefix of the plan, and the journal names each of them), `Extent`
(at every control point, how long that prefix is: nothing at the points of preparation, up to
`at - 1` before a change, up to `at` behind it, at most `at` when restoring), `Snapshot` (what a
recovery parsed is in the log), `Backed` (backups are complete from the end of the staging to the
first restore) and `Survives`. A recovery that finds no commit intent looks only at the paths the
journal lists; `PathsFirst` says that a replayable journal lists every path before it intends the
first change, so with `Ladder` the others are untouched (`ListedUntouched`). `Good` holds as long
as nobody else writes to a target and the transaction is open (`Regime`).

Finally `CommitIsAtomic`: the transaction implements `AtomicApply`. What is needed beyond `Good`
is `Final` (nothing but before, after and backup files is at the targets; the record
`Finished(COMMITTED)` is written where every path is changed, and while it is there every path
stays in its after state; at the removal of the journal every file has one name) and `Running` (a
call is under way only behind a journal and answers only when that is gone). `FinishCommit` is then
`Decide`, by `OnlyFinishCommits`; `RemoveJournal` is `Close`, by `JournalRemoved`, where the two
cases of the outcome are `Final` and `Extent`; foreign writes are `Disturb`; every other step
stutters, by `StaysOpen`.

Then what a later process can read. `TwoFlawsAndNoOther` says of *every* journal the transaction
can leave, foreign writers and all failing calls included, that the strict parser rejects it if and
only if it is `Flawed`: it finishes a rollback of no path, or it announces a restore behind that of
a lower path. So findings 2 and 3 of section 5 are the only ones of their kind, and with
`ParserIsTheGrammar` writers and parser are compared for plans of any size. The invariant is `Kept`. A record may be appended only if it
fits what the journal holds, and what it holds must be known from the control point of a call that
keeps no such account; `Placed` says it for each control point (how far preamble, intents, commits
and rollbacks are), and `Ranked` that a record comes behind those it presupposes. A flawed journal
stays flawed until it is removed, which is why the equivalence is inductive.

`JournalsStayReplayable` says when neither flaw is written: nobody else writes to a target, and
`HandledFaults`: of the system calls neither the check of the first path nor the mutation of a later
one fails. Every other call may fail, at any time and any number of times. `Upright` adds to `Kept`
that a rollback has left no intended path out (`NoSkip`, `Straight`) and has something to finish
(`Grounded`), which in turn needs that only the first path's change is ever without effect
(`Classified`). The runs `first_check` and `unchanged_intent` show that each half of the hypothesis
is needed.

What a recovery answers follows from three theorems. `NothingIsRefused`: without foreign writers no
path is refused, with no assumption on failing calls. Its invariant `Accounted` says where target,
stage and backup of each path can be, given what the journal says of it and whether the running call
is in the middle of it: two links only for a created path or the restored deletion of one, a path
recorded as put back is back. `CorruptionHasTwoCauses`: the answer "corrupt" is given for a torn
receipt or a flawed journal only, whatever happens. Its invariant `Blamed` also excludes that the
answer of an earlier recovery is still there when a later one finds something else. Together with
`JournalsStayReplayable` they give `RecoveryExplainsItself` (`RecoveryNeverRefuses`).

Last, what is left when the journal is gone. `Stored` holds for all failures: a backup is complete
where it is relied on, and one that is retained has left its place beside the target and has its
receipt. `NothingStaysBehind` (`NoOrphans`) adds `Tidy`: no artifact is left where the journal
may be removed. It needs `HandledUndo`: no staging job *but the first* fails to remove its own
artifacts. The first may, because the error of the lowest failed path decides, and that one then
keeps the journal. `ReceiptsAreBacked` (`ReceiptBacked`) adds `Filed`, which says for every
control point which receipt there is, and needs `HandledReceipts`: neither the synchronization of
the receipt's directory nor the removal of the receipt fails. Section 5 shows what
happens otherwise. The three hypotheses together exclude the calls that `HandledCalls` leaves out of
`operation_faults`, and each theorem needs one of them only.

`CleanupGoesOn` says that a clean-up is never stuck, with no assumption at all: the removal of an
artifact refuses a file with two links, and the retention a backup that is neither beside its target
nor moved, and either would leave the journal unresolved for good. `OneLink` says which paths may be
half installed or half restored at each control point: the one the running call is at and, behind
a death, those a recovery has not come down to; the clean-ups are at none of these control points.
`Named` says that each of them has its commit intent, hence is listed, and a recovery that looks at
the listed paths overlooks none.
`Supplied` follows the backups from the staging to their relocation.

**EditTransactionProofs.** `EditTypeOK`, `EditLeavesNothing` (`EditNoOrphans`),
`EditPreservesForeign` (`ForeignPreserved`), `EditIsAtomic` (`ImplementsAtomicApply`) and
`EditIsNeverRefused` (`EditNeverRefuses`), for every failing call. The
invariant has a part for each question: `Phases` (what the control point says of journal and
records), `Swept` (which artifacts are gone already when the clean-up is at a path), `LookedAt`
as above, `Explained` (what a `Finished` record says is what the targets hold), `Progress` (which
targets a commit or a rollback at `at` has behind it). The refinement has the shape
of that of the operation transaction. `EditIsNeverRefused` needs the records and the artifacts as
well: `Recorded` (what each record presupposes, and what a recovery parsed), `Legible` (the parser
accepts the journal unless a restore was announced twice), `Staged` and `Backed` (from the end of
the staging to the restore every backup is complete), `Answers` (what may have been reported).
`OneFlawAndNoOther`: of all journals a v1 transaction can leave, the parser rejects exactly those
that announce one restore twice, so finding 4 is the only one of its kind.

**UndoStoreProofs.** `UndoTypeOK`, and every safety property of `undo`. `ForeignFilesSurviveUndo`
and `OldContentSurvives` need the types alone, since every look is part of the step that relies
on it. `UndoIsSeenThrough` (`NeverAbandoned`) and `UndoIntentsComeFirst`
(`IntentBeforeRestore`) rest on the inductive `Order`: where a call may be without a journal,
that the receipt is dropped only behind `Finished` and the journal only without intents or
without the receipt, that a recovery's snapshot holds no intent the journal does not, and that a
restore is at an announced path. `IntentBeforeRestore` needs it twice: a backup moves only at
such a path, and when a journal is created or removed no restored path loses its reason.

`UndoJournalsAreRead` (`JournalReadable`) adds `Progress`, whatever anybody changes: the paths
behind the call are recorded in the journal, those ahead are as the journal it started from has
them (`Passed`), the path it is at is announced and not recorded, and a receipt is missing only
behind `Finished`. With it each record that is appended may follow (`MayFollowUndo`), so the
journal stays readable one append at a time (`ReadFurther`).
`UndoIsNeverRefused` (`UndoNeverRefuses`) adds `Evidence`,
as long as nobody else changes a target: `PathKnown` says where target and backup of a path can
be, given what the journal says of it (committed; announced and committed, half restored or
restored; recorded and restored), and `Looked` what the running call has made sure of at its
path. The three places of a path are told apart by looking at it (`Apart`), so every look a call
takes finds one of the cases it goes on with; and when the journal goes, either it is finished and
every path is restored, or it has no intent and every path is as committed.
`UndoIsExact` (`ImplementsExactUndo`) adds two facts that concern the end of a call: `Discarded`
(which backups a discard has removed by now) and `Answered` (who was told "restored" or
"discarded" was told so last, and there is neither a journal nor a receipt since). While the
journal is there the mapping depends on `Finished` and the receipt only (`SeenOpen`), so the
restoring steps stutter (`Unseen`); the steps that create or remove journal, receipt or record are
one lemma each (`Begins` to `Breaks`); only two steps answer, and nothing happens behind an answer
(`Answers`, `SilentWhenTold`).

**RootLockProofs.** `RootLockTypeOK`, `OneTransactionAtATime` (`OneTransaction`),
`RecoverOverlooksNothing` (`NothingOverlooked`) and `GuardUnlocks` (`NotLeftLocked`), for any
number of processes. The invariant: a process behind the lock is the only one in `session`, what
it has looked at so far is exactly what is there, so nothing can have been created behind its
back, and the journals that were there since a call began are still there.

**PlanCompileProofs.** `CompilerAcceptsTheLegal` (`AcceptsTheLegal`) for any number of paths and
any plan. The invariant is that the two tables hold exactly the roles of the operations registered
so far; at a clash both operations are known, and the pairwise conditions of `Legal` then are the
checks of one path at a time. `CompilerTypeOK`: the types of tables, error and contents.

`CompiledIsByHand` (`CompiledAsByHand`), for plans of any length, chains and cycles of renames
included. The plan carried out by hand is a recursive function: first every operation takes its
file away (`Taken`), then every operation puts its own in place (`Placed`). Each of its
steps is an equation (`TakenStepwise`, `PlacedStepwise`); that every path ends as the compiler has
it is an induction over the operations, done by the least operation at which it would fail
(`LeastElement`). A path is cleared by the one operation that reads it and filled by the one that
writes it (`Clears`, `Fills`); that there is only one of each is what an accepted plan's tables say
(`AcceptedIsSettled`), and is why the order of the operations, which the code never looks at, does
not matter.

**Only model-checked.** Liveness (`EventuallyJoined`, `Resolves`, `EditResolves`,
`UndoResolves`): out of the prover's reach under fairness. Every other property of a passing run is
stated by a theorem. What the theorems do not say is that the excluded failures are handled,
because they are not: the violation runs and the constants in section 5 show the counterexamples.

## 7. What could follow

Several receipts over the same paths, and a transaction between a retained commit and its undo:
`ExactUndo` and `AtomicApply` then share the tree, and a later commit is a `Disturb` of the older
receipt.

## 8. Not modelled

* Payload validation and the line codec of the journal (`recovery_model/operation.rs`,
  `journal/codec.rs`, `schema.rs`): they keep no state, and a record that fails them is a
  record out of place. Digest collisions and mixed-up artifact names are excluded thereby.
* Path confinement, symlinks, permissions and platform branches of `filesystem/`: the models see
  a system call that works or fails.
* Of the projection what edits do to a text, the byte limits of outputs, and the validation of a
  plan by the contract crate (portable path keys included): `PlanCompile` begins with a plan the
  contract admits and follows whose content goes where.
* Options, limits, errors and reports: value types. The facade beyond the order of calls in
  `recover()` and the taking of the lock.
* A panicking staging job: the pool's model covers the panic, but what it leaves beside its
  target is not followed.
* The bounds of the undo store, several receipts over the same paths (a later transaction is a
  foreign change to the older receipt), and the checksum that binds an undo journal to its receipt.
* A second transaction before the journal of the first is gone, and the moment between a lookup
  and the rename that follows it (see `RaceWindow`).
