# Verification of dotman

dotman keeps dotfiles in git repositories and on the machine in step. `push`
copies repository to live, `pull` live to repository, and `sync` reconciles both
by a three-way merge against a stored *Sync Base*. This directory holds TLA+
modules of its core and of the machinery and workspace around it, the TLC runs
that check them, and theorems proved with TLAPS. The reference is the code in
`src/dotman/`; names follow it.

- [Inventory](#inventory): the parts of the system and what makes them correct
- [Modules and runs](#modules-and-runs)
- The core: [SyncBaseStore](#syncbasestore), [SyncBaseMap](#syncbasemap),
  [SyncExecution](#syncexecution), [SyncSession](#syncsession), [CommandDeck](#commanddeck)
- The machinery: [CommandRuntime, ElevationBroker, PrivilegedAccess, AtomicFiles](#machinery)
- The workspace: [SyncLifecycle](#synclifecycle), [SyncDirectory](#syncdirectory),
  [Snapshots](#snapshots), [PlanningGuards](#planningguards),
  [PackageGraph, Tracking, SyncScope](#packages)
- The files: [StructuredFiles and the transforms](#structured-files)
- [Findings and observations](#findings-and-observations)
- [What is proved, what is model-checked, what is not modelled](#results)
- [Plan](#plan), [Running the checks](#running-the-checks)

## Inventory

| Component | State | Operations | Hard behaviours | Correct when |
|---|---|---|---|---|
| **Sync Base storage** (`sync_base_store.py`) | one directory per repository: marker, lock, groups of record files | open (establish, validate), replace, delete, read transaction | several processes, kills and power losses between any two directory changes, failed fsync | grouped reads are coherent; what was reported saved survives; old or damaged records are neither adopted nor overwritten; no crash locks the store for good |
| **Execution** (`sync_session._finish`, `sync_publication`, `sync_repository_apply`, `sync_commit`) | frozen steps, their results, snapshot, acknowledged Bases | Additional Sources, Repository Apply, Live Publication, reclamation, Commit Work | failure, interruption or death at any step; nested paths; hooks; partial results over two stages | a Base follows its effects; live waits for sources; hooks bracket; originals are snapshotted; reports are true; only whole runs are committed |
| **Proposal workset** (`sync_session`, `sync_editor`, `pull_session`, `push_session`) | rows with approval, intent and Proposal, revision, candidates, caches of Captures and Renders, edited outcomes | a dozen commands with a session id and a revision | invalidation by shared Additional Sources, failed and cancelled edits, batch changes, cancellation from another thread | what is executed is what was materialized from the authorized inputs and seen at that revision |
| **Operation lock** (`operation_lock.py`) | flock on one file | acquire (fails at once), close | process death, failed opening | one real operation at a time, always released |
| **Observation, reconciliation** (`sync_observation`, `sync_directory`, `sync_reconciliation`, `text_merge`) | frozen endpoints, census of a directory target, Base evidence | walk, observe, direct agreement, merge, Capture, Render, reclaim | links that dangle or loop, unreadable directories, edits between observation and execution | a child is observed only if the way to it is known; a merge loses no one-sided edit; a Base is reclaimed only of what is gone |
| **Base lifecycle** (`sync_base_lifecycle.py`) | none of its own | inspect, direct agreement, complete | a save that fails before or after its commit | a Base is what both sides held |
| **Snapshots, restore** (`snapshot.py`, `operation_runner.py`) | snapshot directories with a status | create, mark, prune, restore | crash while creating, retention, order of nested restores | a restore brings back the originals of a run |
| **Atomic files** (`atomic_files.py`, `file_access.py`) | temporaries named by pid | write, symlink, delete and prune, clean up | crash with a temporary, reused pids, privileged paths | a reader sees the old or the new file; no live temporary is removed |
| **Command runtime** (`command_runtime.py`) | cancellation latch, process groups | run, run_ordered, cancel | concurrent tasks, cancellation racing completion | nothing starts after a cancellation; the first error in order is reported |
| **Elevation broker** (`elevation.py`) | socket, worker thread, one authentication | start, serve, close | late clients, close during authentication | every client is answered |
| **Command Deck** (`sync_deck.py`, `sync_deck_command.py`) | screen, filter, focus, the table's copy of the rows, one worker lane | keys and clicks to session commands; the unattended run | rows come and go while a key waits for the lane; Ctrl+C during a dispatch | a command acts on the row it was given at; what the confirmation showed is what runs |
| **Planning, Guards** (`planning.py`, `planning_guards.py`, `sync_auxiliary.py`) | none kept | which targets, directions and hooks survive | concurrent Guard commands | Guards only narrow |
| **Scope, collisions, tracking** (`package_resolution.py`, `planning.py`, `collisions.py`, `tracking.py`, `track_resolution.py`, `untrack_resolution.py`, `sync_scope.py`) | the persisted package entries | resolve, track, untrack, list, scope | manifests that change between commands, conflicts among closures, questions whose answers change the graph | one owner per live path; nothing is taken over that was not shown; a scope holds what its packages need |
| **Transforms** (`transforms/`) | none | select, strip, merge documents of five formats | nesting, overlapping selectors, exclusions, comments, ambiguous words, siblings without an identity | what stays live survives a push; a synced edit survives push and pull |
| **Command line, configuration, output** | none | parsing, printing | none | – |

How they interact: a command opens a session, which takes the operation lock,
observes the endpoints, reads Bases (store read transactions) and freezes
everything it will need; the Deck or the command line dispatches commands to the
workset; `Execute` runs the frozen steps, which call atomic file writes, hooks
(command runtime, broker), snapshot creation and, at completion steps, the Base
lifecycle and the store; then the lock is released. Inspection commands, previews
and `doctor` read the store beside a running session, without the operation lock.

Hazards, each at its line, are in `PROJECT.json`.

## Modules and runs

Every component has a module of its own, parameterised by CONSTANTS. The MC
modules give them values. Components that share no state in the code are checked
side by side in one run: the module's `part` says in the initial state which of
them moves, and the others rest. This composes nothing and claims nothing about
interaction; it only keeps the number of runs small. The components that do
interact are composed in the modules themselves: `SyncLifecycle` has lock, runs,
files, Base and user; `SyncSession` has worker, Editor and Deck; `CommandDeck` has
event loop, lane and session; `Snapshots` has push, restore and user; `SyncScope`
extends `Tracking`, which extends `PackageGraph`; `StructuredFiles` instantiates the
three transforms; `SyncBaseStore` implements `SyncBaseMap`.

| Run | Module | Question |
|---|---|---|
| `store_crash` | `MCSyncBaseStore` | does the store keep its promises through kills, power losses and failed calls? |
| `store_refines` | `MCSyncBaseStore` | does it implement the abstract map, and does every call end? |
| `execution_stages` | `MCSyncExecution` | what do effects, hooks, snapshot, Bases and commits leave after any fault? |
| `session_shared` | `MCSharedSession` | are rows over a shared source ready, their caches coherent, edits transactions? |
| `session_deck` | `MCSessionDeck` | is what is shown fresh, do approvals stand, and does the Deck execute what it showed? |
| `machinery` | `MCMachinery` | does everything below an operation end, in order, and leave nothing behind? and what do Capture and Render do to partial files? |
| `workspace` | `MCWorkspace` | tracking, scope, census, Guards, the life of a Base, and history |
| `session_editor_cancel`, `transform_denylist`, `dependency_order`, `absent_below_link`, `snapshot_modes` | | violations, see [Findings](#findings-and-observations) |

No cfg replaces a definition of a module, and deadlock is checked unless the
modelled system really stops.

## SyncBaseStore

One repository's store, `repos/<state_key>/` with `layout`, `lock` and
`bases/<group>/<record>`, used by `Writers` and `Readers` at once. All the store's
own protection is modelled; the operation lock that callers also hold is left
out, so nothing shown here depends on it.

| Model | Code |
|---|---|
| `fs.names`, `fs.groups`, `fs.temps`, `fs.record` | entries of the root, group directories, orphaned temporaries, record files |
| `disk` | the trees a power loss can bring back |
| `pc[p]` | where a process is in `open`, `_establish`, `replace`, `delete` or a read transaction; `Exclusive` and `Shared` are the points inside `_locked` |
| `Open`, `StartEstablish`, `DropGroup`, `WriteMarker`, `FlushMarker`, `StartValidation`, `FinishValidation` | `SyncBaseStore.open`, `_establish`, `_drop_records`, `_create_layout_marker`, `_require_layout` |
| `Replace`/`EnterGroup`/`Rename`/`FlushRename` | `replace`, `_replace_locked` |
| `Delete`/`Unlink`/`FlushUnlink`/`FlushRemoval` | `delete`, `remove_group_if_empty` |
| `BeginRead`/`Read`/`EndRead` | `read_transaction`, `read`, `scan`, `target_records` |
| `CallFails`, `Interrupt`, `Kill`, `PowerLoss` | `OSError`, `KeyboardInterrupt`, process death, machine crash |

Abstractions. A record is `Absent`, `Corrupt`, `Unversioned` (left by a store
without a marker) or a payload. `DropGroup` empties and removes a group in one
step: without the marker nothing reads the records between. `EnterGroup` joins the
creation of `bases` and of the group. Ownership, modes, symlinks and hard links,
which `_PrivateLayout` rejects, are outside changes and not modelled.

The file system is *ordered*: directory changes reach the disk in the order they
were made, and an fsync of a directory writes all changes made before it.
`docs/sync-base-storage.md` leaves rename durability to the host file system; this
is what the journalling ones provide. It is a real assumption: `_pin` does not
repeat the fsync of a `mkdir` that an interruption cut off, which only the order
makes harmless (see the hazards).

Runs (`MCSyncBaseStore`; the store may be absent, half-created, of the older
layout, or established with damaged records at the start):

- `store_crash` – a writer and a reader, two units in one group and one more
  target. Two units are what a group needs to become empty and not empty, two
  processes what a lock needs to be contended. `CoherentRead`,
  `UnversionedNeverAdopted`, `ConfirmedSaveSurvives`, `NeverLockedOut`,
  `CorruptNeverReplaced`.
- `store_refines` – two writers and two payloads on one unit: `ImplementsMap` and
  `EveryCallEnds`. Fairness is weak, on the next step of what a process has begun
  (`Progress`), since a running process executes its next instruction; nobody is
  made to begin, to fail or to be killed. It holds because `flock` is used with
  `LOCK_NB` everywhere.

### SyncBaseMap

What callers rely on: a map in which every save or discard takes effect at one
instant between call and return, in which a rejected call has none, a corrupt
record is discarded but never replaced, and whose power loss brings back one of
`recoveries`. `Truthful` says which report is true when: `saved` and `reset` only
when a power loss can bring back nothing older. `ImplementsMap` maps `base` to the
records under the marker (`Visible`), `recoveries` to the same of `disk`, and
`taken` to the points after the rename or unlink.

## SyncExecution

One `Execute`: `_publish` then `_commit`. The selection (`plan`) and the steps of
each stage (`frozen`) are fixed at `Init`, as the code fixes them before the
first effect; the model then takes the steps in their order.

| Model | Code |
|---|---|
| `plan`, `Proposal`, `EffectList` | the approved and included rows of the view; `materialize`'s effects in their order |
| `StepsOf`, `Key`, `Before` | `ordered_stage_steps`: repositories, packages, targets, units in plan order; pre-hook, content, post-hook |
| `Blocked`, `NextSteps` | `_topology_order`: the smallest unit that is not held back by a nested deletion |
| `Hooks` | `_hook_scopes`: scopes around units with effects and Probes, and noop hooks of included rows |
| `Succeed`, `Fail`, `CutShort`, `Kill` | one turn of the loops in `execute_publication`, `execute_repository_apply`, `_apply_additional`, `_reclaim_obsolete_bases`, `_commit` |
| `TakeSnapshot`, `FinalizeSnapshot` | the snapshot boundary of `execute_publication` |
| `Acknowledge` | `_acknowledge`: a checkpoint that cannot be saved is a warning |
| `Attempted`, `NextStage` | `blocked`, `run_completed` and the order of the stages |
| `StageResult`, `MergeStages`, `UnitStatus` | `_execution_outcome`, the merge in `_publish`, `_result` |

Abstractions. A hook scope stands for all hooks of a stage at that scope.
`performed` is the file system: the steps whose effect happened. A failed or
interrupted step may have had its effect. `interrupted` and `execution-failed`
are one status. Reclamation is per target. `observed` stands for the unit states
that make a run `incomplete` or `failed` before any step. A `Kill` is a process
death, and also an interruption between steps that unwinds `_result`; the lock
goes in either case (`finally` in `_finish`).

`execution_stages` (`MCSyncExecution`) explores every order of faults in 236
plans over two repositories: nested children `a` and `a/b` updated, deleted,
written or unselected; a directory root that is chmodded; a file with source and
live effects, `reapply` or chmod alone; a second repository with its own file;
Additional Sources in both; Probes, hook rows, held and obsolete Bases, commits,
with and without snapshots. Nested pairs need two units, the stage order one
target per situation, and independence of commits two repositories. Deadlock
is not checked: an execution ends. Fairness is weak, on `Work` as a whole: the
executor is one thread that takes its next step. `EveryRunEnds` then says that
the step order always has a next step, which a cycle of nested deletions and
writes would break. The plans leave out writes of both paths of a nested pair,
which cannot both be files.

## SyncSession

The workset of one session, shared by `sync`, `pull` and `push`: the rows of drifted
units, the Additional Sources that their providers read and their Editors may
change, and what is remembered to avoid running a provider twice. A worker takes
one command at a time and runs it as a sequence of steps, one provider or one
row each; between any two the user interface can cancel the Editor or the session.

| Model | Code |
|---|---|
| `row[r]` | a `SessionRow`: `included`, `approved`, `intent`, `symlink_authorized`, `proposal`, the kind of its diagnostic |
| `candidate`, `authorized` | `_additional_candidates`, `_additional_approvals`; the preimages are frozen |
| `edited` | `_edited_outcomes` |
| `captures`, `renders` | `_captures`, `_renders`, each entry by the inputs it was made from |
| `cancelled`, `dropped`, `attended` | the latches of `_command_operation` and `_editor_operation`; the Deck's `_editing` |
| `work`, `before` | the program counter of `_dispatch`; the session when it began (`_edit_proposal` keeps it as `prior_*`) |
| `InputsOf` | `_input_bytes` |
| `Attempts` | `_materialize_row`: all ends of `materialize`, `_capture`, `_merge`, `_render`, `_qualify_checkpoint`, `_settle_noop`, with the caches each leaves |
| `SetApproval`, `SetIntent`, `PrepareReview`, `Retry`, `AuthorizeReplacement`, then `SettleRow` or `MaterializeRow` | the row commands of `_dispatch` |
| `SetSourceApproval`, `BatchSetApproval`, then `MaterializeNext`, `RowsDone` | those on Additional Sources and batches, and `_invalidate_inputs` row by row |
| `EditProposal`, `OpenEditor`, `MaterializeFirst`, `QuitEdit`, `SaveEdit`, `ProjectEdit`, `CancelEdit`, `FailEdit` | `_edit_proposal` |
| `RequestCancel`, `RequestEditorCancel`, `DeckDrains` | `request_cancel`, `action_abort`, the end of `_materialize` in the Deck |

Contents are told apart by provenance. An outcome is "the Capture taken with these
inputs", "the merge with it", a text the user saved; a Proposal records of which
inputs it was rendered. That is what freshness is about, and no property needs the
bytes. `Idempotent` says which outcomes turn out to change nothing.

Abstractions. `SaveEdit` clears the caches of all affected rows at once, the code
each one just before its row is materialized again; no step in between reads them,
because `Attempts(r)` reads those of `r` only. A Linked row's `Capture` outcome is
taken to leave the link alone, every other to write through it. What fails is a
Capture, a merge, a Render, the Editor or its workspace; a provider may also exit
as interrupted by itself, which the code treats as a cancellation. Rows between the
steps of a dispatch are the worker's: clients get the view when it ends, which is
why `FreshProposals` and `ApprovedIsReady` speak of `idle` and `closed`. Left out:
structural conflicts between nested rows and commit options (both in CommandDeck),
auxiliary rows, generation numbers, Preview and source reviews (they change nothing), and rejected
commands (they have no effect).

Runs. Rows `a` and `b` share the source `s`, which has its preimage and one more
content. Two rows are what it takes for a change made through
one to reach another, one shared source for both to be stale at once; a source of
one's own is a special case of a shared one whose other row is never approved. The
bounds `Editable`, `Failing`, `Excludable` and `Cancels` say which row is edited,
whose providers fail, which is excluded and what is cancelled. Deadlock is not
checked: a session ends.

- `session_shared` – `both` without ancestry beside a pull-only row with a patch
  Capture; edits of the source, failing providers and cancellations of the Editor; beside it a
  push, opened approved, with an exclusion, a symlink to replace and a cancelled session: `CoherentCaches`,
  `ApprovedIsReady`, `OtherRowsKeepTheirWork`, `EditIsTransaction`.
- `session_deck`, first part – a row that merges behind a link and a push-only row
  whose text and source are edited: `FreshProposals`, `ApprovalStands`.
- `machinery`, its session – a pull, opened approved, with failing providers, an Editor
  and a cancellation of the session: `EveryDispatchEnds` (within
  `EveryCallComesBack`), with weak fairness of `Work` as a whole: the lane is
  one thread that takes its next step as soon as a provider returns. A user who never
  leaves the Editor keeps a dispatch open, so `editing` counts as an end; nobody is
  made to give commands.

## CommandDeck

The Deck over a workset (`sync_deck.py`), or the unattended run in its place. One
event loop takes keys and clicks, one worker dispatches at most one command, Ctrl+C
may come at any time. The Deck keeps an index into the rows that a filter leaves;
the table keeps a copy of those rows and a cursor of its own; a dispatch adds and
removes rows meanwhile. All hazards of the Deck come from these three views.

| Model | Code |
|---|---|
| `work` | the session, coarse: of a unit whether it is approved, has a Proposal, and what is wrong with it |
| `focus`, `widget`, `filter`, `box`, `menu` | `_index`, the `OptionList` with its cursor and the review's row, `_filter`, the `/` box, the Resolution menu |
| `lane` | `_run_worker_lane`: queued, running, done, with the row that was asked for |
| `Navigate`, `Click`, `Select`, `SelectAll`, `Review`, `Retry`, `Edit`, `Resolution`, `Choose`, `FullView`, `Back` | the actions of the same names, with their busy and screen checks |
| `ToggleCommit`, `Confirm`, `Execute` | the confirmation, its commit options, its checks of readiness and topology |
| `OpenBox`, `Type`, `Submit` | the filter box |
| `Work`, `Drained`, `Finish` | the worker's dispatch, a drained abort, the rebuild of the table |
| `Abort` | `action_abort`, Ctrl+C at each place |
| `Unattended` | `sync_deck_command`: materialize, leave first reviews out, execute |
| `Toggled`, `Batched`, `Redecided`, `Edited`, `Conflicts`, `Unready` | what the session does with a command, and its structural conflicts |

`DeckRunsWhatItShows` joins four claims: what is executed is exactly what the
confirmation showed, and that was ready and closed under structural conflicts
(`RunsWhatItShowed`); a command acts on the row its key was given at
(`ActsOnShown`) and ends there (`StaysPut`); Ctrl+C outside the Editor is final
(`AbortIsFinal`).

Bounds: a unit `w` whose write needs the deletion of `b`, a source that both read,
one query that hides `w`. That is the smallest workset in which a row appears, is
hidden and blocks another. Handlers of the event loop are single steps. Two
simplifications: typed filter text reaches the filter at once, in the program by a
message that no busy check holds back; and the menu takes its selection at once,
while a stale `OptionSelected` of the program may reach a menu that was opened
again (`sync_deck.py:1788`).

## Machinery

`MCMachinery` checks what runs below every operation.

**CommandRuntime** (`command_runtime.py`) – `run_ordered` with its pool of
threads, and `run` with its process groups.

| Model | Code |
|---|---|
| `task`, `proc` | where a task is; the live processes of its command, a shell and a descendant that holds its pipes |
| `cancelled` | the latch of the `CommandOperation` |
| `caller`, `next`, `raised` | the generator: consuming, accepting an interrupt, deferring further ones, shutting the pool down |
| `Take`, `Check`, `Spawn`, `Poll`, `Drain`, `Stop`, `Kill` | a thread's turn through `run` |
| `Consume`, `Complete`, `Close`, `Accept`, `Defer`, `End`, `Interrupt` | the generator and `_defer_repeated_interrupts` |

`NothingRunsAfterwards`, `FirstFailureIsRaised`, `QueueIsDropped` and
`CancelledNeverStart` (once the latch is set, no task gets past its check of it) make up
`FailureEndsThePool`; a cancelled call ends. Three
tasks over two threads let one wait, one run and one fail; one of them never
exits, two ignore SIGINT, one has no process group of its own.

**ElevationBroker** (`elevation.py`) – the socket server through which a command's
children ask for sudo: `client`, `handler`, `queue`, `serving`, and `closer`, the
place of `close()`: `Wake`, `Join`, `Snapshot`, `Shutdown`, `Closed`. No prompt is open
after `close`, none starts once it has looked for one, one at a time, and no
client waits for an answer nobody will give. Two clients, a backlog of two.

**PrivilegedAccess** (`file_access.py`, `privileged_ops.py`) – direct attempts, the
request lock, sudo's ticket, and the keepalive of a `sudo_session`. A session asks
once; its lease neither expires within it nor outlives it. One call of each kind;
two nested sessions.

**AtomicFiles** (`atomic_files.py`) – writers that sweep what killed creators left,
create a temporary named by their pid, fill it, set its mode and rename it. Three
writers, of which one has the pid of another that is over. Readers see whole
files under the mode that was asked for; a sweep removes no temporary its creator needs.

Fairness of `machinery`: threads of the pool go on, the consumer asks for the next
result, the broker's threads go on once `close` was called, the session's worker goes
on; users, clients and interrupts are not forced. In any behavior one part moves,
so `WF(Worker)` and `WF(Thread(i))` each stand for one actor of every part. A command
that never exits is not forced to: it is the stop with its grace period and kill
that ends it.

## SyncLifecycle

The life of one unit's Base over any number of push, pull and sync runs, with the
operation lock, outside edits and kills in between. This module relates what a
merge does now to what a save recorded several sessions ago.

| Model | Code |
|---|---|
| `source`, `live`, `base` | the two files, one value per hunk, and the record of the store |
| `lock` | `operation_lock.py`: `flock` with `LOCK_NB`; released at the end and by a kill |
| `Begin`, `Discard` | opening; `_discard_ineligible_bases`, which may fail and keep the record |
| `Guard`, `Route` | the admitted directions and the policy they make |
| `FreezeSource`, `FreezeLive` | the two reads of `sync_observation`, with an edit possible between them |
| `DirectAgreement`, `Record`, `Drifts` | `direct_agreement` and the comparison of projections |
| `Merges`, `Merge`, `Intents`, `Results`, `Approve` | `sync_reconciliation.reconcile` and the intents of a row |
| `ApplySource`, `Publish`, `Complete`, `Payload` | the effects, and the checkpoint with the Base it writes |
| `Stop`, `EditSource`, `EditLive`, `EditPolicy`, `Reset` | failures and kills, the user, `base reset` |

`Render` and `Capture` are modelled by what relates the two files: raw, a patch
Capture, an overlay that leaves some hunks to the live file, and a lossy projection.
`met` remembers what the files held when the Base was last recorded, as long as
that still counts, so that `MergeKeepsEdits` can say what *changed since*. `quiet`
says that nobody has edited a file since a run froze it; the code makes no second
check of its preimages, and the properties about agreement are for quiet runs.
Bounds: two operations, two hunks (one that projections are about, one that they are
not), two values, three texts a user may write, two edits, of which one has to fall
before and one after a save. Each projection starts under one policy (`InitialPolicy`);
the others are reached by an edit of the manifest. File modes, links to files and `reapply` are left out.
The runs of the instance use prompt mode (`Follows = {FALSE}`).

## SyncDirectory

The census of a directory target (`sync_directory.py`), what it lets an observation
of a child conclude (`sync_observation.py`), and the Bases a Sync reclaims of
children that are gone. A tree is what a lookup finds at each path: nothing below
what is no directory.

| Model | Code |
|---|---|
| `setting` | symlink modes, static ignore patterns, git controls |
| `Enters`, `Scanned`, `Visited`, `Marked` | the walk: which directories it enters, on which side |
| `Static`, `Excluded`, `GitMatches`, `GitIgnored`, `Ignored` | the two kinds of ignore rules and their precedence |
| `Fails`, `Payload`, `Closed`, `Found` | what the walk records of a node: failure, candidate, boundary |
| `EntriesOf`, `Known`, `Blockers`, `Named` | `DirectoryCensus`: its entries, `is_known`, structural blockers, `identities` |
| `ReadRepository`, `ReadLive` | `_read_endpoint` |
| `Open`, `Exclude`, `Reclaim` | opening with Guards, an excluded child, `_reclaim_obsolete_bases` |

Bounds: a root, a folder, in it a file, a skip marker and a `.gitignore`. Nesting of
two is what distinguishes an ancestor from a parent; every node ranges over all the
kinds that matter there, in five configurations, the last of which leaves the folder out.
The initial state chooses the trees
and they stay as they are: the properties are about what one census concludes. In
the program a child may come back between the opening and the reclamation, whose
Base is then reclaimed on the evidence of the opening.

`NothingIsBuriedUnseen` says of every observed child that whatever stands in its way is
one of its blockers, with one exception: a directory that a pattern leaves out, in the place
of the child itself. To `docs/sync.md:149` that is a blocker; in the code it is none, see
the observations.

`DirectoryAssumption` says that `Above` is the order of a tree: what is above a path is
above everything below it, and two paths above the same one are above one another. The proofs
need this to find the topmost path at which a walk stops.

## Snapshots

Generations, retention and `dotman restore` (`snapshot.py`, `operation_runner.py`). A
push holds the operation lock; a restore and the user do not, so they interleave
with it at every step.

| Model | Code |
|---|---|
| `gens[g]` | a snapshot directory: listed (has a manifest), whole (contents there), status, entries |
| `Begin`, `Capture`, `WriteManifest`, `CaptureFails` | `create_push_snapshot`, `_write_snapshot_manifest` |
| `Publish`, `EffectFails`, `MarkStatus`, `PruneSnapshots` | the effects, the final status, retention by `rmtree` |
| `Behind`, `Through`, `InOrder`, `Verdict`, `Readable` | what `exists()`, `stat()`, `read_bytes()` and `is_dir()` find, which go through a link (`snapshot.py:354-416`), where `is_symlink()` and `readlink()` do not |
| `RestoreActions` | `build_restore_actions`: a set of deletions, directories to make, contents to write, modes to set |
| `Phase`, `Precedes` | `_order_restore_actions`: deletions deepest first, directories made shallowest first, contents by name, modes of directories last |
| `StartRestore`, `RestoreStep`, `After`, `RestoreDone`, `RecordRestore` | `execute_restore_action` one by one, and `record_snapshot_restore` |
| `KillPush`, `KillRestore`, `Edit` | death at any step, the user |

Bounds: `d`, `d/n`, `d/n/x` (a directory that the push creates, a folder, a file) and
one kept generation, in two instances. `Edited` has one push and two edits by the
user, one of which may leave a link, dangling or to a file whose bytes and mode may be the
recorded ones (`Linking`); `Repeated` has two pushes without edits, which
make one generation expire while a restore may read it.

What a link leads to lies outside of the recorded paths and never changes. A link to a
directory may only stand where no path is below it (`SnapshotsAssumption`); the proofs cover
it, the instance does not have it. Where the restore would read bytes through one it fails
while it plans, before it has changed anything (`Readable`). Links in follow mode, of which
the resolved path is recorded instead, are not modelled; nor is a directory in the place of
an empty file of the same mode, whose bytes the code reads as empty (`snapshot.py:389`).

`HistoryRestores` joins three claims: `RestoredAsRecorded` (a restore that ends alone has
brought back what was recorded), `SparesTheRest` (it has changed nothing else) and
`NewestStay` (what has been recorded stays listed until it expires). `RestoredBut` names the
paths that may differ, directories above a path that was absent; `ReadsAlike` is the second
exception, a link of the user's behind which the restore finds what was recorded, and which
therefore stays. `snapshot_modes` (`MCSnapshots`: a
directory with two files) asks for what the document says, without the mode as an exception.

## PlanningGuards

Which directions, targets, children and hook scopes the Guards leave
(`planning_guards.py`). `Look`, `Ask`, `Admit`, `Skip`, `Fail` are the steps of
`_run_planning_guard` over repositories, packages and targets in both directions;
`Queue` is what an evaluation goes through, `Asks` says which of it is asked, `Retained` and
`Evaluated` are the pruning between two evaluations, `Matches` is the path rules of a
directory target. A scope is the sequence of its names, so that being at or below a scope is
`IsPrefix`. The instance has every set of Guards over two packages, one of
them selected twice, and a directory target with two rules of which one child matches
both.

`GuardsDecide` is the claim of `docs/architecture.md` that Guards narrow what the policies
offer and nothing else does, in three parts: `AskedOnce`, `AdmittedByAll` (targets and
children) and `HooksByAncestors`. `Asks` and `Potential` are what makes it hard: a Guard without
work below it is not asked, and what counts as work changes with every answer.

## Packages

`PackageGraph` is what tracked rows select: the packages behind a selector
(`Visit`, post-order, cycles passed over), the profile each gets
(`ResolveProfileClaims`), and the owner of a path (`TargetWinners`,
`NestingAllowed`, `ReservedRespected`). `Tracking` is `track` (`StartTrack`,
`ConfirmReplacements`, `Validate`, `ConfirmOverrides`, `Record`: the loop of
`TrackResolver.resolve` with its questions, promotions and profile changes) and
`untrack` (`UntrackEntry`, `UntrackGroup`), over `files`, the persisted rows per state
key, while `EditConfiguration` replaces the manifests between commands and between
questions. `SyncScope` is `resolve_sync_scope` with its closure, and the lists.

`ReadsAgree` is said before each step, which misses no idle state, as the configuration
can always change in one. `LeavesOneOwner` compares what a command left with a definition of ownership that is
stated without the code's graph: reachability as the least closed set, uses, and
claims per path. It is the reference the resolver is checked against.

Bounds (`MCResolution`): five packages and a group, two profiles, one of the packages
with an instance per profile; four configurations of which one drops packages, one
adds a nested path, and one changes the state key. They contain a path two
dependencies claim, a repository path two packages share, and rows that no longer
resolve. Variables, templates and inheritance of packages are left out.

## Structured files

`KeyTransform` is the selection and merge that json, yaml and plist share
(`transforms/framework.py`); `TomlTransform` has items with comments, headers and
inline tables; `XmlTransform` has elements paired by identity. `StructuredFiles`
reads, compares and writes with them as the five `transforms/*.py` do, and takes
steps: `Push` renders the repository's copy into the live file, `Pull` captures.
Scalars are typed values, so that `1` and `1.0` differ where the code compares types,
and a yaml word may read differently in the two versions of yaml (`Ambiguous`); a
json infinity and a plist UID are values that cannot be written. `neat` says that a
file has the layout the transform writes: output equal to its comparison keeps the
old bytes.

`PullIsQuiet`: rendering what Capture took gives the live file back. `EditSticks`:
an edit of the synced region of the repository survives a push and the pull
after it. `PushSparesTheRest`: a push changes nothing of the part that stays live.
The first two are said of the files before every step that changes one: files that
neither a pull nor a push changes come back by that very fact. The conditions are what the code cannot promise: siblings of xml that cannot be
told apart, tables that are inline in one file only, and mappings left empty.
`PushSparesTheRest` is for allowlists and for denylists without `not:`; with `not:`
it fails, see the findings.

`machinery` has these files beside the rest of what an operation runs
(`part = "transforms"`); `transform_denylist` has them alone (`MCStructuredFiles`).
`MCDocuments` has the documents and the selectors.

Bounds: documents of keys `a` and `b` two levels deep, two scalars, and the special
values of each format; selectors exact, by regular expression, and with exclusions
of both. Two levels are what a selected path above an excluded one takes.

## Findings and observations

Five runs show that the code does less than its documentation says (`findings` in
`PROJECT.json` quotes both).

- `absent_below_link` – a child whose way on the live side leads through a dangling
  link is observed as Missing: the census takes the link for a candidate, the
  endpoint takes `FileNotFoundError` for absence (`sync_observation.py:101-104`). With an
  unmounted drive behind the link, a pull proposes to delete its sources, which
  `docs/cli.md:501` excludes.
- `transform_denylist` – a denylist whose `not:` names a key that only the repository
  has lets a push replace the whole mapping around it, with its live-only keys.
- `dependency_order` – an explicitly tracked dependency under another profile comes
  after the package that needs it.
- `snapshot_modes` – a restore reads a recorded directory that has its mode, and skips it as
  a noop (`operation_runner.py:55`). Its own deletion of a path that the push had created
  then empties and prunes the directory, and the next recorded file makes it again with the
  default mode: 0700 comes back as 0755, though `docs/snapshot.md:76` promises bytes and mode.
- `session_editor_cancel` – an Editor cancellation that interrupts another row's
  provider, in an edit that ends as a conflict, leaves that row interrupted, and the
  Deck then exits.

What modelling showed without a document to contradict, or with an exception that the
property states:

- *Restore*. A directory that was in order when the restore read it is pruned when the
  deletion of a path below empties it, and is not made again if nothing recorded stands
  in it; `docs/snapshot.md:80` allows that, and `RestoredBut` has the exception. Whether a path
  is in order is asked with `exists()`, which follows links (`snapshot.py:354`): a dangling
  link that the user has put at a path recorded as absent counts as nothing there, and stays
  (`snapshot.py:416`), although `docs/snapshot.md:78` says that restore should remove the path. A link to a
  file with the recorded bytes and mode stays in the place of that file (`snapshot.py:399`).
  `RestoredAsRecorded` has both as its exception (`ReadsAlike`); without it the run
  `workspace` finds the dangling link. A link to a directory in either place makes the
  restore fail before it starts, for `read_bytes()` raises. The order of the
  actions turned out not to matter to the proofs about a restore (see
  [Results](#results)). The record a restore writes overwrites a status that a push
  has set meanwhile, and lists a generation again that was pruned; a killed capture
  leaves a directory that is never listed nor pruned.
- *Census*. A child whose place is taken, on the other side, by a directory that an ignore
  pattern leaves out has no blocker for it: the walk notes the directory as a leaf and goes
  no further (`sync_directory.py:64`), and `blockers` looks for leaves above and below the child,
  not at it (`sync_directory.py:31`). `docs/sync.md:149` has an ignored blocker produce a
  conflict. A live write then removes the directory if there are only directories in it, and
  fails otherwise (`file_access.py:313`).
- *Bases*. Between the effects and the record of a Base a kill leaves an older
  ancestor; edits during the review are overwritten, as preimages are not compared
  again; a lossy pull keeps the older Base, so a later merge may undo a source edit.
- *Tracking*. No lock covers the tracked packages file: two concurrent commands lose rows.
  One row that does not resolve switches the check of ownership off; rows
  that do not expand are dropped by the next command; after a change of the state key an
  exact untrack of a row with a duplicate in the old file stays ambiguous; a package
  that loses its instances keeps two rows. Sync refuses nested paths that track accepts.
- *Deck*. A click on a commit option goes through the table's queue and a following
  Enter can overtake it, although `sync_deck.py:1197` says neither modality may. Keys
  batched behind an exit for an interrupted row can replace its result.
- *Session*. An Editor cancellation between the end of the attempt and the Deck's notice of
  it is kept for the next attempt. A saved edit with a conflict block quoted from the
  Capture is content while the Capture is cached and a conflict afterwards.
- *Machinery*. The wake-up of `close()` waits for room in a full backlog
  (`elevation.py:110`). A lease is not kept alive outside a `sudo_session`
  (`file_access.py:151`). A sweep takes pids of another namespace for dead
  (`atomic_files.py:118`; `Foreign` is empty in the runs and the proofs). A Ctrl+C
  between the two calls of `_defer_repeated_interrupts` abandons the cleanup, which is
  why the instance interrupts at every point but that one.
- *Transforms*. Repeated xml siblings without identity may be paired with the wrong
  one; yaml `not:` with keys of equal text drops the scalar among them; Capture drops
  empty mappings and the header comments of partly retained toml tables.
- *Durability*. Source and live files are replaced without an fsync while a Base is
  flushed (`atomic_files.py:29`). Kills are modelled for them, power losses only for
  the store.

## Results

Proved, for every value of the constants: any number of processes, units, scopes,
plans, operations, texts, clients, calls, tasks, rows, paths, generations, packages and Guards (`PROJECT.json` lists the
theorems). The assumptions are the named ones of the modules, and TLC evaluates each on
the instance of a run. They say of what type the parameters are and what the code takes
for granted: the contents of records are distinct values and every unit has a target
(`ContentAssumption`); scopes form the tree repository – package – target – unit, whose
levels are different things and whose siblings have an order (`TreeAssumption`); a
preimage is no candidate (`WorksetAssumption`), `Nothing` and `None` are values of their
own (`NothingAssumption`, `LifecycleAssumption`, `DeckAssumption`); paths have an order of
ancestors (`SnapshotsAssumption`), which is that of a tree where a walk goes down it
(`DirectoryAssumption`); a target belongs to a planned package and a rule matches children of its
directory (`GuardsAssumption`).

- *SyncBaseStoreProofs*. `IInv == TypeOK /\ DiskInv /\ ProcInv`. None of the
  safety properties is inductive alone. `DiskInv` says that every tree of
  `disk` is one the store can live with (a record stands in the directory of its
  target, none that predates the marker stands under it, a marker without a lock
  stands alone), that a confirmed payload is in each and a damaged record damaged in
  each. `ProcInv` says what a process at a point relies on: exclusive points
  exclude every other lock holder, a reader's `seen` is of `fs`, a process at `drop`
  has no marker beside it, one at `rename` its group directory and no damaged record,
  one at `renamed` its own payload. With mutual exclusion a step of one process cannot disturb what
  another knows, and that is most of the proof. From it: `TypeCorrect`,
  `ReadsAreCoherent`, `MarkerIsLast`, `LockIsRestorable`, `SavesSurvive` and
  `CorruptIsKept`. With `CallInv`, which says what call a process at
  a point has, the same invariant carries the refinement `StoreImplementsMap`: each
  action is one of the abstract map of units to payloads or a stutter. A save
  takes effect in the map at the rename of its record, a discard at the unlink; a kill is
  a kill and a power loss brings back a map that it may bring back; every other step
  leaves what readers see alone.
- *SyncExecutionProofs*. `IInv` adds to the properties themselves the shape of the
  steps (`ShapeInv`), that without a failure every step of a finished stage
  succeeded (`ConductInv`: what is not in `todo` and not stopped is in
  `succeeded`), and what the snapshot holds from its creation on
  (`SnapshotInv`). `ConductInv` is what lets a stage conclude from being entered
  that all before it went well. From it: `BasesFollowEffects`,
  `LiveWaitsForSources`, `RoomForEveryWrite`, `OriginalsAreKept`,
  `CommitsWaitForTheRun` and `FirstFailureIsLast`. On top of it `RunInv` follows the
  order of the steps: the frozen steps are those of the plan (`FrozenInv`), the steps of
  a unit are taken in one piece (`UnitsInOnePiece`), and `OutcomeInv` says of what ended
  well, of what failed and of what was cut short that they are different steps of stages
  already reached. This is what the order of deletions does not break: a deletion goes
  before the write it makes room for, yet never between two steps of a unit, nor
  past a hook around both. From it: `HooksAreBrackets`, `ReportsAreTrue` and `TypeCorrect`.
- *SyncSessionProofs*. `IInv == TypeOK /\ CoherentInv /\ FreshInv /\ WorkInv`.
  Freshness between commands is not inductive: it needs freshness of every row at
  every step (`FreshInv`), except of the edited row while it awaits its projection;
  coherent caches (`CoherentInv`), since an attempt reuses them; and `WorkInv`: what
  the worker kept to undo an edit was itself coherent and fresh (`Sound(before)`)
  under approvals that have not changed since, and a Proposal it may reuse was
  rendered from the present inputs. `AttemptsEndWell` says once that every end of
  a materialization leaves coherent caches and a Proposal of the authorized inputs or none,
  `InputsStep` that a change of the inputs is safe when it clears the stale rows.
  From it: `TypeCorrect`, `CachesAreCoherent` and `ProposalsAreFresh`. `ReadyInv` adds
  that an approved row either is ready or is still owed a materialization by the
  dispatch under way (`Waiting`), and that the rows kept for an undo were ready;
  it gives `ApprovedRowsAreReady`. `StartInv` adds that an edit has changed nothing
  before it is saved; it gives the action property `EditsAreTransactions`. The assumptions
  are `WorksetAssumption` (the parameters are of their types, the preimage is not a
  candidate) and `NothingAssumption` (`Nothing` is a value of its own).
  Two action properties rest on the same invariant. `StandInv` says that while the worker has not come to a row, its Approval is that of
  the command's beginning, and that only approved rows are to be materialized again: it
  gives `ApprovalsStand` (no Approval moves by itself). `KeepInv` says that rows to be
  materialized have other inputs than when the command began: it gives
  `OtherRowsKeep` (an edit or a decision about a source costs only the rows that see
  other bytes their Proposals).
- *SyncLifecycleProofs*. `LockInv` says that the operation at work is the holder of the
  Operation lock; hence of several operations only one has anything frozen that matters,
  and only the user moves files under it. Of that one `RunOf` says what it relies on at
  each point: an undisturbed operation finds source and live as it froze them
  (`QuietOf`), and a result approved is the route's from what was frozen (`ApprovedOf`).
  `MetInv`: while the Base counts, it is the source as the files were when they last met. From it:
  `ConvergedFilesAgree`, `DeletionsAreOfTheMissing`, `MergesKeepEdits`,
  `IneligibleHaveNoBase` and `TypeCorrect`.
- *MachineryProofs*. Of the broker: one handler at a time is past the request lock, and
  what `close()` has looked at and joined is all there is (`ClosingInv`):
  `PromptsAreAlone`, `NothingOutlivesTheBroker`, `NoPromptOpensLate`. Of sudo access:
  one thread is in the request and a lease is held only inside a session
  with its keepalive (`LeaseInv`): `LeasesAreGood`, `PasswordsAreAskedOnce`. Of the
  command runtime: which processes a task can have at its stage (`ProcessInv`), which results
  have been yielded (`OrderInv`), and that a call that cleans up has no queue
  (`CleaningInv`): `FirstInOrderIsRaised`, `LatchStopsStarts`, `CallsLeaveNothing` and
  `QueuesAreDropped`. The last two exclude, by a hypothesis of their own, the
  interruption in the few instructions between the decision to clean up and the mask that
  defers further Ctrl+C (`"deferring" \notin Interrupted`): there a call ends at
  once and leaves its threads behind. Of the replacement of files, for any number of writers
  and any pids, as long as a writer sees the processes of the others (`Foreign = {}`):
  `FilesTypeCorrect`, `SweepsSpareTheRunning` (no temporary a running process needs is
  removed), `OnlyTheKilledLeave` and `ReplacementIsAtomic`. The invariant says that what a
  sweep is about to remove belongs to a process that is over, and that a temporary is complete
  and of its mode before it is renamed.
- *CommandDeckProofs*. While a deck is open, its three views of the workset agree:
  table and cursor are of the rows that the filter leaves, except between an edit and
  the end of its dispatch (`TableInv`); the review is of the focused row (`ReviewInv`), and so
  is a menu, which keeps everything that could move the focus from starting
  (`MenuInv`); the row of a command under way stays the focused one (`LaneInv`).
  `PageInv` and `EndInv` carry the confirmation to the execution. From it:
  `TheShownIsRun`, `CommandsActOnShown`, `AbortsAreFinal`, `DispatchesStayPut`, and
  `DecksRunWhatTheyShow`, which is all that the run checks of a deck. That rows keep their
  indices when sources come and go (`ProposalsKeepTheirPlaces`) needs
  inductions over sequences. The induction theorems of the library take an operator,
  which the installed provers cannot instantiate; `SetInduction` and
  `SequenceInduction` state them for sets, from the least-element principle `WFMin`.

- *LiveTreeProofs*. What a restore and a census make of a live tree.
  Of Snapshots, `IInv == TypeInv /\ PushInv /\ LoadedInv /\ ActionInv /\ AloneInv /\ NewestStay`.
  `TypeInv` says that the tree is one: what stands somewhere stands in directories, and so
  does what a generation recorded, which is what makes `Prune` and `Put` keep it so.
  `PushInv` and `LoadedInv` say what a push may still do to the generation that a restore has
  loaded: its record may be older than the final status, never newer, so that writing it
  back never makes an ended generation an unfinished one. `ActionInv` says which actions a
  restore has left, and `AloneInv`, the heart of it, that while nobody else writes, a recorded
  path is in order, seen through a link of the user's where `exists()` does, or has an action to come. From it: `TypeCorrect`, `GenerationsStay`,
  `RestoresWhatItRecorded` and `RestoreSparesTheRest`. The model takes the actions in
  `Precedes` order; the proofs do not need it: an action that succeeds leaves every other
  recorded path in order or awaited, whenever it comes. The order keeps actions from failing.
  Of the census, `ObservationInv`: a session holds the census of its trees, and what it would
  reclaim was missed by an unrestricted one (`CensusInv`), and no Base is of a control file
  (`BasesInv`). The argument goes down the tree: if the walk does not see a path, there is a
  topmost one above it that it did not enter (`Topmost`, by cardinality of what is above),
  and that one is a failure, a boundary, an exclusion or a leaf (`WayIsEntered`). From it:
  `CensusTypeCorrect`, `WaysAreKnown`, `BlockersAreSeen` and `ReclaimsAreSafe`.
- *PlanningGuardsProofs*. `IInv` says of each direction how far the levels have come
  (`Past`, `Here`, `Looked`): a Guard runs when its direction comes to its level (`RanInv`);
  what is held or kept is what the policies offer without what has been skipped
  (`HeldInv`, `KeptInv`); and what was looked at and still has work was asked (`AskInv`,
  `RuleInv`). The last is what narrowing could break and does not: work only goes
  away, so that a scope without work when it was looked at has none later. From it:
  `TypeCorrect`, `GuardsRunOnce` and `GuardsAreObeyed`, which is all that the run checks of
  the Guards, a package that is selected several times included.

The theorems of SyncLifecycleProofs and of the modules after it are about the components
themselves; their runs check the same definitions through the wrappers of `MCWorkspace`,
`MCMachinery` and `MCSessionDeck`, each on its instances side by side.

Proving has also changed the models. Where a `CASE` had arms that overlap, TLC takes the
first and the provers any: the guards of such arms are now disjoint (`Evaluated`,
`ReadRepository`). `NothingIsBuriedUnseen` was false as it stood, for configurations that the
instance did not have: an excluded directory in the place of a child. And the exception of
`RestoredAsRecorded` was wider than `docs/snapshot.md` allows, which is how the mode that a
restore loses came to light. It was too narrow for links, as long as `Verdict` compared the
link and not what is behind it; and `CancelledNeverStart` spoke of a start in one step, which
no action is: it is now about every state before the check of the latch.

Model-checked only: liveness (`EveryCallEnds`, `EveryRunEnds`, `EveryDispatchEnds`
and the rest of `EveryCallComesBack`), which is out of the prover's reach; and what
`RECURSIVE` operators compute (PackageGraph with its dependents Tracking and SyncScope,
and the transforms: `ReadsAgree`, `OwnersStayUnique`, `NothingTakenUnasked`, `PullIsQuiet`,
`EditSticks`, `PushSparesTheRest`), for which it has no backend. What the other
properties of the passing runs say is proved of the components.

Not modelled: parsing and validation of configuration, argument parsing, prompts and
printing, and queries: they keep no state and take no part in an interleaving. diff3
(its outcome is "merges" or "conflicts" hunk by hunk), git, sudo and the
user's commands are outside of the program and enter by what they may do. Probe
commands and the templates of projections likewise. Auxiliary rows in the
session's workset, and the view property that writes back the view it has read, are
the two parts of the core that remain.

## Plan

What is left, in order:

1. Auxiliary rows in SyncSession, and the window of the view property, which writes the view
   it has read.
2. The ownership of live paths (`OwnersStayUnique`): PackageGraph with closures as least
   fixed points of a set operator instead of a recursive walk, which a proof could speak
   about.
3. Power losses for source and live files, as SyncBaseStore has them for its directories.

## Running the checks

`tlc -config <cfg> <module>` for a run, `tlapm <module>` for the proofs.

| Cfg | Module | Time |
|---|---|---|
| `SyncBaseStore_crash.cfg`, `SyncBaseStore_refines.cfg` | `MCSyncBaseStore` | up to a minute or two |
| `SyncExecution_stages.cfg` | `MCSyncExecution` | minutes |
| `SharedSession.cfg`, `SyncSession_editor_cancel.cfg` | `MCSharedSession`, `MCSyncSession` | two minutes, seconds |
| `SessionDeck.cfg` | `MCSessionDeck` | a minute or two |
| `Machinery.cfg` | `MCMachinery` | two minutes |
| `Workspace.cfg` | `MCWorkspace` | two to three minutes |
| `Resolution_order.cfg`, `SyncDirectory_dangling.cfg`, `Snapshots_modes.cfg` | `MCResolution`, `MCSyncDirectory`, `MCSnapshots` | seconds |
| `StructuredFiles_denylist.cfg` | `MCStructuredFiles` | seconds |

Proof modules: `SyncBaseStoreProofs`, `SyncExecutionProofs`, `SyncSessionProofs`,
`SyncLifecycleProofs`, `MachineryProofs`, `CommandDeckProofs`, `LiveTreeProofs`,
`PlanningGuardsProofs`. They need no setup; a first run of one takes from one to several minutes.
