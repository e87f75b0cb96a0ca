# Iruka VFS: a TLA+ model of the write-back file system

Iruka VFS gives an agent a virtual file system. Its files live in a database
(PostgreSQL or in-memory repositories); while a workspace is used its whole tree
is held in a *workspace mirror* in Redis or in process memory, every command
changes the mirror, and *checkpoints* write the mirror back to the database. The
model is about that write-back: what may be lost, reordered, resurrected or stuck
between a command that was acknowledged and the row that makes it durable.

## 1. The system

| Component | Source | State | Operations |
|---|---|---|---|
| Checkpoint schedule and worker | `mirror/checkpoint.py` 208-315, `workspace_state_store.py` 337-470 | Redis list of tokens, set of enqueued and set of dirty workspaces, due time, retry count and dead letter per workspace | enqueue, BLPOP, requeue, clear, record failure, dead-letter, `run_checkpoint_cycle`, worker loop |
| Checkpoint flush | `mirror/checkpoint.py` 97-205, 318-459 | the dirty batch it has snapshotted | take the lock, load, snapshot, transaction, remap temporary ids, confirm, save |
| Workspace mirror and mutations | `models.py`, `mirror/mutation.py`, `runtime/filesystem.py` | nodes by id, dirty content/structure ids, cwd, next temporary id | create, write, touch, move, delete, cd |
| Redis state store | `workspace_state_store.py`, `workspace_state_serialization.py` | keys meta, base, overlay, index; the workspace lock | load, save (full or overlay), delete, lock |
| Local memory store | `workspace_state_store.py` | the mirror object itself, queue, RLock | the same |
| Repositories | `sqlalchemy_repo/`, `in_memory_repositories.py`, `sqlalchemy_models.py` | rows of workspaces, sessions, nodes, command logs | create, update, delete, list |
| File system commands | `runtime/fs_commands.py`, `runtime/editing.py` | none | touch, mkdir, cp, mv, rm, edit, patch |
| Parser, executor, chains, redirects | `command_parser.py`, `runtime/executor.py` | none | run a command line |
| Agent shell and task guidance | `integrations/agent/shell.py`, `guidance.py` | paths written, read back, removed, in the workspace metadata | one lock-protected transaction per command line |
| Access modes | `service_ops/access_mode.py`, `integrations/agent/access_mode.py` | mode of the workspace, in the mirror | host/agent switch, checks |
| Bootstrap | `service_ops/bootstrap.py` | process cache of known workspaces | ensure, seed, refresh |
| Host file API | `service_ops/file_api.py` | none | read, write, list, flush |
| Command log queue | `service_ops/state.py` | bounded queue | append, drain |
| Content cache | `cache/` | cached contents, dirty flags, byte total | get, put, flush, evict |
| Paths, indexes, search | `pathing/`, `mirror/indexing.py`, `runtime/search.py` | indexes derived from the nodes | resolve, list, grep |
| SDK handle, profiles | `sdk/`, `runtime_state.py`, `constants.py` | process configuration | wiring |

**Interaction.** A mutation takes the *workspace lock*, loads the mirror, changes
it, saves it and enqueues the workspace. The save and the enqueue are sequences
of single Redis commands. A worker thread per process pops tokens and runs
checkpoint cycles; a host thread in `flush()` runs the same cycle. A cycle takes
the lock for the flush proper, but clears and refills the schedule *without* it.
Path resolution, reads and mode checks load the mirror without the lock.
Expiry (30 s in Redis) can end the lock under its holder; waiting for it
ends after five seconds (an edit raises, a flush returns `True`).

**What is hard here.** The schedule is a lost-wake-up problem over separate
Redis commands; the flush is a write-back cache whose keys (temporary negative
ids) change while it runs; the three Redis keys of a mirror are replaced one by
one, with crashes and lock-free readers between; retry, dead letter, refused
lock, explicit flush and background flush race. `PROJECT.json` lists every such
hazard at its line.

**What makes it correct**, by component:
- schedule: a dirty workspace is queued or being worked on; a claim in the
  enqueued set has a token; the set of dirty workspaces is exact; a dirty
  workspace is flushed or dead-lettered without help;
- flush: what is in no dirty set is in the database; a row never goes back;
  the tree stays a tree under remapping; `flush()` answering `True` is a
  durability boundary; every version becomes durable;
- state store: the next load is the last save; a dying writer costs no
  acknowledged change; a reader never goes behind a confirmed flush;
- agent shell: a call in the wrong access mode changes nothing; what was written
  and not read back is asked for; the end of a chain takes nothing back; answered
  chains are logged;
- bootstrap: a clean mirror is what the database has; a process never undoes its
  own work; calls return;
- content cache: no write is lost without a counted conflict, and none overwrites
  what its writer had not seen;
- command line: it is read as it was meant, with a shell's status, and writes
  only where it says so;
- tree: an answer of 0 is true of every operand; nothing changes that is not
  named; the walks of `find` and `grep` agree.

## 2. The modules

| Module | Models | Role |
|---|---|---|
| `CheckpointQueue` | schedule, worker, explicit flush, lock | state machine, one step per Redis command |
| `CheckpointQueue_proofs` | | theorems about `CheckpointQueue` |
| `Mirror` | the mirror as a value, its mutations, batch, snapshot, remapping, confirmation | operators of `WorkspaceFlush` and `RedisStore` |
| `Mirror_proofs` | | lemmas about those operators |
| `WorkspaceFlush` | one workspace: commands, host writes, flushes, database | state machine, extends `Mirror` |
| `WorkspaceFlush_proofs` | | theorems about `WorkspaceFlush`, extends `Mirror_proofs` |
| `WriteBack` | what a write-back promises, on versions only | abstract specification |
| `RedisStore` | the three Redis keys, one writer, lock-free readers, crashes | state machine, extends `Mirror` |
| `RedisStore_proofs` | | theorems about `RedisStore`, extends `Mirror_proofs` |
| `AgentShell` | callers of a workspace: chains, host writes, mode switches, guidance, command log | state machine, both stores |
| `AgentShell_proofs` | | theorems about `AgentShell`, facts about folds |
| `Bootstrap` | ensure, refresh, restart, beside flushes and host transactions | state machine, both stores |
| `Bootstrap_proofs` | | theorems about `Bootstrap` |
| `ContentCache` | the write-behind cache of file contents | state machine, one step per locked section or SQL statement |
| `ContentCache_proofs` | | theorems about `ContentCache` |
| `CommandLine` | the parser, chains, pipelines, fallbacks, redirects | operators on texts, and the executor as a state machine |
| `TreeCommands` | paths, walks, commands on many operands | operators on trees, one step per operand |
| `TreeCommands_proofs` | | theorems about `TreeCommands`, facts about folds and recursion |
| `MC*` | | small instances for TLC |

The machines meet at the mirror. `CheckpointQueue` sees only *how
many* entries of it are dirty and who holds the lock. `WorkspaceFlush` sees its
content and takes load and save as atomic, because the lock is held. `RedisStore`
opens the save into its commands and takes the transaction of a flush as one step.
`AgentShell` puts the callers around the lock that `WorkspaceFlush` takes for
granted, `Bootstrap` what comes before and after a mirror's life. `CommandLine` and
`TreeCommands` open what is one step of a chain in `AgentShell`: how its text is
read, and what each operand does. `ContentCache` stands apart: it serves
workspaces without a mirror.

### CheckpointQueue
A thread is a client (`mutate_workspace_mirror`), a flusher (`workspace.flush()`)
or a worker. `pc[t]` names the next Redis command of thread `t`; `ret[t]` says
where the routine it is in (the enqueue, the clearing of the schedule) returns
to. `StartEdit`..`Unlock` are the mutation; `Mark`, `EnqueueCheck`, `EnqueueDue`,
`EnqueueFlag`, `EnqueuePush` are `set_workspace_mirror` and
`enqueue_workspace_checkpoint` command by command; `Snapshot`..`Unmark` are the
flush; `Forgive`, `Absolve`, `Record`, `Bury` the failure state; `ClearFlag`,
`ClearDue`, `LookAgain`, `Done` the rest of `run_checkpoint_cycle` and the worker.
- A due time is `later` or `now`; `Tick` lets it pass. Debounce and backoff
  intervals are abstracted to that.
- The mirror is the number of its dirty entries (`dirty`) and of the temporary ids
  among them (`temps`). A confirmation discards real ids only
  (`checkpoint.py:192-197`): the temporary id of a created node stays dirty for ever,
  comes first in every later batch, and the mirror never counts as clean again.
  `Left` is what a batch may leave dirty, `Room` says that it takes anything beside
  temporary ids. `Write` saves what one mutation, or a chain of commands, made dirty.
- The flush result `no` (transaction failed, rolled back) is not counted as a
  failure as long as `has_more_dirty` holds, as in the code
  (`checkpoint.py:259`), which is for ever once a temporary id is left; only a raised
  exception is counted.
- `EventuallyFlushed` is about what is dirty beside temporary ids, and only while
  they leave room in a batch; it says nothing of the new nodes themselves.
- `buried` is history: a workspace that was ever dead-lettered is left out of
  `NoLostWakeup` and `EventuallyFlushed`, since the code then waits for an
  explicit flush.
- `Crash` is in `CrashSpec` only.

### Mirror and WorkspaceFlush
A node is a record of parent, name, kind and version; `born`, the id it was
created with, is a history field that survives remapping. A content is its
version number. `First`, `BatchIds`, `Snapshot`, `Remapped`, `Confirmed` are the
pure parts of the flush; note that the confirmation discards *real* ids from dirty
sets that still hold *temporary* ones, as `checkpoint.py:192` does.

A command of the agent holds the lock from resolution to save, so it is one
step. The host's `write_file` on an existing path resolves without the lock:
`HostResolve`, then `HostWrite`. A flush is `StartFlush`, `TakeSnapshot` (or
`Refused`), `Commit` (or `Fail`), `Confirm`; `Expire` and `Crash` come between
any two.
- `PostgreSQL = TRUE` has transactions, the unique constraint on
  (parent, name), and the foreign keys to parent and cwd. `FALSE` is the
  in-memory repository, where an aborted flush keeps the rows it has written.
- `Placed` is the round-by-round insertion of new nodes under new parents;
  `AllPlaced` fails when a new parent is outside the batch.
- `mv` also updates the row in the *host's* SQL session (`pending`), which
  `HostCommit` commits some time. `rm` on PostgreSQL passes an object no session
  has loaded to `db.delete`, which SQLAlchemy (external) refuses.
- Access modes are left to `AgentShell`: here agent and host steps interleave
  freely, an over-approximation of the code.

### RedisStore
A writer loads `Current`, applies an operation of `Mirror` and saves it as a
full snapshot (`SetMeta`, `SetBase`, `DropOverlay`) or an overlay (`SetMeta`,
`SetOverlay`), chosen by `NeedsFull`. Readers do `GetMeta`, `GetBase`,
`GetOverlay`. `acked` is history: the mirror of the last completed save; after a
crash it is what the next load will see. The instance starts after the first
save, so the base exists; index keys and the legacy format are left out.

### WriteBack
Versions only: `live[k]` in the runtime, `durable[k]` in the database.
Persisting brings any set of nodes to their live version. `WorkspaceFlush`
maps to it by looking a node up by `born` in the mirror and in the rows.

### AgentShell
`runtime` picks the store. A chain is `CheckMode` (no lock), `Acquire`, a `Step` per
command, `Finish`, `Log`; `Raise` ends it early and `TimesOut` at a busy Redis lock.
A host write is `CheckMode`, `Look` (no lock), `Put`; a switch is `BeginSwitch`,
`Switch` or `SwitchRaises`. With the local store `Mirror(t)` is the object all
threads share; with Redis it is the chain's copy, which `Finish` updates and does
not save, as `shell.py:189` does. `Note`, `Trim` and `Required` are the guidance: the
paths written, verified and removed, and what is left to be read back. A command
is what it does to files and which event it reports; `xargs` reports none.
`Fetch`, `Insert` and `InsertRaises` are the log worker.
- `hist.exempt` names what the guidance cannot know: paths that were ever removed,
  and writes of chains that raised.

### Bootstrap
One call at a time (`call`), each in the process of its caller, beside the flush of
a worker and the one a call makes (`fl`). `tx` is what the host's session has
written and not committed; a flush sees `db` only. `Start`, `Look`, `MakeRoot`,
`Seed`, `Meta`, `Build`, `Install` are ensure step by step; `Compare` is refresh;
`Take`, `Store`, `Load`, `Save` the flush. `StoredRows` drops updates of rows that
are not visible, as `update_node_content` does.
- In the local store `delete_workspace_mirror` drops the lock object of the workspace
  with the mirror (`workspace_state_store.py:626`): `Drop` frees the lock for
  everybody else, while the worker's flush that had it goes on (`stray.lock`,
  `Astray`; also one that has fetched the old lock and is about to acquire it, which
  then is `Take` or `TurnBack`). And where the store has a new mirror object, a flush
  still saves the one it has loaded (`stray.mirrors`, `Held`). With Redis the lock is
  a key that a refresh leaves alone, and mirrors are copies.
- `Disciplined` hosts commit after each call and ensure first. That is how the
  examples and tests use the library; the configurations with `FALSE` show why.
- `hist.raced`, `strayed`, `orphaned`, `unconfirmed` mark executions where a refresh
  met a flush, a flush ran without the workspace's lock, the mirror was built from rows
  that were rolled back (or a flush may still put back one that was), or a process died
  before the confirmation. `OwnWorkIsKept` exempts the first: a flush that a refresh
  raced with may put back the mirror that the refresh had replaced. `FlushIsDurable`
  exempts the second: a worker's flush that took an old version before the refresh may
  commit it after a newer one was written under the new lock, flushed and confirmed
  (`MCBootstrap_strays`).

### ContentCache
`Get` and `Write` are one step each (one lock), with the eviction at their end;
the flusher is `Take`, `Update` (the conditional UPDATE, with its commit),
`Settle`, `Drop` after a conflict, `Break` at an exception. `node[p][f]` is the row
object that the caller's session read, perhaps long ago: `Query` reads it again.
`parent[n]` records over which content the n-th write was made, so that
`NoBlindOverwrite` can speak of what a writer had seen: `Descends` is the transitive
closure of that relation. What is pending is a set of versions with distinct, growing
numbers, and `Newest` the last one appended.
- `outgrown`: a file larger than the whole cache is evicted by its own load; what
  is written to it then is lost from the cache, and such executions are exempt.

### CommandLine
A text is a sequence of units (operators, quotes, blanks, fragments of words); the
passes of the parser are operators on it, in the order of the code: `SplitChain`,
`Tails`, `HereString`, `Heredoc`, `Tokens`, `Pipeline`. A line of the instance is
given as what it *says*, `Text` renders it, `Parse` reads it and `Meant` is what it
should have read. `Plain` lists, by name, what the parser reads otherwise.
The operators were compared with the Python parser on all lines of
`MCCommandLine` (6,768): they agree on every one. `SplitHeredocsAreRead` states
what `README.md:157` and the parse error's own template say of several heredocs in
a line, split with `;` or `&&`; the code cuts such a line at its first header only
and rejects it with that very template (`MCCommandLine_heredocs`).

### TreeCommands
A path is the sequence of its names, a tree a function from paths to nodes.
`Resolve` walks typed paths with `.` and `..`; `FindPaths` is the recursion of
`find`, `CollectFiles` the stack of `grep`. `Begin` takes a command, `Operand` does
one operand, `Finish` answers. `find -exec` and `find | xargs` pass typed paths on,
which are resolved again in the tree as it is by then. Compared with the Python
code on 285 commands over the trees of `MCTreeCommands`.

## 3. The runs

| Run | Question | Bounds |
|---|---|---|
| `queue_live` | do the unlocked commands of edits, flushes and workers lose a wake-up, a claim or the dirty set, and is a dirty workspace flushed or dead-lettered without help? | 1 workspace, 1 client, 1 flusher, 1 worker, up to 2 entries by a save, new or existing, batch 2, dead letter at the second failure, 1 call each, no crash |
| `flush_memory` | all agent commands against a flush, in-memory repositories; the abstract write-back | 1 file at first, 2 names, 2 new nodes, versions to 2, batch 2 |
| `flush_hosts` | host writes with stale resolution, expiring lock, failing transactions, crashes, on PostgreSQL | 2 files, versions to 3, batch 1, 2 crashes |
| `flush_moves` | moves, also onto occupied paths, the host's own SQL session, and a flush that is refused the lock of another | 2 flushers, 1 file, 2 new nodes, versions to 3, batch 2 |
| `flush_live` | does every version become durable within one batch? | 2 files, batch 2, failing transactions, no crash |
| `redis_store` | load after save, what lock-free readers see, writers that die between commands | 1 file, 2 names, 1 new file, versions to 2, 1 reader, 1 crash |
| `cache` | is a cached write lost, or does it overwrite another? | 2 processes, 2 files, sizes 1 and 2 in a cache of 1 byte and 2 files, flush batch 1, 2 writes, 1 broken transaction |
| `shell` | modes, guidance, end of a chain, command log | 2 agents, 1 host, 3 paths of which 2 are tracked, 3 chains of 2 to 4 commands, 3 calls, log queue of 1, 1 exception, both stores |
| `bootstrap` | ensure, refresh, writes, switches, flushes and restarts | 2 processes, of which one seeds the file, 5 calls, 1 restart, both stores |
| `command_line` | is a line read as meant, and run as a shell would? | lines of 1 to 3 pieces, each at most two features away from a plain command |
| `tree_commands` | are answers true, and do the walks agree? | trees of up to 5 nodes, 2 commands in a row |
| `redis_reverted` (violation of `ReadYourWrites`) | does a partial flush revert what it flushed? | 2 files, batch 1 |

**Why the bounds are enough.** The races of the schedule need two threads on one
workspace; a third actor of another kind is in the same run, and the retry before
a dead letter. What workspaces share is the queue only; the theorems cover any
number of them and of threads. In the flush the interesting sizes are *below*,
*at* and *above* the batch: batch 2 against three dirty nodes, batch 1 against
two. Two new nodes make a new directory with a new child; version 3 makes an
old, a snapshotted and a late one. `Batch` stands for
`MEMORY_CACHE_FLUSH_BATCH` (64 by default). In the cache one byte against two files of
one or two makes every limit bind. In the shell three calls are a chain between
two others, and three paths against two tracked overflow the guidance. Five calls
in `bootstrap` are an ensure, a write, a refresh, a write and a flush: enough for a
worker's flush to run beside the lock (`MCBootstrap_strays` needs no more), which is
what `FlushIsDurable` exempts and `TypeOK` allows. In `queue_live` a batch of 2 is above,
at and below the temporary ids that one save leaves.

`CHECK_DEADLOCK FALSE` is set everywhere: the bounds (`MaxCalls`, `MaxVersion`,
`MaxTemp`, `MaxCrashes`, `MaxWrites`, `MaxErrors`, `MaxFaults`, `MaxRestarts`) let the
system come to rest legitimately; `MaxEntries` bounds one save.

**Fairness.** `CheckpointQueue`: weak fairness of every thread step and of time;
strong fairness of taking the lock (holders release it, and the code waits five
seconds and tries again in the next cycle) and of a successful commit (the
database is not down for ever), where the batch holds every temporary id: otherwise a
new node may be without its parent in every batch and never commit
(`MCWorkspaceFlush_clogged`). Nobody has to start an edit or a flush.
`WorkspaceFlush`: weak fairness of a flush that has begun, and of beginning one as
long as no process has died, since the worker then comes back to a
dirty workspace, which is what `EventuallyFlushed` shows of the schedule;
strong fairness of the lock and of a commit that is possible. Nothing is assumed of
the worker after a death with Redis: its claim may be left in the enqueued set
(`workspace_state_store.py:346`), and then no token is pushed any more
(`MCCheckpointQueue_crash`). `RetrySpec`, where hosts call `flush()` again and again, is
for `MCWorkspaceFlush_recovery` alone. Agents and hosts are under no obligation.
`ContentCache`: weak fairness of the flusher of each process, a daemon thread that
lives as long as the process. `AgentShell`: weak fairness of each thread's
next step and of the log worker; a thread may wait long for the local lock, but the
calls are finitely many. `Bootstrap`: weak fairness of
the host's commit after its call and of the worker's flush, once it has begun, or
while the schedule works (`Scheduled`: always with the local store, whose queue dies with
its process; with Redis until a process has died); strong fairness of the call and its own flush,
which wait for a lock the worker gives up between its runs.

### Disagreements between code and documentation
One run is expected to find a violation; its finding quotes the lines:
`redis_reverted`, where after a partial flush the flushed files load at their old
content, because the overlay drops them and the base was never replaced.

The further `.cfg` files reproduce others met while modelling. Each names its
property and stops within seconds; some of these properties are stated for them only:

| Configuration | Property TLC refutes | What happens |
|---|---|---|
| `MCCheckpointQueue_crash` | `FlagTruth` | a process dies between SADD and RPUSH: its claim stops the background checkpoints of the workspace |
| `MCWorkspaceFlush_batch` | `FlushIsDurable` | `flush()` answers `True` after one batch |
| `MCWorkspaceFlush_refused` | `FlushIsDurable` | the lock is refused, `flush()` answers `True` |
| `MCWorkspaceFlush_clogged` | `EventuallyDurable` | new directory and new child do not fit one batch; every flush raises |
| `MCWorkspaceFlush_cwd` | `EventuallyDurable` | `mkdir d; cd d`: the cwd is written under its temporary id |
| `MCWorkspaceFlush_recovery` | `EventuallyDurable` | crash between commit and confirmation; the rows exist, the mirror does not know |
| `MCWorkspaceFlush_expired` | `CleanIsDurable` | a flush that outlives its lock commits an old version |
| `MCWorkspaceFlush_removed` | `RowsAreLive` | `rm` leaves the row on PostgreSQL |
| `MCWorkspaceFlush_mvinto` | `TreeSound` | `mv` into a directory with a file of that name |
| `MCWorkspaceFlush_stale` | `TreeSound` | a host write puts a node back under its temporary id |
| `MCRedisStore_revived` | `ReadYourWrites` | a removed clean file comes back |
| `MCRedisStore_crashes` | `EveryCrashKeepsAcked` | a writer that dies after SET meta leaves an overlay whose nodes the next partial save drops for an older base; the second crash makes that what was saved |
| `MCAgentShell_forgets` | `PendingIsRemembered` | with Redis the guidance of a chain is not saved: what it wrote is not asked for |
| `MCAgentShell_modes` | `AgentModeOnly` | a chain that was let in before the switch to host mode runs after it |
| `MCCommandLine_heredocs` | `SplitHeredocsAreRead` | two heredocs split with `;`, as the message advises, are rejected with the same message |
| `MCBootstrap_uncommitted` | `FlushIsDurable` | a flush updates a row the host has not committed, and nothing says so |
| `MCBootstrap_refresh` | `RefreshRealigns` | a refresh that meets a flush leaves older content than the database has |
| `MCBootstrap_strays` | `PromisesAreKept` | a refresh of the local store drops the lock object under a worker's flush, which commits an old version after a newer one that `flush()` confirmed |
| `MCBootstrap_takeover` | `EnsureKeepsWork` | the first ensure of another process replaces work that is not flushed |
| `MCBootstrap_hangs` | `CallsReturn` | a flush waits for a row that the same thread's open transaction holds |

These limits shape the passing runs: `TreeSound` is checked without `mvinto` and
host writes, `ReadYourWrites` without removals, crashes and partial batches,
`CrashKeepsAcked` for the first crash, `EventuallyDurable` for existing files within
one batch and, as `EventuallyClean` with Redis, until a process has died,
`EventuallyFlushed` for what is not a temporary id, the guidance with the local store,
the flushes of `Bootstrap` with disciplined hosts. The passing runs, and the hypotheses
of the theorems, say what the code does guarantee inside those limits, and the table
where they end.

## 4. The proofs

A theorem holds for every value of the constants; a hypothesis is named where there
is one, and the configuration that shows why it is needed. `[]P` on the left of a
theorem restricts it to the behaviours in which P always holds.

### The schedule
`CheckpointQueue_proofs`, for every set of workspaces and threads, batch size,
failure limit and number of calls:
- `TypeCorrect`: `Spec => []TypeOK`;
- `NoWakeupIsLost`: `Spec => []NoLostWakeup`;
- `FlagsAreTrue`: `Spec => []FlagTruth`;
- `DirtySetIsTrue`: `Spec => []DirtySetTruth`.

They use `ThreadAssumption` (the thread sets are disjoint, `NoOne` is none of
them) and `LimitAssumption` (the limits are naturals, batch and failure limit
positive), and no crash: with `CrashSpec` `FlagTruth` is false.

None of the three safety properties is inductive: each speaks only of moments
when no thread is working. The inductive invariant `IInv` says what holds in
between:
- `Control`: which steps belong to which kind of thread and where each returns to;
- `Exclusion`: a thread at a step of a locked section holds the lock of its
  workspace;
- `Markers`: the mirror is dirty before its workspace is marked, clean before
  the mark is taken away;
- `Marking`: the set of dirty workspaces is exact, or the holder of the lock is
  about to bring it up to date;
- `Burial`: only a workspace that was dead-lettered leaves the schedule for good;
- `Tokens`: a claim has a token in the queue, or a thread that is about to push
  it or carries it, popped, until it clears the claim;
- `Wakeups`: a dirty, never buried workspace is claimed, queued, or has a thread
  that owes it an enqueue or another look at its mirror. This is the heart: an edit
  whose claim is cleared by a concurrent cycle is safe *because* that cycle
  looks again after clearing.

Lemmas show conjunct by conjunct that a step keeps the invariant, with one proof
step per action; the theorems follow from `IInv` at the idle moments, and by `PTL`.

### The flush
`WorkspaceFlush_proofs`, for any files, names, flushers, hosts, versions, crashes and
size of a batch, with PostgreSQL and in memory:

| Theorem | States | Hypotheses |
|---|---|---|
| `TypesAreKept` | `TypeOK` | none |
| `TreeStaysSound` | `TreeSound`: remapping keeps the tree a tree | no host write and no `mvinto` (`MCWorkspaceFlush_stale`, `_mvinto`) |
| `CleanNodesAreDurable` | `CleanIsDurable` | `Settled`, `Session`, `CwdHasRow` |
| `RowsNeverGoBack` | `NoRegress`, not of two flushes that overlap, which `Settled` excludes | `Settled`, `Session`, `NoneRevived` |
| `NoRowOutlivesItsNode` | `RowsAreLive` | `Settled`, `Session`, `RowsFollow`, always `Orderly` |
| `AnsweredFlushIsDurable` | `FlushIsDurable` | `Session`, no expiry, no refused lock, always `Fits` (`MCWorkspaceFlush_refused`, `_batch`) |
| `FlushesWriteBack` | `WritesBack`: the refinement of `WriteBack` | `Session`, `RowsFollow`, no expiry, no hosts, always `Orderly` |

- `Settled`: locks do not expire, or there is one flusher and no command makes or
  moves a node. Otherwise two flushes that overlap confirm what the other wrote
  over (`MCWorkspaceFlush_expired`), and a node that is created and then edited
  during a flush that lost its lock is taken for clean.
- `Session`: on PostgreSQL, no `mv` beside edits or hosts, since the row update that
  waits in the host's session is committed over a newer one; in memory, no `rm`
  beside hosts, who would write the removed node back without a row.
- `CwdHasRow`: on PostgreSQL the foreign key keeps a cwd without a row out; in memory
  nothing does (`MCWorkspaceFlush_cwd`), so there the theorem is for agents that do
  not `cd`. That the cwd of `flush_memory` is durable stays with TLC.
- `NoneRevived`: no `rm`, or no hosts: the copy that a host writes back may be older.
- `RowsFollow`: no crash, and no `rm` on PostgreSQL (`MCWorkspaceFlush_removed`,
  `_recovery`). `Orderly`: in memory, where nothing is rolled back, every batch can
  be placed (`MCWorkspaceFlush_clogged`).
- `Fits`: what is dirty, left-over temporary ids included, fits a batch.

The argument. `Base` (`Typed`, `Ranged`, `Born`, `FreshKeysGiven`) holds everywhere: ids lie
between the next temporary id and the next row key, a node keeps the key it was
born with, and a transaction has given every new node of its snapshot a key of its
own. `Durable` is what `CleanIsDurable` needs to be inductive: one flush at a time is
between snapshot and confirmation (`Solo`); what has a real id has a row (`HaveRows`);
the row of a clean node *is* the node (`Clean`); what a flush is writing stays dirty
and as it was, and once committed the rows are the snapshot (`Flying`); the update that
waits in the host's session changes nothing that is newer (`Waiting`). `Recent` orders
rows, snapshot and mirror by version and gives `NoRegress`; `Covered` says that a
snapshot that fits has everything dirty; `LiveRows` and `Identified` (no two nodes were born
under one key, and a row was born as its node was) give the refinement mapping, in
which a commit is the abstract persist and every other step an abstract change
or a stutter. `Mirror_proofs` has the lemmas about the operators: the batch is within
the dirty ids and is all of them when they fit, fresh keys are distinct, remapping is
injective and moves nothing, confirming takes no mark but of what is stored.

### The state store
`RedisStore_proofs`, for any files, readers, crashes and bounds:
- `DirtyNodesAreExact`: `Spec => []DirtyIsExact`, with no hypothesis;
- `LoadsWhatWasSaved` (`ReadYourWrites`), `ReadersSeeFlushed` (`FlushedIsRead`) and
  `FirstCrashKeepsAcked` (`CrashKeepsAcked`), where nothing is removed
  (`MCRedisStore_revived`) and a flush always has room for all that is dirty (`Fits`;
  `redis_reverted`). They speak of the time up to the first crash, as the properties do;
  after it `EveryCrashKeepsAcked` is false (`MCRedisStore_crashes`).

`IInv` is `Typed` (with the ids in range), `Saving` (what the commands of a save have
done so far) and `DirtyIsExact`. Until the first crash `KeysInOrder` says how old base and
overlay may be while a save replaces one after the other, and `ReadersInOrder`
that what a reader has fetched so far is, key by key, not older than what was
confirmed when it began, however many saves come between its three commands.

### The shell
`AgentShell_proofs`, from `ShellAssumption` alone, for any agents, hosts, chains, paths,
limits and both stores:
- `TypesAreKept` (`TypeOK`): at most one chain runs, holding the lock, and the tracked
  paths, the log queue and its batch keep their limits;
- `ChainsTakeNothingBack` (`FinishKeepsWork`);
- `ModesAreRespected` (`ModeIsRespected`), though the mode is checked without the lock;
- `UnreadPathsAreAsked` (`UnreadIsAsked`);
- `EntriesAreOfAnswered`, which no run states: table, batch and queue of the command log
  hold the entries of exactly the answered calls that were not dropped, each once.

`ModesSeen`: a call that has passed its check has its mode among those seen.
`Remembered` is the invariant behind the guidance: what it remembers now accounts for all
writes but those of the chain that runs, and what it *will* remember when the events
of that chain are folded into it accounts for these too; both are needed,
since a chain that raises leaves the first and one that ends the second. `Logged` adds
that every call in progress has a number of its own, not yet answered.

Induction over sequences, which the folds of the guidance need, is done with sets: the
numbers (`SmallestNumber`, from a theorem about well-founded relations,
`NatSetInduction`), then the sequences (`SeqInduction`) for which a fact holds are all of
them. That avoids theorems that take an operator as a parameter, which the provers
cannot instantiate.

### Bootstrap
`Bootstrap_proofs`, for any callers, files, seeds, numbers of calls and restarts, and
both stores:

| Theorem | States | Hypotheses |
|---|---|---|
| `TypesAreKept` | `TypeOK`; a flush that runs has the lock, but for the worker's under which a refresh of the local store dropped it | none |
| `NoWorkIsUndone` | `OwnWorkIsKept` | none |
| `CleanMirrorsAreCurrent` | `CleanIsCurrent` | `Disciplined` |
| `FlushedWorkIsDurable` | `FlushIsDurable`: what was confirmed stays, as long as no flush has run without the lock | `Disciplined` |

`Disciplined` is needed: without it `MCBootstrap_uncommitted` violates `FlushIsDurable`,
and `CleanIsCurrent` put in its place as well. `MCBootstrap_strays` shows why
`FlushIsDurable` exempts executions in which a flush ran without the lock. Both
properties exempt `orphaned` mirrors, and for `FlushIsDurable` the proof showed that they
must be: an update of a row that is not there changes nothing, and is confirmed
(`StoredRows`), so that a mirror of rolled back rows promises what is not stored. With
two restarts it takes seven calls to get there, more than the run has.

The argument. `Typed` and `HostFlushes` (a host's flush belongs to a call that waits for
it) hold everywhere. For `NoWorkIsUndone`, `Knowing` says that a process which knew the
workspace when its call began prepares nothing; `Loaded`, that a flush has the lock
and what it has loaded is still the mirror (so that it saves that one, `HeldIs`);
`Numbered`, that no content is newer than the call in progress. `Loaded` is false once a refresh replaces a mirror under a flush, which is
why `OwnWorkIsKept` has its exemption.
For disciplined hosts `Orderly` says what a session may hold at each place of a call,
and `BuiltIsCurrent` that nothing the mirror is built from changes before it is
installed, unless a flush is noted. `Agreeing` is the relation of mirror, session,
rows and snapshots: what is not dirty is in the rows *of the host that showed them*
(`Follows`), which are those of the database once nothing is held back (`HeldBack`);
a flush stores the mirror as it is (`Snapped`, `Stored`).
`FlushIsDurable` needs three more, which also hold where a refresh raced with a flush:
files with an id have a row, unless they are orphaned (`RowsExist`); and until a flush
runs without the lock, the mirror beside a flush is the one it took, or clean (`Alone`),
and no edit, snapshot, session or row is behind what was promised (`Kept`). That
a flush has run so stays in the history (`StrayedStays`); before, no two flushes run
(`OneAtATime`). `DropKeeps` and `TakeKeeps` say what a refresh that drops a mirror, and
the lock with it, and a flush that begins leave of the history.

### The content cache
`ContentCache_proofs`, from `CacheAssumption` alone, for any processes, files, sizes,
limits, batches, writes and broken transactions:
- `TypesAreKept` (`TypeOK`);
- `CleanEntriesAreCommitted` (`CleanIsCommitted`);
- `NoWriteIsLost` (`NoSilentLoss`);
- `FlushesAreNotBlind` (`NoBlindOverwrite`).

The three properties are proved from one invariant, since a flush is only right if the
entry it copied was. `Tracked` relates entry, row and history: what is pending is newer
than what was flushed, and each version was written over the one before (`Chained`);
*as long as the row has the version the entry was last flushed at*, the entry
was written over what the row has (`Follows`). The conditional UPDATE tests just that
version, and this is why it is enough. `RowsRead` says that a row object of
whatever age is what the row was, so that two rows of one version are the same row;
otherwise an old row object could carry a newer content under an old number.
`Working` keeps what the flusher found out true between its locked sections: what it
copied is still pending, because a dirty entry is never evicted and only the
flusher of the process takes versions away. So the branches of the code for an entry
that has left the cache meanwhile (`cache/worker.py:76` and `:87`) are never taken.
`Counted`, the exactness of the count of bytes, is needed for `NoSilentLoss`: a
write changes the entry that its load has given it, so the load must not have evicted
that entry, and whether it does depends on the count. Where a file is larger than the
cache it does, and both `Counted` and `NoSilentLoss` stop there (`outgrown`).

The lemmas about the LRU order and eviction (`Touches`, `CutCache`, `EvictedCache`,
`LoadedCache`, `WrittenCache`) say, each for a whole operation, that no dirty entry
goes, that the last one in the order stays if it fits, and that the count stays exact.

### The tree
`TreeCommands_proofs`, from `TreeAssumption` alone (the trees considered at first are
trees, the commands are commands, no name has a slash, and the order of names has each
of them once, but for the dots), for any trees, paths, commands, and sessions of any
length:
- `TypesAreKept` (`TypeOK`);
- `OnlyTheNamedChanges` (`OnlyAsAsked`): no operand removes or changes what it does not
  name, and what it makes is in the workspace, but for `mkdir -p` of a path with `..`;
- `AnswersAreKept` (`AnswersAreTrue`);
- `WalksAreOne` (`WalksAgree`).

One lemma per command (`TouchAsked`, `CopyAsked`, `MkdirParentsAsked`, ...) says that
what it does to one operand is as asked (`AsAsked`), in any tree and from any
directory; `DoAsked` puts them together. Below them `Resolves` says where
a typed path leads, `NewTargetFits` and `WriteTargetFits` that a place for
something new is in a directory, and `WithTree` and `WithoutFile` that the result is a
tree. `mkdir -p` checks a text and follows it afterwards: for a path that does not
climb both begin alike, so each part that is made is in the workspace (`MadeStays`);
a path that climbs is what `OnlyAsAsked` exempts. The invariant adds to `TypeOK` that the
operands a command has left are typed as it takes them (`JobOK`). For `find -exec` and
`xargs` that needs a value of the recursion of `find`: it exists because less is
below a child than below its directory (`LessBelow`, `WalkExists`).

`AnswersAreKept` adds to the invariant that every operand done so far is as the answer
will say (`DoneOK`). One lemma per command says it of its own operand (`TouchDid`,
`MkdirParentsDid`, `CopyDid`, ...); `DoLeavesDone` that a later operand of the same
command leaves it so. A tree that has grown leads every path that led somewhere to the
same node (`GrownResolves`), and a tree without a file leads no path to a node it
did not lead to (`ShrunkResolves`). A path that `find` passes on leads to the node it
names (`OwnPath`), since no node is named by dots; `IsTree` says so of the trees
at first, and the commands keep it.

`WalksAreOne` rests on three facts about a directory: `Children` has each child once
(`ChildrenTyped`), no node is below two of them (`SiblingsApart`), and every node below
the directory is the directory or below a child (`ChildTowards`). A walk that puts
together what it makes of the children meets what they meet, once, the parents first
(`WalkMeets`, by the number of nodes below). `FindPathsMeets` and `CollectFilesMeets` are
its instances for the recursion of `find` and the stack of `grep`, which goes down in the
reversed order. For `find -exec grep -l` and `xargs` the invariant adds how far the
command has come (`GrepOK`): the operands that are left are paths below the root, what is
printed are hits, and a match that is not left has had its hits printed. With
`-type f` each hit is a match itself; otherwise the root is, which is why `WalksAgree`
asks of `-type d` that the root be a directory.

### Only model-checked
- Liveness (`EventuallyFlushed`, `EventuallyDurable`, `CallsReturn`, `EventuallyClean`,
  `AnsweredIsLogged`, and the fairness of the `Live` specifications, which are about
  `ENABLED`): out of the prover's reach.
- The properties of `CommandLine`, which compute on texts by recursion.
- What a hypothesis above leaves out and a run still covers: the cwd in memory.

## 5. Abstractions worth knowing

- The lock never expires in `CheckpointQueue`; it does in `WorkspaceFlush`.
- Inserts of a flush come before its updates, in the order SQLAlchemy sends
  them; the order of fresh keys within a batch is not distinguished.
- Dirt of the workspace's metadata travels with the dirt of the session.
- The reload and the save of a confirmation are one step in `WorkspaceFlush`;
  `RedisStore` opens the save.
- The path index is a function of the nodes. In the code it is stored and rebuilt.
- The row locks of PostgreSQL are not modelled, except in `Bootstrap` the wait for
  the row of the workspace.
- `must_get_node` reads a directory from the repository, not from the mirror, with the
  Redis store (`filesystem.py:365`): where it has no row yet, `mkdir -p`, `pwd` and
  `ls` from there raise. In `TreeCommands` every directory has a row; the code adds a
  refusal there, and changes nothing by it.
- `CommandLine` keeps two operators from being adjacent, where the code cuts text
  by characters; `TreeCommands` has no glob characters in names, and patterns that
  match the words they are.

**Not modelled:** the texts that `edit`, `patch`, `sed`, `head`, `sort` and `wc`
compute and the layouts of `ls`, `tree`, `find` and `grep` (pure functions of a
loaded text, with no state of their own); SQL text and serialization formats, the
legacy format of a mirror and the index keys; the starting of the worker threads;
a Redis client that raises in the middle of a cycle; the row locks of nodes;
the SDK handle, profiles and configuration (wiring, fixed at start-up); examples,
scripts and benchmarks.

## 6. Plan

Done: the schedule (model, runs, proofs), the flush, the state store, the shell,
the bootstrap, the content cache, the command line and the tree.

Proved: the schedule, the flush with the refinement of `WriteBack`, the state store,
the shell, the bootstrap, the content cache, and the tree: its walks, what commands
change, and that their answers are true.
