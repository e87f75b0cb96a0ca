--------------------------- MODULE CheckpointQueue ---------------------------
(***************************************************************************)
(* The checkpoint schedule of iruka_vfs: how a workspace whose runtime     *)
(* mirror is dirty finds its way to a flush (mirror/checkpoint.py,         *)
(* mirror/mutation.py, the schedule half of workspace_state_store.py).     *)
(*                                                                         *)
(* Three kinds of threads share the Redis keys of the schedule:            *)
(*   Clients   threads that mutate a mirror under the workspace lock       *)
(*             (mutate_workspace_mirror),                                  *)
(*   Flushers  host threads inside workspace.flush(),                      *)
(*   Workers   checkpoint workers, one per process.                        *)
(*                                                                         *)
(* The workspace lock covers the mirror but not the schedule: the due      *)
(* time, the "enqueued" set, the queue and the dead letters are written    *)
(* one Redis command at a time, so every command is a step of its own.     *)
(* The mirror is abstracted to the number of its dirty entries and of the  *)
(* temporary ids among them; time to whether a due time has passed.        *)
(***************************************************************************)
EXTENDS Naturals, Sequences

CONSTANTS
    Workspaces,     \* the workspaces of one Redis namespace
    Clients,        \* threads that edit a workspace
    Flushers,       \* threads that call workspace.flush()
    Workers,        \* checkpoint worker threads
    NoOne,          \* the holder of a free workspace lock
    Batch,          \* MEMORY_CACHE_FLUSH_BATCH: entries snapshotted by one flush
    MaxFailures,    \* VFS_CHECKPOINT_MAX_FAILURES
    MaxCalls,       \* bound: calls made by each client and each flusher
    MaxEntries      \* bound: entries that one save makes dirty

Threads == Clients \cup Flushers \cup Workers

ASSUME ThreadAssumption ==
    /\ NoOne \notin Threads
    /\ Clients \cap Flushers = {}
    /\ Clients \cap Workers = {}
    /\ Flushers \cap Workers = {}

ASSUME LimitAssumption ==
    /\ Batch \in Nat \ {0}
    /\ MaxFailures \in Nat \ {0}
    /\ MaxCalls \in Nat
    /\ MaxEntries \in Nat \ {0}

VARIABLES
    dirty,      \* dirty[w]: dirty entries of the saved mirror of w
    temps,      \* temps[w]: those of them that are temporary ids
    marked,     \* marked[w]: w is in the set of dirty workspaces
    lock,       \* lock[w]: the thread that holds the lock of w
    due,        \* due[w]: "none", or a due time that is "later" or "now"
    enqueued,   \* enqueued[w]: w is in the set of enqueued workspaces
    queue,      \* the list of queue tokens
    retry,      \* retry[w]: failure count, saturating at MaxFailures
    dead,       \* dead[w]: w has a dead-letter payload
    buried,     \* history: w has had a dead-letter payload at some time
    pc,         \* pc[t]: the next step of thread t
    cur,        \* cur[t]: the workspace thread t works on
    ret,        \* ret[t]: where t goes on after the routine it is in
    ok,         \* ok[t]: the result of the flush of t: "yes", "no", "raised"
    more,       \* more[t]: has_entries of the checkpoint cycle of t
    calls       \* calls[t]: calls made so far

sched == <<due, enqueued, queue>>
failures == <<retry, dead, buried>>
vars == <<dirty, temps, marked, lock, sched, failures, pc, cur, ret, ok, more, calls>>

Labels == {"idle", "lock", "write", "mark", "check", "due", "flag", "push",
           "unlock", "dead", "ripe", "requeue", "snap", "commit", "confirm",
           "unmark", "forgive", "absolve", "unflag", "undue", "load", "done",
           "record", "bury"}
Returns == {"unlock", "forgive", "load", "record", "done", "idle"}

TypeOK ==
    /\ dirty \in [Workspaces -> Nat]
    /\ temps \in [Workspaces -> Nat]
    /\ \A w \in Workspaces : temps[w] <= dirty[w]
    /\ marked \in [Workspaces -> BOOLEAN]
    /\ lock \in [Workspaces -> Threads \cup {NoOne}]
    /\ due \in [Workspaces -> {"none", "later", "now"}]
    /\ enqueued \in [Workspaces -> BOOLEAN]
    /\ queue \in Seq(Workspaces)
    /\ retry \in [Workspaces -> 0..MaxFailures]
    /\ dead \in [Workspaces -> BOOLEAN]
    /\ buried \in [Workspaces -> BOOLEAN]
    /\ pc \in [Threads -> Labels]
    /\ cur \in [Threads -> Workspaces]
    /\ ret \in [Threads -> Returns]
    /\ ok \in [Threads -> {"yes", "no", "raised"}]
    /\ more \in [Threads -> BOOLEAN]
    /\ calls \in [Threads -> 0..MaxCalls]

Init ==
    /\ dirty = [w \in Workspaces |-> 0]
    /\ temps = [w \in Workspaces |-> 0]
    /\ marked = [w \in Workspaces |-> FALSE]
    /\ lock = [w \in Workspaces |-> NoOne]
    /\ due = [w \in Workspaces |-> "none"]
    /\ enqueued = [w \in Workspaces |-> FALSE]
    /\ queue = <<>>
    /\ retry = [w \in Workspaces |-> 0]
    /\ dead = [w \in Workspaces |-> FALSE]
    /\ buried = [w \in Workspaces |-> FALSE]
    /\ pc = [t \in Threads |-> "idle"]
    /\ cur \in [Threads -> Workspaces]
    /\ \A s, t \in Threads : cur[s] = cur[t]
    /\ ret = [t \in Threads |-> "idle"]
    /\ ok = [t \in Threads |-> "yes"]
    /\ more = [t \in Threads |-> FALSE]
    /\ calls = [t \in Threads |-> 0]

Goto(t, label) == pc' = [pc EXCEPT ![t] = label]
Return(t) == Goto(t, ret[t])

-----------------------------------------------------------------------------
(* Starting to work on a workspace.                                        *)

\* A client starts an edit: mutate_workspace_mirror, before the lock.
StartEdit(t, w) ==
    /\ t \in Clients
    /\ pc[t] = "idle"
    /\ calls[t] < MaxCalls
    /\ calls' = [calls EXCEPT ![t] = @ + 1]
    /\ cur' = [cur EXCEPT ![t] = w]
    /\ ret' = [ret EXCEPT ![t] = "unlock"]
    /\ Goto(t, "lock")
    /\ UNCHANGED <<dirty, temps, marked, lock, sched, failures, ok, more>>

\* A host calls workspace.flush(): flush_workspace, run_checkpoint_cycle.
StartFlush(t, w) ==
    /\ t \in Flushers
    /\ pc[t] = "idle"
    /\ calls[t] < MaxCalls
    /\ calls' = [calls EXCEPT ![t] = @ + 1]
    /\ cur' = [cur EXCEPT ![t] = w]
    /\ ret' = [ret EXCEPT ![t] = "forgive"]
    /\ Goto(t, "lock")
    /\ UNCHANGED <<dirty, temps, marked, lock, sched, failures, ok, more>>

\* BLPOP: the worker takes the oldest token.
Pop(t) ==
    /\ t \in Workers
    /\ pc[t] = "idle"
    /\ queue # <<>>
    /\ cur' = [cur EXCEPT ![t] = Head(queue)]
    /\ queue' = Tail(queue)
    /\ ret' = [ret EXCEPT ![t] = "forgive"]
    /\ Goto(t, "dead")
    /\ UNCHANGED <<dirty, temps, marked, lock, due, enqueued, failures, ok, more, calls>>

\* A dead-lettered workspace is dropped from the schedule.
CheckDead(t) ==
    /\ pc[t] = "dead"
    /\ IF dead[cur[t]]
       THEN /\ ret' = [ret EXCEPT ![t] = "idle"]
            /\ Goto(t, "unflag")
       ELSE /\ Goto(t, "ripe")
            /\ UNCHANGED ret
    /\ UNCHANGED <<dirty, temps, marked, lock, sched, failures, cur, ok, more, calls>>

\* The due time is read; the debounce sleep and the requeue follow it.
CheckDue(t) ==
    /\ pc[t] = "ripe"
    /\ Goto(t, IF due[cur[t]] = "later" THEN "requeue" ELSE "lock")
    /\ UNCHANGED <<dirty, temps, marked, lock, sched, failures, cur, ret, ok, more, calls>>

\* Mutant: the token goes back through the enqueued set, which has it already.
RequeueViaFlag(t) ==
    /\ pc[t] = "requeue"
    /\ Goto(t, IF enqueued[cur[t]] THEN "idle" ELSE "flag")
    /\ UNCHANGED <<dirty, temps, marked, lock, sched, failures, cur, ret, ok, more, calls>>

\* requeue_checkpoint pushes the token back, whatever the enqueued set says.
Requeue(t) ==
    /\ pc[t] = "requeue"
    /\ queue' = Append(queue, cur[t])
    /\ Goto(t, "idle")
    /\ UNCHANGED <<dirty, temps, marked, lock, due, enqueued, failures, cur, ret, ok, more, calls>>

-----------------------------------------------------------------------------
(* The workspace lock.                                                     *)

\* The lock is free: take it.
Acquire(t) ==
    /\ pc[t] = "lock"
    /\ lock[cur[t]] = NoOne
    /\ lock' = [lock EXCEPT ![cur[t]] = t]
    /\ Goto(t, IF t \in Clients THEN "write" ELSE "snap")
    /\ UNCHANGED <<dirty, temps, marked, sched, failures, cur, ret, ok, more, calls>>

\* blocking_timeout passed while another thread held the lock: an edit is
\* refused with TimeoutError, a flush returns True without having flushed.
GiveUp(t) ==
    /\ pc[t] = "lock"
    /\ lock[cur[t]] # NoOne
    /\ IF t \in Clients
       THEN Goto(t, "idle") /\ UNCHANGED <<ret, ok>>
       ELSE /\ Goto(t, "unflag")
            /\ ret' = [ret EXCEPT ![t] = "load"]
            /\ ok' = [ok EXCEPT ![t] = "yes"]
    /\ UNCHANGED <<dirty, temps, marked, lock, sched, failures, cur, more, calls>>

\* The lock is released; a flush that raised propagates the exception.
Unlock(t) ==
    /\ pc[t] = "unlock"
    /\ lock' = [lock EXCEPT ![cur[t]] = NoOne]
    /\ IF t \in Clients \/ (t \in Flushers /\ ok[t] = "raised")
       THEN Goto(t, "idle") /\ UNCHANGED ret
       ELSE /\ Goto(t, "unflag")
            /\ ret' = [ret EXCEPT ![t] = IF ok[t] = "raised" THEN "record" ELSE "load"]
    /\ UNCHANGED <<dirty, temps, marked, sched, failures, cur, ok, more, calls>>

-----------------------------------------------------------------------------
(* Saving a mirror: set_workspace_mirror and enqueue_workspace_checkpoint. *)

\* A client saves a mirror that its mutation, or the chain of commands that
\* ends with the save, made dirtier. New nodes are dirty under temporary ids.
Write(t) ==
    /\ pc[t] = "write"
    /\ \E entries \in 1..MaxEntries : \E new \in 0..entries :
          /\ dirty' = [dirty EXCEPT ![cur[t]] = @ + entries]
          /\ temps' = [temps EXCEPT ![cur[t]] = @ + new]
    /\ Goto(t, "mark")
    /\ UNCHANGED <<marked, lock, sched, failures, cur, ret, ok, more, calls>>

Mark(t) ==
    /\ pc[t] = "mark"
    /\ marked' = [marked EXCEPT ![cur[t]] = TRUE]
    /\ Goto(t, "check")
    /\ UNCHANGED <<dirty, temps, lock, sched, failures, cur, ret, ok, more, calls>>

\* An unforced enqueue of a dead-lettered workspace does nothing.
EnqueueCheck(t) ==
    /\ pc[t] = "check"
    /\ IF dead[cur[t]] THEN Return(t) ELSE Goto(t, "due")
    /\ UNCHANGED <<dirty, temps, marked, lock, sched, failures, cur, ret, ok, more, calls>>

\* A saved mirror is due at once; a cycle that left dirty entries or failed
\* sets a debounced or backed-off time.
EnqueueDue(t) ==
    /\ pc[t] = "due"
    /\ due' = [due EXCEPT ![cur[t]] = IF ret[t] \in {"unlock", "forgive"} THEN "now" ELSE "later"]
    /\ Goto(t, "flag")
    /\ UNCHANGED <<dirty, temps, marked, lock, enqueued, queue, failures, cur, ret, ok, more, calls>>

\* SADD tells whether the workspace was enqueued already.
EnqueueFlag(t) ==
    /\ pc[t] = "flag"
    /\ IF enqueued[cur[t]] THEN Return(t) ELSE Goto(t, "push")
    /\ enqueued' = [enqueued EXCEPT ![cur[t]] = TRUE]
    /\ UNCHANGED <<dirty, temps, marked, lock, due, queue, failures, cur, ret, ok, more, calls>>

EnqueuePush(t) ==
    /\ pc[t] = "push"
    /\ queue' = Append(queue, cur[t])
    /\ Return(t)
    /\ UNCHANGED <<dirty, temps, marked, lock, due, enqueued, failures, cur, ret, ok, more, calls>>

-----------------------------------------------------------------------------
(* flush_workspace_mirror, under the lock.                                 *)

\* The mirror is loaded and its dirty batch snapshotted; a clean mirror
\* leaves the set of dirty workspaces and ends the flush.
Snapshot(t) ==
    /\ pc[t] = "snap"
    /\ IF dirty[cur[t]] = 0
       THEN /\ marked' = [marked EXCEPT ![cur[t]] = FALSE]
            /\ ok' = [ok EXCEPT ![t] = "yes"]
            /\ Goto(t, "unlock")
       ELSE Goto(t, "commit") /\ UNCHANGED <<marked, ok>>
    /\ UNCHANGED <<dirty, temps, lock, sched, failures, cur, ret, more, calls>>

CommitOk(t) ==
    /\ pc[t] = "commit"
    /\ ok' = [ok EXCEPT ![t] = "yes"]
    /\ Goto(t, "confirm")
    /\ UNCHANGED <<dirty, temps, marked, lock, sched, failures, cur, ret, more, calls>>

\* The transaction failed and was rolled back: the flush returns False.
\* When the rollback itself raises, the exception leaves the flush.
CommitFails(t) ==
    /\ pc[t] = "commit"
    /\ \E outcome \in {"no", "raised"} : ok' = [ok EXCEPT ![t] = outcome]
    /\ Goto(t, "unlock")
    /\ UNCHANGED <<dirty, temps, marked, lock, sched, failures, cur, ret, more, calls>>

\* What a batch may leave dirty. The ids of nodes that have a row are discarded,
\* temporary ids never are (checkpoint.py:192-197): they come first in every
\* batch, and what is left of the batch is for the others. A node that is dirty
\* in both sets may need two flushes.
Room(w) == temps[w] < Batch
Left(w) == {n \in temps[w]..dirty[w] : Room(w) /\ dirty[w] > temps[w] => n < dirty[w]}

\* Mutant: a mirror saved clean leaves the set of dirty workspaces alone.
ConfirmUnmarked(t) ==
    /\ pc[t] = "confirm"
    /\ \E left \in Left(cur[t]) :
          /\ dirty' = [dirty EXCEPT ![cur[t]] = left]
          /\ Goto(t, IF left > 0 THEN "mark" ELSE "forgive")
    /\ UNCHANGED <<temps, marked, lock, sched, failures, cur, ret, ok, more, calls>>

\* The batch is discarded from the dirty entries and the mirror saved.
Confirm(t) ==
    /\ pc[t] = "confirm"
    /\ \E left \in Left(cur[t]) :
          /\ dirty' = [dirty EXCEPT ![cur[t]] = left]
          /\ Goto(t, IF left > 0 THEN "mark" ELSE "unmark")
    /\ UNCHANGED <<temps, marked, lock, sched, failures, cur, ret, ok, more, calls>>

Unmark(t) ==
    /\ pc[t] = "unmark"
    /\ marked' = [marked EXCEPT ![cur[t]] = FALSE]
    /\ Goto(t, "forgive")
    /\ UNCHANGED <<dirty, temps, lock, sched, failures, cur, ret, ok, more, calls>>

-----------------------------------------------------------------------------
(* The failure state: retry count and dead letter.                         *)

\* _clear_checkpoint_failure_state: first the retry count ...
Forgive(t) ==
    /\ pc[t] = "forgive"
    /\ retry' = [retry EXCEPT ![cur[t]] = 0]
    /\ Goto(t, "absolve")
    /\ UNCHANGED <<dirty, temps, marked, lock, sched, dead, buried, cur, ret, ok, more, calls>>

\* ... then the dead letter.
Absolve(t) ==
    /\ pc[t] = "absolve"
    /\ dead' = [dead EXCEPT ![cur[t]] = FALSE]
    /\ Goto(t, IF ret[t] = "forgive" THEN "unlock" ELSE "idle")
    /\ UNCHANGED <<dirty, temps, marked, lock, sched, retry, buried, cur, ret, ok, more, calls>>

\* Mutant: the dead letter comes one failure too late.
RecordLate(t) ==
    /\ pc[t] = "record"
    /\ retry' = [retry EXCEPT ![cur[t]] = @ + 1]
    /\ Goto(t, IF retry[cur[t]] + 1 > MaxFailures THEN "bury" ELSE "due")
    /\ ret' = [ret EXCEPT ![t] = "idle"]
    /\ UNCHANGED <<dirty, temps, marked, lock, sched, dead, buried, cur, ok, more, calls>>

\* Mutant: a failure is counted but no retry is scheduled.
RecordNoRetry(t) ==
    /\ pc[t] = "record"
    /\ LET count == IF retry[cur[t]] < MaxFailures THEN retry[cur[t]] + 1 ELSE MaxFailures
       IN /\ retry' = [retry EXCEPT ![cur[t]] = count]
          /\ Goto(t, IF count = MaxFailures THEN "bury" ELSE "idle")
    /\ ret' = [ret EXCEPT ![t] = "idle"]
    /\ UNCHANGED <<dirty, temps, marked, lock, sched, dead, buried, cur, ok, more, calls>>

\* _record_checkpoint_failure, then the dead letter or a forced retry.
Record(t) ==
    /\ pc[t] = "record"
    /\ LET count == IF retry[cur[t]] < MaxFailures THEN retry[cur[t]] + 1 ELSE MaxFailures
       IN /\ retry' = [retry EXCEPT ![cur[t]] = count]
          /\ Goto(t, IF count = MaxFailures THEN "bury" ELSE "due")
    /\ ret' = [ret EXCEPT ![t] = "idle"]
    /\ UNCHANGED <<dirty, temps, marked, lock, sched, dead, buried, cur, ok, more, calls>>

\* The dead-letter payload is stored; after a flush that returned False the
\* schedule is cleared here, after one that raised it was cleared before.
Bury(t) ==
    /\ pc[t] = "bury"
    /\ dead' = [dead EXCEPT ![cur[t]] = TRUE]
    /\ buried' = [buried EXCEPT ![cur[t]] = TRUE]
    /\ Goto(t, IF ok[t] = "raised" THEN "idle" ELSE "unflag")
    /\ UNCHANGED <<dirty, temps, marked, lock, sched, retry, cur, ret, ok, more, calls>>

-----------------------------------------------------------------------------
(* The rest of a checkpoint cycle: clear the schedule, look again.         *)

\* Mutant: the schedule is cleared without leaving the enqueued set.
ClearFlagForgotten(t) ==
    /\ pc[t] = "unflag"
    /\ Goto(t, "undue")
    /\ UNCHANGED <<dirty, temps, marked, lock, sched, failures, cur, ret, ok, more, calls>>

ClearFlag(t) ==
    /\ pc[t] = "unflag"
    /\ enqueued' = [enqueued EXCEPT ![cur[t]] = FALSE]
    /\ Goto(t, "undue")
    /\ UNCHANGED <<dirty, temps, marked, lock, due, queue, failures, cur, ret, ok, more, calls>>

ClearDue(t) ==
    /\ pc[t] = "undue"
    /\ due' = [due EXCEPT ![cur[t]] = "none"]
    /\ Return(t)
    /\ UNCHANGED <<dirty, temps, marked, lock, enqueued, queue, failures, cur, ret, ok, more, calls>>

\* Mutant: a cycle that leaves dirty entries does not enqueue them.
LookAgainOnly(t) ==
    /\ pc[t] = "load"
    /\ more' = [more EXCEPT ![t] = dirty[cur[t]] > 0]
    /\ ret' = [ret EXCEPT ![t] = "done"]
    /\ Goto(t, "done")
    /\ UNCHANGED <<dirty, temps, marked, lock, sched, failures, cur, ok, calls>>

\* The mirror is loaded again, without the lock, to see whether it is dirty.
LookAgain(t) ==
    /\ pc[t] = "load"
    /\ more' = [more EXCEPT ![t] = dirty[cur[t]] > 0]
    /\ ret' = [ret EXCEPT ![t] = "done"]
    /\ Goto(t, IF dirty[cur[t]] > 0 THEN "check" ELSE "done")
    /\ UNCHANGED <<dirty, temps, marked, lock, sched, failures, cur, ok, calls>>

\* The end of a cycle. The worker looks at has_entries before it looks at
\* the result of the flush.
Done(t) ==
    /\ pc[t] = "done"
    /\ Goto(t, IF t \in Flushers \/ more[t] THEN "idle"
               ELSE IF ok[t] = "no" THEN "record" ELSE "forgive")
    /\ UNCHANGED <<dirty, temps, marked, lock, sched, failures, cur, ret, ok, more, calls>>

\* A due time comes.
Tick(w) ==
    /\ due[w] = "later"
    /\ due' = [due EXCEPT ![w] = "now"]
    /\ UNCHANGED <<dirty, temps, marked, lock, enqueued, queue, failures, pc, cur, ret, ok, more, calls>>

-----------------------------------------------------------------------------
Start(t) == \E w \in Workspaces : StartEdit(t, w) \/ StartFlush(t, w)

Advance(t) ==
    \/ Pop(t) \/ CheckDead(t) \/ CheckDue(t) \/ Requeue(t)
    \/ Acquire(t) \/ GiveUp(t) \/ Unlock(t)
    \/ Write(t) \/ Mark(t)
    \/ EnqueueCheck(t) \/ EnqueueDue(t) \/ EnqueueFlag(t) \/ EnqueuePush(t)
    \/ Snapshot(t) \/ CommitOk(t) \/ CommitFails(t) \/ Confirm(t) \/ Unmark(t)
    \/ Forgive(t) \/ Absolve(t) \/ Record(t) \/ Bury(t)
    \/ ClearFlag(t) \/ ClearDue(t) \/ LookAgain(t) \/ Done(t)

Next ==
    \/ \E t \in Threads : Start(t) \/ Advance(t)
    \/ \E w \in Workspaces : Tick(w)

Spec == Init /\ [][Next]_vars

(* Threads keep running, due times come, the lock is not refused for ever  *)
(* and the database is not down for ever. Nobody has to start an edit or a *)
(* flush. A batch that cannot hold every temporary id may fail for ever: a *)
(* new node whose new parent is outside has no row to hang on              *)
(* (checkpoint.py:389).                                                    *)
Commits(t) == CommitOk(t) /\ temps[cur[t]] <= Batch

Fairness ==
    /\ \A t \in Threads : WF_vars(Advance(t)) /\ SF_vars(Acquire(t)) /\ SF_vars(Commits(t))
    /\ \A w \in Workspaces : WF_vars(Tick(w))

LiveSpec == Spec /\ Fairness

(* A process dies: its threads start over and the lock it held expires.    *)
Crash(t) ==
    /\ pc[t] # "idle"
    /\ Goto(t, "idle")
    /\ lock' = [w \in Workspaces |-> IF lock[w] = t THEN NoOne ELSE lock[w]]
    /\ UNCHANGED <<dirty, temps, marked, sched, failures, cur, ret, ok, more, calls>>

CrashSpec == Init /\ [][Next \/ \E t \in Threads : Crash(t)]_vars

-----------------------------------------------------------------------------
(* Properties.                                                             *)

Queued(w) == \E i \in DOMAIN queue : queue[i] = w
Idle(t, w) == pc[t] = "idle" \/ cur[t] # w

\* No lost wake-up. A workspace with dirty entries on which no thread is
\* working is in the queue, so that a worker will flush it: neither the race
\* between an edit and the clearing of the schedule (checkpoint.py:309-314)
\* nor the one between SADD and RPUSH loses it. A workspace that has been
\* dead-lettered is left out: it waits for an explicit flush.
NoLostWakeup ==
    \A w \in Workspaces :
        (dirty[w] > 0 /\ ~buried[w] /\ \A t \in Threads : Idle(t, w)) => Queued(w)

\* The enqueued set never claims a token that nobody has: when no thread is
\* working on an enqueued workspace, its token is in the queue. A stale claim
\* would make every later enqueue a no-op (workspace_state_store.py:346).
FlagTruth ==
    \A w \in Workspaces :
        (enqueued[w] /\ \A t \in Threads : Idle(t, w)) => Queued(w)

\* The set of dirty workspaces, which the metrics report, is exact whenever
\* the lock of the workspace is free.
DirtySetTruth ==
    \A w \in Workspaces : lock[w] = NoOne => (marked[w] <=> dirty[w] > 0)

\* Edits become durable: a workspace is eventually clean or dead-lettered,
\* without any explicit flush, edits and flushes racing. Clean but for temporary
\* ids, which stay dirty for ever; and only as long as they leave room in a
\* batch for anything else.
EventuallyFlushed ==
    \A w \in Workspaces :
        dirty[w] > temps[w] ~> (dirty[w] = temps[w] \/ buried[w] \/ ~Room(w))
=============================================================================
