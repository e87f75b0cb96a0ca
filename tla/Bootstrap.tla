----------------------------- MODULE Bootstrap -----------------------------
(***************************************************************************)
(* How the runtime mirror of a workspace comes to be, and comes to be      *)
(* replaced: ensure and refresh (service_ops/bootstrap.py), called by      *)
(* hosts in several processes, one call at a time, beside the flushes that *)
(* run in the background, the hosts' own database transactions, and        *)
(* processes that restart.                                                 *)
(*                                                                         *)
(* The library writes rows through the session of the host and leaves the  *)
(* commit to it; a flush has a session of its own and does not see what    *)
(* the host has not committed. The first call of a process seeds the       *)
(* workspace and rebuilds the mirror from the rows, later ones find it in  *)
(* the process cache. Installing a mirror does not take the workspace lock.*)
(*                                                                         *)
(* A content is the number of the write that made it, SeedText for a seed. *)
(*                                                                         *)
(* The local store drops the lock object of a mirror that it deletes: the  *)
(* worker may go on with the old one, which nobody else uses any more. And *)
(* what it stores is the mirror itself, Redis stores copies.               *)
(***************************************************************************)
EXTENDS Integers, FiniteSets

CONSTANTS
    Stores,         \* stores to consider, of "local" and "redis"
    Callers,        \* handles on the workspace, each in a process of its own
    NoOne,
    Paths,          \* paths of files
    SeedsOf,        \* SeedsOf[c]: the files that the handle of c seeds
    Disciplined,    \* hosts commit after each call, and ensure comes first
    MaxCalls, MaxRestarts

ASSUME BootstrapAssumption ==
    /\ Stores \subseteq {"local", "redis"}
    /\ NoOne \notin Callers \cup {"worker", "host"}
    /\ SeedsOf \in [Callers -> SUBSET Paths]
    /\ Disciplined \in BOOLEAN
    /\ MaxCalls \in Nat /\ MaxRestarts \in Nat

VARIABLES
    store,      \* the store of this execution
    db,         \* committed rows: root, files, mode
    tx,         \* what the session of a host has written and not committed
    rt,         \* the mirror in the store, or NoMirror
    cached,     \* cached[c]: _workspace_cache of the process of c
    obj,        \* obj[c]: the access mode of the workspace object of c
    call,       \* the call in progress
    fl,         \* fl[f]: the flush of the worker, and of a host in flush()
    lock,       \* the flush that holds the workspace lock
    stray,      \* what a refresh has taken from under running flushes, see below
    count,      \* calls, restarts and roots so far
    hist        \* history, see below

vars == <<store, db, tx, rt, cached, obj, call, fl, lock, stray, count, hist>>

Modes == {"host", "agent"}
Flushers == {"worker", "host"}
Absent == 0
SeedText == 1
NoMode == "none"     \* metadata that no ensure has written; counts as "host"
NoFiles == [p \in Paths |-> Absent]
NoMirror == [root |-> 0]
NoTx == [by |-> NoOne, root |-> 0, new |-> NoFiles, mode |-> NoMode, locked |-> FALSE,
         shown |-> FALSE]
Idle == [at |-> "idle"]

\* The processes of the callers: with the local store there is only one.
SameProcess(c) == IF store = "local" THEN Callers ELSE {c}

(* History: raced: a flush ran while the mirror was built and installed,   *)
(* or put back one that a refresh had dropped, or took one without the     *)
(* lock; strayed: a flush has run without the lock; orphaned: rows that the *)
(* mirror was built from, or one that a flush may put back, were rolled    *)
(* back; promised: what the flushes of hosts said they had stored, of      *)
(* mirrors that are not orphaned;                                          *)
(* unconfirmed: a flush died after its transaction, so that the inserts of *)
(* the mirror's new files clash with their rows.                           *)
(* stray.lock: the worker has the old lock, or is about to acquire it;     *)
(* stray.mirrors: the flushes whose mirror is not the store's any more.    *)
Init ==
    /\ store \in Stores
    /\ db = [root |-> 0, files |-> NoFiles, mode |-> NoMode]
    /\ tx = NoTx
    /\ rt = NoMirror
    /\ cached = [c \in Callers |-> FALSE]
    /\ obj = [c \in Callers |-> NoMode]
    /\ call = Idle
    /\ fl = [f \in Flushers |-> Idle]
    /\ lock = NoOne
    /\ stray = [lock |-> FALSE, mirrors |-> {}]
    /\ count = [calls |-> 0, restarts |-> 0, roots |-> 0]
    /\ hist = [raced |-> FALSE, promised |-> NoFiles, orphaned |-> FALSE,
               unconfirmed |-> FALSE, strayed |-> FALSE]

\* What the host's session reads: its own writes over the committed rows.
Root == IF tx.root # 0 THEN tx.root ELSE db.root
Row(p) == IF tx.new[p] # Absent THEN tx.new[p] ELSE db.files[p]
RowMode == IF tx.mode # NoMode THEN tx.mode ELSE db.mode

Mirrored == rt # NoMirror
Mode(m) == IF m.mode = NoMode THEN "host" ELSE m.mode
Pending(m) == m.dirty # {} \/ m.dirtyMode
Dirty(m) == Pending(m) \/ m.ghosts
Building == call.at \in {"compare", "install"}

-----------------------------------------------------------------------------
(* Mirrors, as values.                                                     *)

\* Mutant: the clones get temporary ids.
BuiltTemporary ==
    [root |-> Root, files |-> [p \in Paths |-> Row(p)], real |-> {},
     mode |-> RowMode, dirty |-> {}, dirtyMode |-> FALSE,
     ghosts |-> FALSE]

\* build_workspace_mirror: the nodes and the metadata are read from the rows.
Built ==
    [root |-> Root, files |-> [p \in Paths |-> Row(p)],
     real |-> {p \in Paths : Row(p) # Absent},
     mode |-> RowMode, dirty |-> {}, dirtyMode |-> FALSE,
     ghosts |-> FALSE]

\* A file of the mirror is written; a new one has no row yet.
With(m, p, text) == [m EXCEPT !.files[p] = text, !.dirty = @ \cup {p}]

\* Mutant: a file that got a row keeps its temporary id.
ConfirmedUpdates(m, s) ==
    [m EXCEPT !.dirty = @ \ (s.paths \cap s.real), !.dirtyMode = @ /\ ~s.dirtyMode]

\* What a flush of the snapshot s leaves of the dirty marks of m. The mark of a
\* file that had no row is its temporary id, which stays behind as a ghost.
Confirmed(m, s) ==
    LET stored == {p \in s.paths : m.files[p] = s.files[p]}
    IN [m EXCEPT !.dirty = @ \ stored,
                 !.dirtyMode = @ /\ ~(s.dirtyMode /\ m.mode = s.mode),
                 !.real = @ \cup {p \in s.paths : m.files[p] # Absent},
                 !.ghosts = @ \/ ~(stored \subseteq s.real)]

-----------------------------------------------------------------------------
(* Calls. Every step but the first and the last changes call.at.           *)

Goto(at) == call' = [call EXCEPT !.at = at]
Caching(b) == [c \in Callers |-> IF c \in SameProcess(call.by) THEN b ELSE cached[c]]

\* After the workspace is there: what the call is for.
Ready == CASE call.op \in {"ensure", "refresh"} -> "return"
           [] call.op \in Modes -> "flush"
           [] OTHER -> "act"

Start(c) ==
    /\ call = Idle
    /\ tx.by \in {NoOne, c}
    /\ count.calls < MaxCalls
    /\ count' = [count EXCEPT !.calls = @ + 1]
    /\ \E op \in {"ensure", "refresh", "write", "host", "agent", "flush"}, p \in Paths :
          /\ Disciplined =>
                /\ tx = NoTx
                /\ op # "ensure" => cached[c] /\ Mirrored
          /\ op # "write" => p = CHOOSE q \in Paths : TRUE
          /\ call' = [at |-> CASE op = "flush" -> "flush"
                               [] op = "refresh" -> "current"
                               [] OTHER -> "look",
                      by |-> c, op |-> op, path |-> p, text |-> count.calls + 2,
                      todo |-> {}, cur |-> NoMirror, new |-> NoMirror,
                      fresh |-> FALSE, raced |-> FALSE,
                      known |-> cached[c] /\ Mirrored]
    /\ UNCHANGED <<store, db, tx, rt, cached, obj, fl, lock, stray, hist>>

\* Mutant: the workspace is prepared by every call.
LookNever ==
    /\ call.at = "look"
    /\ Goto("root")
    /\ UNCHANGED <<store, db, tx, rt, cached, obj, fl, lock, stray, count, hist>>

\* ensure: nothing to do when this process knows the workspace.
Look ==
    /\ call.at = "look"
    /\ Goto(IF cached[call.by] /\ Mirrored THEN Ready ELSE "root")
    /\ UNCHANGED <<store, db, tx, rt, cached, obj, fl, lock, stray, count, hist>>

NewRoot == tx' = [tx EXCEPT !.by = call.by, !.root = count.roots + 1]

\* The root row, and /workspace below it: a mirror built over another root
\* does not know that parent, and the call raises.
MakeRoot ==
    /\ call.at = "root"
    /\ LET missing == Root = 0
           root == IF missing THEN count.roots + 1 ELSE Root
       IN /\ IF missing THEN NewRoot ELSE UNCHANGED tx
          /\ count' = [count EXCEPT !.roots = IF missing THEN @ + 1 ELSE @]
          /\ call' = IF Mirrored /\ rt.root # root THEN [call EXCEPT !.at = "raised"]
                     ELSE [call EXCEPT !.at = "seed", !.todo = SeedsOf[call.by],
                                       !.fresh = missing /\ ~Mirrored]
    /\ UNCHANGED <<store, db, rt, cached, obj, fl, lock, stray, hist>>

\* seed_workspace_file: into the mirror when there is one, else as a row; a
\* file that exists is left alone. A new row makes the session send its
\* pending changes.
Seed(p) ==
    /\ call.at = "seed" /\ p \in call.todo
    /\ call' = [call EXCEPT !.todo = @ \ {p}]
    /\ IF Mirrored
       THEN /\ lock = NoOne
            /\ rt' = IF rt.files[p] = Absent THEN With(rt, p, SeedText) ELSE rt
            /\ UNCHANGED tx
       ELSE /\ tx' = IF Row(p) # Absent THEN tx
                     ELSE [tx EXCEPT !.by = call.by, !.new[p] = SeedText,
                                     !.locked = @ \/ tx.mode # NoMode]
            /\ UNCHANGED rt
    /\ UNCHANGED <<store, db, cached, obj, fl, lock, stray, count, hist>>

\* The metadata row is written when the caller's object is not as it should
\* be. A session row that is created next sends the change to the database,
\* where it locks the row of the workspace.
Meta ==
    /\ call.at = "seed" /\ call.todo = {}
    /\ IF obj[call.by] # NoMode THEN UNCHANGED <<tx, obj>>
       ELSE /\ tx' = [tx EXCEPT !.by = call.by, !.mode = "host",
                                !.locked = @ \/ call.fresh]
            /\ obj' = [obj EXCEPT ![call.by] = "host"]
    /\ Goto("build")
    /\ UNCHANGED <<store, db, rt, cached, fl, lock, stray, count, hist>>

Build ==
    /\ call.at = "build"
    /\ call' = [call EXCEPT !.new = Built,
                            !.at = IF call.op = "refresh" /\ ~call.fresh
                                   THEN "compare" ELSE "install"]
    /\ UNCHANGED <<store, db, tx, rt, cached, obj, fl, lock, stray, count, hist>>

Loading == {f \in Flushers : fl[f].at = "loaded"}

\* set_workspace_mirror and set_cached_workspace_state. In the local store a
\* flush keeps the mirror that it has loaded.
Install ==
    /\ call.at = "install"
    /\ rt' = call.new
    /\ cached' = Caching(TRUE)
    /\ LET flushing == \E f \in Flushers : fl[f] # Idle
       IN hist' = [hist EXCEPT !.raced = call.raced \/ flushing,
                               !.orphaned = @ /\ flushing, !.unconfirmed = FALSE]
    /\ stray' = IF store = "local" THEN [stray EXCEPT !.mirrors = Loading] ELSE stray
    /\ tx' = IF tx = NoTx THEN NoTx ELSE [tx EXCEPT !.shown = TRUE]
    /\ Goto(Ready)
    /\ UNCHANGED <<store, db, obj, fl, lock, count>>

\* delete_workspace_mirror and clear_cached_workspace_state. With the lock object
\* of the local store the worker is alone, where it has it already and where it
\* is between fetching and acquiring it.
Drop ==
    /\ rt' = NoMirror
    /\ cached' = Caching(FALSE)
    /\ IF store = "local" /\ Mirrored
       THEN \E astray \in {TRUE, stray.lock \/ lock = "worker"} :
              /\ stray' = [lock |-> astray, mirrors |-> Loading]
              /\ lock' = NoOne
              /\ hist' = [hist EXCEPT !.strayed = @ \/ (astray /\ fl["worker"] # Idle)]
       ELSE UNCHANGED <<lock, stray, hist>>

\* refresh: the mirror as it is, and the session row; without one the mirror
\* is dropped and root and session are created.
Current ==
    /\ call.at = "current"
    /\ IF Root # 0
       THEN /\ call' = [call EXCEPT !.at = "build", !.cur = rt]
            /\ UNCHANGED <<tx, rt, cached, lock, stray, count, hist>>
       ELSE /\ call' = [call EXCEPT !.at = "build", !.fresh = TRUE]
            /\ Drop
            /\ count' = [count EXCEPT !.roots = @ + 1]
            /\ NewRoot
    /\ UNCHANGED <<store, db, obj, fl>>

\* _refresh_signature: everything but the revisions and the next temporary
\* id. With the local store the current mirror is the live object.
Compare ==
    /\ call.at = "compare"
    /\ LET old == IF store = "local" THEN rt ELSE call.cur
           same == old # NoMirror /\ old = call.new
       IN /\ IF same THEN cached' = Caching(TRUE) /\ UNCHANGED <<rt, lock, stray, hist>>
                     ELSE Drop
          /\ Goto(IF same THEN "return" ELSE "install")
    /\ UNCHANGED <<store, db, tx, obj, fl, count>>

\* A write of the host or of a command, under the workspace lock. Without a
\* mirror the file's row would be read and its content go to the cache.
Write ==
    /\ call.at = "act" /\ call.op = "write"
    /\ lock = NoOne /\ Mirrored
    /\ rt' = With(rt, call.path, call.text)
    /\ Goto("return")
    /\ UNCHANGED <<store, db, tx, cached, obj, fl, lock, stray, count, hist>>

\* Mutant: the mirror's metadata is not marked, for the row is written anyway.
SwitchQuietly ==
    /\ call.at = "act" /\ call.op \in Modes
    /\ lock = NoOne /\ Mirrored
    /\ IF Mode(rt) = call.op THEN UNCHANGED <<rt, obj, tx>>
       ELSE /\ rt' = [rt EXCEPT !.mode = call.op]
            /\ obj' = [obj EXCEPT ![call.by] = call.op]
            /\ tx' = [tx EXCEPT !.by = call.by, !.mode = call.op]
    /\ Goto("return")
    /\ UNCHANGED <<store, db, cached, fl, lock, stray, count, hist>>

\* set_workspace_access_mode: the mirror, the caller's object, and the row.
SwitchMode ==
    /\ call.at = "act" /\ call.op \in Modes
    /\ lock = NoOne /\ Mirrored
    /\ IF Mode(rt) = call.op THEN UNCHANGED <<rt, obj, tx>>
       ELSE /\ rt' = [rt EXCEPT !.mode = call.op, !.dirtyMode = TRUE]
            /\ obj' = [obj EXCEPT ![call.by] = call.op]
            /\ tx' = [tx EXCEPT !.by = call.by, !.mode = call.op]
    /\ Goto("return")
    /\ UNCHANGED <<store, db, cached, fl, lock, stray, count, hist>>

Return ==
    /\ call.at \in {"return", "raised"}
    /\ call' = Idle
    /\ UNCHANGED <<store, db, tx, rt, cached, obj, fl, lock, stray, count, hist>>

\* A mutation waits 5 seconds for the lock in Redis, then raises.
TimesOut ==
    /\ store = "redis" /\ lock # NoOne
    /\ call.at = "act" \/ (call.at = "seed" /\ call.todo # {} /\ Mirrored)
    /\ Goto("raised")
    /\ UNCHANGED <<store, db, tx, rt, cached, obj, fl, lock, stray, count, hist>>

-----------------------------------------------------------------------------
(* Flushes: of the worker, and of a host in flush() or about to switch the *)
(* mode (flush_workspace_mirror).                                          *)

AfterFlush == IF call.op = "flush" THEN "return" ELSE "act"

\* The host finds nothing to flush, or gives up on the lock; both count as
\* a success.
SkipFlush ==
    /\ call.at = "flush" /\ fl["host"] = Idle
    /\ \/ lock = NoOne /\ ~(Mirrored /\ Dirty(rt))
       \/ lock # NoOne /\ store = "redis"
    /\ Goto(AfterFlush)
    /\ UNCHANGED <<store, db, tx, rt, cached, obj, fl, lock, stray, count, hist>>

\* The flush of the worker, with a lock object that is not the workspace's.
Astray(f) == f = "worker" /\ stray.lock

Take(f) ==
    /\ fl[f] = Idle
    /\ Astray(f) \/ lock = NoOne
    /\ Mirrored /\ Dirty(rt)
    /\ f = "host" => call.at = "flush"
    /\ lock' = IF Astray(f) THEN lock ELSE f
    /\ hist' = [hist EXCEPT !.strayed = @ \/ Astray(f), !.raced = @ \/ Astray(f)]
    /\ fl' = [fl EXCEPT ![f] = [at |-> "taken", paths |-> rt.dirty, files |-> rt.files,
                                real |-> rt.real, root |-> rt.root, mode |-> rt.mode,
                                dirtyMode |-> rt.dirtyMode, cur |-> NoMirror]]
    /\ UNCHANGED <<store, db, tx, rt, cached, obj, call, stray, count>>

\* The worker has the old lock object, and finds nothing to flush.
TurnBack(f) ==
    /\ fl[f] = Idle /\ Astray(f)
    /\ ~(Mirrored /\ Dirty(rt))
    /\ stray' = [stray EXCEPT !.lock = FALSE]
    /\ UNCHANGED <<store, db, tx, rt, cached, obj, call, fl, lock, count, hist>>

Noted == IF Building THEN [call EXCEPT !.raced = TRUE] ELSE call

\* Mutant: the lock is kept.
FinishedLocked(f, next) ==
    /\ fl' = [fl EXCEPT ![f] = Idle]
    /\ UNCHANGED <<lock, stray>>
    /\ call' = IF f = "host" THEN [next EXCEPT !.at = AfterFlush] ELSE next

\* What ends a flush: the lock is released and a waiting host goes on. (A flush
\* that saves a mirror which was replaced replaces those that others hold.)
Finished(f, next) ==
    /\ fl' = [fl EXCEPT ![f] = Idle]
    /\ lock' = IF Astray(f) THEN lock ELSE NoOne
    /\ stray' = [lock |-> stray.lock /\ ~Astray(f),
                  mirrors |-> (IF f \in stray.mirrors THEN Loading ELSE stray.mirrors) \ {f}]
    /\ call' = IF f = "host" THEN [next EXCEPT !.at = AfterFlush] ELSE next

\* Mutant: new files are left out.
StoredUpdates(s) ==
    [p \in Paths |-> IF p \in s.paths /\ db.files[p] # Absent THEN s.files[p]
                     ELSE db.files[p]]

\* Files with a row are updated, if the row is there to the flush; the others
\* are inserted.
StoredRows(s) ==
    [p \in Paths |-> IF p \in s.paths /\ (p \in s.real => db.files[p] # Absent)
                     THEN s.files[p] ELSE db.files[p]]

\* The transaction of a flush. An update of the workspace row waits for the
\* host whose session has changed it.
Store(f) ==
    /\ fl[f].at = "taken"
    /\ fl[f].dirtyMode => ~tx.locked
    /\ LET s == fl[f]
           new == s.paths \ s.real
       IN IF new # {} /\ (db.root # s.root \/ \E p \in new : db.files[p] # Absent)
          THEN /\ Finished(f, call)
               /\ UNCHANGED db
          ELSE /\ db' = [db EXCEPT !.files = StoredRows(s),
                                   !.mode = IF s.dirtyMode THEN s.mode ELSE @]
               /\ fl' = [fl EXCEPT ![f].at = "stored"]
               /\ call' = Noted
               /\ UNCHANGED <<lock, stray>>
    /\ UNCHANGED <<store, tx, rt, cached, obj, count, hist>>

\* The mirror is loaded again, and saved without the marks of what was stored.
Load(f) ==
    /\ fl[f].at = "stored"
    /\ IF Mirrored THEN /\ fl' = [fl EXCEPT ![f].at = "loaded", ![f].cur = rt]
                        /\ UNCHANGED <<lock, stray, call>>
       ELSE Finished(f, call)
    /\ UNCHANGED <<store, db, tx, rt, cached, obj, count, hist>>

\* What a flush has loaded: the live mirror of the local store, else a copy.
Held(f) == IF store = "local" /\ f \notin stray.mirrors THEN rt ELSE fl[f].cur

Save(f) ==
    /\ fl[f].at = "loaded"
    /\ rt' = Confirmed(Held(f), fl[f])
    /\ Finished(f, Noted)
    /\ hist' = [hist EXCEPT
          !.raced = @ \/ ~Mirrored,
          !.promised = [p \in Paths |-> IF f = "host" /\ ~hist.orphaned /\ p \in fl[f].paths
                                        THEN fl[f].files[p] ELSE @[p]]]
    /\ UNCHANGED <<store, db, tx, cached, obj, count>>

-----------------------------------------------------------------------------
(* The hosts' transactions, and restarts.                                  *)

HostCommit ==
    /\ call = Idle /\ tx # NoTx
    /\ db' = [root |-> Root, files |-> [p \in Paths |-> Row(p)], mode |-> RowMode]
    /\ tx' = NoTx
    /\ UNCHANGED <<store, rt, cached, obj, call, fl, lock, stray, count, hist>>

\* The process of c starts anew: its call ends, its session is rolled back,
\* its workspace object is read again. The local store goes with it; a worker
\* that flushes the Redis store may be in this process or in another one.
Restart(c) ==
    /\ count.restarts < MaxRestarts
    /\ count' = [count EXCEPT !.restarts = @ + 1]
    /\ cached' = [d \in Callers |-> IF d \in SameProcess(c) THEN FALSE ELSE cached[d]]
    /\ obj' = [d \in Callers |-> IF d \in SameProcess(c) THEN db.mode ELSE obj[d]]
    /\ \E ends \in [Flushers -> BOOLEAN] :
          /\ store = "local" => ends["worker"] /\ ends["host"]
          /\ ends["host"] <=> store = "local" \/ (call # Idle /\ call.by = c)
          /\ fl' = [f \in Flushers |-> IF ends[f] THEN Idle ELSE fl[f]]
          /\ lock' = IF lock # NoOne /\ ends[lock] THEN NoOne ELSE lock
          /\ stray' = IF store = "local" THEN [lock |-> FALSE, mirrors |-> {}] ELSE stray
    /\ call' = IF call # Idle /\ call.by \in SameProcess(c) THEN Idle ELSE call
    /\ rt' = IF store = "local" THEN NoMirror ELSE rt
    /\ LET undone == tx # NoTx /\ tx.by \in SameProcess(c)
       IN /\ tx' = IF undone THEN NoTx ELSE tx
          /\ hist' = [hist EXCEPT
                !.unconfirmed = @ \/ \E f \in Flushers : fl[f].at \in {"stored", "loaded"} /\ fl'[f] = Idle,
                !.orphaned = @ \/ (undone /\ tx.shown)]
    /\ UNCHANGED <<store, db>>

-----------------------------------------------------------------------------
(* An ensure that runs slow for a process that has the workspace in its    *)
(* cache is told from one that has not by Look alone.                      *)
CallStep ==
    \/ Look \/ MakeRoot \/ \E p \in Paths : Seed(p)
    \/ Meta \/ Build \/ Install \/ Current \/ Compare
    \/ Write \/ SwitchMode \/ Return \/ TimesOut \/ SkipFlush

FlushStep(f) == Take(f) \/ TurnBack(f) \/ Store(f) \/ Load(f) \/ Save(f)

Next ==
    \/ \E c \in Callers : Start(c) \/ Restart(c)
    \/ CallStep
    \/ \E f \in Flushers : FlushStep(f)
    \/ HostCommit

Spec == Init /\ [][Next]_vars

\* The worker starts a flush as long as the schedule works: with Redis, a worker
\* that dies may leave a claim that stops it for good (CheckpointQueue).
Scheduled == store = "local" \/ count.restarts = 0

\* The worker runs on its timer and pauses between flushes, so that a call
\* that waits for the lock gets it or gives up (strong fairness); and a host
\* ends its transaction once its calls have returned.
LiveSpec ==
    /\ Spec
    /\ SF_vars(CallStep \/ FlushStep("host"))
    /\ WF_vars(FlushStep("worker") /\ (fl["worker"] # Idle \/ Scheduled))
    /\ WF_vars(HostCommit)

-----------------------------------------------------------------------------
(* Properties.                                                             *)

Quiet == tx = NoTx /\ \A f \in Flushers : fl[f] = Idle

TypeOK ==
    /\ store \in Stores
    /\ db.root \in Nat /\ db.mode \in Modes \cup {NoMode}
    /\ db.files \in [Paths -> Nat]
    /\ tx.by \in Callers \cup {NoOne}
    /\ tx.by = NoOne <=> tx = NoTx
    /\ Mirrored => /\ rt.real \subseteq Paths /\ rt.files \in [Paths -> Nat]
                   /\ rt.dirty \subseteq {p \in Paths : rt.files[p] # Absent}
                   /\ {p \in Paths : rt.files[p] # Absent} \subseteq rt.real \cup rt.dirty
    /\ cached \in [Callers -> BOOLEAN]
    /\ obj \in [Callers -> Modes \cup {NoMode}]
    /\ lock \in Flushers \cup {NoOne}
    /\ \A f \in Flushers :
          /\ lock = f => fl[f] # Idle
          /\ fl[f] # Idle => lock = f \/ Astray(f)
    /\ stray.lock => store = "local" /\ lock # "worker"
    /\ stray.mirrors \subseteq Loading

\* A mirror with nothing to flush has what the database has: its files, and
\* its access mode. (Build and Install are not one step: while a flush runs
\* between them this may fail, see RefreshRealigns.)
CleanIsCurrent ==
    Mirrored /\ ~Pending(rt) /\ Quiet /\ ~hist.raced /\ ~hist.orphaned =>
        rt.files = db.files /\ rt.mode = db.mode

\* Every call but refresh and flush begins with an ensure. In a process that
\* has the workspace it undoes nothing, flushed or not. (A flush that a refresh
\* raced with may put the mirror back that the refresh replaced.)
OwnWorkIsKept ==
    [][call # Idle /\ call.op # "refresh" /\ call.known /\ Mirrored /\ rt' # NoMirror
              /\ ~hist.raced =>
          \A p \in Paths : rt'.files[p] >= rt.files[p]]_vars

\* Every call returns, also one that flushes.
CallsReturn == call # Idle ~> call = Idle

\* What was written is flushed in the end, or the mirror is replaced; unless
\* a crash, or a refresh during a flush, left rows and mirror at odds: then the
\* insert of a file that has a row fails at every flush, until a mirror is
\* built again. Nothing is claimed of Redis once a process has died.
EventuallyClean ==
    []<>(~Mirrored \/ ~Pending(rt) \/ hist.orphaned \/ hist.unconfirmed \/ hist.raced
            \/ ~Scheduled)

\* README.md:113, "Call `workspace.flush()` at a clear durability boundary":
\* what a host's flush has stored and confirmed is in the database once the
\* host commits. (Where the mirror shows rows that were rolled back, the flush
\* updates rows that are not there, and confirms them.)
PromisesAreKept ==
    tx = NoTx => \A p \in Paths : db.files[p] >= hist.promised[p]

\* They are unless a flush has run without the lock, beside later writes and
\* the flush that made the promise.
FlushIsDurable == hist.strayed \/ PromisesAreKept

\* docs/api_integration.en.md:386, "file/session/cwd mutations are only
\* considered successful after the runtime state has been written back to
\* Redis": an ensure does not undo them.
EnsureKeepsWork ==
    [][call.at = "install" /\ call.op # "refresh" /\ Mirrored =>
          \A p \in Paths : rt'.files[p] >= rt.files[p]]_vars

\* docs/api_integration.en.md:333, "its goal is to realign runtime state with
\* database state": a refresh that returns leaves no older content.
RefreshRealigns ==
    call.at = "return" /\ call.op = "refresh" =>
        \A p \in Paths : rt.files[p] >= db.files[p]
=============================================================================
