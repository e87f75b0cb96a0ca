--------------------------- MODULE WorkspaceFlush ---------------------------
(***************************************************************************)
(* One workspace: the runtime mirror, the commands that change it, and the *)
(* flushes that write it back to the database (flush_workspace_mirror in   *)
(* mirror/checkpoint.py) while the commands go on.                         *)
(*                                                                         *)
(* A command of the agent runs under the workspace lock from its path      *)
(* resolution to its save, so it is one step. The host's write_file        *)
(* resolves its path before it takes the lock, so it is two. A flush holds *)
(* the lock, which in Redis lives for 30 seconds; its transaction and the  *)
(* confirmation that follows are separate steps, between which the process *)
(* may die.                                                                *)
(*                                                                         *)
(* The database is PostgreSQL, with transactions and constraints, or the   *)
(* in-memory repositories of the ephemeral profiles, with neither.         *)
(***************************************************************************)
EXTENDS Mirror

CONSTANTS
    Flushers,       \* threads that flush: the worker, hosts in flush()
    Hosts,          \* host threads in write_file(..., overwrite=True)
    NoOne,          \* the holder of a free lock
    Commands,       \* the kinds of command the agent uses
    PostgreSQL,     \* TRUE: the persistent profile
    CanFail,        \* TRUE: a transaction may fail for no reason of its own
    CanExpire,      \* TRUE: a flush may outlive the time-to-live of its lock
    MaxCrashes,     \* bound on the deaths of the process of a flush
    Files,          \* names of the files that exist at first, in the root
    MaxVersion,     \* bound on the version of a node
    MaxTemp         \* bound on the number of nodes created

ASSUME FlushAssumption ==
    /\ NoOne \notin Flushers
    /\ Flushers \cap Hosts = {}
    /\ Files \subseteq Names
    /\ IsFiniteSet(Files)
    /\ MaxVersion \in Nat
    /\ MaxTemp \in Nat
    /\ {PostgreSQL, CanFail, CanExpire} \subseteq BOOLEAN
    /\ MaxCrashes \in Nat
    /\ MaxCrashes > 0 => PostgreSQL

VARIABLES
    mirror,     \* the saved mirror of the workspace
    rows,       \* the rows of its nodes: id -> node
    nextRow,    \* the next primary key
    cwdRow,     \* cwd_node_id of the session row
    pending,    \* uncommitted updates of rows in the host's own session
    lock,       \* the flusher that holds the workspace lock
    fpc,        \* fpc[f]: where flusher f is
    snap,       \* snap[f]: the batch it persists
    remap,      \* remap[f]: the real ids its transaction gave out
    asked,      \* asked[f]: history, the nodes when its flush was called
    answer,     \* answer[f]: what its last flush returned
    target,     \* target[h]: the node host h resolved, as it read it
    crashes     \* deaths so far

db == <<rows, nextRow, cwdRow>>
flush == <<fpc, snap, remap, asked, answer>>
vars == <<mirror, db, pending, lock, flush, target, crashes>>

Empty == [i \in {} |-> 0]
NoSnap == [ids |-> {}, content |-> {}, structure |-> {}, nodes |-> Empty,
           cwd |-> RootId, cwdDirty |-> FALSE]
NoTarget == [id |-> NoParent, node |-> Node(NoParent, NoParent, "file", 0, NoParent)]

Init ==
    /\ \E key \in [Files -> 2..(1 + Cardinality(Files))] :
          /\ \A a, b \in Files : a # b => key[a] # key[b]
          /\ rows = [i \in 1..(1 + Cardinality(Files)) |->
                        IF i = RootId THEN Node(NoParent, NoParent, "dir", 1, RootId)
                        ELSE Node(RootId, CHOOSE a \in Files : key[a] = i, "file", 1, i)]
    /\ nextRow = 2 + Cardinality(Files)
    /\ cwdRow = RootId
    /\ mirror = [nodes |-> rows, dirtyC |-> {}, dirtyS |-> {}, cwd |-> RootId,
                 dirtyCwd |-> FALSE, next |-> -1]
    /\ pending = Empty
    /\ lock = NoOne
    /\ fpc = [f \in Flushers |-> "idle"]
    /\ snap = [f \in Flushers |-> NoSnap]
    /\ remap = [f \in Flushers |-> Empty]
    /\ asked = [f \in Flushers |-> Empty]
    /\ answer = [f \in Flushers |-> "none"]
    /\ target = [h \in Hosts |-> NoTarget]
    /\ crashes = 0

-----------------------------------------------------------------------------
(* The transaction of a flush.                                             *)

Temps(S) == {i \in S : i < 0}

\* Payloads are written in rounds: one under a temporary parent waits until
\* the parent has got a row in this transaction. What gets written is the least
\* set with the payloads that need not wait and those that wait for one of it.
Placed(s) ==
    LET ids == DOMAIN s.nodes
        closed(T) == \A i \in ids :
                        s.nodes[i].parent >= 0 \/ s.nodes[i].parent \in T => i \in T
    IN {i \in ids : \A T \in SUBSET ids : closed(T) => i \in T}

AllPlaced(s) == Placed(s) = DOMAIN s.nodes

\* The keys that the temporary nodes of the batch get.
NewIds(s) ==
    LET temps == Temps(Placed(s))
    IN [i \in temps |-> nextRow + Cardinality({j \in temps : j > i})]

\* The payloads as rows; an update of a row that does not exist does nothing.
Inserts(s) ==
    LET new == NewIds(s)
    IN [k \in {new[i] : i \in DOMAIN new} |->
           RealNode(new, s.nodes[CHOOSE i \in DOMAIN new : new[i] = k])]
Updates(s) ==
    [i \in (Placed(s) \cap DOMAIN rows) |-> RealNode(NewIds(s), s.nodes[i])]

\* uq_virtual_file_node_path, and the foreign key to the parent.
SamePath(a, b) == a.parent = b.parent /\ a.name = b.name
Clash(node, i, table) == \E j \in DOMAIN table \ {i} : SamePath(node, table[j])
Consistent(table) ==
    \A i \in DOMAIN table : /\ ~Clash(table[i], i, table)
                            /\ table[i].parent \in DOMAIN table \cup {NoParent}

\* Rows are inserted one by one before the updates, the updates made in the
\* order of their keys, and PostgreSQL checks uniqueness at every statement.
UniqueAllAlong(s) ==
    LET ins == Inserts(s)
        upd == Updates(s)
        inserted == Over(ins, rows)
    IN /\ \A i \in DOMAIN ins : ~Clash(ins[i], i, inserted)
       /\ \A i \in DOMAIN upd :
             ~Clash(upd[i], i, Over(Restricted(upd, {j \in DOMAIN upd : j <= i}), inserted))

\* The transaction can be committed: no payload is left over, no constraint
\* broken; the cwd of the session is written as the snapshot has it.
Accepted(s) ==
    /\ AllPlaced(s)
    /\ PostgreSQL =>
          /\ UniqueAllAlong(s)
          /\ LET table == Over(Updates(s), Over(Inserts(s), rows))
             IN /\ Consistent(table)
                /\ s.cwdDirty => s.cwd \in DOMAIN table

PersistNodes(s) ==
    /\ rows' = Over(Updates(s), Over(Inserts(s), rows))
    /\ nextRow' = nextRow + Cardinality(DOMAIN NewIds(s))
    /\ UNCHANGED cwdRow

Persist(s) ==
    /\ rows' = Over(Updates(s), Over(Inserts(s), rows))
    /\ nextRow' = nextRow + Cardinality(DOMAIN NewIds(s))
    /\ cwdRow' = IF s.cwdDirty THEN s.cwd ELSE cwdRow

-----------------------------------------------------------------------------
(* Commands of the agent, under the lock.                                  *)

Command(kind) == kind \in Commands /\ lock = NoOne

\* mkdir, touch, cp and the redirects: a node where there was none.
Create(parent, name, kind) ==
    /\ Command("create")
    /\ IsDir(mirror, parent)
    /\ Children(mirror, parent, name) = {}
    /\ mirror.next >= -MaxTemp
    /\ mirror' = Created(mirror, parent, name, kind)
    /\ UNCHANGED <<db, pending, lock, flush, target, crashes>>

\* edit, patch, >| and >>: write_file on an existing file.
Edit(i) ==
    /\ Command("edit")
    /\ IsFile(mirror, i)
    /\ mirror.nodes[i].ver < MaxVersion
    /\ mirror' = Written(mirror, i, mirror.nodes[i])
    /\ UNCHANGED <<db, pending, lock, flush, target, crashes>>

Touch(i) ==
    /\ Command("touch")
    /\ IsFile(mirror, i)
    /\ mirror' = Touched(mirror, i)
    /\ UNCHANGED <<db, pending, lock, flush, target, crashes>>

\* mv: the move, then the update of the row, which the in-memory repository
\* makes at once and the SQL session of the host at its next commit.
MoveTo(i, parent, name) ==
    /\ mirror.nodes[i].ver < MaxVersion
    /\ mirror' = Moved(mirror, i, parent, name)
    /\ IF i \notin DOMAIN rows
       THEN UNCHANGED <<rows, pending>>
       ELSE IF PostgreSQL
            THEN /\ pending' = [j \in DOMAIN pending \cup {i} |->
                                   IF j = i THEN mirror'.nodes[i] ELSE pending[j]]
                 /\ UNCHANGED rows
            ELSE rows' = [rows EXCEPT ![i] = mirror'.nodes[i]] /\ UNCHANGED pending
    /\ UNCHANGED <<nextRow, cwdRow, lock, flush, target, crashes>>

\* mv to a path: refused when the path names a file.
Move(i, parent, name) ==
    /\ Command("mv")
    /\ IsFile(mirror, i) /\ IsDir(mirror, parent)
    /\ Children(mirror, parent, name) = {}
    /\ MoveTo(i, parent, name)

\* mv into a directory: the path becomes <directory>/<name>, and what that
\* path names is not looked at, except that a file already there stays there.
MoveInto(i, parent) ==
    /\ Command("mvinto")
    /\ IsFile(mirror, i) /\ IsDir(mirror, parent)
    /\ mirror.nodes[i].parent # parent
    /\ MoveTo(i, parent, mirror.nodes[i].name)

\* Mutant: the row of a removed node stays.
RemoveKeepsRow(i) ==
    /\ Command("rm")
    /\ IsFile(mirror, i)
    /\ mirror' = Deleted(mirror, i)
    /\ UNCHANGED <<db, pending, lock, flush, target, crashes>>

\* rm: the node leaves the mirror; the in-memory repository drops its row,
\* the SQL session refuses to delete an object it has not loaded.
Remove(i) ==
    /\ Command("rm")
    /\ IsFile(mirror, i)
    /\ mirror' = Deleted(mirror, i)
    /\ rows' = IF PostgreSQL THEN rows ELSE Restricted(rows, DOMAIN rows \ {i})
    /\ UNCHANGED <<nextRow, cwdRow, pending, lock, flush, target, crashes>>

Cd(i) ==
    /\ Command("cd")
    /\ IsDir(mirror, i)
    /\ mirror.cwd # i
    /\ mirror' = ChangedDir(mirror, i)
    /\ UNCHANGED <<db, pending, lock, flush, target, crashes>>

\* The host's session is committed; the update of a row that would break a
\* constraint raises and is lost with the rest of the session.
HostCommit ==
    /\ pending # Empty
    /\ pending' = Empty
    /\ LET new == [i \in DOMAIN rows |-> IF i \in DOMAIN pending THEN pending[i] ELSE rows[i]]
       IN rows' \in IF Consistent(new) THEN {new, rows} ELSE {rows}
    /\ UNCHANGED <<mirror, nextRow, cwdRow, lock, flush, target, crashes>>

-----------------------------------------------------------------------------
(* write_file of the host on an existing file.                             *)

\* resolve_path reads the mirror without the lock and copies the node.
HostResolve(h, i) ==
    /\ target[h] = NoTarget
    /\ IsFile(mirror, i)
    /\ mirror.nodes[i].ver < MaxVersion
    /\ target' = [target EXCEPT ![h] = [id |-> i, node |-> mirror.nodes[i]]]
    /\ UNCHANGED <<mirror, db, pending, lock, flush, crashes>>

\* _mutate_write_file, with the id that was read.
HostWrite(h) ==
    /\ target[h] # NoTarget
    /\ lock = NoOne
    /\ mirror' = Written(mirror, target[h].id, target[h].node)
    /\ target' = [target EXCEPT ![h] = NoTarget]
    /\ UNCHANGED <<db, pending, lock, flush, crashes>>

-----------------------------------------------------------------------------
(* A flush.                                                                *)

Goto(f, label) == fpc' = [fpc EXCEPT ![f] = label]

\* The flush ends with an answer, gives its lock back and forgets the rest.
Return(f, value) ==
    /\ answer' = [answer EXCEPT ![f] = value]
    /\ lock' = IF lock = f THEN NoOne ELSE lock
    /\ snap' = [snap EXCEPT ![f] = NoSnap]
    /\ remap' = [remap EXCEPT ![f] = Empty]
    /\ asked' = [asked EXCEPT ![f] = Empty]
    /\ Goto(f, "idle")

StartFlush(f) ==
    /\ fpc[f] = "idle"
    /\ HasDirty(mirror)
    /\ asked' = [asked EXCEPT ![f] = mirror.nodes]
    /\ answer' = [answer EXCEPT ![f] = "none"]
    /\ Goto(f, "lock")
    /\ UNCHANGED <<mirror, db, pending, lock, snap, remap, target, crashes>>

\* The lock is not to be had within five seconds: the flush answers True.
Refused(f) ==
    /\ fpc[f] = "lock"
    /\ lock # NoOne
    /\ Return(f, "true")
    /\ UNCHANGED <<mirror, db, pending, target, crashes>>

\* Mutant: the snapshot is taken without the lock.
TakeSnapshotUnlocked(f) ==
    /\ fpc[f] = "lock"
    /\ IF NothingDirty(Snapshot(mirror))
       THEN Return(f, "true")
       ELSE /\ snap' = [snap EXCEPT ![f] = Snapshot(mirror)]
            /\ Goto(f, "commit")
            /\ UNCHANGED <<lock, remap, asked, answer>>
    /\ UNCHANGED <<mirror, db, pending, target, crashes>>

\* The lock is taken, the mirror loaded and its dirty batch copied. Another
\* flush may have left nothing to do.
TakeSnapshot(f) ==
    /\ fpc[f] = "lock"
    /\ lock = NoOne
    /\ IF NothingDirty(Snapshot(mirror))
       THEN Return(f, "true")
       ELSE /\ lock' = f
            /\ snap' = [snap EXCEPT ![f] = Snapshot(mirror)]
            /\ Goto(f, "commit")
            /\ UNCHANGED <<remap, asked, answer>>
    /\ UNCHANGED <<mirror, db, pending, target, crashes>>

\* The transaction goes through.
Commit(f) ==
    /\ fpc[f] = "commit"
    /\ Accepted(snap[f])
    /\ Persist(snap[f])
    /\ remap' = [remap EXCEPT ![f] = NewIds(snap[f])]
    /\ Goto(f, "confirm")
    /\ UNCHANGED <<mirror, pending, lock, snap, asked, answer, target, crashes>>

\* Mutant: the snapshot is confirmed although it was not written.
FailConfirms(f) ==
    /\ fpc[f] = "commit"
    /\ CanFail \/ ~Accepted(snap[f])
    /\ mirror' = Confirmed(mirror, snap[f], remap[f])
    /\ Return(f, "false")
    /\ UNCHANGED <<db, pending, target, crashes>>

\* The transaction fails and is rolled back, where there is something that
\* can: the in-memory repositories keep what they were given before.
Fail(f) ==
    /\ fpc[f] = "commit"
    /\ CanFail \/ ~Accepted(snap[f])
    /\ IF PostgreSQL \/ AllPlaced(snap[f]) THEN UNCHANGED db ELSE PersistNodes(snap[f])
    /\ Return(f, "false")
    /\ UNCHANGED <<mirror, pending, target, crashes>>

\* The mirror is loaded again, the snapshot confirmed, the mirror saved.
Confirm(f) ==
    /\ fpc[f] = "confirm"
    /\ mirror' = Confirmed(mirror, snap[f], remap[f])
    /\ Return(f, "true")
    /\ UNCHANGED <<db, pending, target, crashes>>

\* The time-to-live of the lock passes while the flush is still running.
Expire(f) ==
    /\ CanExpire
    /\ lock = f
    /\ lock' = NoOne
    /\ UNCHANGED <<mirror, db, pending, flush, target, crashes>>

\* The process of the flush dies; Redis and PostgreSQL stay as they are.
Crash(f) ==
    /\ crashes < MaxCrashes
    /\ fpc[f] # "idle"
    /\ crashes' = crashes + 1
    /\ Return(f, "none")
    /\ UNCHANGED <<mirror, db, pending, target>>

-----------------------------------------------------------------------------
AgentStep ==
    \/ \E parent \in Ids(mirror), name \in Names, kind \in {"dir", "file"} :
          Create(parent, name, kind)
    \/ \E i \in Ids(mirror) : Edit(i) \/ Touch(i) \/ Remove(i) \/ Cd(i)
    \/ \E i, parent \in Ids(mirror) :
          MoveInto(i, parent) \/ \E name \in Names : Move(i, parent, name)

HostStep(h) == HostWrite(h) \/ \E i \in Ids(mirror) : HostResolve(h, i)

FlushStep(f) ==
    \/ StartFlush(f) \/ Refused(f) \/ TakeSnapshot(f)
    \/ Commit(f) \/ Fail(f) \/ Confirm(f)

Next ==
    \/ AgentStep
    \/ HostCommit
    \/ \E h \in Hosts : HostStep(h)
    \/ \E f \in Flushers : FlushStep(f) \/ Expire(f) \/ Crash(f)

Spec == Init /\ [][Next]_vars

(* A flush that has begun goes on, unless its process dies. Background     *)
(* flushes are begun again and again while the workspace is dirty, but     *)
(* only until a process dies: with Redis it may take the token of the      *)
(* queue along, and then none is begun any more (CheckpointQueue). The     *)
(* database is not down for ever, nor for so many flushes in a row that    *)
(* the workspace is dead-lettered.                                         *)
Underway(f) == fpc[f] # "idle" \/ crashes = 0

Completes == \A f \in Flushers : SF_vars(TakeSnapshot(f)) /\ SF_vars(Commit(f))

Fairness == Completes /\ \A f \in Flushers : WF_vars(FlushStep(f) /\ Underway(f))

LiveSpec == Spec /\ Fairness

\* Hosts call flush() again and again, also after a process has died.
RetrySpec == Spec /\ Completes /\ \A f \in Flushers : WF_vars(FlushStep(f))

-----------------------------------------------------------------------------
(* Properties.                                                             *)

InitialIds == 1..(1 + Cardinality(Files))
Keys == InitialIds \cup (-MaxTemp)..(-1)
RowIds == 1..(nextRow - 1)
Nodes == [parent : Int, name : Names \cup {NoParent}, kind : {"dir", "file"},
          ver : Nat, born : Keys]

TypeOK ==
    /\ Ids(mirror) \subseteq RowIds \cup (-MaxTemp)..(-1)
    /\ \A i \in Ids(mirror) : mirror.nodes[i] \in Nodes
    /\ DirtyIds(mirror) \subseteq RowIds \cup (-MaxTemp)..(-1)
    /\ mirror.next \in (-MaxTemp - 1)..(-1)
    /\ DOMAIN rows \subseteq RowIds
    /\ \A i \in DOMAIN rows : rows[i] \in Nodes
    /\ lock \in Flushers \cup {NoOne}
    /\ fpc \in [Flushers -> {"idle", "lock", "commit", "confirm"}]
    /\ answer \in [Flushers -> {"none", "true", "false"}]

\* A node that no dirty set names is in the database exactly as it is in the
\* mirror, and so is the cwd of the session: discarding an id from a dirty set
\* (checkpoint.py:192-203) never forgets a change.
CleanIsDurable ==
    lock = NoOne =>
        /\ \A i \in Ids(mirror) \ DirtyIds(mirror) :
              i \in DOMAIN rows /\ rows[i] = mirror.nodes[i]
        /\ mirror.dirtyCwd \/ cwdRow = mirror.cwd

\* The tree is a tree: one node per path, under a live directory, and the cwd
\* is a live directory. Temporary ids that have been replaced are named by
\* nobody.
TreeSound ==
    /\ \A i, j \in Ids(mirror) : i # j => ~SamePath(mirror.nodes[i], mirror.nodes[j])
    /\ \A i \in Ids(mirror) \ {RootId} : IsDir(mirror, mirror.nodes[i].parent)
    /\ IsDir(mirror, mirror.cwd)

\* A flush that answers True is a durability boundary: what the mirror held
\* when flush() was called, and still holds, has a row at least as new.
Has(table, node) == \E i \in DOMAIN table : table[i].born = node.born /\ table[i].ver >= node.ver
FlushIsDurable ==
    [][\A f \in Flushers :
          fpc[f] # "idle" /\ answer'[f] = "true" =>
              \A i \in DOMAIN asked[f] :
                  Has(mirror'.nodes, asked[f][i]) => Has(rows', asked[f][i])]_vars

\* Between flushes the database has no row of a node that is not in the mirror:
\* what was removed does not come back when the mirror is rebuilt from the rows.
RowsAreLive ==
    (\A f \in Flushers : fpc[f] = "idle") => DOMAIN rows \subseteq Ids(mirror)

\* A row never goes back to an older version of its node.
NoRegress ==
    [][\A i \in DOMAIN rows \cap DOMAIN rows' : rows'[i].ver >= rows[i].ver]_vars

\* Every version of a node becomes durable, unless the node is removed: edits
\* racing with flushes, transactions failing.
EventuallyDurable ==
    \A k \in Keys, v \in 1..MaxVersion :
        (\E i \in Ids(mirror) : mirror.nodes[i].born = k /\ mirror.nodes[i].ver = v)
            ~> ((\E i \in DOMAIN rows : rows[i].born = k /\ rows[i].ver >= v)
                  \/ \A i \in Ids(mirror) : mirror.nodes[i].born # k)

\* The flushes write back: the versions in the mirror and in the rows, node by
\* node, behave as WriteBack says.
Abstract == INSTANCE WriteBack WITH
    live <- [k \in Keys |-> VersionIn(mirror.nodes, k)],
    durable <- [k \in Keys |-> VersionIn(rows, k)]

WritesBack == Abstract!WSpec
=============================================================================
