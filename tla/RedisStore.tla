----------------------------- MODULE RedisStore -----------------------------
(***************************************************************************)
(* How RedisWorkspaceStateStore keeps one mirror in three Redis keys       *)
(* (workspace_state_store.py, workspace_state_serialization.py):           *)
(*    meta      dirty ids, cwd, next temporary id,                         *)
(*    base      all the nodes, as of the last full snapshot,               *)
(*    overlay   the dirty nodes, as of the last save that was not full.    *)
(* A mirror is loaded by laying the overlay over the base.                 *)
(*                                                                         *)
(* Writers hold the workspace lock from their load to the end of their     *)
(* save, so there is one at a time; the save is a sequence of commands,    *)
(* one step each, and the process may die between two of them. Readers     *)
(* (resolve_path, get_node_content, the access mode) take no lock and get  *)
(* the three keys one after the other. The flush of WorkspaceFlush is one  *)
(* writer here; the transaction it makes before its save is one step.      *)
(***************************************************************************)
EXTENDS Mirror

CONSTANTS
    Readers,        \* threads that load the mirror without the lock
    Commands,       \* kinds of writer: "create", "edit", "mv", "rm", "cd", "flush"
    Files,          \* names of the files that exist at first
    MaxVersion,     \* bound on the version of a node
    MaxTemp,        \* bound on the number of files created
    MaxCrashes      \* bound on the deaths of a writer

ASSUME StoreAssumption ==
    /\ Files \subseteq Names
    /\ IsFiniteSet(Files)
    /\ {MaxVersion, MaxTemp, MaxCrashes} \subseteq Nat

VARIABLES
    meta,           \* the first key
    base,           \* the second
    overlay,        \* the third; empty when it does not exist
    wpc,            \* the next command of the writer
    mem,            \* the mirror the writer is saving
    full,           \* TRUE: the save is a full snapshot
    acked,          \* history: the mirror of the last save that was completed
    durable,        \* durable[k]: version of node k in the database
    nextRow,        \* the next primary key
    rpc,            \* rpc[r]: the next command of reader r
    got,            \* got[r]: what it has got so far
    floor,          \* floor[r]: history, acked when its load began
    crashes         \* deaths so far

keys == <<meta, base, overlay>>
writer == <<wpc, mem, full, acked, durable, nextRow>>
reader == <<rpc, got, floor>>
vars == <<keys, writer, reader, crashes>>

Absent == [i \in {} |-> 0]
Meta(m) == [dirtyC |-> m.dirtyC, dirtyS |-> m.dirtyS, cwd |-> m.cwd,
            dirtyCwd |-> m.dirtyCwd, next |-> m.next]

\* deserialize_workspace_mirror.
Loaded(mt, bs, ov) ==
    [nodes |-> Over(ov, bs), dirtyC |-> mt.dirtyC, dirtyS |-> mt.dirtyS, cwd |-> mt.cwd,
     dirtyCwd |-> mt.dirtyCwd, next |-> mt.next]
Current == Loaded(meta, base, overlay)
NoMirror == Loaded([dirtyC |-> {}, dirtyS |-> {}, cwd |-> RootId, dirtyCwd |-> FALSE,
                    next |-> -1], Absent, Absent)

InitialIds == 1..(1 + Cardinality(Files))
Keys == InitialIds \cup (-MaxTemp)..(-1)

\* After the first save of a mirror that was built from the database.
Init ==
    /\ \E key \in [Files -> InitialIds \ {RootId}] :
          /\ \A a, b \in Files : a # b => key[a] # key[b]
          /\ base = [i \in InitialIds |->
                        IF i = RootId THEN Node(NoParent, NoParent, "dir", 1, RootId)
                        ELSE Node(RootId, CHOOSE a \in Files : key[a] = i, "file", 1, i)]
    /\ meta = [dirtyC |-> {}, dirtyS |-> {}, cwd |-> RootId, dirtyCwd |-> FALSE, next |-> -1]
    /\ overlay = Absent
    /\ wpc = "free"
    /\ mem = Current
    /\ full = FALSE
    /\ acked = Current
    /\ durable = [k \in Keys |-> IF k > 0 THEN 1 ELSE 0]
    /\ nextRow = 2 + Cardinality(Files)
    /\ rpc = [r \in Readers |-> "meta"]
    /\ got = [r \in Readers |-> NoMirror]
    /\ floor = [r \in Readers |-> NoMirror]
    /\ crashes = 0

-----------------------------------------------------------------------------
(* A writer, under the lock: it loads the mirror, changes it and saves it. *)

\* Mutant: a clean mirror is saved as an empty overlay.
NeedsFullDirty(m) == m.dirtyS # {} \/ \E i \in DirtyIds(m) : i <= 0

\* set_workspace_mirror chooses a full snapshot or an overlay. That the base
\* is missing, its last reason for a full snapshot, is not possible here.
NeedsFull(m) ==
    \/ DirtyIds(m) = {}
    \/ m.dirtyS # {}
    \/ \E i \in DirtyIds(m) : i <= 0

Save(m) ==
    /\ wpc = "free"
    /\ mem' = m
    /\ full' = NeedsFull(m)
    /\ wpc' = "meta"
    /\ UNCHANGED <<keys, acked, reader, crashes>>

SaveOnly(m) == Save(m) /\ UNCHANGED <<durable, nextRow>>

Create(name) ==
    /\ "create" \in Commands
    /\ Children(Current, RootId, name) = {}
    /\ Current.next >= -MaxTemp
    /\ SaveOnly(Created(Current, RootId, name, "file"))

Edit(i) ==
    /\ "edit" \in Commands
    /\ IsFile(Current, i)
    /\ Current.nodes[i].ver < MaxVersion
    /\ SaveOnly(Written(Current, i, Current.nodes[i]))

Move(i, name) ==
    /\ "mv" \in Commands
    /\ IsFile(Current, i)
    /\ Current.nodes[i].ver < MaxVersion
    /\ Children(Current, RootId, name) = {}
    /\ SaveOnly(Moved(Current, i, RootId, name))

Remove(i) ==
    /\ "rm" \in Commands
    /\ IsFile(Current, i)
    /\ SaveOnly(Deleted(Current, i))

Cd ==
    /\ "cd" \in Commands
    /\ ~Current.dirtyCwd
    /\ SaveOnly(ChangedDir(Current, RootId))

\* Mutant: the mirror is confirmed although nothing was committed.
FlushUncommitted ==
    LET s == Snapshot(Current)
        temps == {i \in DOMAIN s.nodes : i < 0}
        remap == [i \in temps |-> nextRow + Cardinality({j \in temps : j > i})]
    IN /\ "flush" \in Commands
       /\ ~NothingDirty(s)
       /\ UNCHANGED durable
       /\ nextRow' = nextRow + Cardinality(temps)
       /\ Save(Confirmed(Current, s, remap))

\* A flush: its batch is in the database before the confirmed mirror is saved.
Flush ==
    LET s == Snapshot(Current)
        temps == {i \in DOMAIN s.nodes : i < 0}
        remap == [i \in temps |-> nextRow + Cardinality({j \in temps : j > i})]
    IN /\ "flush" \in Commands
       /\ ~NothingDirty(s)
       /\ durable' = [k \in Keys |-> IF \E i \in DOMAIN s.nodes : s.nodes[i].born = k
                                     THEN VersionIn(s.nodes, k) ELSE durable[k]]
       /\ nextRow' = nextRow + Cardinality(temps)
       /\ Save(Confirmed(Current, s, remap))

\* Mutant: the overlay goes before the base is there to replace it.
SetMetaDropsOverlay ==
    /\ wpc = "meta"
    /\ meta' = Meta(mem)
    /\ overlay' = IF full THEN Absent ELSE overlay
    /\ wpc' = IF full THEN "base" ELSE "overlay"
    /\ UNCHANGED <<base, mem, full, acked, durable, nextRow, reader, crashes>>

\* The commands of a save, in their order: SET meta ...
SetMeta ==
    /\ wpc = "meta"
    /\ meta' = Meta(mem)
    /\ wpc' = IF full THEN "base" ELSE "overlay"
    /\ UNCHANGED <<base, overlay, mem, full, acked, durable, nextRow, reader, crashes>>

\* ... then SET base ...
SetBase ==
    /\ wpc = "base"
    /\ base' = mem.nodes
    /\ wpc' = "drop"
    /\ UNCHANGED <<meta, overlay, mem, full, acked, durable, nextRow, reader, crashes>>

\* ... and DEL overlay, or else SET overlay.
Complete ==
    /\ acked' = mem
    /\ wpc' = "free"
    /\ UNCHANGED <<meta, base, mem, full, durable, nextRow, reader, crashes>>

\* Mutant: a full snapshot leaves the overlay of the save before it.
DropOverlayForgotten ==
    /\ wpc = "drop"
    /\ UNCHANGED overlay
    /\ Complete

DropOverlay ==
    /\ wpc = "drop"
    /\ overlay' = Absent
    /\ Complete

\* Mutant: the overlay has only the node of this save.
SetOverlayLast ==
    /\ wpc = "overlay"
    /\ overlay' = Restricted(mem.nodes, {i \in DirtyIds(mem) \cap Ids(Current) :
                                             mem.nodes[i] # Current.nodes[i]})
    /\ Complete

\* _serialize_nodes_payload: the dirty nodes that the mirror has.
SetOverlay ==
    /\ wpc = "overlay"
    /\ overlay' = Restricted(mem.nodes, DirtyIds(mem) \cap Ids(mem))
    /\ Complete

\* The writer dies; its lock expires, and what it left is what there is.
Crash ==
    /\ wpc # "free"
    /\ crashes < MaxCrashes
    /\ crashes' = crashes + 1
    /\ wpc' = "free"
    /\ mem' = Current
    /\ acked' = Current
    /\ full' = FALSE
    /\ UNCHANGED <<keys, durable, nextRow, reader>>

-----------------------------------------------------------------------------
(* A reader: load_workspace_mirror, without the lock.                      *)

GetMeta(r) ==
    /\ rpc[r] = "meta"
    /\ got' = [got EXCEPT ![r] = Loaded(meta, Absent, Absent)]
    /\ floor' = [floor EXCEPT ![r] = acked]
    /\ rpc' = [rpc EXCEPT ![r] = "base"]
    /\ UNCHANGED <<keys, writer, crashes>>

GetBase(r) ==
    /\ rpc[r] = "base"
    /\ got' = [got EXCEPT ![r] = Loaded(Meta(@), base, Absent)]
    /\ rpc' = [rpc EXCEPT ![r] = "overlay"]
    /\ UNCHANGED <<keys, writer, floor, crashes>>

GetOverlay(r) ==
    /\ rpc[r] = "overlay"
    /\ got' = [got EXCEPT ![r] = Loaded(Meta(@), @.nodes, overlay)]
    /\ rpc' = [rpc EXCEPT ![r] = "done"]
    /\ UNCHANGED <<keys, writer, floor, crashes>>

\* The mirror is used and dropped; the next load starts from the first key.
Use(r) ==
    /\ rpc[r] = "done"
    /\ got' = [got EXCEPT ![r] = NoMirror]
    /\ floor' = [floor EXCEPT ![r] = NoMirror]
    /\ rpc' = [rpc EXCEPT ![r] = "meta"]
    /\ UNCHANGED <<keys, writer, crashes>>

-----------------------------------------------------------------------------
WriterStep ==
    \/ \E name \in Names : Create(name)
    \/ \E i \in Ids(Current) : Edit(i) \/ Remove(i) \/ \E name \in Names : Move(i, name)
    \/ Cd \/ Flush
    \/ SetMeta \/ SetBase \/ DropOverlay \/ SetOverlay

ReaderStep(r) == GetMeta(r) \/ GetBase(r) \/ GetOverlay(r) \/ Use(r)

Next == WriterStep \/ Crash \/ \E r \in Readers : ReaderStep(r)

Spec == Init /\ [][Next]_vars

-----------------------------------------------------------------------------
(* Properties.                                                             *)

RowIds == 1..(nextRow - 1)
NodeIds == RowIds \cup (-MaxTemp)..(-1)

TypeOK ==
    /\ DOMAIN base \cup DOMAIN overlay \cup Ids(mem) \subseteq NodeIds
    /\ meta.dirtyC \cup meta.dirtyS \subseteq NodeIds
    /\ meta.next \in (-MaxTemp - 1)..(-1)
    /\ wpc \in {"free", "meta", "base", "drop", "overlay"}
    /\ full \in BOOLEAN
    /\ durable \in [Keys -> 0..MaxVersion]
    /\ rpc \in [Readers -> {"meta", "base", "overlay", "done"}]
    /\ crashes \in 0..MaxCrashes

\* As long as no writer has died, whoever takes the lock next loads exactly the
\* mirror that was saved last: leaving the clean nodes out of a save
\* (workspace_state_store.py:247-261) neither revives nor reverts any of them.
ReadYourWrites == wpc = "free" /\ crashes = 0 => Current = acked

\* A node that the store calls clean is in the database at its version or a
\* newer one, even when a writer has died between two commands of its save.
CleanIsPersisted ==
    wpc = "free" =>
        \A i \in Ids(Current) \ DirtyIds(Current) :
            durable[Current.nodes[i].born] >= Current.nodes[i].ver

\* A dirty node loads as it was saved, whatever became of the clean ones.
DirtyIsExact ==
    wpc = "free" =>
        \A i \in DirtyIds(acked) \cap Ids(acked) :
            i \in Ids(Current) /\ Current.nodes[i] = acked.nodes[i]

\* The first death of a writer costs no change that was acknowledged before it.
CrashKeepsAcked ==
    [][crashes = 0 /\ crashes' # crashes =>
          \A k \in Keys : VersionIn(acked'.nodes, k) >= VersionIn(acked.nodes, k)]_vars

\* No death of a writer costs a change that was acknowledged before it. (The
\* overlay that the first death leaves behind can revert clean nodes in the
\* next save, and a later death makes that the mirror there is.)
EveryCrashKeepsAcked ==
    [][crashes' # crashes =>
          \A k \in Keys : VersionIn(acked'.nodes, k) >= VersionIn(acked.nodes, k)]_vars

\* As long as no writer has died, a load without the lock shows every node at
\* least at the version that a flush had confirmed when the load began, whatever
\* is saved meanwhile.
FlushedIsRead ==
    \A r \in Readers :
        rpc[r] = "done" /\ crashes = 0 =>
            \A i \in Ids(floor[r]) \ DirtyIds(floor[r]) :
                VersionIn(got[r].nodes, floor[r].nodes[i].born) >= floor[r].nodes[i].ver
=============================================================================
