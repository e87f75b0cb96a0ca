------------------------------- MODULE Mirror -------------------------------
(***************************************************************************)
(* The workspace mirror (models.py, WorkspaceMirror) as a value, and the   *)
(* operations of the runtime on it (runtime/filesystem.py, fs_commands.py, *)
(* the pure parts of mirror/checkpoint.py). A node is known by its id: a   *)
(* positive id is a primary key of the database, a negative one is         *)
(* temporary, given to a node that has no row yet. A content is abstracted *)
(* to its version number. The indexes path_to_id and children_by_parent    *)
(* are not kept: they are functions of the nodes, rebuilt after every      *)
(* change.                                                                 *)
(***************************************************************************)
EXTENDS Integers, FiniteSets

CONSTANTS
    Names,      \* file and directory names
    Batch       \* MEMORY_CACHE_FLUSH_BATCH: entries persisted by one flush

ASSUME BatchAssumption == Batch \in Nat \ {0}

RootId == 1
NoParent == 0

\* Nodes carry, beside the fields of the code, the id they were created with:
\* a history field that tells two nodes apart when the one replaces the other.
Node(parent, name, kind, ver, born) ==
    [parent |-> parent, name |-> name, kind |-> kind, ver |-> ver, born |-> born]

Ids(m) == DOMAIN m.nodes
Restricted(f, S) == [i \in S |-> f[i]]

\* table, with the nodes of changes added or replaced.
Over(changes, table) ==
    [i \in DOMAIN changes \cup DOMAIN table |->
        IF i \in DOMAIN changes THEN changes[i] ELSE table[i]]

\* The version that a table of nodes has of the node created as k.
VersionIn(table, k) ==
    IF \E i \in DOMAIN table : table[i].born = k
    THEN table[CHOOSE i \in DOMAIN table : table[i].born = k].ver
    ELSE 0

\* The nodes a path component names: one, unless two nodes share a path.
Children(m, parent, name) ==
    {i \in Ids(m) : m.nodes[i].parent = parent /\ m.nodes[i].name = name}

IsDir(m, i) == i \in Ids(m) /\ m.nodes[i].kind = "dir"
IsFile(m, i) == i \in Ids(m) /\ m.nodes[i].kind = "file"

DirtyIds(m) == m.dirtyC \cup m.dirtyS
HasDirty(m) == DirtyIds(m) # {} \/ m.dirtyCwd

-----------------------------------------------------------------------------
(* Mutations: each maps the mirror to the mirror it leaves.                *)

\* Mutant: the version is counted from the node that was read.
WrittenFromCopy(m, i, node) ==
    LET new == [node EXCEPT !.ver = @ + 1]
    IN [m EXCEPT !.nodes = [j \in Ids(m) \cup {i} |-> IF j = i THEN new ELSE m.nodes[j]],
                 !.dirtyC = @ \cup {i}]

\* _mutate_write_file: a node that the mirror does not have is put back.
Written(m, i, node) ==
    LET old == IF i \in Ids(m) THEN m.nodes[i] ELSE node
        new == [old EXCEPT !.ver = @ + 1]
    IN [m EXCEPT !.nodes = [j \in Ids(m) \cup {i} |-> IF j = i THEN new ELSE m.nodes[j]],
                 !.dirtyC = @ \cup {i}]

\* _mutate_touch_existing_file: the content is dirty, the version stays.
Touched(m, i) == [m EXCEPT !.dirtyC = @ \cup {i}]

\* Mutant: temporary ids are counted upwards.
CreatedUp(m, parent, name, kind) ==
    LET i == m.next
        new == Node(parent, name, kind, 1, i)
    IN [m EXCEPT !.nodes = [j \in Ids(m) \cup {i} |-> IF j = i THEN new ELSE m.nodes[j]],
                 !.next = @ + 1,
                 !.dirtyS = @ \cup {i}]

\* _mutate_get_or_create_child_file and _dir, when the path is free.
Created(m, parent, name, kind) ==
    LET i == m.next
        new == Node(parent, name, kind, 1, i)
    IN [m EXCEPT !.nodes = [j \in Ids(m) \cup {i} |-> IF j = i THEN new ELSE m.nodes[j]],
                 !.next = @ - 1,
                 !.dirtyS = @ \cup {i}]

\* Mutant: the moved node is not marked dirty.
MovedQuietly(m, i, parent, name) ==
    LET new == [m.nodes[i] EXCEPT !.parent = parent, !.name = name, !.ver = @ + 1]
    IN [m EXCEPT !.nodes[i] = new]

\* _mutate_move_node.
Moved(m, i, parent, name) ==
    LET new == [m.nodes[i] EXCEPT !.parent = parent, !.name = name, !.ver = @ + 1]
    IN [m EXCEPT !.nodes[i] = new, !.dirtyS = @ \cup {i}]

\* _mutate_delete_node: a deleted node leaves the dirty sets as well.
Deleted(m, i) ==
    [m EXCEPT !.nodes = Restricted(@, Ids(m) \ {i}),
              !.dirtyC = @ \ {i},
              !.dirtyS = @ \ {i}]

\* _mutate_cd.
ChangedDir(m, i) == [m EXCEPT !.cwd = i, !.dirtyCwd = TRUE]

-----------------------------------------------------------------------------
(* Flushing: the batch that is snapshotted, and what its confirmation does *)
(* to the mirror.                                                          *)

\* The first n elements of a set of ids in ascending order.
First(S, n) == {i \in S : Cardinality({j \in S : j < i}) < n}

ContentBatch(m) == First(m.dirtyC, Batch)
StructureBatch(m) == First(m.dirtyS, Batch)

\* Mutant: the content ids are left out.
BatchIdsStructure(m) == StructureBatch(m)

\* The structure ids come first, then the content ids not among them.
BatchIds(m) ==
    LET structure == StructureBatch(m)
    IN structure \cup First(ContentBatch(m) \ structure, Batch - Cardinality(structure))

\* _snapshot_dirty_batch_locked: ids without a node have no payload.
Snapshot(m) ==
    [ids |-> BatchIds(m),
     content |-> ContentBatch(m),
     structure |-> StructureBatch(m),
     nodes |-> Restricted(m.nodes, BatchIds(m) \cap Ids(m)),
     cwd |-> m.cwd,
     cwdDirty |-> m.dirtyCwd]

NothingDirty(snap) == snap.ids = {} /\ ~snap.cwdDirty

\* A map from temporary to real ids, and its extension to all ids.
Real(remap, i) == IF i \in DOMAIN remap THEN remap[i] ELSE i
RealNode(remap, node) == [node EXCEPT !.parent = Real(remap, @)]

\* Mutant: the parents keep their temporary ids.
RemappedShallow(m, remap) ==
    LET temps == DOMAIN remap \cap Ids(m)
        ids == (Ids(m) \ temps) \cup {remap[i] : i \in temps}
        source(j) == IF \E i \in temps : remap[i] = j
                     THEN CHOOSE i \in temps : remap[i] = j ELSE j
    IN [m EXCEPT !.nodes = [j \in ids |-> m.nodes[source(j)]],
                 !.cwd = IF @ \in temps THEN remap[@] ELSE @]

\* The nodes of the mirror under their real ids.
Remapped(m, remap) ==
    LET temps == DOMAIN remap \cap Ids(m)
        ids == (Ids(m) \ temps) \cup {remap[i] : i \in temps}
        source(j) == IF \E i \in temps : remap[i] = j
                     THEN CHOOSE i \in temps : remap[i] = j ELSE j
    IN [m EXCEPT !.nodes = [j \in ids |-> RealNode(remap, m.nodes[source(j)])],
                 !.cwd = IF @ \in temps THEN remap[@] ELSE @]

\* Mutant: what is not in the batch is taken for flushed too.
ConfirmedAll(m, snap, remap) ==
    [Remapped(m, remap) EXCEPT !.dirtyC = {}, !.dirtyS = {}, !.dirtyCwd = FALSE]

\* Mutant: the node is not compared with what was written.
ConfirmedBlindly(m, snap, remap) ==
    LET done(S) == {Real(remap, i) : i \in DOMAIN snap.nodes \cap S}
    IN [Remapped(m, remap) EXCEPT !.dirtyC = @ \ done(snap.content),
                                  !.dirtyS = @ \ done(snap.structure),
                                  !.dirtyCwd = @ /\ ~snap.cwdDirty]

\* _confirm_flushed_snapshot_locked: a flushed id leaves a dirty set when the
\* snapshot covered that set and the node still is as it was written. The
\* dirty sets are not remapped: what leaves them is the real id.
Confirmed(m, snap, remap) ==
    LET now == Remapped(m, remap)
        same(i) == /\ Real(remap, i) \in Ids(now)
                   /\ now.nodes[Real(remap, i)] = RealNode(remap, snap.nodes[i])
        flushed == {i \in DOMAIN snap.nodes : same(i)}
        done(S) == {Real(remap, i) : i \in flushed \cap S}
    IN [now EXCEPT !.dirtyC = @ \ done(snap.content),
                   !.dirtyS = @ \ done(snap.structure),
                   !.dirtyCwd = @ /\ ~(snap.cwdDirty /\ now.cwd = snap.cwd)]
=============================================================================
