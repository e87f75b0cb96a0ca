-------------------------- MODULE RedisStore_proofs --------------------------
(* Proofs about RedisStore, for every number of readers, files, crashes and  *)
(* every bound. What a dirty node loads as needs no assumption; what clean   *)
(* nodes load as holds until a writer dies, and only where nothing is        *)
(* removed and every flush takes all that is dirty: the runs                 *)
(* MCRedisStore_revived and redis_reverted show what happens elsewhere.      *)
EXTENDS RedisStore, Mirror_proofs

-----------------------------------------------------------------------------
(* The invariant.                                                           *)

\* Ids and dirty ids lie between the next temporary id and the next row.
Within(m, row) ==
    /\ m \in Mirrors
    /\ m.next < 0
    /\ \A i \in Ids(m) \cup DirtyIds(m) : m.next < i /\ i < row

Metas == [dirtyC : SUBSET Int, dirtyS : SUBSET Int, cwd : Int, dirtyCwd : BOOLEAN, next : Int]

Typed ==
    /\ meta \in Metas
    /\ base \in Tables
    /\ overlay \in Tables
    /\ acked \in Mirrors
    /\ wpc \in {"free", "meta", "base", "drop", "overlay"}
    /\ full \in BOOLEAN
    /\ nextRow \in Nat \ {0}
    /\ crashes \in Nat
    /\ rpc \in [Readers -> {"meta", "base", "overlay", "done"}]
    /\ got \in [Readers -> Mirrors]
    /\ floor \in [Readers -> Mirrors]
    /\ Within(Current, nextRow)
    /\ Within(mem, nextRow)
    /\ mem.next <= meta.next

\* What the commands of a save have done so far.
Saving ==
    /\ wpc \in {"base", "drop", "overlay"} => meta = Meta(mem)
    /\ wpc = "drop" => base = mem.nodes
    /\ wpc = "meta" => (full <=> NeedsFull(mem))
    /\ wpc = "overlay" => ~NeedsFull(mem)

\* Every node is told apart by the id it was created with, also from the next
\* one; a row that is dirty has a node.
Proper(m) ==
    /\ \A i \in Ids(m) : m.next < m.nodes[i].born
    /\ \A i, j \in Ids(m) : m.nodes[i].born = m.nodes[j].born => i = j
    /\ \A i \in DirtyIds(m) : i > 0 => i \in Ids(m)

\* n has every node of m, at the same version or a newer one; what has a row
\* keeps it.
Newer(n, m) ==
    /\ \A i \in Ids(m) :
          \E j \in Ids(n) : /\ n.nodes[j].born = m.nodes[i].born
                            /\ n.nodes[j].ver >= m.nodes[i].ver
    /\ \A i \in Ids(m) : i > 0 => i \in Ids(n) /\ n.nodes[i].born = m.nodes[i].born

\* The base has the clean nodes of m as they are, and no other node than m.
CleanInBase(m) ==
    /\ DOMAIN base \subseteq Ids(m)
    /\ \A i \in Ids(m) \ DirtyIds(m) : i \in DOMAIN base /\ base[i] = m.nodes[i]

\* The mirror the base belongs to.
Latest == IF wpc = "drop" THEN mem ELSE acked

\* A table has every node that m calls clean, at its version or a newer one.
Shows(table, m) ==
    \A i \in Ids(m) \ DirtyIds(m) :
        /\ \E j \in DOMAIN table : table[j].born = m.nodes[i].born
        /\ \A j \in DOMAIN table :
              table[j].born = m.nodes[i].born => table[j].ver >= m.nodes[i].ver

\* The ids of a table belong to the nodes that m has under them.
BornAs(table, m) ==
    \A j \in DOMAIN table : j > 0 => j \in Ids(m) /\ m.nodes[j].born = table[j].born

\* The keys, while no writer has died.
KeysInOrder ==
    /\ Proper(acked)
    /\ wpc # "free" => Proper(mem) /\ Newer(mem, acked)
    /\ wpc \in {"free", "meta"} => Current = acked
    /\ wpc # "drop" => Over(overlay, base) = acked.nodes /\ CleanInBase(acked)
    /\ (wpc = "meta" /\ ~full) \/ wpc = "overlay" => CleanInBase(mem)
    /\ \A j \in DOMAIN overlay : j > 0 /\ j \in Ids(acked) /\ overlay[j] = acked.nodes[j]
    /\ \A j \in DOMAIN base : j \in Ids(Latest) /\ Latest.nodes[j].born = base[j].born

\* A save of n after m leaves out only nodes that are as m had them.
Kept(n, m) ==
    /\ Ids(n) = Ids(m)
    /\ \A i \in Ids(n) \ DirtyIds(n) : i \notin DirtyIds(m) /\ n.nodes[i] = m.nodes[i]

Follows(n, m) == Proper(n) /\ Newer(n, m) /\ (NeedsFull(n) \/ Kept(n, m))

\* What readers have got, while no writer has died.
ReadersInOrder ==
    \A r \in Readers :
        /\ rpc[r] # "meta" => Shows(base, floor[r]) /\ Shows(acked.nodes, floor[r])
        /\ rpc[r] \in {"overlay", "done"} => Shows(got[r].nodes, floor[r])
        /\ rpc[r] = "overlay" => BornAs(got[r].nodes, Latest)

IInv == Typed /\ Saving /\ DirtyIsExact
Undisturbed == crashes = 0 => KeysInOrder /\ ReadersInOrder

\* All that is dirty has room in one flush.
Fits == wpc = "free" => Cardinality(DirtyIds(Current)) <= Batch

-----------------------------------------------------------------------------
(* Loading and saving as functions of the mirror.                           *)

LEMMA LoadedFacts ==
    ASSUME NEW mt \in Metas, NEW bs \in Tables, NEW ov \in Tables
    PROVE  LET m == Loaded(mt, bs, ov)
           IN /\ m \in Mirrors /\ m.nodes = Over(ov, bs)
              /\ Ids(m) = DOMAIN ov \cup DOMAIN bs
              /\ m.dirtyC = mt.dirtyC /\ m.dirtyS = mt.dirtyS
              /\ DirtyIds(m) = mt.dirtyC \cup mt.dirtyS
              /\ m.cwd = mt.cwd /\ m.dirtyCwd = mt.dirtyCwd /\ m.next = mt.next
<1>1. Over(ov, bs) \in Tables /\ DOMAIN Over(ov, bs) = DOMAIN ov \cup DOMAIN bs
    BY OverTable
<1> DEFINE table == Over(ov, bs)
<1> HIDE DEF table
<1>2. /\ [nodes |-> table, dirtyC |-> mt.dirtyC, dirtyS |-> mt.dirtyS, cwd |-> mt.cwd,
          dirtyCwd |-> mt.dirtyCwd, next |-> mt.next] \in Mirrors
      /\ DOMAIN table = DOMAIN ov \cup DOMAIN bs
    BY <1>1 DEF Mirrors, Metas, table
<1>3. QED
    BY <1>2 DEF Loaded, Ids, DirtyIds, table

LEMMA AbsentTable == Absent \in Tables /\ DOMAIN Absent = {}
<1>1. Absent \in [{} -> AnyNode]
    BY DEF Absent
<1>2. QED
    BY <1>1, TableIntro

LEMMA MetaFacts ==
    ASSUME NEW m \in Mirrors
    PROVE  /\ Meta(m) \in Metas
           /\ Meta(m).next = m.next
           /\ Meta(m).dirtyC = m.dirtyC /\ Meta(m).dirtyS = m.dirtyS
BY DEF Meta, Mirrors, Metas

\* What was saved is loaded, when the table under which it is found is its own.
LEMMA LoadedAsSaved ==
    ASSUME NEW m \in Mirrors, NEW bs \in Tables, NEW ov \in Tables, Over(ov, bs) = m.nodes
    PROVE  Loaded(Meta(m), bs, ov) = m
<1>1. Meta(m) \in Metas
    BY MetaFacts
<1>2. Loaded(Meta(m), bs, ov) \in Mirrors /\ Loaded(Meta(m), bs, ov).nodes = m.nodes
    BY <1>1, LoadedFacts
<1>3. QED
    BY <1>1, <1>2, LoadedFacts, MirrorEqual DEF Meta

\* Laying nothing over a table leaves it.
LEMMA OverNothing ==
    ASSUME NEW table \in Tables
    PROVE  Over(Absent, table) = table
<1>1. table \in [DOMAIN table -> AnyNode]
    BY TableFacts
<1>2. QED
    BY <1>1, AbsentTable DEF Over

-----------------------------------------------------------------------------
(* The changes a writer makes.                                              *)

LEMMA EditFollows ==
    ASSUME NEW row \in Nat \ {0}, NEW m, Within(m, row), NEW i \in Ids(m)
    PROVE  LET n == Written(m, i, m.nodes[i])
           IN /\ Within(n, row) /\ n.next <= m.next
              /\ Proper(m) => Follows(n, m)
<1> DEFINE n == Written(m, i, m.nodes[i])
<1>1. /\ m \in Mirrors /\ m.next \in Int /\ i \in Int
      /\ \A j \in Ids(m) : m.nodes[j] \in AnyNode
    BY TableFacts DEF Within, Mirrors, Ids
<1>2. /\ n \in Mirrors /\ Ids(n) = Ids(m) /\ n.next = m.next
      /\ n.dirtyC = m.dirtyC \cup {i} /\ n.dirtyS = m.dirtyS
      /\ \A j \in Ids(m) : /\ n.nodes[j].born = m.nodes[j].born
                           /\ n.nodes[j].ver >= m.nodes[j].ver
      /\ \A j \in Ids(m) \ {i} : n.nodes[j] = m.nodes[j]
    <2>1. m.nodes[i] \in AnyNode
        BY <1>1
    <2>2. /\ n \in Mirrors /\ Ids(n) = Ids(m) \cup {i} /\ n.next = m.next
          /\ n.dirtyC = m.dirtyC \cup {i} /\ n.dirtyS = m.dirtyS
          /\ \A j \in Ids(m) \ {i} : n.nodes[j] = m.nodes[j]
          /\ n.nodes[i].born = m.nodes[i].born /\ n.nodes[i].ver = m.nodes[i].ver + 1
        <3> DEFINE node == m.nodes[i]
                   new == Written(m, i, node)
        <3>1. node \in AnyNode /\ i \in Ids(m) /\ Ids(m) \cup {i} = Ids(m)
            BY <2>1
        <3> HIDE DEF node
        <3>2. /\ new \in Mirrors /\ Ids(new) = Ids(m) \cup {i} /\ new.next = m.next
              /\ new.dirtyC = m.dirtyC \cup {i} /\ new.dirtyS = m.dirtyS
              /\ \A j \in Ids(m) \ {i} : new.nodes[j] = m.nodes[j]
              /\ new.nodes[i].born = m.nodes[i].born /\ new.nodes[i].ver = m.nodes[i].ver + 1
            BY <1>1, <3>1, WrittenFacts
        <3>3. QED
            BY <3>1, <3>2 DEF node
    <2>3. \A j \in Ids(m) : m.nodes[j].ver \in Nat
        BY <1>1 DEF AnyNode
    <2> HIDE DEF n
    <2>4. n.nodes[i].ver >= m.nodes[i].ver
        BY <2>2, <2>3
    <2>5. \A j \in Ids(m) \ {i} : n.nodes[j].born = m.nodes[j].born
                                 /\ n.nodes[j].ver >= m.nodes[j].ver
        BY <2>2, <2>3
    <2>6. Ids(n) = Ids(m)
        BY <2>2
    <2>7. QED
        BY <2>2, <2>4, <2>5, <2>6
<1> HIDE DEF n
<1>3. Within(n, row)
    BY <1>2 DEF Within, DirtyIds
<1>4. Proper(m) => Proper(n) /\ Newer(n, m) /\ Kept(n, m)
    BY <1>2 DEF Proper, Newer, Kept, DirtyIds
<1>5. QED
    BY <1>1, <1>2, <1>3, <1>4 DEF n, Follows

LEMMA MoveFollows ==
    ASSUME NEW row \in Nat \ {0}, NEW m, Within(m, row), NEW i \in Ids(m), NEW name \in Names
    PROVE  LET n == Moved(m, i, RootId, name)
           IN /\ Within(n, row) /\ n.next <= m.next
              /\ Proper(m) => Follows(n, m)
<1> DEFINE n == Moved(m, i, RootId, name)
<1>1. /\ m \in Mirrors /\ m.next \in Int /\ i \in Int /\ RootId \in Int
      /\ \A j \in Ids(m) : m.nodes[j] \in AnyNode
    BY TableFacts DEF Within, Mirrors, Ids, RootId
<1>2. /\ n \in Mirrors /\ Ids(n) = Ids(m) /\ n.next = m.next
      /\ n.dirtyC = m.dirtyC /\ n.dirtyS = m.dirtyS \cup {i}
      /\ \A j \in Ids(m) : /\ n.nodes[j].born = m.nodes[j].born
                           /\ n.nodes[j].ver >= m.nodes[j].ver
    <2>1. /\ n \in Mirrors /\ Ids(n) = Ids(m) /\ n.next = m.next
          /\ n.dirtyC = m.dirtyC /\ n.dirtyS = m.dirtyS \cup {i}
          /\ \A j \in Ids(m) \ {i} : n.nodes[j] = m.nodes[j]
          /\ n.nodes[i].born = m.nodes[i].born /\ n.nodes[i].ver = m.nodes[i].ver + 1
        BY <1>1, MovedFacts
    <2>2. \A j \in Ids(m) : m.nodes[j].ver \in Nat
        BY <1>1 DEF AnyNode
    <2>3. QED
        BY <2>1, <2>2
<1> HIDE DEF n
<1>3. Within(n, row) /\ NeedsFull(n)
    BY <1>2 DEF Within, DirtyIds, NeedsFull
<1>4. Proper(m) => Proper(n) /\ Newer(n, m)
    BY <1>2 DEF Proper, Newer, DirtyIds
<1>5. QED
    BY <1>1, <1>2, <1>3, <1>4 DEF n, Follows

LEMMA CreateFollows ==
    ASSUME NEW row \in Nat \ {0}, NEW m, Within(m, row), NEW name \in Names
    PROVE  LET n == Created(m, RootId, name, "file")
           IN /\ Within(n, row) /\ n.next <= m.next
              /\ Proper(m) => Follows(n, m)
<1> DEFINE n == Created(m, RootId, name, "file")
           new == Node(RootId, name, "file", 1, m.next)
<1>1. /\ m \in Mirrors /\ m.next \in Int /\ RootId \in Int /\ m.next < 0
      /\ \A j \in Ids(m) : m.nodes[j] \in AnyNode
      /\ Ids(m) \in SUBSET Int /\ DirtyIds(m) \in SUBSET Int
    BY TableFacts DEF Within, Mirrors, Ids, RootId, DirtyIds
<1>2. /\ n \in Mirrors /\ Ids(n) = Ids(m) \cup {m.next} /\ n.next = m.next - 1
      /\ n.dirtyC = m.dirtyC /\ n.dirtyS = m.dirtyS \cup {m.next}
      /\ n.nodes[m.next] = new
      /\ \A j \in Ids(m) \ {m.next} : n.nodes[j] = m.nodes[j]
    BY <1>1, CreatedFacts
<1>3. new.born = m.next
    BY DEF Node
<1>4. m.next \notin Ids(m) /\ m.next < row
    BY <1>1 DEF Within
<1> HIDE DEF n, new
<1>5. \A j \in Ids(m) : n.nodes[j] = m.nodes[j]
    BY <1>2, <1>4
<1>6. NeedsFull(n) /\ DirtyIds(n) = DirtyIds(m) \cup {m.next}
    BY <1>2 DEF NeedsFull, DirtyIds
<1>7. Within(n, row)
    BY <1>1, <1>2, <1>4, <1>6 DEF Within
<1>8. ASSUME Proper(m) PROVE Proper(n) /\ Newer(n, m)
    <2>1. \A j \in Ids(m) : m.nodes[j].ver \in Nat /\ m.nodes[j].born \in Int
        BY <1>1 DEF AnyNode
    <2>2. \A j \in Ids(n) : n.next < n.nodes[j].born
        BY <1>1, <1>2, <1>3, <1>5, <1>8, <2>1 DEF Proper
    <2>3. \A j, k \in Ids(n) : n.nodes[j].born = n.nodes[k].born => j = k
        BY <1>1, <1>2, <1>3, <1>5, <1>8, <2>1 DEF Proper
    <2>4. \A j \in DirtyIds(n) : j > 0 => j \in Ids(n)
        BY <1>1, <1>2, <1>6, <1>8 DEF Proper
    <2>5. Newer(n, m)
        BY <1>2, <1>5, <2>1 DEF Newer
    <2>6. QED
        BY <2>2, <2>3, <2>4, <2>5 DEF Proper
<1>9. QED
    BY <1>1, <1>2, <1>6, <1>7, <1>8 DEF n, Follows

LEMMA CdFollows ==
    ASSUME NEW row \in Nat \ {0}, NEW m, Within(m, row)
    PROVE  LET n == ChangedDir(m, RootId)
           IN /\ Within(n, row) /\ n.next <= m.next
              /\ Proper(m) => Follows(n, m)
<1> DEFINE n == ChangedDir(m, RootId)
<1>1. m \in Mirrors /\ m.next \in Int /\ RootId \in Int
    BY DEF Within, Mirrors, RootId
<1>2. /\ n \in Mirrors /\ n.nodes = m.nodes /\ n.next = m.next
      /\ n.dirtyC = m.dirtyC /\ n.dirtyS = m.dirtyS
    BY <1>1, ChangedDirFacts
<1>3. \A j \in Ids(m) : m.nodes[j].ver \in Nat
    BY <1>1, TableFacts DEF Mirrors, Ids, AnyNode
<1> HIDE DEF n
<1>4. Within(n, row)
    BY <1>2 DEF Within, DirtyIds, Ids
<1>5. Proper(m) => Proper(n) /\ Newer(n, m) /\ Kept(n, m)
    BY <1>2, <1>3 DEF Proper, Newer, Kept, DirtyIds, Ids
<1>6. QED
    BY <1>1, <1>2, <1>4, <1>5 DEF n, Follows

LEMMA RemoveWithin ==
    ASSUME NEW row \in Nat \ {0}, NEW m, Within(m, row), NEW i \in Ids(m)
    PROVE  LET n == Deleted(m, i)
           IN Within(n, row) /\ n.next <= m.next
<1> DEFINE n == Deleted(m, i)
<1>1. m \in Mirrors /\ m.next \in Int
    BY DEF Within, Mirrors
<1>2. /\ n \in Mirrors /\ Ids(n) = Ids(m) \ {i} /\ n.next = m.next
      /\ n.dirtyC = m.dirtyC \ {i} /\ n.dirtyS = m.dirtyS \ {i}
    BY <1>1, DeletedFacts
<1> HIDE DEF n
<1>3. Within(n, row)
    BY <1>2 DEF Within, DirtyIds
<1>4. QED
    BY <1>1, <1>2, <1>3 DEF n

\* The nodes of a batch that have no row yet, and the keys they get.
Temps(m) == {i \in DOMAIN Snapshot(m).nodes : i < 0}
NewKeys(m, row) == [i \in Temps(m) |-> row + Cardinality({j \in Temps(m) : j > i})]

LEMMA FlushKeys ==
    ASSUME NEW row \in Nat \ {0}, NEW m, Within(m, row)
    PROVE  /\ IsFiniteSet(Ids(m)) /\ IsFiniteSet(DirtyIds(m))
           /\ IsFiniteSet(Temps(m)) /\ Cardinality(Temps(m)) \in Nat
           /\ Temps(m) \in SUBSET Ids(m)
           /\ Fresh(m, NewKeys(m, row)) /\ DOMAIN NewKeys(m, row) = Temps(m)
           /\ \A i \in Temps(m) : /\ NewKeys(m, row)[i] \in Int
                                  /\ NewKeys(m, row)[i] >= row
                                  /\ NewKeys(m, row)[i] < row + Cardinality(Temps(m))
<1> DEFINE remap == NewKeys(m, row)
<1>1. /\ m \in Mirrors /\ m.next \in Int
      /\ Ids(m) \in SUBSET Int /\ DirtyIds(m) \in SUBSET Int
    BY TableFacts DEF Within, Mirrors, Ids, DirtyIds
<1>2. /\ IsFiniteSet(m.next..row)
      /\ Ids(m) \in SUBSET (m.next..row)
      /\ DirtyIds(m) \in SUBSET (m.next..row)
    <2>1. IsFiniteSet(m.next..row)
        BY <1>1, FS_Interval
    <2>2. \A i \in Ids(m) \cup DirtyIds(m) : i \in Int /\ m.next < i /\ i < row
        BY <1>1 DEF Within
    <2>3. \A i \in Ids(m) \cup DirtyIds(m) : i \in m.next..row
        BY <1>1, <2>2
    <2>4. QED
        BY <2>1, <2>3
<1>3. IsFiniteSet(Ids(m)) /\ IsFiniteSet(DirtyIds(m))
    BY <1>2, FS_Subset
<1>4. Temps(m) \in SUBSET Ids(m) /\ \A i \in Temps(m) : i < 0
    BY DEF Temps, Snapshot, Restricted
<1>5. IsFiniteSet(Temps(m)) /\ Cardinality(Temps(m)) \in Nat
    BY <1>3, <1>4, FS_Subset, FS_CardinalityType
<1>6. FreshKeys(Temps(m), row, remap)
    BY DEF FreshKeys, NewKeys
<1>7. /\ DOMAIN remap = Temps(m)
      /\ \A i \in Temps(m) : remap[i] \in row..(row + Cardinality(Temps(m)) - 1)
      /\ \A i, j \in Temps(m) : remap[i] = remap[j] => i = j
    BY <1>1, <1>4, <1>5, <1>6, FreshKeysDiffer
<1>8. \A i \in Temps(m) : /\ remap[i] \in Int
                          /\ remap[i] >= row
                          /\ remap[i] < row + Cardinality(Temps(m))
    BY <1>5, <1>7
<1>9. \A i \in Temps(m) : remap[i] \notin Ids(m)
    BY <1>8 DEF Within
<1>10. remap \in [Temps(m) -> Int]
    BY <1>8 DEF NewKeys
<1> HIDE DEF remap
<1>11. Fresh(m, remap)
    BY <1>1, <1>4, <1>7, <1>9, <1>10 DEF Fresh
<1>12. QED
    BY <1>3, <1>4, <1>5, <1>7, <1>8, <1>11 DEF remap

LEMMA SnapshotFacts ==
    ASSUME NEW m \in Mirrors
    PROVE  /\ DOMAIN Snapshot(m).nodes = BatchIds(m) \cap Ids(m)
           /\ \A i \in BatchIds(m) \cap Ids(m) : Snapshot(m).nodes[i] = m.nodes[i]
           /\ Snapshot(m).content = ContentBatch(m)
           /\ Snapshot(m).structure = StructureBatch(m)
           /\ Snapshot(m).cwdDirty \in BOOLEAN
BY DEF Snapshot, Restricted, Mirrors

\* What a flush confirms: the nodes are the same under their real ids, and
\* what is left dirty of what was in the batch is no row.
LEMMA FlushFacts ==
    ASSUME NEW row \in Nat \ {0}, NEW m, Within(m, row)
    PROVE  LET remap == NewKeys(m, row)
               n == Confirmed(m, Snapshot(m), remap)
           IN /\ n \in Mirrors /\ n.next = m.next
              /\ Ids(n) = {Real(remap, i) : i \in Ids(m)}
              /\ \A i \in Ids(m) : /\ n.nodes[Real(remap, i)].born = m.nodes[i].born
                                   /\ n.nodes[Real(remap, i)].ver = m.nodes[i].ver
              /\ \A i, j \in Ids(m) : Real(remap, i) = Real(remap, j) => i = j
              /\ \A i \in Ids(m) : i > 0 => Real(remap, i) = i
              /\ n.dirtyC \in SUBSET m.dirtyC /\ n.dirtyS \in SUBSET m.dirtyS
              /\ \A i \in BatchIds(m) \cap Ids(m) :
                    i > 0 => /\ i \in ContentBatch(m) => i \notin n.dirtyC
                             /\ i \in StructureBatch(m) => i \notin n.dirtyS
<1> DEFINE remap == NewKeys(m, row)
           s == Snapshot(m)
           now == Remapped(m, remap)
           n == Confirmed(m, s, remap)
           done(S) == {Real(remap, i) :
                          i \in {k \in DOMAIN s.nodes : Same(m, s, remap, k)} \cap S}
<1>1. /\ m \in Mirrors /\ Ids(m) \in SUBSET Int
      /\ \A i \in Ids(m) : m.nodes[i] \in AnyNode
    BY TableFacts DEF Within, Mirrors, Ids
<1>2. /\ Fresh(m, remap) /\ DOMAIN remap = Temps(m) /\ \A i \in Temps(m) : i < 0
      /\ Temps(m) \in SUBSET Int /\ remap \in [Temps(m) -> Int]
    BY FlushKeys DEF Temps, Fresh
<1>3. /\ DOMAIN s.nodes = BatchIds(m) \cap Ids(m)
      /\ \A i \in BatchIds(m) \cap Ids(m) : s.nodes[i] = m.nodes[i]
      /\ s.content = ContentBatch(m) /\ s.structure = StructureBatch(m)
      /\ s.cwdDirty \in BOOLEAN
    BY <1>1, SnapshotFacts
<1> HIDE DEF remap, s
<1>4. /\ Ids(now) = {Real(remap, i) : i \in Ids(m)}
      /\ \A i \in Ids(m) : now.nodes[Real(remap, i)] = RealNode(remap, m.nodes[i])
      /\ \A i, j \in Ids(m) : Real(remap, i) = Real(remap, j) => i = j
    BY <1>1, <1>2, RemappedFacts
<1>5. /\ n \in Mirrors /\ n.nodes = now.nodes /\ n.next = m.next
      /\ n.dirtyC = m.dirtyC \ done(s.content)
      /\ n.dirtyS = m.dirtyS \ done(s.structure)
    BY <1>1, <1>2, <1>3, ConfirmedFacts
<1>6. \A i \in DOMAIN s.nodes : Same(m, s, remap, i)
    BY <1>3, <1>4 DEF Same
<1>7. \A i \in Ids(m) : i > 0 => Real(remap, i) = i
    BY <1>1, <1>2 DEF Real
<1>8. \A i \in Ids(m) : /\ RealNode(remap, m.nodes[i]).born = m.nodes[i].born
                        /\ RealNode(remap, m.nodes[i]).ver = m.nodes[i].ver
    BY <1>1, <1>2, RealNodeType
<1> HIDE DEF now, n
<1>9. ASSUME NEW i \in BatchIds(m) \cap Ids(m), i > 0
      PROVE  /\ i \in ContentBatch(m) => i \notin n.dirtyC
             /\ i \in StructureBatch(m) => i \notin n.dirtyS
    <2>1. i \in DOMAIN s.nodes /\ Same(m, s, remap, i) /\ i = Real(remap, i)
        BY <1>3, <1>6, <1>7, <1>9
    <2>2. \A S : i \in S => i \in done(S)
        BY <2>1
    <2>3. QED
        BY <1>3, <1>5, <2>2
<1>10. \A i \in Ids(m) : /\ n.nodes[Real(remap, i)].born = m.nodes[i].born
                         /\ n.nodes[Real(remap, i)].ver = m.nodes[i].ver
    BY <1>4, <1>5, <1>8
<1>11. Ids(n) = {Real(remap, i) : i \in Ids(m)}
    BY <1>4, <1>5 DEF Ids
<1>12. n.dirtyC \in SUBSET m.dirtyC /\ n.dirtyS \in SUBSET m.dirtyS
    BY <1>5
<1>13. QED
    BY <1>4, <1>5, <1>7, <1>9, <1>10, <1>11, <1>12 DEF n, s, remap

LEMMA FlushWithin ==
    ASSUME NEW row \in Nat \ {0}, NEW m, Within(m, row)
    PROVE  LET n == Confirmed(m, Snapshot(m), NewKeys(m, row))
           IN Within(n, row + Cardinality(Temps(m))) /\ n.next <= m.next
<1> DEFINE remap == NewKeys(m, row)
           n == Confirmed(m, Snapshot(m), remap)
           top == row + Cardinality(Temps(m))
<1>1. /\ m \in Mirrors /\ m.next \in Int /\ Ids(m) \in SUBSET Int
      /\ m.dirtyC \in SUBSET Int /\ m.dirtyS \in SUBSET Int
    BY TableFacts DEF Within, Mirrors, Ids
<1>2. /\ n \in Mirrors /\ n.next = m.next
      /\ Ids(n) = {Real(remap, i) : i \in Ids(m)}
      /\ n.dirtyC \in SUBSET m.dirtyC /\ n.dirtyS \in SUBSET m.dirtyS
    BY FlushFacts
<1>3. /\ Cardinality(Temps(m)) \in Nat /\ DOMAIN remap = Temps(m)
      /\ \A i \in Temps(m) : remap[i] \in Int /\ remap[i] >= row /\ remap[i] < top
    BY FlushKeys
<1> HIDE DEF remap, n
<1>4. \A i \in Ids(m) : m.next < Real(remap, i) /\ Real(remap, i) < top
    BY <1>1, <1>3 DEF Within, Real
<1>5. \A i \in DirtyIds(n) : m.next < i /\ i < top
    BY <1>1, <1>2, <1>3 DEF Within, DirtyIds
<1>6. Within(n, top)
    BY <1>1, <1>2, <1>4, <1>5 DEF Within
<1>7. QED
    BY <1>1, <1>2, <1>6 DEF n, remap

LEMMA FlushFollows ==
    ASSUME NEW row \in Nat \ {0}, NEW m, Within(m, row), Proper(m),
           Cardinality(DirtyIds(m)) <= Batch
    PROVE  Follows(Confirmed(m, Snapshot(m), NewKeys(m, row)), m)
<1> DEFINE remap == NewKeys(m, row)
           n == Confirmed(m, Snapshot(m), remap)
<1>1. /\ m \in Mirrors /\ m.next \in Int /\ Ids(m) \in SUBSET Int
      /\ m.dirtyC \in SUBSET Int /\ m.dirtyS \in SUBSET Int
      /\ \A i \in Ids(m) : m.nodes[i] \in AnyNode
    BY TableFacts DEF Within, Mirrors, Ids
<1>2. /\ n \in Mirrors /\ n.next = m.next
      /\ Ids(n) = {Real(remap, i) : i \in Ids(m)}
      /\ \A i \in Ids(m) : /\ n.nodes[Real(remap, i)].born = m.nodes[i].born
                           /\ n.nodes[Real(remap, i)].ver = m.nodes[i].ver
      /\ \A i, j \in Ids(m) : Real(remap, i) = Real(remap, j) => i = j
      /\ \A i \in Ids(m) : i > 0 => Real(remap, i) = i
      /\ n.dirtyC \in SUBSET m.dirtyC /\ n.dirtyS \in SUBSET m.dirtyS
    BY FlushFacts
<1>3. \A i \in BatchIds(m) \cap Ids(m) :
         i > 0 => /\ i \in ContentBatch(m) => i \notin n.dirtyC
                  /\ i \in StructureBatch(m) => i \notin n.dirtyS
    BY FlushFacts
<1>4. /\ BatchIds(m) = DirtyIds(m)
      /\ ContentBatch(m) = m.dirtyC /\ StructureBatch(m) = m.dirtyS
    BY <1>1, FlushKeys, BatchIsAll
<1> HIDE DEF remap, n
<1>5. \A i \in DirtyIds(n) : ~(i > 0) /\ i \in Int
    BY <1>1, <1>2, <1>3, <1>4 DEF DirtyIds, Proper
<1>6. NeedsFull(n)
    BY <1>5 DEF NeedsFull
<1>7. \A i \in Ids(m) : m.nodes[i].ver \in Nat
    BY <1>1 DEF AnyNode
<1>8. Newer(n, m)
    BY <1>2, <1>7 DEF Newer
<1>9. Proper(n)
    <2>1. \A i \in Ids(n) : n.next < n.nodes[i].born
        BY <1>2 DEF Proper
    <2>2. \A i, j \in Ids(n) : n.nodes[i].born = n.nodes[j].born => i = j
        BY <1>2 DEF Proper
    <2>3. QED
        BY <1>5, <2>1, <2>2 DEF Proper
<1>10. QED
    BY <1>6, <1>8, <1>9 DEF Follows, n, remap

-----------------------------------------------------------------------------
(* The steps of a writer before its save.                                   *)

Writes ==
    \/ \E name \in Names : Create(name)
    \/ \E i \in Ids(Current) : Edit(i) \/ Remove(i) \/ \E name \in Names : Move(i, name)
    \/ Cd \/ Flush

\* What they have in common.
Begins ==
    /\ wpc = "free" /\ wpc' = "meta"
    /\ UNCHANGED <<meta, base, overlay, acked, rpc, got, floor, crashes>>
    /\ full' = NeedsFull(mem')
    /\ nextRow' \in Nat \ {0} /\ nextRow <= nextRow'
    /\ Within(mem', nextRow')
    /\ mem'.next <= Current.next

LEMMA WritesBegin == Typed /\ Writes => Begins
<1> SUFFICES ASSUME Typed, Writes PROVE Begins
    OBVIOUS
<1>1. Within(Current, nextRow) /\ nextRow \in Nat \ {0}
    BY DEF Typed
<1>2. ASSUME NEW m, Save(m), Within(m, nextRow), m.next <= Current.next, nextRow' = nextRow
      PROVE  Begins
    BY <1>1, <1>2 DEF Begins, Save, keys, reader
<1>3. ASSUME NEW name \in Names, Create(name) PROVE Begins
    BY <1>1, <1>2, <1>3, CreateFollows DEF Create, SaveOnly
<1>4. ASSUME NEW i \in Ids(Current), Edit(i) PROVE Begins
    BY <1>1, <1>2, <1>4, EditFollows DEF Edit, SaveOnly
<1>5. ASSUME NEW i \in Ids(Current), Remove(i) PROVE Begins
    BY <1>1, <1>2, <1>5, RemoveWithin DEF Remove, SaveOnly
<1>6. ASSUME NEW i \in Ids(Current), NEW name \in Names, Move(i, name) PROVE Begins
    BY <1>1, <1>2, <1>6, MoveFollows DEF Move, SaveOnly
<1>7. ASSUME Cd PROVE Begins
    BY <1>1, <1>2, <1>7, CdFollows DEF Cd, SaveOnly
<1>8. ASSUME Flush PROVE Begins
    <2> DEFINE m == Confirmed(Current, Snapshot(Current), NewKeys(Current, nextRow))
               top == nextRow + Cardinality(Temps(Current))
    <2>1. Save(m) /\ nextRow' = top
        BY <1>8 DEF Flush, Temps, NewKeys
    <2>2. Within(m, top) /\ m.next <= Current.next
        BY <1>1, FlushWithin
    <2>3. Cardinality(Temps(Current)) \in Nat
        BY <1>1, FlushKeys
    <2> HIDE DEF m
    <2>4. QED
        BY <1>1, <2>1, <2>2, <2>3 DEF Begins, Save, keys, reader
<1>9. QED
    BY <1>3, <1>4, <1>5, <1>6, <1>7, <1>8 DEF Writes

\* Where nothing is removed and a flush takes all that is dirty.
LEMMA WritesFollow ==
    Typed /\ Writes /\ "rm" \notin Commands /\ Fits /\ Proper(Current) => Follows(mem', Current)
<1> SUFFICES ASSUME Typed, Writes, "rm" \notin Commands, Fits, Proper(Current)
             PROVE  Follows(mem', Current)
    OBVIOUS
<1>1. Within(Current, nextRow) /\ nextRow \in Nat \ {0}
    BY DEF Typed
<1>2. ASSUME NEW m, Save(m), Follows(m, Current) PROVE Follows(mem', Current)
    BY <1>2 DEF Save
<1>3. ASSUME NEW name \in Names, Create(name) PROVE Follows(mem', Current)
    BY <1>1, <1>2, <1>3, CreateFollows DEF Create, SaveOnly
<1>4. ASSUME NEW i \in Ids(Current), Edit(i) PROVE Follows(mem', Current)
    BY <1>1, <1>2, <1>4, EditFollows DEF Edit, SaveOnly
<1>5. ASSUME NEW i \in Ids(Current), NEW name \in Names, Move(i, name)
      PROVE  Follows(mem', Current)
    BY <1>1, <1>2, <1>5, MoveFollows DEF Move, SaveOnly
<1>6. ASSUME Cd PROVE Follows(mem', Current)
    BY <1>1, <1>2, <1>6, CdFollows DEF Cd, SaveOnly
<1>7. ASSUME Flush PROVE Follows(mem', Current)
    <2> DEFINE m == Confirmed(Current, Snapshot(Current), NewKeys(Current, nextRow))
    <2>1. Save(m)
        BY <1>7 DEF Flush, Temps, NewKeys
    <2>2. Cardinality(DirtyIds(Current)) <= Batch
        BY <2>1 DEF Fits, Save
    <2>3. Follows(m, Current)
        BY <1>1, <2>2, FlushFollows
    <2> HIDE DEF m
    <2>4. QED
        BY <1>2, <2>1, <2>3
<1>8. QED
    BY <1>3, <1>4, <1>5, <1>6, <1>7 DEF Writes, Remove

-----------------------------------------------------------------------------
(* Types.                                                                   *)

LEMMA WithinKeys ==
    ASSUME NEW mt \in Metas, NEW bs \in Tables, NEW ov \in Tables, NEW row
    PROVE  Within(Loaded(mt, bs, ov), row) <=>
              /\ mt.next < 0
              /\ \A i \in DOMAIN bs \cup DOMAIN ov \cup mt.dirtyC \cup mt.dirtyS :
                    mt.next < i /\ i < row
<1> DEFINE m == Loaded(mt, bs, ov)
<1>1. /\ m \in Mirrors /\ Ids(m) = DOMAIN ov \cup DOMAIN bs
      /\ DirtyIds(m) = mt.dirtyC \cup mt.dirtyS /\ m.next = mt.next
    BY LoadedFacts
<1> HIDE DEF m
<1>2. Within(m, row) <=> /\ mt.next < 0
                         /\ \A i \in DOMAIN bs \cup DOMAIN ov \cup mt.dirtyC \cup mt.dirtyS :
                               mt.next < i /\ i < row
    BY <1>1 DEF Within
<1>3. QED
    BY <1>2 DEF m

LEMMA CurrentFacts ==
    ASSUME Typed
    PROVE  /\ Current \in Mirrors /\ Current.nodes = Over(overlay, base)
           /\ Ids(Current) = DOMAIN overlay \cup DOMAIN base
           /\ DirtyIds(Current) = meta.dirtyC \cup meta.dirtyS /\ Current.next = meta.next
BY LoadedFacts DEF Typed, Current

LEMMA TypedStep == IInv /\ Next => Typed'
<1> SUFFICES ASSUME IInv, Next PROVE Typed'
    OBVIOUS
<1> USE DEF IInv
<1>1. /\ meta \in Metas /\ base \in Tables /\ overlay \in Tables
      /\ mem \in Mirrors /\ mem.nodes \in Tables /\ mem.next \in Int /\ meta.next \in Int
      /\ Meta(mem) \in Metas /\ Meta(mem).next = mem.next
      /\ Meta(mem).dirtyC = mem.dirtyC /\ Meta(mem).dirtyS = mem.dirtyS
      /\ acked \in Mirrors /\ Current \in Mirrors /\ nextRow \in Nat \ {0}
    BY MetaFacts, CurrentFacts DEF Typed, Within, Mirrors, Metas
<1>2. /\ mem.next < 0 /\ mem.next <= meta.next /\ meta.next < 0
      /\ \A i \in Ids(mem) \cup mem.dirtyC \cup mem.dirtyS : mem.next < i /\ i < nextRow
      /\ \A i \in DOMAIN base \cup DOMAIN overlay \cup meta.dirtyC \cup meta.dirtyS :
            meta.next < i /\ i < nextRow
    BY <1>1, WithinKeys DEF Typed, Within, DirtyIds, Current
<1>3. CASE Writes
    <2>1. Begins
        BY <1>3, WritesBegin
    <2>2. Current' = Current /\ mem'.next <= meta.next
        BY <2>1, CurrentFacts DEF Begins, Current
    <2>3. Within(Current', nextRow')
        <3>1. \A i \in DOMAIN base \cup DOMAIN overlay \cup meta.dirtyC \cup meta.dirtyS :
                 i \in Int /\ meta.next < i /\ i < nextRow'
            BY <1>1, <1>2, <2>1, TableFacts DEF Begins, Metas
        <3>2. QED
            BY <1>1, <1>2, <2>2, <3>1, WithinKeys DEF Current
    <2>4. full' \in BOOLEAN
        BY <2>1 DEF Begins, NeedsFull
    <2>5. QED
        BY <2>1, <2>2, <2>3, <2>4 DEF Typed, Begins
<1>4. CASE SetMeta
    <2>1. meta' = Meta(mem) /\ UNCHANGED <<base, overlay, mem, nextRow>>
        BY <1>4 DEF SetMeta
    <2>2. \A i \in DOMAIN base \cup DOMAIN overlay \cup mem.dirtyC \cup mem.dirtyS :
             mem.next < i /\ i < nextRow
        <3>1. \A i \in DOMAIN base \cup DOMAIN overlay : i \in Int
            BY <1>1, TableFacts
        <3>2. QED
            BY <1>1, <1>2, <3>1
    <2>3. Within(Current', nextRow)
        BY <1>1, <1>2, <2>1, <2>2, WithinKeys DEF Current
    <2>4. QED
        BY <1>1, <1>4, <2>1, <2>3 DEF Typed, SetMeta, reader
<1>5. CASE SetBase
    <2>1. base' = mem.nodes /\ meta = Meta(mem) /\ UNCHANGED <<meta, overlay, mem, nextRow>>
        BY <1>5 DEF SetBase, Saving
    <2>2. Within(Current', nextRow)
        BY <1>1, <1>2, <2>1, WithinKeys DEF Current, Ids
    <2>3. QED
        BY <1>1, <1>5, <2>1, <2>2 DEF Typed, SetBase, reader
<1>6. CASE DropOverlay
    <2>1. overlay' = Absent /\ meta = Meta(mem) /\ UNCHANGED <<meta, base, mem, nextRow>>
        BY <1>6 DEF DropOverlay, Complete, Saving
    <2>2. Within(Current', nextRow)
        BY <1>1, <1>2, <2>1, WithinKeys, AbsentTable DEF Current
    <2>3. QED
        BY <1>1, <1>6, <2>1, <2>2, AbsentTable DEF Typed, DropOverlay, Complete, reader
<1>7. CASE SetOverlay
    <2> DEFINE S == DirtyIds(mem) \cap Ids(mem)
               ov == Restricted(mem.nodes, S)
    <2>1. overlay' = ov /\ meta = Meta(mem) /\ UNCHANGED <<meta, base, mem, nextRow>>
        BY <1>7 DEF SetOverlay, Complete, Saving
    <2>2. ov \in Tables /\ DOMAIN ov = S
        BY <1>1, RestrictedTable DEF Ids
    <2> HIDE DEF ov
    <2>3. Within(Current', nextRow)
        BY <1>1, <1>2, <2>1, <2>2, WithinKeys DEF Current
    <2>4. QED
        BY <1>1, <1>7, <2>1, <2>2, <2>3 DEF Typed, SetOverlay, Complete, reader
<1>8. CASE Crash
    <2>1. UNCHANGED <<meta, base, overlay, nextRow, rpc, got, floor>>
          /\ mem' = Current /\ acked' = Current /\ full' = FALSE /\ wpc' = "free"
          /\ crashes' = crashes + 1
        BY <1>8 DEF Crash, keys, reader
    <2>2. Current' = Current /\ Current.next = meta.next
        BY <2>1, CurrentFacts DEF Current
    <2>3. Within(Current', nextRow') /\ Within(mem', nextRow') /\ mem'.next <= meta'.next
        BY <1>1, <2>1, <2>2 DEF Typed
    <2>4. crashes' \in Nat /\ acked' \in Mirrors
        BY <1>1, <2>1 DEF Typed
    <2>5. QED
        BY <1>1, <2>1, <2>3, <2>4 DEF Typed
<1>9. ASSUME NEW r \in Readers, ReaderStep(r) PROVE Typed'
    <2>1. UNCHANGED <<meta, base, overlay, wpc, mem, full, acked, nextRow, crashes>>
          /\ Current' = Current
        BY <1>9 DEF ReaderStep, GetMeta, GetBase, GetOverlay, Use, keys, writer, Current
    <2>2. got[r] \in Mirrors /\ got[r].nodes \in Tables /\ Meta(got[r]) \in Metas
        BY MetaFacts DEF Typed, Mirrors
    <2>3. /\ Loaded(meta, Absent, Absent) \in Mirrors
          /\ Loaded(Meta(got[r]), base, Absent) \in Mirrors
          /\ Loaded(Meta(got[r]), got[r].nodes, overlay) \in Mirrors
        BY <1>1, <2>2, AbsentTable, LoadedFacts
    <2>4. NoMirror \in Mirrors
        <3>1. [dirtyC |-> {}, dirtyS |-> {}, cwd |-> RootId, dirtyCwd |-> FALSE, next |-> -1]
                 \in Metas
            BY DEF Metas, RootId
        <3>2. QED
            BY <3>1, AbsentTable, LoadedFacts DEF NoMirror
    <2>5. /\ rpc' \in [Readers -> {"meta", "base", "overlay", "done"}]
          /\ got' \in [Readers -> Mirrors] /\ floor' \in [Readers -> Mirrors]
        BY <1>1, <1>9, <2>3, <2>4
           DEF Typed, ReaderStep, GetMeta, GetBase, GetOverlay, Use
    <2>6. QED
        BY <2>1, <2>5 DEF Typed
<1>10. QED
    BY <1>3, <1>4, <1>5, <1>6, <1>7, <1>8, <1>9 DEF Next, WriterStep, Writes

-----------------------------------------------------------------------------
(* The commands of a save.                                                  *)

\* Steps that are neither of a writer nor its death.
LEMMA ReaderLeaves ==
    ASSUME NEW r \in Readers, ReaderStep(r)
    PROVE  /\ UNCHANGED <<meta, base, overlay, wpc, mem, full, acked, nextRow, crashes>>
           /\ Current' = Current
BY DEF ReaderStep, GetMeta, GetBase, GetOverlay, Use, keys, writer, Current

LEMMA SavingStep == IInv /\ Next => Saving'
<1> SUFFICES ASSUME IInv, Next PROVE Saving'
    OBVIOUS
<1> USE DEF IInv, Saving
<1>1. ASSUME Writes PROVE Saving'
    BY <1>1, WritesBegin DEF Begins
<1>2. ASSUME SetMeta PROVE Saving'
    BY <1>2 DEF SetMeta
<1>3. ASSUME SetBase PROVE Saving'
    BY <1>3 DEF SetBase
<1>4. ASSUME DropOverlay \/ SetOverlay PROVE Saving'
    BY <1>4 DEF DropOverlay, SetOverlay, Complete
<1>5. ASSUME Crash PROVE Saving'
    BY <1>5 DEF Crash
<1>6. ASSUME NEW r \in Readers, ReaderStep(r) PROVE Saving'
    BY <1>6, ReaderLeaves
<1>7. QED
    BY <1>1, <1>2, <1>3, <1>4, <1>5, <1>6 DEF Next, WriterStep, Writes

\* After a full snapshot the mirror is what was saved.
LEMMA DropLoads ==
    ASSUME IInv, DropOverlay
    PROVE  Current' = mem /\ acked' = mem
<1>1. /\ overlay' = Absent /\ base' = mem.nodes /\ meta' = Meta(mem) /\ acked' = mem
      /\ mem \in Mirrors /\ mem.nodes \in Tables
    BY DEF DropOverlay, Complete, IInv, Saving, Typed, Within, Mirrors
<1>2. Over(Absent, mem.nodes) = mem.nodes
    BY <1>1, OverNothing
<1>3. QED
    BY <1>1, <1>2, AbsentTable, LoadedAsSaved DEF Current

\* After any other save the dirty nodes are what was saved.
LEMMA OverlayLoads ==
    ASSUME IInv, SetOverlay
    PROVE  /\ overlay' \in Tables /\ DOMAIN overlay' = DirtyIds(mem) \cap Ids(mem)
           /\ \A i \in DOMAIN overlay' : overlay'[i] = mem.nodes[i]
           /\ Current' \in Mirrors /\ Current'.nodes = Over(overlay', base)
           /\ Ids(Current') = DOMAIN overlay' \cup DOMAIN base
           /\ \A i \in DOMAIN overlay' : Current'.nodes[i] = mem.nodes[i]
           /\ acked' = mem
<1>1. /\ overlay' = Restricted(mem.nodes, DirtyIds(mem) \cap Ids(mem)) /\ base' = base
      /\ meta' = meta /\ acked' = mem /\ mem \in Mirrors /\ mem.nodes \in Tables
      /\ meta \in Metas /\ base \in Tables
    BY DEF SetOverlay, Complete, IInv, Saving, Typed, Within, Mirrors
<1>2. /\ overlay' \in Tables /\ DOMAIN overlay' = DirtyIds(mem) \cap Ids(mem)
      /\ \A i \in DOMAIN overlay' : overlay'[i] = mem.nodes[i]
    <2> DEFINE S == DirtyIds(mem) \cap Ids(mem)
    <2>1. S \in SUBSET DOMAIN mem.nodes
        BY DEF Ids
    <2> HIDE DEF S
    <2>2. /\ Restricted(mem.nodes, S) \in Tables /\ DOMAIN Restricted(mem.nodes, S) = S
          /\ \A i \in S : Restricted(mem.nodes, S)[i] = mem.nodes[i]
        BY <1>1, <2>1, RestrictedTable
    <2>3. overlay' = Restricted(mem.nodes, S)
        BY <1>1 DEF S
    <2>4. QED
        BY <2>2, <2>3 DEF S
<1>3. /\ Current' \in Mirrors /\ Current'.nodes = Over(overlay', base)
      /\ Ids(Current') = DOMAIN overlay' \cup DOMAIN base
    <2> DEFINE ov == overlay'
               loaded == Loaded(meta, base, ov)
    <2>1. ov \in Tables /\ meta \in Metas /\ base \in Tables
        BY <1>1, <1>2
    <2> HIDE DEF ov
    <2>2. /\ loaded \in Mirrors /\ loaded.nodes = Over(ov, base)
          /\ Ids(loaded) = DOMAIN ov \cup DOMAIN base
        BY <2>1, LoadedFacts
    <2> HIDE DEF loaded
    <2>3. Current' = loaded
        BY <1>1 DEF Current, loaded, ov
    <2>4. QED
        BY <2>2, <2>3 DEF ov
<1>4. \A i \in DOMAIN overlay' : Over(overlay', base)[i] = overlay'[i]
    BY <1>1, <1>2, OverTable
<1>5. QED
    BY <1>1, <1>2, <1>3, <1>4

LEMMA ExactStep == IInv /\ Next => DirtyIsExact'
<1> SUFFICES ASSUME IInv, Next PROVE DirtyIsExact'
    OBVIOUS
<1> USE DEF DirtyIsExact
<1>1. ASSUME Writes PROVE DirtyIsExact'
    BY <1>1, WritesBegin DEF Begins, IInv
<1>2. ASSUME SetMeta PROVE DirtyIsExact'
    BY <1>2 DEF SetMeta
<1>3. ASSUME SetBase PROVE DirtyIsExact'
    BY <1>3 DEF SetBase
<1>4. ASSUME DropOverlay PROVE DirtyIsExact'
    BY <1>4, DropLoads
<1>5. ASSUME SetOverlay PROVE DirtyIsExact'
    BY <1>5, OverlayLoads
<1>6. ASSUME Crash PROVE DirtyIsExact'
    BY <1>6 DEF Crash, Current, keys
<1>7. ASSUME NEW r \in Readers, ReaderStep(r) PROVE DirtyIsExact'
    BY <1>7, ReaderLeaves DEF IInv
<1>8. QED
    BY <1>1, <1>2, <1>3, <1>4, <1>5, <1>6, <1>7 DEF Next, WriterStep, Writes

-----------------------------------------------------------------------------
(* The first states.                                                        *)

\* The initial files take all the ids there are, so each id has its file.
LEMMA FilesTakeIds ==
    ASSUME NEW key \in [Files -> InitialIds \ {RootId}],
           \A a, b \in Files : a # b => key[a] # key[b]
    PROVE  \A i \in InitialIds \ {RootId} : \E a \in Files : key[a] = i
<1> DEFINE n == Cardinality(Files)
           others == InitialIds \ {RootId}
<1>1. IsFiniteSet(Files) /\ n \in Nat
    BY StoreAssumption, FS_CardinalityType
<1>2. others = 2..(1 + n)
    BY <1>1 DEF InitialIds, RootId
<1>3. IsFiniteSet(others) /\ Cardinality(others) = n
    <2>1. \A f, l \in Int : /\ IsFiniteSet(f..l)
                            /\ Cardinality(f..l) = IF f > l THEN 0 ELSE l - f + 1
        BY FS_Interval
    <2> DEFINE last == 1 + n
    <2>2. 2 \in Int /\ last \in Int /\ (IF 2 > last THEN 0 ELSE last - 2 + 1) = n
        BY <1>1
    <2> HIDE DEF last, n
    <2>3. /\ IsFiniteSet(2..last)
          /\ Cardinality(2..last) = IF 2 > last THEN 0 ELSE last - 2 + 1
        BY <2>1, <2>2, Zenon
    <2>4. QED
        BY <1>2, <2>2, <2>3, Zenon DEF last
<1> HIDE DEF others
<1>4. key \in Injection(Files, others)
    BY DEF Injection, IsInjective, others
<1>5. key \in Surjection(Files, others)
    BY <1>1, <1>3, <1>4, FS_Injection
<1>6. QED
    BY <1>5 DEF Surjection, others

LEMMA InitFacts ==
    ASSUME Init
    PROVE  /\ base \in Tables /\ DOMAIN base = InitialIds /\ overlay = Absent
           /\ \A i \in InitialIds : base[i].born = i
           /\ meta \in Metas /\ meta.next = -1 /\ meta.dirtyC = {} /\ meta.dirtyS = {}
           /\ Cardinality(Files) \in Nat
<1>1. Cardinality(Files) \in Nat /\ InitialIds \in SUBSET Int
    BY StoreAssumption, FS_CardinalityType DEF InitialIds
<1>2. PICK key \in [Files -> InitialIds \ {RootId}] :
         /\ \A a, b \in Files : a # b => key[a] # key[b]
         /\ base = [i \in InitialIds |->
                       IF i = RootId THEN Node(NoParent, NoParent, "dir", 1, RootId)
                       ELSE Node(RootId, CHOOSE a \in Files : key[a] = i, "file", 1, i)]
    BY DEF Init
<1>3. \A i \in InitialIds \ {RootId} : (CHOOSE a \in Files : key[a] = i) \in Names
    BY <1>2, FilesTakeIds, StoreAssumption
<1>4. \A i \in InitialIds : base[i] \in AnyNode /\ base[i].born = i
    <2>1. ASSUME NEW i \in InitialIds \ {RootId} PROVE base[i] \in AnyNode /\ base[i].born = i
        <3> DEFINE name == CHOOSE a \in Files : key[a] = i
                   node == Node(RootId, name, "file", 1, i)
        <3>1. base[i] = node
            BY <1>2
        <3>2. name \in Names
            BY <1>3
        <3> HIDE DEF name
        <3>3. node \in AnyNode /\ node.born = i
            BY <1>1, <3>2 DEF AnyNode, Node, RootId
        <3>4. QED
            BY <3>1, <3>3
    <2>2. ASSUME RootId \in InitialIds
          PROVE  base[RootId] \in AnyNode /\ base[RootId].born = RootId
        BY <1>2, <2>2 DEF AnyNode, Node, RootId, NoParent
    <2>3. QED
        BY <2>1, <2>2
<1>5. base \in [InitialIds -> AnyNode]
    BY <1>2, <1>4
<1>6. base \in Tables
    BY <1>1, <1>5, TableIntro
<1>7. meta \in Metas /\ meta.next = -1 /\ meta.dirtyC = {} /\ meta.dirtyS = {}
    BY DEF Init, Metas, RootId
<1>8. QED
    BY <1>1, <1>4, <1>5, <1>6, <1>7 DEF Init

LEMMA InitIInv == Init => IInv
<1> SUFFICES ASSUME Init PROVE IInv
    OBVIOUS
<1>1. /\ base \in Tables /\ DOMAIN base = InitialIds /\ overlay = Absent
      /\ meta \in Metas /\ meta.next = -1 /\ meta.dirtyC = {} /\ meta.dirtyS = {}
      /\ Cardinality(Files) \in Nat
    BY InitFacts
<1>2. /\ mem = Current /\ acked = Current /\ wpc = "free" /\ full = FALSE
      /\ nextRow = 2 + Cardinality(Files) /\ crashes = 0
      /\ rpc = [r \in Readers |-> "meta"] /\ got = [r \in Readers |-> NoMirror]
      /\ floor = [r \in Readers |-> NoMirror]
    BY DEF Init
<1>3. Current \in Mirrors /\ Current.next = meta.next /\ Within(Current, nextRow)
    <2>1. \A i \in InitialIds : -1 < i /\ i < nextRow
        BY <1>1, <1>2 DEF InitialIds
    <2>2. QED
        BY <1>1, <1>2, <2>1, AbsentTable, LoadedFacts, WithinKeys DEF Current
<1>4. NoMirror \in Mirrors
    <2>1. [dirtyC |-> {}, dirtyS |-> {}, cwd |-> RootId, dirtyCwd |-> FALSE, next |-> -1]
             \in Metas
        BY DEF Metas, RootId
    <2>2. QED
        BY <2>1, AbsentTable, LoadedFacts DEF NoMirror
<1> HIDE DEF Init
<1>5. Typed
    <2>1. /\ Within(Current, nextRow) /\ Within(mem, nextRow) /\ mem.next <= meta.next
          /\ acked \in Mirrors
        BY <1>1, <1>2, <1>3
    <2>2. /\ rpc \in [Readers -> {"meta", "base", "overlay", "done"}]
          /\ got \in [Readers -> Mirrors] /\ floor \in [Readers -> Mirrors]
        BY <1>2, <1>4
    <2>3. nextRow \in Nat /\ nextRow # 0 /\ crashes \in Nat
        BY <1>1, <1>2
    <2>4. full \in BOOLEAN
        BY <1>2
    <2>5. QED
        BY <1>1, <1>2, <2>1, <2>2, <2>3, <2>4, AbsentTable DEF Typed
<1>6. Saving /\ DirtyIsExact
    BY <1>2 DEF Saving, DirtyIsExact
<1>7. QED
    BY <1>5, <1>6 DEF IInv

LEMMA StepIInv == IInv /\ [Next]_vars => IInv'
<1> SUFFICES ASSUME IInv, [Next]_vars PROVE IInv'
    OBVIOUS
<1>1. CASE Next
    BY <1>1, TypedStep, SavingStep, ExactStep DEF IInv
<1>2. CASE UNCHANGED vars
    BY <1>2 DEF vars, keys, writer, reader, IInv, Typed, Saving, DirtyIsExact, Current
<1>3. QED
    BY <1>1, <1>2

LEMMA InvariantHolds == Spec => []IInv
BY InitIInv, StepIInv, PTL DEF Spec

\* A dirty node loads as it was saved, whatever became of the clean ones: for
\* every number of files, readers and crashes, every size of a batch, with
\* removals and without.
THEOREM DirtyNodesAreExact == Spec => []DirtyIsExact
<1>1. IInv => DirtyIsExact
    BY DEF IInv
<1>2. QED
    BY <1>1, InvariantHolds, PTL

-----------------------------------------------------------------------------
(* Until a writer dies: the keys.                                           *)

\* Tables with the same ids and nodes are the same.
LEMMA TableEqual ==
    ASSUME NEW f \in Tables, NEW g \in Tables, DOMAIN f = DOMAIN g,
           \A i \in DOMAIN f : f[i] = g[i]
    PROVE  f = g
<1>1. f \in [DOMAIN f -> AnyNode] /\ g \in [DOMAIN f -> AnyNode]
    BY TableFacts
<1>2. QED
    BY <1>1

LEMMA KeysBegin ==
    ASSUME IInv, KeysInOrder, Writes, "rm" \notin Commands, Fits
    PROVE  KeysInOrder'
<1>1. Begins /\ Current = acked /\ Proper(acked) /\ CleanInBase(acked)
    BY WritesBegin DEF IInv, KeysInOrder, Begins
<1>2. Follows(mem', acked)
    BY <1>1, WritesFollow DEF IInv
<1>3. Current' = acked'
    BY <1>1 DEF Begins, Current
<1>4. Proper(acked') /\ Proper(mem') /\ Newer(mem', acked')
    BY <1>1, <1>2 DEF Begins, Follows
<1>5. Over(overlay', base') = acked'.nodes /\ CleanInBase(acked)'
    BY <1>1 DEF Begins, KeysInOrder, CleanInBase
<1>6. ~full' => CleanInBase(mem)'
    BY <1>1, <1>2 DEF Begins, Follows, Kept, CleanInBase
<1>7. /\ \A j \in DOMAIN overlay' : j > 0 /\ j \in Ids(acked') /\ overlay'[j] = acked'.nodes[j]
      /\ \A j \in DOMAIN base' : j \in Ids(Latest') /\ Latest'.nodes[j].born = base'[j].born
    BY <1>1 DEF Begins, KeysInOrder, Latest
<1>8. QED
    BY <1>1, <1>3, <1>4, <1>5, <1>6, <1>7 DEF KeysInOrder, Begins

LEMMA KeysSetMeta ==
    ASSUME IInv, KeysInOrder, SetMeta
    PROVE  KeysInOrder'
<1>1. /\ wpc = "meta" /\ wpc' = (IF full THEN "base" ELSE "overlay")
      /\ UNCHANGED <<base, overlay, mem, full, acked>>
    BY DEF SetMeta
<1>2. full \in BOOLEAN
    BY DEF IInv, Typed
<1>3. CASE full
    BY <1>1, <1>3 DEF KeysInOrder, CleanInBase, Latest
<1>4. CASE ~full
    BY <1>1, <1>4 DEF KeysInOrder, CleanInBase, Latest
<1>5. QED
    BY <1>2, <1>3, <1>4

LEMMA KeysSetBase ==
    ASSUME IInv, KeysInOrder, SetBase
    PROVE  KeysInOrder'
BY DEF IInv, SetBase, KeysInOrder, Latest, Ids

LEMMA KeysDropOverlay ==
    ASSUME IInv, KeysInOrder, DropOverlay
    PROVE  KeysInOrder'
<1>1. /\ wpc = "drop" /\ wpc' = "free" /\ overlay' = Absent /\ base' = mem.nodes
      /\ acked' = mem /\ Current' = mem
    BY DropLoads DEF DropOverlay, Complete, IInv, Saving
<1>2. Over(overlay', base') = mem.nodes
    BY <1>1, OverNothing DEF IInv, Typed, Within, Mirrors
<1>3. Proper(mem)
    BY <1>1 DEF KeysInOrder
<1>4. QED
    BY <1>1, <1>2, <1>3, AbsentTable DEF KeysInOrder, CleanInBase, Latest, Ids

LEMMA KeysSetOverlay ==
    ASSUME IInv, KeysInOrder, SetOverlay
    PROVE  KeysInOrder'
<1>1. /\ wpc = "overlay" /\ wpc' = "free" /\ base' = base /\ acked' = mem
      /\ base \in Tables /\ mem.nodes \in Tables /\ mem \in Mirrors /\ meta' = Meta(mem)
    BY DEF SetOverlay, Complete, IInv, Saving, Typed, Within, Mirrors
<1>2. /\ Proper(mem) /\ Newer(mem, acked) /\ CleanInBase(mem)
      /\ \A j \in DOMAIN base : j \in Ids(acked) /\ acked.nodes[j].born = base[j].born
    BY <1>1 DEF KeysInOrder, Latest
<1>3. \A i \in DirtyIds(mem) : i > 0 /\ i \in Int
    BY <1>1 DEF IInv, Saving, NeedsFull, DirtyIds, Mirrors
<1>4. /\ overlay' \in Tables /\ DOMAIN overlay' = DirtyIds(mem) \cap Ids(mem)
      /\ \A i \in DOMAIN overlay' : overlay'[i] = mem.nodes[i]
    BY OverlayLoads
<1>5. Over(overlay', base) = mem.nodes
    <2>1. /\ Over(overlay', base) \in Tables
          /\ DOMAIN Over(overlay', base) = DOMAIN overlay' \cup DOMAIN base
          /\ \A i \in DOMAIN overlay' : Over(overlay', base)[i] = overlay'[i]
          /\ \A i \in DOMAIN base \ DOMAIN overlay' : Over(overlay', base)[i] = base[i]
        BY <1>1, <1>4, OverTable
    <2>2. DOMAIN overlay' \cup DOMAIN base = DOMAIN mem.nodes
        BY <1>2, <1>4 DEF CleanInBase, Ids
    <2>3. \A i \in DOMAIN mem.nodes : Over(overlay', base)[i] = mem.nodes[i]
        BY <1>2, <1>4, <2>1, <2>2 DEF CleanInBase, Ids
    <2>4. QED
        BY <1>1, <2>1, <2>2, <2>3, TableEqual
<1>6. Current' = mem
    BY <1>1, <1>4, <1>5, LoadedAsSaved DEF Current
<1>7. \A j \in DOMAIN overlay' : j > 0 /\ j \in Ids(mem) /\ overlay'[j] = mem.nodes[j]
    BY <1>3, <1>4
<1>8. \A j \in DOMAIN base : j \in Ids(mem) /\ mem.nodes[j].born = base[j].born
    <2> TAKE j \in DOMAIN base
    <2>1. j \in Ids(mem) /\ j \in Int
        BY <1>1, <1>2, TableFacts DEF CleanInBase
    <2>2. CASE j > 0
        BY <1>2, <2>1, <2>2 DEF Newer
    <2>3. CASE ~(j > 0)
        BY <1>2, <1>3, <2>1, <2>3 DEF CleanInBase
    <2>4. QED
        BY <2>1, <2>2, <2>3
<1>9. CleanInBase(acked)'
    BY <1>1, <1>2 DEF CleanInBase
<1>10. QED
    BY <1>1, <1>2, <1>5, <1>6, <1>7, <1>8, <1>9 DEF KeysInOrder, Latest

LEMMA KeysStep ==
    IInv /\ KeysInOrder /\ Next /\ crashes = 0 /\ crashes' = 0 /\ "rm" \notin Commands /\ Fits
        => KeysInOrder'
<1> SUFFICES ASSUME IInv, KeysInOrder, Next, crashes = 0, crashes' = 0,
                    "rm" \notin Commands, Fits
             PROVE  KeysInOrder'
    OBVIOUS
<1>1. CASE Writes
    BY <1>1, KeysBegin
<1>2. CASE SetMeta
    BY <1>2, KeysSetMeta
<1>3. CASE SetBase
    BY <1>3, KeysSetBase
<1>4. CASE DropOverlay
    BY <1>4, KeysDropOverlay
<1>5. CASE SetOverlay
    BY <1>5, KeysSetOverlay
<1>6. ~Crash
    BY DEF Crash
<1>7. ASSUME NEW r \in Readers, ReaderStep(r) PROVE KeysInOrder'
    BY <1>7, ReaderLeaves DEF KeysInOrder, CleanInBase, Latest
<1>8. QED
    BY <1>1, <1>2, <1>3, <1>4, <1>5, <1>6, <1>7 DEF Next, WriterStep, Writes

-----------------------------------------------------------------------------
(* Until a writer dies: the readers.                                        *)

\* What shows a mirror still does after nodes became newer.
LEMMA ShowsAhead ==
    ASSUME NEW n \in Mirrors, NEW m \in Mirrors, NEW fl \in Mirrors,
           Proper(n), Newer(n, m), Shows(m.nodes, fl)
    PROVE  Shows(n.nodes, fl)
<1>1. /\ \A i \in Ids(n) : n.nodes[i].ver \in Nat
      /\ \A i \in Ids(m) : m.nodes[i].ver \in Nat
      /\ \A i \in Ids(fl) : fl.nodes[i].ver \in Nat
    BY TableFacts DEF Mirrors, Ids, AnyNode
<1>2. SUFFICES ASSUME NEW i \in Ids(fl) \ DirtyIds(fl)
               PROVE  /\ \E j \in Ids(n) : n.nodes[j].born = fl.nodes[i].born
                      /\ \A j \in Ids(n) : n.nodes[j].born = fl.nodes[i].born
                                              => n.nodes[j].ver >= fl.nodes[i].ver
    BY DEF Shows, Ids
<1>3. PICK j \in Ids(m) : /\ m.nodes[j].born = fl.nodes[i].born
                          /\ m.nodes[j].ver >= fl.nodes[i].ver
    BY DEF Shows, Ids
<1>4. PICK k \in Ids(n) : /\ n.nodes[k].born = m.nodes[j].born
                          /\ n.nodes[k].ver >= m.nodes[j].ver
    BY DEF Newer
<1>5. n.nodes[k].born = fl.nodes[i].born /\ n.nodes[k].ver >= fl.nodes[i].ver
    BY <1>1, <1>3, <1>4
<1>6. \A l \in Ids(n) : n.nodes[l].born = fl.nodes[i].born => l = k
    BY <1>5 DEF Proper
<1>7. QED
    BY <1>5, <1>6

LEMMA ShowsSelf ==
    ASSUME NEW m \in Mirrors, Proper(m)
    PROVE  Shows(m.nodes, m)
<1>1. \A i \in Ids(m) : m.nodes[i].ver \in Nat
    BY TableFacts DEF Mirrors, Ids, AnyNode
<1>2. QED
    BY <1>1 DEF Shows, Proper, Ids

LEMMA StoreMirrors ==
    ASSUME IInv
    PROVE  /\ acked \in Mirrors /\ mem \in Mirrors /\ base \in Tables /\ overlay \in Tables
           /\ wpc = "drop" => base = mem.nodes
           /\ \A r \in Readers : got[r] \in Mirrors /\ floor[r] \in Mirrors
BY DEF IInv, Typed, Saving, Within

\* The base alone shows every node that was clean at the last save.
LEMMA BaseShows ==
    ASSUME IInv, KeysInOrder
    PROVE  Shows(base, acked)
<1>1. acked \in Mirrors /\ mem \in Mirrors /\ base \in Tables
    BY StoreMirrors
<1>2. CASE wpc = "drop"
    <2>1. Proper(mem) /\ Newer(mem, acked) /\ Shows(acked.nodes, acked) /\ base = mem.nodes
        BY <1>1, <1>2, ShowsSelf, StoreMirrors DEF KeysInOrder
    <2>2. QED
        BY <1>1, <2>1, ShowsAhead
<1>3. CASE wpc # "drop"
    <2>1. /\ CleanInBase(acked) /\ Proper(acked)
          /\ \A j \in DOMAIN base : j \in Ids(acked) /\ acked.nodes[j].born = base[j].born
        BY <1>3 DEF KeysInOrder, Latest
    <2>2. \A i \in Ids(acked) : acked.nodes[i].ver \in Nat
        BY <1>1, TableFacts DEF Mirrors, Ids, AnyNode
    <2>3. ASSUME NEW i \in Ids(acked) \ DirtyIds(acked)
          PROVE  /\ \E j \in DOMAIN base : base[j].born = acked.nodes[i].born
                 /\ \A j \in DOMAIN base : base[j].born = acked.nodes[i].born
                                              => base[j].ver >= acked.nodes[i].ver
        <3>1. i \in DOMAIN base /\ base[i] = acked.nodes[i]
            BY <2>1, <2>3 DEF CleanInBase
        <3>2. \A j \in DOMAIN base : base[j].born = acked.nodes[i].born => j = i
            BY <2>1, <2>3 DEF Proper
        <3>3. QED
            BY <2>2, <2>3, <3>1, <3>2
    <2>4. QED
        BY <2>3 DEF Shows
<1>4. QED
    BY <1>2, <1>3

\* So does the overlay laid over an older base.
LEMMA OverlayShows ==
    ASSUME IInv, KeysInOrder, NEW table \in Tables, NEW fl \in Mirrors,
           Shows(table, fl), Shows(acked.nodes, fl), BornAs(table, Latest)
    PROVE  Shows(Over(overlay, table), fl)
<1> DEFINE new == Over(overlay, table)
<1>1. /\ acked \in Mirrors /\ mem \in Mirrors /\ overlay \in Tables
      /\ \A j \in DOMAIN overlay : j > 0 /\ j \in Ids(acked) /\ overlay[j] = acked.nodes[j]
    BY StoreMirrors DEF KeysInOrder
<1>2. /\ DOMAIN new = DOMAIN overlay \cup DOMAIN table
      /\ \A j \in DOMAIN overlay : new[j] = acked.nodes[j]
      /\ \A j \in DOMAIN table \ DOMAIN overlay : new[j] = table[j]
    BY <1>1, OverTable
<1>3. \A j \in DOMAIN overlay \cap DOMAIN table : acked.nodes[j].born = table[j].born
    BY <1>1 DEF BornAs, Latest, KeysInOrder, Newer
<1> HIDE DEF new
<1>4. ASSUME NEW i \in Ids(fl) \ DirtyIds(fl)
      PROVE  /\ \E j \in DOMAIN new : new[j].born = fl.nodes[i].born
             /\ \A j \in DOMAIN new : new[j].born = fl.nodes[i].born
                                         => new[j].ver >= fl.nodes[i].ver
    <2>1. /\ \E j \in DOMAIN table : table[j].born = fl.nodes[i].born
          /\ \A j \in DOMAIN table : table[j].born = fl.nodes[i].born
                                        => table[j].ver >= fl.nodes[i].ver
          /\ \A j \in Ids(acked) : acked.nodes[j].born = fl.nodes[i].born
                                      => acked.nodes[j].ver >= fl.nodes[i].ver
        BY <1>4 DEF Shows, Ids
    <2>2. QED
        BY <1>1, <1>2, <1>3, <2>1
<1>5. QED
    BY <1>4 DEF Shows, new

LEMMA FloorShows ==
    ASSUME IInv, ReadersInOrder, Proper(mem), Newer(mem, acked), NEW r \in Readers,
           rpc[r] # "meta"
    PROVE  Shows(mem.nodes, floor[r])
<1>1. acked \in Mirrors /\ mem \in Mirrors /\ floor[r] \in Mirrors
    BY StoreMirrors
<1>2. Shows(acked.nodes, floor[r])
    BY DEF ReadersInOrder
<1>3. QED
    BY <1>1, <1>2, ShowsAhead

LEMMA ReadersWriter ==
    ASSUME IInv, KeysInOrder, ReadersInOrder, WriterStep
    PROVE  ReadersInOrder'
<1>1. /\ acked \in Mirrors /\ mem \in Mirrors /\ wpc = "drop" => base = mem.nodes
      /\ \A r \in Readers : floor[r] \in Mirrors
    BY StoreMirrors
<1>2. CASE Writes
    BY <1>2, WritesBegin DEF IInv, Begins, ReadersInOrder, Latest
<1>3. CASE SetMeta
    BY <1>3 DEF SetMeta, reader, ReadersInOrder, Latest
<1>4. CASE SetBase
    <2>1. /\ wpc = "base" /\ wpc' = "drop" /\ base' = mem.nodes
          /\ UNCHANGED <<mem, acked, rpc, got, floor>>
        BY <1>4 DEF SetBase, reader
    <2>2. Proper(mem) /\ Newer(mem, acked)
        BY <2>1 DEF KeysInOrder
    <2>3. \A r \in Readers : rpc[r] # "meta" => Shows(mem.nodes, floor[r])
        BY <2>2, FloorShows
    <2>4. \A r \in Readers : rpc[r] = "overlay" => BornAs(got[r].nodes, mem)
        BY <2>1, <2>2 DEF ReadersInOrder, BornAs, Latest, Newer
    <2>5. QED
        BY <2>1, <2>3, <2>4 DEF ReadersInOrder, Latest
<1>5. CASE DropOverlay \/ SetOverlay
    <2>1. /\ wpc # "free" /\ wpc' = "free" /\ acked' = mem
          /\ UNCHANGED <<base, mem, rpc, got, floor>>
        BY <1>5 DEF DropOverlay, SetOverlay, Complete, reader
    <2>2. Proper(mem) /\ Newer(mem, acked)
        BY <2>1 DEF KeysInOrder
    <2>3. \A r \in Readers : rpc[r] # "meta" => Shows(mem.nodes, floor[r])
        BY <2>2, FloorShows
    <2>4. \A r \in Readers : rpc[r] = "overlay" => BornAs(got[r].nodes, mem)
        BY <2>1, <2>2 DEF ReadersInOrder, BornAs, Latest, Newer
    <2>5. QED
        BY <2>1, <2>3, <2>4 DEF ReadersInOrder, Latest
<1>6. QED
    BY <1>2, <1>3, <1>4, <1>5 DEF WriterStep, Writes

LEMMA ReadersReader ==
    ASSUME IInv, KeysInOrder, ReadersInOrder, NEW r \in Readers, ReaderStep(r)
    PROVE  ReadersInOrder'
<1>1. /\ UNCHANGED <<base, overlay, wpc, mem, acked>> /\ Latest' = Latest
      /\ acked \in Mirrors /\ base \in Tables /\ overlay \in Tables
    BY ReaderLeaves, StoreMirrors DEF Latest
<1>2. /\ rpc \in [Readers -> {"meta", "base", "overlay", "done"}]
      /\ got \in [Readers -> Mirrors] /\ floor \in [Readers -> Mirrors]
      /\ got[r].nodes \in Tables /\ floor[r] \in Mirrors /\ Meta(got[r]) \in Metas
    BY MetaFacts DEF IInv, Typed, Mirrors
<1> DEFINE Fine(q) == /\ rpc'[q] # "meta" => Shows(base, floor'[q]) /\ Shows(acked.nodes, floor'[q])
                      /\ rpc'[q] \in {"overlay", "done"} => Shows(got'[q].nodes, floor'[q])
                      /\ rpc'[q] = "overlay" => BornAs(got'[q].nodes, Latest)
<1>3. \A q \in Readers \ {r} : rpc'[q] = rpc[q] /\ got'[q] = got[q] /\ floor'[q] = floor[q]
    BY <1>2 DEF ReaderStep, GetMeta, GetBase, GetOverlay, Use
<1>4. \A q \in Readers \ {r} : Fine(q)
    BY <1>3 DEF ReadersInOrder
<1>5. CASE GetMeta(r)
    <2>1. rpc'[r] = "base" /\ floor'[r] = acked
        BY <1>2, <1>5 DEF GetMeta
    <2>2. QED
        BY <1>1, <1>4, <2>1, BaseShows, ShowsSelf DEF ReadersInOrder, KeysInOrder
<1>6. CASE GetBase(r)
    <2>1. /\ rpc[r] = "base" /\ rpc'[r] = "overlay" /\ floor'[r] = floor[r]
          /\ got'[r] = Loaded(Meta(got[r]), base, Absent)
        BY <1>2, <1>6 DEF GetBase
    <2>2. got'[r].nodes = base
        BY <1>1, <1>2, <2>1, AbsentTable, LoadedFacts, OverNothing
    <2>3. BornAs(base, Latest)
        BY DEF KeysInOrder, BornAs
    <2>4. Fine(r)
        BY <2>1, <2>2, <2>3 DEF ReadersInOrder
    <2>5. QED
        BY <1>1, <1>4, <2>4 DEF ReadersInOrder
<1>7. CASE GetOverlay(r)
    <2>1. /\ rpc[r] = "overlay" /\ rpc'[r] = "done" /\ floor'[r] = floor[r]
          /\ got'[r] = Loaded(Meta(got[r]), got[r].nodes, overlay)
        BY <1>2, <1>7 DEF GetOverlay
    <2>2. got'[r].nodes = Over(overlay, got[r].nodes)
        BY <1>1, <1>2, <2>1, LoadedFacts
    <2>3. Shows(Over(overlay, got[r].nodes), floor[r])
        BY <1>2, <2>1, OverlayShows DEF ReadersInOrder
    <2>4. Fine(r)
        BY <2>1, <2>2, <2>3 DEF ReadersInOrder
    <2>5. QED
        BY <1>1, <1>4, <2>4 DEF ReadersInOrder
<1>8. CASE Use(r)
    <2>1. rpc'[r] = "meta"
        BY <1>2, <1>8 DEF Use
    <2>2. QED
        BY <1>1, <1>4, <2>1 DEF ReadersInOrder
<1>9. QED
    BY <1>5, <1>6, <1>7, <1>8 DEF ReaderStep

LEMMA InitUndisturbed == Init => Undisturbed
<1> SUFFICES ASSUME Init PROVE KeysInOrder /\ ReadersInOrder
    BY DEF Undisturbed
<1>1. /\ base \in Tables /\ DOMAIN base = InitialIds /\ overlay = Absent
      /\ \A i \in InitialIds : base[i].born = i
      /\ meta \in Metas /\ meta.next = -1 /\ meta.dirtyC = {} /\ meta.dirtyS = {}
    BY InitFacts
<1>2. /\ mem = Current /\ acked = Current /\ wpc = "free"
      /\ rpc = [r \in Readers |-> "meta"]
    BY DEF Init
<1>3. Over(overlay, base) = base
    BY <1>1, OverNothing
<1>4. /\ Current.nodes = base /\ Ids(Current) = InitialIds /\ DirtyIds(Current) = {}
      /\ Current.next = -1
    <2>1. Typed /\ DOMAIN overlay = {}
        BY <1>1, InitIInv, AbsentTable DEF IInv
    <2>2. Current.nodes = base /\ Ids(Current) = DOMAIN base
        BY <1>3, <2>1, CurrentFacts
    <2>3. DirtyIds(Current) = {} /\ Current.next = -1
        BY <1>1, <2>1, CurrentFacts
    <2>4. QED
        BY <1>1, <2>2, <2>3
<1>5. \A i \in InitialIds : -1 < i
    BY <1>1 DEF InitialIds
<1>6. Proper(Current)
    BY <1>1, <1>4, <1>5 DEF Proper
<1>7. CleanInBase(Current)
    BY <1>1, <1>4 DEF CleanInBase
<1>8. KeysInOrder
    BY <1>1, <1>2, <1>3, <1>4, <1>6, <1>7, AbsentTable DEF KeysInOrder, Latest
<1>9. ReadersInOrder
    BY <1>2 DEF ReadersInOrder
<1>10. QED
    BY <1>8, <1>9

LEMMA StepUndisturbed ==
    IInv /\ Undisturbed /\ [Next]_vars /\ "rm" \notin Commands /\ Fits => Undisturbed'
<1> SUFFICES ASSUME IInv, Undisturbed, [Next]_vars, "rm" \notin Commands, Fits, crashes' = 0
             PROVE  KeysInOrder' /\ ReadersInOrder'
    BY DEF Undisturbed
<1>1. CASE Next
    <2>1. crashes = 0 /\ ~Crash
        <3>1. crashes \in Nat
            BY DEF IInv, Typed
        <3>2. ~Crash
            BY <3>1 DEF Crash
        <3>3. QED
            BY <1>1, <3>2, ReaderLeaves, WritesBegin
               DEF IInv, Next, WriterStep, Writes, Begins, SetMeta, SetBase, DropOverlay, SetOverlay,
                   Complete
    <2>2. KeysInOrder /\ ReadersInOrder
        BY <2>1 DEF Undisturbed
    <2>3. QED
        BY <1>1, <2>1, <2>2, KeysStep, ReadersWriter, ReadersReader DEF Next
<1>2. CASE UNCHANGED vars
    BY <1>2 DEF vars, keys, writer, reader, Undisturbed, KeysInOrder, ReadersInOrder, Current,
       CleanInBase, Latest
<1>3. QED
    BY <1>1, <1>2

LEMMA UndisturbedHolds ==
    ASSUME "rm" \notin Commands
    PROVE  Spec /\ []Fits => []Undisturbed
<1>1. Init => IInv /\ Undisturbed
    BY InitIInv, InitUndisturbed
<1>2. IInv /\ Undisturbed /\ Fits /\ [Next]_vars => IInv' /\ Undisturbed'
    BY StepIInv, StepUndisturbed
<1>3. QED
    BY <1>1, <1>2, PTL DEF Spec

-----------------------------------------------------------------------------
(* What clean nodes load as.                                                *)

\* The version a table has of a node is one of a node created as that.
LEMMA VersionFacts ==
    ASSUME NEW table \in Tables, NEW k
    PROVE  /\ VersionIn(table, k) \in Nat
           /\ \/ /\ VersionIn(table, k) = 0
                 /\ \A i \in DOMAIN table : table[i].born # k
              \/ \E i \in DOMAIN table : table[i].born = k /\ VersionIn(table, k) = table[i].ver
<1>1. \A i \in DOMAIN table : table[i].ver \in Nat
    BY TableFacts DEF AnyNode
<1>2. CASE \A i \in DOMAIN table : table[i].born # k
    BY <1>2 DEF VersionIn
<1>3. CASE \E i \in DOMAIN table : table[i].born = k
    <2> DEFINE i == CHOOSE i \in DOMAIN table : table[i].born = k
    <2>1. i \in DOMAIN table /\ table[i].born = k
        BY <1>3
    <2>2. VersionIn(table, k) = table[i].ver
        BY <1>3 DEF VersionIn
    <2> HIDE DEF i
    <2>3. QED
        BY <1>1, <2>1, <2>2
<1>4. QED
    BY <1>2, <1>3

\* Where all nodes created as k are at least at a version, so is the table.
LEMMA VersionBound ==
    ASSUME NEW table \in Tables, NEW k, NEW v \in Nat,
           \E i \in DOMAIN table : table[i].born = k,
           \A i \in DOMAIN table : table[i].born = k => table[i].ver >= v
    PROVE  VersionIn(table, k) >= v
BY VersionFacts

\* Whoever takes the lock next loads the mirror that was saved last, until a
\* writer dies: for every number of files, readers and commands, where nothing
\* is removed and a flush takes all that is dirty.
THEOREM LoadsWhatWasSaved ==
    ASSUME "rm" \notin Commands
    PROVE  Spec /\ []Fits => []ReadYourWrites
<1>1. Undisturbed => ReadYourWrites
    BY DEF Undisturbed, KeysInOrder, ReadYourWrites
<1>2. QED
    BY <1>1, UndisturbedHolds, PTL

\* A load without the lock misses nothing that a flush had confirmed when it
\* began, whatever is saved between its three commands.
THEOREM ReadersSeeFlushed ==
    ASSUME "rm" \notin Commands
    PROVE  Spec /\ []Fits => []FlushedIsRead
<1>1. IInv /\ Undisturbed => FlushedIsRead
    <2> SUFFICES ASSUME IInv, Undisturbed, NEW r \in Readers, rpc[r] = "done", crashes = 0,
                        NEW i \in Ids(floor[r]) \ DirtyIds(floor[r])
                 PROVE  VersionIn(got[r].nodes, floor[r].nodes[i].born) >= floor[r].nodes[i].ver
        BY DEF FlushedIsRead
    <2> DEFINE k == floor[r].nodes[i].born
               v == floor[r].nodes[i].ver
    <2>1. got[r].nodes \in Tables /\ floor[r].nodes \in Tables
        BY StoreMirrors DEF Mirrors
    <2>2. Shows(got[r].nodes, floor[r])
        BY DEF Undisturbed, ReadersInOrder
    <2>3. /\ \E j \in DOMAIN got[r].nodes : got[r].nodes[j].born = k
          /\ \A j \in DOMAIN got[r].nodes : got[r].nodes[j].born = k => got[r].nodes[j].ver >= v
        BY <2>2 DEF Shows
    <2>4. v \in Nat
        BY <2>1, TableFacts DEF Ids, AnyNode
    <2> HIDE DEF k, v
    <2>5. VersionIn(got[r].nodes, k) >= v
        BY <2>1, <2>3, <2>4, VersionBound
    <2>6. QED
        BY <2>5 DEF k, v
<1>2. QED
    BY <1>1, UndisturbedHolds, InvariantHolds, PTL

\* What the keys hold between two commands has every node of the mirror that
\* was saved last, at its version or a newer one.
LEMMA NothingLostMidway ==
    ASSUME IInv, KeysInOrder, wpc # "free"
    PROVE  \A i \in Ids(acked) :
              /\ \E j \in Ids(Current) : Current.nodes[j].born = acked.nodes[i].born
              /\ \A j \in Ids(Current) : Current.nodes[j].born = acked.nodes[i].born
                                            => Current.nodes[j].ver >= acked.nodes[i].ver
<1>1. /\ acked \in Mirrors /\ mem \in Mirrors /\ base \in Tables /\ overlay \in Tables
      /\ Proper(acked) /\ Proper(mem) /\ Newer(mem, acked)
      /\ \A i \in Ids(acked) : acked.nodes[i].ver \in Nat
      /\ \A i \in Ids(mem) : mem.nodes[i].ver \in Nat
    BY StoreMirrors, TableFacts DEF KeysInOrder, Mirrors, Ids, AnyNode
<1>2. Current.nodes = Over(overlay, base) /\ Ids(Current) = DOMAIN overlay \cup DOMAIN base
    BY CurrentFacts DEF IInv
<1>3. CASE wpc # "drop"
    <2>1. Current.nodes = acked.nodes
        BY <1>2, <1>3 DEF KeysInOrder
    <2>2. Ids(Current) = Ids(acked)
        BY <2>1 DEF Ids
    <2>3. QED
        BY <1>1, <2>1, <2>2 DEF Proper
<1>4. CASE wpc = "drop"
    <2> DEFINE now == Current.nodes
    <2>1. DOMAIN base = Ids(mem) /\ base = mem.nodes
        BY <1>4, StoreMirrors DEF Ids
    <2>2. /\ \A j \in DOMAIN overlay : now[j] = acked.nodes[j] /\ j > 0 /\ j \in Ids(acked)
          /\ \A j \in Ids(mem) \ DOMAIN overlay : now[j] = mem.nodes[j]
        <3>1. now = Over(overlay, base)
            BY <1>2
        <3> HIDE DEF now
        <3>2. /\ \A j \in DOMAIN overlay : now[j] = overlay[j]
              /\ \A j \in DOMAIN base \ DOMAIN overlay : now[j] = base[j]
            BY <1>1, <3>1, OverTable
        <3>3. QED
            BY <2>1, <3>2 DEF KeysInOrder
    <2>3. \A j \in DOMAIN overlay : j \in Ids(mem) /\ mem.nodes[j].born = acked.nodes[j].born
        BY <1>1, <2>2 DEF Newer
    <2> HIDE DEF now
    <2>4. ASSUME NEW i \in Ids(acked)
          PROVE  /\ \E j \in Ids(Current) : now[j].born = acked.nodes[i].born
                 /\ \A j \in Ids(Current) : now[j].born = acked.nodes[i].born
                                               => now[j].ver >= acked.nodes[i].ver
        <3>1. PICK j \in Ids(mem) : /\ mem.nodes[j].born = acked.nodes[i].born
                                    /\ mem.nodes[j].ver >= acked.nodes[i].ver
            BY <1>1 DEF Newer
        <3>2. j \in Ids(Current) /\ now[j].born = acked.nodes[i].born
            BY <1>2, <2>1, <2>2, <2>3, <3>1
        <3>3. ASSUME NEW l \in Ids(Current), now[l].born = acked.nodes[i].born
              PROVE  now[l].ver >= acked.nodes[i].ver
            <4>1. CASE l \in DOMAIN overlay
                <5>1. l = i
                    BY <1>1, <2>2, <3>3, <4>1 DEF Proper
                <5>2. QED
                    BY <1>1, <2>2, <4>1, <5>1
            <4>2. CASE l \notin DOMAIN overlay
                <5>1. l \in Ids(mem) /\ now[l] = mem.nodes[l]
                    BY <1>2, <2>1, <2>2, <4>2
                <5>2. l = j
                    BY <1>1, <3>1, <3>3, <5>1 DEF Proper
                <5>3. QED
                    BY <3>1, <5>1, <5>2
            <4>3. QED
                BY <4>1, <4>2
        <3>4. QED
            BY <3>2, <3>3
    <2>5. QED
        BY <2>4 DEF now
<1>5. QED
    BY <1>3, <1>4

\* The first death of a writer, at whichever command of its save, costs no
\* acknowledged change.
THEOREM FirstCrashKeepsAcked ==
    ASSUME "rm" \notin Commands
    PROVE  Spec /\ []Fits => CrashKeepsAcked
<1>1. IInv /\ Undisturbed /\ [Next]_vars =>
         [crashes = 0 /\ crashes' # crashes =>
             \A k \in Keys : VersionIn(acked'.nodes, k) >= VersionIn(acked.nodes, k)]_vars
    <2> SUFFICES ASSUME IInv, Undisturbed, Next, crashes = 0, crashes' # crashes, NEW k \in Keys
                 PROVE  VersionIn(acked'.nodes, k) >= VersionIn(acked.nodes, k)
        BY DEF vars
    <2>1. Crash
        BY ReaderLeaves, WritesBegin
           DEF IInv, Next, WriterStep, Writes, Begins, SetMeta, SetBase, DropOverlay, SetOverlay,
               Complete
    <2>2. wpc # "free" /\ acked' = Current
        BY <2>1 DEF Crash
    <2>3. Current.nodes \in Tables /\ acked.nodes \in Tables
        BY CurrentFacts, StoreMirrors DEF IInv, Mirrors
    <2>4. \A i \in DOMAIN acked.nodes :
              /\ acked.nodes[i].ver \in Nat
              /\ \E j \in DOMAIN Current.nodes : Current.nodes[j].born = acked.nodes[i].born
              /\ \A j \in DOMAIN Current.nodes : Current.nodes[j].born = acked.nodes[i].born
                                            => Current.nodes[j].ver >= acked.nodes[i].ver
        BY <2>2, <2>3, NothingLostMidway, TableFacts DEF Undisturbed, Ids, AnyNode
    <2> DEFINE now == Current.nodes
               then == acked.nodes
    <2> HIDE DEF now, then
    <2>5. now \in Tables /\ then \in Tables
        BY <2>3 DEF now, then
    <2>6. VersionIn(now, k) >= VersionIn(then, k)
        <3>1. CASE VersionIn(then, k) = 0
            BY <2>5, <3>1, VersionFacts
        <3>2. CASE \E i \in DOMAIN then : then[i].born = k /\ VersionIn(then, k) = then[i].ver
            <4>1. PICK i \in DOMAIN then : then[i].born = k /\ VersionIn(then, k) = then[i].ver
                BY <3>2
            <4>2. /\ then[i].ver \in Nat
                  /\ \E j \in DOMAIN now : now[j].born = k
                  /\ \A j \in DOMAIN now : now[j].born = k => now[j].ver >= then[i].ver
                BY <2>4, <4>1 DEF now, then
            <4>3. QED
                BY <2>5, <4>1, <4>2, VersionBound
        <3>3. QED
            BY <2>5, <3>1, <3>2, VersionFacts
    <2>7. QED
        BY <2>2, <2>6 DEF now, then
<1>2. QED
    BY <1>1, UndisturbedHolds, InvariantHolds, PTL DEF Spec, CrashKeepsAcked
=============================================================================
