------------------------ MODULE WorkspaceFlush_proofs ------------------------
(* Proofs about WorkspaceFlush, for all numbers of files, flushers, hosts,   *)
(* names, versions and crashes and for every size of a batch.                *)
EXTENDS WorkspaceFlush, Mirror_proofs

-----------------------------------------------------------------------------
(* What holds in every configuration.                                        *)

Snaps == [ids : SUBSET Int, content : SUBSET Int, structure : SUBSET Int, nodes : Tables,
          cwd : Int, cwdDirty : BOOLEAN]
Remaps == UNION {[S -> Int] : S \in SUBSET Int}
Targets == [id : Int, node : AnyNode]

Typed ==
    /\ mirror \in Mirrors
    /\ rows \in Tables
    /\ nextRow \in Int
    /\ cwdRow \in Int
    /\ pending \in Tables
    /\ lock \in Flushers \cup {NoOne}
    /\ fpc \in [Flushers -> {"idle", "lock", "commit", "confirm"}]
    /\ snap \in [Flushers -> Snaps]
    /\ remap \in [Flushers -> Remaps]
    /\ answer \in [Flushers -> {"none", "true", "false"}]
    /\ target \in [Hosts -> Targets]
    /\ crashes \in Nat

\* An id is the root's, that of a row, or one that has been given to a new node.
IdOk(m, row, i) == i # 0 /\ m.next < i /\ i < row

Ranged ==
    /\ -MaxTemp - 1 <= mirror.next /\ mirror.next <= -1
    /\ RootId < nextRow
    /\ \A i \in Ids(mirror) \cup DirtyIds(mirror) : IdOk(mirror, nextRow, i)
    /\ \A f \in Flushers : \A i \in DOMAIN snap[f].nodes : IdOk(mirror, nextRow, i)
    /\ \A h \in Hosts : target[h] # NoTarget => IdOk(mirror, nextRow, target[h].id)
    /\ \A i \in DOMAIN rows : 0 < i /\ i < nextRow
    /\ \A i \in DOMAIN pending : 0 < i /\ i < nextRow

\* Every node was created under one of the keys.
Bears(table) == \A i \in DOMAIN table : table[i].born \in Keys

Born ==
    /\ Bears(mirror.nodes) /\ Bears(rows) /\ Bears(pending)
    /\ \A f \in Flushers : Bears(snap[f].nodes)
    /\ \A h \in Hosts : target[h] # NoTarget => target[h].node.born \in Keys

\* The keys a transaction gave out are its own: no node of the mirror has one
\* of them before the confirmation, and no other flush gave the same.
Given(f) == {remap[f][i] : i \in DOMAIN remap[f]}

Own(f) ==
    /\ DOMAIN remap[f] = Temps(DOMAIN snap[f].nodes)
    /\ \A i, j \in DOMAIN remap[f] : remap[f][i] = remap[f][j] => i = j
    /\ \A i \in DOMAIN remap[f] :
          /\ 0 < remap[f][i] /\ remap[f][i] < nextRow
          /\ remap[f][i] \notin Ids(mirror)
          /\ \A h \in Hosts : target[h].id # remap[f][i]
    /\ \A g \in Flushers : fpc[g] = "confirm" /\ g # f => Given(f) \cap Given(g) = {}

FreshKeysGiven == \A f \in Flushers : fpc[f] = "confirm" => Own(f)

Base == Typed /\ Ranged /\ Born /\ FreshKeysGiven

-----------------------------------------------------------------------------
(* The transaction.                                                          *)

\* A snapshot holds the dirty nodes of its batch, as they are.
LEMMA SnapshotFacts ==
    ASSUME NEW m \in Mirrors
    PROVE  /\ Snapshot(m) \in Snaps
           /\ DOMAIN Snapshot(m).nodes \subseteq DirtyIds(m) \cap Ids(m)
           /\ \A i \in DOMAIN Snapshot(m).nodes : Snapshot(m).nodes[i] = m.nodes[i]
           /\ Snapshot(m).cwd = m.cwd /\ Snapshot(m).cwdDirty = m.dirtyCwd
<1>1. /\ ContentBatch(m) \in SUBSET Int /\ StructureBatch(m) \in SUBSET Int
      /\ BatchIds(m) \in SUBSET Int /\ BatchIds(m) \in SUBSET DirtyIds(m)
    BY BatchIsDirty DEF Mirrors, DirtyIds
<1>2. m.nodes \in Tables /\ (BatchIds(m) \cap Ids(m)) \in SUBSET DOMAIN m.nodes
    BY DEF Mirrors, Ids
<1> DEFINE nodes == Restricted(m.nodes, BatchIds(m) \cap Ids(m))
<1>3. /\ nodes \in Tables /\ DOMAIN nodes = BatchIds(m) \cap Ids(m)
      /\ \A i \in BatchIds(m) \cap Ids(m) : nodes[i] = m.nodes[i]
    BY <1>2, RestrictedTable
<1>4. /\ Snapshot(m).nodes = nodes /\ Snapshot(m).cwd = m.cwd
      /\ Snapshot(m).cwdDirty = m.dirtyCwd
    BY DEF Snapshot
<1> HIDE DEF nodes
<1>5. Snapshot(m) \in Snaps
    BY <1>1, <1>3 DEF Snapshot, Snaps, Mirrors, nodes
<1>6. QED
    BY <1>1, <1>3, <1>4, <1>5

\* A payload that is written has no parent to wait for, or its parent is
\* written too.
LEMMA PlacedParents ==
    ASSUME NEW s
    PROVE  /\ Placed(s) \subseteq DOMAIN s.nodes
           /\ \A i \in Placed(s) : s.nodes[i].parent >= 0 \/ s.nodes[i].parent \in Placed(s)
<1> DEFINE ids == DOMAIN s.nodes
           closed(T) == \A i \in ids :
                           s.nodes[i].parent >= 0 \/ s.nodes[i].parent \in T => i \in T
           P == Placed(s)
           Q == {i \in ids : s.nodes[i].parent >= 0 \/ s.nodes[i].parent \in P}
<1>1. P = {i \in ids : \A T \in SUBSET ids : closed(T) => i \in T}
    BY DEF Placed
<1>2. closed(P)
    <2> SUFFICES ASSUME NEW i \in ids, s.nodes[i].parent >= 0 \/ s.nodes[i].parent \in P,
                        NEW T \in SUBSET ids, closed(T)
                 PROVE  i \in T
        BY <1>1
    <2>1. P \subseteq T
        BY <1>1
    <2> HIDE DEF P
    <2>2. QED
        BY <2>1
<1>3. Q \in SUBSET ids /\ closed(Q)
    <2>1. Q \in SUBSET ids
        OBVIOUS
    <2>2. Q \subseteq P
        BY <1>2
    <2> HIDE DEF P
    <2>3. QED
        BY <2>1, <2>2
<1>4. P \subseteq Q
    <2> HIDE DEF Q, closed
    <2>1. QED
        BY <1>1, <1>3
<1>5. QED
    BY <1>4

\* What a transaction writes: the new nodes under new keys, in the place of
\* their temporary ids, and the others over their rows.
LEMMA TransactionFacts ==
    ASSUME NEW s \in Snaps, rows \in Tables, nextRow \in Int, NEW low \in Int,
           \A i \in DOMAIN rows : 0 < i /\ i < nextRow,
           \A i \in DOMAIN s.nodes : low < i /\ i < nextRow, 0 < nextRow
    PROVE  LET new == NewIds(s)
               table == Over(Updates(s), Over(Inserts(s), rows))
           IN /\ new \in Remaps
              /\ DOMAIN new = Temps(Placed(s))
              /\ \A i \in DOMAIN new :
                    nextRow <= new[i] /\ new[i] < nextRow + Cardinality(DOMAIN new)
              /\ \A i, j \in DOMAIN new : new[i] = new[j] => i = j
              /\ Cardinality(DOMAIN new) \in Nat
              /\ table \in Tables
              /\ DOMAIN table = DOMAIN rows \cup {new[i] : i \in DOMAIN new}
              /\ \A i \in DOMAIN new : table[new[i]] = RealNode(new, s.nodes[i])
              /\ \A i \in Placed(s) \cap DOMAIN rows : table[i] = RealNode(new, s.nodes[i])
              /\ \A i \in DOMAIN rows \ Placed(s) : table[i] = rows[i]
<1> DEFINE temps == Temps(Placed(s))
           new == NewIds(s)
           ins == Inserts(s)
           upd == Updates(s)
           keys == {new[i] : i \in DOMAIN new}
<1>1. /\ Placed(s) \subseteq DOMAIN s.nodes /\ DOMAIN s.nodes \in SUBSET Int
      /\ \A i \in DOMAIN s.nodes : s.nodes[i] \in AnyNode
    BY PlacedParents, TableFacts DEF Snaps
<1>2. /\ temps \in SUBSET Placed(s) /\ temps \in SUBSET Int
      /\ temps \in SUBSET (low..0) /\ IsFiniteSet(temps)
    <2>1. temps \in SUBSET Placed(s) /\ temps \in SUBSET Int
        BY <1>1 DEF Temps
    <2>2. temps \in SUBSET (low..0)
        BY <1>1 DEF Temps
    <2>3. IsFiniteSet(low..0)
        BY FS_Interval
    <2>4. QED
        BY <2>1, <2>2, <2>3, FS_Subset
<1>3. FreshKeys(temps, nextRow, new)
    BY DEF FreshKeys, NewIds
<1>4. Cardinality(temps) \in Nat
    BY <1>2, FS_CardinalityType
<1> HIDE DEF temps, new
<1>5. /\ DOMAIN new = temps
      /\ \A i \in temps : new[i] \in nextRow..(nextRow + Cardinality(temps) - 1)
      /\ \A i, j \in temps : new[i] = new[j] => i = j
    BY <1>2, <1>3, FreshKeysDiffer
<1>6. \A i \in temps : new[i] \in Int /\ nextRow <= new[i] /\ new[i] < nextRow + Cardinality(temps)
    BY <1>4, <1>5
<1>7. new \in [temps -> Int]
    <2>1. new = [i \in temps |-> new[i]]
        BY <1>3 DEF FreshKeys
    <2> DEFINE value(i) == new[i]
    <2>2. \A i \in temps : value(i) \in Int
        BY <1>6
    <2>3. new = [i \in temps |-> value(i)]
        BY <2>1
    <2> HIDE DEF value
    <2>4. QED
        BY <2>2, <2>3
<1>8. \A i \in DOMAIN s.nodes : RealNode(new, s.nodes[i]) \in AnyNode
    BY <1>1, <1>2, <1>7, RealNodeType
<1>9. /\ ins \in Tables /\ DOMAIN ins = keys
      /\ \A i \in temps : ins[new[i]] = RealNode(new, s.nodes[i])
    <2>1. ins = [k \in keys |-> RealNode(new, s.nodes[CHOOSE i \in DOMAIN new : new[i] = k])]
        BY DEF Inserts, new
    <2>2. \A i \in temps : (CHOOSE j \in DOMAIN new : new[j] = new[i]) = i
        BY <1>5
    <2>3. \A i \in temps : ins[new[i]] = RealNode(new, s.nodes[i])
        BY <1>5, <2>1, <2>2
    <2>4. keys \in SUBSET Int
        BY <1>5, <1>6
    <2>5. \A k \in keys : ins[k] \in AnyNode
        <3>1. \A i \in temps : ins[new[i]] \in AnyNode
            BY <1>1, <1>2, <1>8, <2>3
        <3>2. \A k \in keys : \E i \in temps : k = new[i]
            BY <1>5
        <3> HIDE DEF keys
        <3>3. QED
            BY <3>1, <3>2
    <2> HIDE DEF keys
    <2>6. ins \in [keys -> AnyNode]
        BY <2>1, <2>5
    <2>7. QED
        BY <2>3, <2>4, <2>6, TableIntro
<1>10. /\ upd \in Tables /\ DOMAIN upd = Placed(s) \cap DOMAIN rows
       /\ \A i \in Placed(s) \cap DOMAIN rows : upd[i] = RealNode(new, s.nodes[i])
    <2>1. upd = [i \in (Placed(s) \cap DOMAIN rows) |-> RealNode(new, s.nodes[i])]
        BY DEF Updates, new
    <2>2. upd \in [Placed(s) \cap DOMAIN rows -> AnyNode]
        BY <1>1, <1>8, <2>1
    <2>3. (Placed(s) \cap DOMAIN rows) \in SUBSET Int
        BY <1>1
    <2>4. QED
        BY <2>1, <2>2, <2>3, TableIntro
<1>11. \A i \in temps : new[i] \notin DOMAIN rows
    BY <1>6, TableFacts
<1> HIDE DEF ins, upd
<1> DEFINE inserted == Over(ins, rows)
           table == Over(upd, inserted)
<1>12. /\ inserted \in Tables /\ DOMAIN inserted = keys \cup DOMAIN rows
       /\ \A i \in temps : inserted[new[i]] = RealNode(new, s.nodes[i])
       /\ \A i \in DOMAIN rows : inserted[i] = rows[i]
    <2>1. \A i \in DOMAIN rows : i \notin keys
        BY <1>5, <1>11
    <2>2. \A i \in temps : new[i] \in keys
        BY <1>5
    <2> HIDE DEF keys
    <2>3. /\ inserted \in Tables /\ DOMAIN inserted = keys \cup DOMAIN rows
          /\ \A k \in keys : inserted[k] = ins[k]
          /\ \A i \in DOMAIN rows \ keys : inserted[i] = rows[i]
        BY <1>9, OverTable
    <2> HIDE DEF inserted
    <2>4. QED
        BY <1>9, <2>1, <2>2, <2>3
<1> HIDE DEF inserted
<1>13. /\ table \in Tables /\ DOMAIN table = DOMAIN upd \cup DOMAIN inserted
       /\ \A i \in DOMAIN upd : table[i] = upd[i]
       /\ \A i \in DOMAIN inserted \ DOMAIN upd : table[i] = inserted[i]
    BY <1>10, <1>12, OverTable
<1> HIDE DEF table
<1>14. DOMAIN table = DOMAIN rows \cup keys
    BY <1>10, <1>12, <1>13
<1>15. \A i \in temps : table[new[i]] = RealNode(new, s.nodes[i])
    <2>1. \A i \in temps : new[i] \in keys /\ new[i] \notin DOMAIN upd
        BY <1>5, <1>10, <1>11
    <2>2. QED
        BY <1>12, <1>13, <2>1
<1>16. \A i \in Placed(s) \cap DOMAIN rows : table[i] = RealNode(new, s.nodes[i])
    BY <1>10, <1>13
<1>17. \A i \in DOMAIN rows \ Placed(s) : table[i] = rows[i]
    BY <1>10, <1>12, <1>13
<1>18. new \in Remaps
    BY <1>2, <1>7 DEF Remaps
<1>19. table = Over(Updates(s), Over(Inserts(s), rows))
    BY DEF table, inserted, ins, upd
<1>20. QED
    BY <1>4, <1>5, <1>6, <1>13, <1>14, <1>15, <1>16, <1>17, <1>18, <1>19 DEF new, temps

-----------------------------------------------------------------------------
(* Types.                                                                    *)

\* The first rows: the root directory and the files in it, each with a key and
\* a name of its own.
LEMMA FirstRows ==
    ASSUME Init
    PROVE  /\ rows \in Tables
           /\ DOMAIN rows = InitialIds
           /\ RootId \in InitialIds
           /\ rows[RootId] = Node(NoParent, NoParent, "dir", 1, RootId)
           /\ \A i \in InitialIds \ {RootId} :
                 /\ rows[i].parent = RootId /\ rows[i].name \in Files
                 /\ rows[i].kind = "file" /\ rows[i].ver = 1 /\ rows[i].born = i
           /\ \A i, j \in InitialIds \ {RootId} : i # j => rows[i].name # rows[j].name
           /\ Cardinality(Files) \in Nat
<1> DEFINE n == Cardinality(Files)
<1>1. n \in Nat /\ IsFiniteSet(Files)
    BY FlushAssumption, FS_CardinalityType
<1> HIDE DEF n
<1>2. PICK key \in [Files -> 2..(1 + n)] :
         /\ \A a, b \in Files : a # b => key[a] # key[b]
         /\ rows = [i \in 1..(1 + n) |->
                      IF i = RootId THEN Node(NoParent, NoParent, "dir", 1, RootId)
                      ELSE Node(RootId, CHOOSE a \in Files : key[a] = i, "file", 1, i)]
    BY DEF Init, n
<1>3. IsFiniteSet(2..(1 + n)) /\ Cardinality(2..(1 + n)) = n
    <2>1. 1 + n \in Int
        BY <1>1
    <2>2. /\ IsFiniteSet(2..(1 + n))
          /\ Cardinality(2..(1 + n)) = IF 2 > 1 + n THEN 0 ELSE (1 + n) - 2 + 1
        BY <2>1, FS_Interval
    <2>3. QED
        BY <1>1, <2>2
<1>4. key \in Injection(Files, 2..(1 + n))
    BY <1>2 DEF Injection, IsInjective
<1>5. key \in Surjection(Files, 2..(1 + n))
    BY <1>1, <1>3, <1>4, FS_Injection DEF n
<1>6. \A i \in 2..(1 + n) : \E a \in Files : key[a] = i
    BY <1>5 DEF Surjection
<1>7. InitialIds = 1..(1 + n) /\ RootId \in InitialIds
    BY <1>1 DEF InitialIds, RootId, n
<1> DEFINE named(i) == CHOOSE a \in Files : key[a] = i
<1>8. \A i \in InitialIds \ {RootId} : named(i) \in Files /\ key[named(i)] = i
    <2>1. \A i \in InitialIds \ {RootId} : i \in 2..(1 + n)
        BY <1>1, <1>7 DEF RootId
    <2>2. QED
        BY <1>6, <2>1
<1>9. /\ DOMAIN rows = InitialIds
      /\ rows[RootId] = Node(NoParent, NoParent, "dir", 1, RootId)
      /\ \A i \in InitialIds \ {RootId} : rows[i] = Node(RootId, named(i), "file", 1, i)
    BY <1>2, <1>7
<1> HIDE DEF named
<1>10. \A i \in InitialIds : rows[i] \in AnyNode
    <2>1. Node(NoParent, NoParent, "dir", 1, RootId) \in AnyNode
        BY DEF AnyNode, Node, NoParent, RootId
    <2>2. \A i \in InitialIds \ {RootId} : Node(RootId, named(i), "file", 1, i) \in AnyNode
        BY <1>1, <1>7, <1>8, FlushAssumption DEF AnyNode, Node, RootId
    <2>3. QED
        BY <1>9, <2>1, <2>2
<1>11. rows \in Tables
    <2>1. rows \in [InitialIds -> AnyNode]
        BY <1>2, <1>7, <1>10
    <2>2. InitialIds \in SUBSET Int
        BY <1>1, <1>7
    <2>3. QED
        BY <2>1, <2>2, TableIntro
<1>12. QED
    BY <1>1, <1>7, <1>8, <1>9, <1>11 DEF Node, n

\* What is known of every state with an idle flush.
LEMMA NothingTyped ==
    /\ Empty \in Tables /\ Empty \in Remaps /\ DOMAIN Empty = {}
    /\ NoSnap \in Snaps /\ NoSnap.nodes = Empty /\ NoTarget \in Targets
<1>1. Empty \in [{} -> AnyNode] /\ Empty \in [{} -> Int] /\ {} \in SUBSET Int
    BY DEF Empty
<1>2. Empty \in Tables
    BY <1>1, TableIntro
<1>3. Empty \in Remaps
    BY <1>1 DEF Remaps
<1>4. NoSnap \in Snaps /\ NoSnap.nodes = Empty
    BY <1>2 DEF NoSnap, Snaps, RootId
<1>5. NoTarget \in Targets
    BY DEF NoTarget, Targets, AnyNode, Node, NoParent
<1>6. QED
    BY <1>2, <1>3, <1>4, <1>5 DEF Empty

\* What the edits of one node do to the mirror.
LEMMA EditEffect ==
    ASSUME mirror \in Mirrors, NEW i \in Ids(mirror), Edit(i)
    PROVE  /\ mirror' \in Mirrors /\ Ids(mirror') = Ids(mirror) \cup {i}
           /\ \A j \in Ids(mirror) \ {i} : mirror'.nodes[j] = mirror.nodes[j]
           /\ mirror'.nodes[i].ver = mirror.nodes[i].ver + 1
           /\ mirror'.nodes[i].born = mirror.nodes[i].born
           /\ mirror'.nodes[i].parent = mirror.nodes[i].parent
           /\ mirror'.nodes[i].name = mirror.nodes[i].name
           /\ mirror'.nodes[i].kind = mirror.nodes[i].kind
           /\ mirror'.dirtyC = mirror.dirtyC \cup {i} /\ mirror'.dirtyS = mirror.dirtyS
           /\ mirror'.cwd = mirror.cwd /\ mirror'.dirtyCwd = mirror.dirtyCwd
           /\ mirror'.next = mirror.next
<1> DEFINE node == mirror.nodes[i]
           new == Written(mirror, i, node)
<1>1. i \in Int /\ node \in AnyNode
    BY TableFacts DEF Mirrors, Ids
<1>2. node = IF i \in Ids(mirror) THEN mirror.nodes[i] ELSE node
    OBVIOUS
<1>3. mirror' = new
    BY DEF Edit
<1> HIDE DEF node
<1>4. /\ new \in Mirrors /\ Ids(new) = Ids(mirror) \cup {i}
      /\ \A j \in Ids(mirror) \ {i} : new.nodes[j] = mirror.nodes[j]
      /\ new.nodes[i].ver = node.ver + 1 /\ new.nodes[i].born = node.born
      /\ new.nodes[i].parent = node.parent /\ new.nodes[i].name = node.name
      /\ new.nodes[i].kind = node.kind
      /\ new.dirtyC = mirror.dirtyC \cup {i} /\ new.dirtyS = mirror.dirtyS
      /\ new.cwd = mirror.cwd /\ new.dirtyCwd = mirror.dirtyCwd /\ new.next = mirror.next
    BY <1>1, <1>2, WrittenFacts
<1> HIDE DEF new
<1>5. Ids(mirror') = Ids(new)
    BY <1>3 DEF Ids
<1>6. QED
    BY <1>3, <1>4, <1>5 DEF node

LEMMA TouchEffect ==
    ASSUME mirror \in Mirrors, NEW i \in Ids(mirror), Touch(i)
    PROVE  /\ mirror' \in Mirrors /\ Ids(mirror') = Ids(mirror)
           /\ mirror'.nodes = mirror.nodes /\ mirror'.next = mirror.next
           /\ mirror'.dirtyC = mirror.dirtyC \cup {i} /\ mirror'.dirtyS = mirror.dirtyS
           /\ mirror'.cwd = mirror.cwd /\ mirror'.dirtyCwd = mirror.dirtyCwd
<1> DEFINE new == Touched(mirror, i)
<1>1. i \in Int
    BY TableFacts DEF Mirrors, Ids
<1>2. mirror' = new
    BY DEF Touch
<1>3. /\ new \in Mirrors /\ new.nodes = mirror.nodes /\ new.next = mirror.next
      /\ new.dirtyC = mirror.dirtyC \cup {i} /\ new.dirtyS = mirror.dirtyS
      /\ new.cwd = mirror.cwd /\ new.dirtyCwd = mirror.dirtyCwd
    BY <1>1, TouchedFacts
<1> HIDE DEF new
<1>4. mirror'.nodes = mirror.nodes
    BY <1>2, <1>3
<1>5. Ids(mirror') = Ids(mirror)
    BY <1>4 DEF Ids
<1>6. QED
    BY <1>2, <1>3, <1>5

LEMMA CdEffect ==
    ASSUME mirror \in Mirrors, NEW i \in Ids(mirror), Cd(i)
    PROVE  /\ mirror' \in Mirrors /\ Ids(mirror') = Ids(mirror)
           /\ mirror'.nodes = mirror.nodes /\ mirror'.next = mirror.next
           /\ mirror'.dirtyC = mirror.dirtyC /\ mirror'.dirtyS = mirror.dirtyS
           /\ mirror'.cwd = i /\ mirror'.dirtyCwd = TRUE
<1> DEFINE new == ChangedDir(mirror, i)
<1>1. i \in Int
    BY TableFacts DEF Mirrors, Ids
<1>2. mirror' = new
    BY DEF Cd
<1>3. /\ new \in Mirrors /\ new.nodes = mirror.nodes /\ new.next = mirror.next
      /\ new.dirtyC = mirror.dirtyC /\ new.dirtyS = mirror.dirtyS
      /\ new.cwd = i /\ new.dirtyCwd = TRUE
    BY <1>1, ChangedDirFacts
<1> HIDE DEF new
<1>4. mirror'.nodes = mirror.nodes
    BY <1>2, <1>3
<1>5. Ids(mirror') = Ids(mirror)
    BY <1>4 DEF Ids
<1>6. QED
    BY <1>2, <1>3, <1>5

LEMMA MarkEffect ==
    ASSUME mirror \in Mirrors, NEW i \in Ids(mirror), Touch(i) \/ Cd(i)
    PROVE  /\ Ids(mirror') = Ids(mirror)
           /\ mirror'.nodes = mirror.nodes /\ mirror'.next = mirror.next
<1>1. CASE Touch(i)
    BY <1>1, TouchEffect
<1>2. CASE Cd(i)
    BY <1>2, CdEffect
<1>3. QED
    BY <1>1, <1>2

LEMMA BaseInit == Init => Base
<1> SUFFICES ASSUME Init PROVE Base
    OBVIOUS
<1> USE FirstRows, NothingTyped
<1>1. nextRow = 2 + Cardinality(Files) /\ nextRow \in Int
    BY DEF Init
<1>2. /\ mirror \in Mirrors /\ mirror.nodes = rows /\ mirror.next = -1
      /\ DirtyIds(mirror) = {} /\ Ids(mirror) = InitialIds
    BY DEF Init, Mirrors, DirtyIds, Ids, RootId
<1>3. \A i \in InitialIds : 0 < i /\ i < nextRow
    BY <1>1 DEF InitialIds
<1>4. Typed
    <2>1. cwdRow \in Int /\ pending \in Tables /\ lock \in Flushers \cup {NoOne} /\ crashes \in Nat
        BY DEF Init, RootId
    <2>2. /\ fpc \in [Flushers -> {"idle", "lock", "commit", "confirm"}]
          /\ answer \in [Flushers -> {"none", "true", "false"}]
        BY DEF Init
    <2>3. /\ snap \in [Flushers -> Snaps] /\ remap \in [Flushers -> Remaps]
          /\ target \in [Hosts -> Targets]
        BY DEF Init
    <2>4. QED
        BY <1>1, <1>2, <2>1, <2>2, <2>3 DEF Typed
<1>5. Ranged
    <2>1. RootId < nextRow /\ -MaxTemp - 1 <= mirror.next /\ mirror.next <= -1
        BY <1>1, <1>2, FlushAssumption DEF RootId
    <2>2. \A i \in Ids(mirror) \cup DirtyIds(mirror) : IdOk(mirror, nextRow, i)
        BY <1>1, <1>2 DEF IdOk, InitialIds
    <2>3. \A f \in Flushers : DOMAIN snap[f].nodes = {}
        BY DEF Init
    <2>4. \A h \in Hosts : target[h] = NoTarget
        BY DEF Init
    <2>5. DOMAIN pending = {} /\ DOMAIN rows = InitialIds
        BY DEF Init
    <2>6. QED
        BY <1>3, <2>1, <2>2, <2>3, <2>4, <2>5 DEF Ranged
<1>6. Born
    <2>1. \A i \in InitialIds : rows[i].born \in Keys
        BY DEF Keys, Node
    <2>2. \A f \in Flushers : DOMAIN snap[f].nodes = {}
        BY DEF Init
    <2>3. \A h \in Hosts : target[h] = NoTarget
        BY DEF Init
    <2>4. DOMAIN pending = {} /\ mirror.nodes = rows
        BY <1>2 DEF Init
    <2>5. QED
        BY <2>1, <2>2, <2>3, <2>4 DEF Born, Bears
<1>7. FreshKeysGiven
    BY DEF Init, FreshKeysGiven
<1>8. QED
    BY <1>4, <1>5, <1>6, <1>7 DEF Base

-----------------------------------------------------------------------------
(* What the steps of a flush do to the mirror and to the rows.               *)

\* The map of a confirming flush is fresh.
LEMMA OwnIsFresh ==
    ASSUME Base, NEW f \in Flushers, fpc[f] = "confirm"
    PROVE  /\ Fresh(mirror, remap[f])
           /\ DOMAIN remap[f] = Temps(DOMAIN snap[f].nodes)
           /\ \A i \in DOMAIN remap[f] : i < 0 /\ 0 < remap[f][i] /\ remap[f][i] < nextRow
<1>1. Own(f)
    BY DEF Base, FreshKeysGiven
<1>2. remap[f] \in Remaps
    BY DEF Base, Typed
<1>3. DOMAIN remap[f] \in SUBSET Int /\ remap[f] \in [DOMAIN remap[f] -> Int]
    BY <1>2 DEF Remaps
<1>4. QED
    BY <1>1, <1>3 DEF Own, Fresh, Temps

LEMMA ConfirmEffect ==
    ASSUME Base, NEW f \in Flushers, Confirm(f)
    PROVE  LET real(i) == Real(remap[f], i)
               done(S) == {real(i) : i \in {k \in DOMAIN snap[f].nodes :
                                               Same(mirror, snap[f], remap[f], k)} \cap S}
           IN /\ mirror' \in Mirrors
              /\ Ids(mirror') = {real(i) : i \in Ids(mirror)}
              /\ \A i \in Ids(mirror) : mirror'.nodes[real(i)] = RealNode(remap[f], mirror.nodes[i])
              /\ \A i \in DOMAIN snap[f].nodes :
                    Same(mirror, snap[f], remap[f], i) <=>
                       /\ real(i) \in Ids(mirror')
                       /\ mirror'.nodes[real(i)] = RealNode(remap[f], snap[f].nodes[i])
              /\ \A i, j \in Ids(mirror) : real(i) = real(j) => i = j
              /\ mirror'.dirtyC = mirror.dirtyC \ done(snap[f].content)
              /\ mirror'.dirtyS = mirror.dirtyS \ done(snap[f].structure)
              /\ mirror'.next = mirror.next
              /\ mirror'.cwd = IF mirror.cwd \in Ids(mirror) THEN real(mirror.cwd) ELSE mirror.cwd
              /\ mirror'.dirtyCwd =
                    (mirror.dirtyCwd /\ ~(snap[f].cwdDirty /\ mirror'.cwd = snap[f].cwd))
<1> DEFINE now == Remapped(mirror, remap[f])
           new == Confirmed(mirror, snap[f], remap[f])
<1>1. mirror' = new /\ fpc[f] = "confirm"
    BY DEF Confirm
<1>2. mirror \in Mirrors /\ snap[f].cwdDirty \in BOOLEAN
    BY DEF Base, Typed, Snaps
<1>3. Fresh(mirror, remap[f])
    BY <1>1, OwnIsFresh
<1>4. /\ now \in Mirrors
      /\ Ids(now) = {Real(remap[f], i) : i \in Ids(mirror)}
      /\ \A i \in Ids(mirror) : now.nodes[Real(remap[f], i)] = RealNode(remap[f], mirror.nodes[i])
      /\ \A i, j \in Ids(mirror) : Real(remap[f], i) = Real(remap[f], j) => i = j
      /\ now.cwd = IF mirror.cwd \in Ids(mirror) THEN Real(remap[f], mirror.cwd) ELSE mirror.cwd
    BY <1>2, <1>3, RemappedFacts
<1> DEFINE done(S) == {Real(remap[f], i) : i \in {k \in DOMAIN snap[f].nodes :
                                                    Same(mirror, snap[f], remap[f], k)} \cap S}
<1>5. /\ new \in Mirrors
      /\ new.nodes = now.nodes /\ new.cwd = now.cwd /\ new.next = mirror.next
      /\ new.dirtyC = mirror.dirtyC \ done(snap[f].content)
      /\ new.dirtyS = mirror.dirtyS \ done(snap[f].structure)
      /\ new.dirtyCwd = (mirror.dirtyCwd /\ ~(snap[f].cwdDirty /\ now.cwd = snap[f].cwd))
    BY <1>2, <1>3, ConfirmedFacts
<1>6. \A i \in DOMAIN snap[f].nodes :
         Same(mirror, snap[f], remap[f], i) <=>
            /\ Real(remap[f], i) \in Ids(now)
            /\ now.nodes[Real(remap[f], i)] = RealNode(remap[f], snap[f].nodes[i])
    BY DEF Same
<1> HIDE DEF now, new, done
<1>7. Ids(mirror') = Ids(now) /\ mirror'.nodes = now.nodes
    BY <1>1, <1>5 DEF Ids
<1>8. QED
    BY <1>1, <1>4, <1>5, <1>6, <1>7 DEF done

\* What the transaction of a flush did, or, in memory, the part of it that a
\* failed flush leaves behind.
Persisted(f) ==
    /\ rows' = Over(Updates(snap[f]), Over(Inserts(snap[f]), rows))
    /\ nextRow' = nextRow + Cardinality(DOMAIN NewIds(snap[f]))

LEMMA PersistEffect ==
    ASSUME Base, NEW f \in Flushers, Persisted(f)
    PROVE  LET s == snap[f]
               new == NewIds(s)
           IN /\ new \in Remaps
              /\ DOMAIN new = Temps(Placed(s)) /\ Placed(s) \subseteq DOMAIN s.nodes
              /\ \A i \in Placed(s) : s.nodes[i].parent >= 0 \/ s.nodes[i].parent \in Placed(s)
              /\ \A i \in DOMAIN new : nextRow <= new[i] /\ new[i] < nextRow' /\ 0 < new[i]
              /\ \A i, j \in DOMAIN new : new[i] = new[j] => i = j
              /\ nextRow' \in Int /\ nextRow <= nextRow'
              /\ rows' \in Tables
              /\ DOMAIN rows' = DOMAIN rows \cup {new[i] : i \in DOMAIN new}
              /\ \A i \in DOMAIN new : rows'[new[i]] = RealNode(new, s.nodes[i])
              /\ \A i \in Placed(s) \cap DOMAIN rows : rows'[i] = RealNode(new, s.nodes[i])
              /\ \A i \in DOMAIN rows \ Placed(s) : rows'[i] = rows[i]
<1> DEFINE s == snap[f]
           new == NewIds(s)
           table == Over(Updates(s), Over(Inserts(s), rows))
           size == Cardinality(DOMAIN new)
<1>1. s \in Snaps /\ rows \in Tables /\ nextRow \in Int /\ mirror.next \in Int
    BY DEF Base, Typed, Mirrors
<1>2. /\ \A i \in DOMAIN rows : 0 < i /\ i < nextRow
      /\ \A i \in DOMAIN s.nodes : mirror.next < i /\ i < nextRow
      /\ 0 < nextRow
    BY <1>1 DEF Base, Ranged, IdOk, RootId
<1> HIDE DEF s
<1>3. /\ new \in Remaps
      /\ DOMAIN new = Temps(Placed(s))
      /\ \A i \in DOMAIN new : nextRow <= new[i] /\ new[i] < nextRow + size
      /\ \A i, j \in DOMAIN new : new[i] = new[j] => i = j
      /\ size \in Nat
      /\ table \in Tables
      /\ DOMAIN table = DOMAIN rows \cup {new[i] : i \in DOMAIN new}
      /\ \A i \in DOMAIN new : table[new[i]] = RealNode(new, s.nodes[i])
      /\ \A i \in Placed(s) \cap DOMAIN rows : table[i] = RealNode(new, s.nodes[i])
      /\ \A i \in DOMAIN rows \ Placed(s) : table[i] = rows[i]
    BY <1>1, <1>2, TransactionFacts
<1>4. rows' = table /\ nextRow' = nextRow + size
    BY DEF Persisted, s
<1> HIDE DEF table, size, new
<1>5. nextRow' \in Int /\ nextRow <= nextRow'
    BY <1>1, <1>3, <1>4
<1>6. \A i \in DOMAIN new : new[i] \in Int
    <2>1. PICK S \in SUBSET Int : new \in [S -> Int]
        BY <1>3 DEF Remaps
    <2>2. QED
        BY <2>1
<1>7. \A i \in DOMAIN new : nextRow <= new[i] /\ new[i] < nextRow' /\ 0 < new[i]
    BY <1>1, <1>2, <1>3, <1>4, <1>6
<1>8. QED
    BY <1>3, <1>4, <1>5, <1>7, PlacedParents DEF new, s

-----------------------------------------------------------------------------
(* Every state is typed.                                                     *)

\* The fields of a flush that ends.
LEMMA ReturnTyped ==
    ASSUME Typed, NEW f \in Flushers, NEW value \in {"none", "true", "false"}, Return(f, value)
    PROVE  /\ lock' \in Flushers \cup {NoOne}
           /\ fpc' \in [Flushers -> {"idle", "lock", "commit", "confirm"}]
           /\ snap' \in [Flushers -> Snaps]
           /\ remap' \in [Flushers -> Remaps]
           /\ answer' \in [Flushers -> {"none", "true", "false"}]
BY NothingTyped DEF Typed, Return, Goto

LEMMA TypedStep == Base /\ [Next]_vars => Typed'
<1> SUFFICES ASSUME Base, [Next]_vars PROVE Typed'
    OBVIOUS
<1> USE DEF db, flush
<1>0. /\ Typed
      /\ mirror \in Mirrors /\ Ids(mirror) \subseteq Int /\ DOMAIN mirror.nodes = Ids(mirror)
      /\ \A i \in Ids(mirror) : mirror.nodes[i] \in AnyNode
    BY TableFacts DEF Base, Typed, Mirrors, Ids
<1>1. ASSUME NEW parent \in Ids(mirror), NEW name \in Names, NEW kind \in {"dir", "file"},
             Create(parent, name, kind)
      PROVE  Typed'
    <2>1. mirror' \in Mirrors
        BY <1>0, <1>1, CreatedFacts DEF Create
    <2>2. QED
        BY <1>0, <1>1, <2>1 DEF Create, Typed
<1>2. ASSUME NEW i \in Ids(mirror), Edit(i) PROVE Typed'
    <2>1. mirror' \in Mirrors
        BY <1>0, <1>2, EditEffect
    <2>2. QED
        BY <1>0, <1>2, <2>1 DEF Edit, Typed
<1>3. ASSUME NEW i \in Ids(mirror), Touch(i) PROVE Typed'
    <2>1. mirror' \in Mirrors
        BY <1>0, <1>3, TouchEffect
    <2>2. QED
        BY <1>0, <1>3, <2>1 DEF Touch, Typed
<1>4. ASSUME NEW i \in Ids(mirror), Remove(i) PROVE Typed'
    <2>1. mirror' \in Mirrors
        BY <1>0, <1>4, DeletedFacts DEF Remove
    <2>2. rows' \in Tables
        <3>1. (DOMAIN rows \ {i}) \in SUBSET DOMAIN rows
            OBVIOUS
        <3>2. QED
            BY <1>0, <1>4, <3>1, RestrictedTable DEF Remove, Typed
    <2>3. QED
        BY <1>0, <1>4, <2>1, <2>2 DEF Remove, Typed
<1>5. ASSUME NEW i \in Ids(mirror), Cd(i) PROVE Typed'
    <2>1. mirror' \in Mirrors
        BY <1>0, <1>5, CdEffect
    <2>2. QED
        BY <1>0, <1>5, <2>1 DEF Cd, Typed
<1>6. ASSUME NEW i \in Ids(mirror), NEW parent \in Int, NEW name \in Names \cup {NoParent},
             MoveTo(i, parent, name)
      PROVE  Typed'
    <2>1. mirror' \in Mirrors /\ Ids(mirror') = Ids(mirror)
        BY <1>0, <1>6, MovedFacts DEF MoveTo
    <2>2. mirror'.nodes[i] \in AnyNode
        BY <2>1, TableFacts DEF Mirrors, Ids
    <2>3. rows' \in Tables
        <3>1. CASE rows' = rows
            BY <1>0, <3>1 DEF Typed
        <3>2. CASE i \in DOMAIN rows /\ rows' = [rows EXCEPT ![i] = mirror'.nodes[i]]
            <4>1. rows \in [DOMAIN rows -> AnyNode] /\ DOMAIN rows \in SUBSET Int
                BY <1>0, TableFacts DEF Typed
            <4>2. rows' \in [DOMAIN rows -> AnyNode]
                BY <2>2, <3>2, <4>1
            <4>3. QED
                BY <4>1, <4>2, TableIntro
        <3>3. QED
            BY <1>6, <3>1, <3>2 DEF MoveTo
    <2>4. pending' \in Tables
        <3>1. CASE pending' = pending
            BY <1>0, <3>1 DEF Typed
        <3>2. CASE pending' = [j \in DOMAIN pending \cup {i} |->
                                  IF j = i THEN mirror'.nodes[i] ELSE pending[j]]
            <4>1. pending \in [DOMAIN pending -> AnyNode] /\ DOMAIN pending \in SUBSET Int
                BY <1>0, TableFacts DEF Typed
            <4>2. pending' \in [DOMAIN pending \cup {i} -> AnyNode]
                BY <2>2, <3>2, <4>1
            <4>3. (DOMAIN pending \cup {i}) \in SUBSET Int
                BY <1>0, <4>1
            <4>4. QED
                BY <4>2, <4>3, TableIntro
        <3>3. QED
            BY <1>6, <3>1, <3>2 DEF MoveTo
    <2>5. QED
        BY <1>0, <1>6, <2>1, <2>3, <2>4 DEF MoveTo, Typed
<1>7. ASSUME HostCommit PROVE Typed'
    <2>1. rows' \in Tables
        <3> DEFINE new == [i \in DOMAIN rows |-> IF i \in DOMAIN pending THEN pending[i] ELSE rows[i]]
        <3>1. rows \in [DOMAIN rows -> AnyNode] /\ DOMAIN rows \in SUBSET Int /\ rows \in Tables
            BY <1>0, TableFacts DEF Typed
        <3>2. \A i \in DOMAIN pending : pending[i] \in AnyNode
            BY <1>0, TableFacts DEF Typed
        <3>3. new \in [DOMAIN rows -> AnyNode]
            BY <3>1, <3>2
        <3>4. new \in Tables
            BY <3>1, <3>3, TableIntro
        <3>5. rows' = new \/ rows' = rows
            BY <1>7 DEF HostCommit
        <3>6. QED
            BY <3>1, <3>4, <3>5
    <2>2. QED
        BY <1>0, <1>7, <2>1, NothingTyped DEF HostCommit, Typed
<1>8. ASSUME NEW h \in Hosts, HostWrite(h) PROVE Typed'
    <2>1. target[h].id \in Int /\ target[h].node \in AnyNode
        BY <1>0 DEF Typed, Targets
    <2>2. mirror' \in Mirrors
        BY <1>0, <1>8, <2>1, WrittenFacts DEF HostWrite
    <2>3. QED
        BY <1>0, <1>8, <2>2, NothingTyped DEF HostWrite, Typed
<1>9. ASSUME NEW h \in Hosts, NEW i \in Ids(mirror), HostResolve(h, i) PROVE Typed'
    <2>1. [id |-> i, node |-> mirror.nodes[i]] \in Targets
        BY <1>0 DEF Targets
    <2>2. QED
        BY <1>0, <1>9, <2>1 DEF HostResolve, Typed
<1>10. ASSUME NEW f \in Flushers, StartFlush(f) PROVE Typed'
    BY <1>0, <1>10 DEF StartFlush, Goto, Typed
<1>11. ASSUME NEW f \in Flushers, Refused(f) PROVE Typed'
    BY <1>0, <1>11, ReturnTyped DEF Refused, Typed
<1>12. ASSUME NEW f \in Flushers, TakeSnapshot(f) PROVE Typed'
    <2>1. CASE Return(f, "true")
        BY <1>0, <1>12, <2>1, ReturnTyped DEF TakeSnapshot, Typed
    <2>2. CASE ~Return(f, "true")
        <3>1. Snapshot(mirror) \in Snaps
            BY <1>0, SnapshotFacts
        <3>2. QED
            BY <1>0, <1>12, <2>2, <3>1 DEF TakeSnapshot, Goto, Typed
    <2>3. QED
        BY <2>1, <2>2
<1>13. ASSUME NEW f \in Flushers, Commit(f) PROVE Typed'
    <2>1. Persisted(f)
        BY <1>13 DEF Commit, Persist, Persisted
    <2>2. rows' \in Tables /\ nextRow' \in Int /\ NewIds(snap[f]) \in Remaps
        BY <2>1, PersistEffect
    <2>3. cwdRow' \in Int
        BY <1>0, <1>13 DEF Commit, Persist, Typed, Snaps
    <2>4. QED
        BY <1>0, <1>13, <2>2, <2>3 DEF Commit, Goto, Typed
<1>14. ASSUME NEW f \in Flushers, Fail(f) PROVE Typed'
    <2>1. rows' \in Tables /\ nextRow' \in Int /\ cwdRow' \in Int
        <3>1. CASE UNCHANGED <<rows, nextRow, cwdRow>>
            BY <1>0, <3>1 DEF Typed
        <3>2. CASE PersistNodes(snap[f])
            BY <1>0, <3>2, PersistEffect DEF PersistNodes, Persisted, Typed
        <3>3. QED
            BY <1>14, <3>1, <3>2 DEF Fail
    <2>2. QED
        BY <1>0, <1>14, <2>1, ReturnTyped DEF Fail, Typed
<1>15. ASSUME NEW f \in Flushers, Confirm(f) PROVE Typed'
    <2>1. mirror' \in Mirrors
        BY <1>15, ConfirmEffect
    <2>2. QED
        BY <1>0, <1>15, <2>1, ReturnTyped DEF Confirm, Typed
<1>16. ASSUME NEW f \in Flushers, Expire(f) PROVE Typed'
    BY <1>0, <1>16 DEF Expire, Typed
<1>17. ASSUME NEW f \in Flushers, Crash(f) PROVE Typed'
    <2>1. crashes' \in Nat
        BY <1>0, <1>17 DEF Crash, Typed
    <2>2. QED
        BY <1>0, <1>17, <2>1, ReturnTyped DEF Crash, Typed
<1>18. ASSUME UNCHANGED vars PROVE Typed'
    BY <1>0, <1>18 DEF vars, Typed
<1>19. ASSUME NEW i \in Ids(mirror), NEW parent \in Ids(mirror),
              MoveInto(i, parent) \/ \E name \in Names : Move(i, parent, name)
       PROVE  Typed'
    <2>1. parent \in Int /\ mirror.nodes[i].name \in Names \cup {NoParent}
        BY <1>0 DEF AnyNode
    <2>2. QED
        BY <1>6, <1>19, <2>1 DEF MoveInto, Move
<1>20. QED
    BY <1>1, <1>2, <1>3, <1>4, <1>5, <1>7, <1>8, <1>9, <1>10, <1>11, <1>12, <1>13, <1>14,
       <1>15, <1>16, <1>17, <1>18, <1>19
       DEF Next, AgentStep, HostStep, FlushStep

-----------------------------------------------------------------------------
(* Every id is in range.                                                     *)

\* What has to be shown of a step: new ids are in range, and what a snapshot, a
\* host or the session of the host names was in the mirror or in the rows.
LEMMA RangedIntro ==
    ASSUME Base, Typed',
           mirror'.next <= mirror.next, -MaxTemp - 1 <= mirror'.next, nextRow <= nextRow',
           \A i \in Ids(mirror') \cup DirtyIds(mirror') :
               i \in Ids(mirror) \cup DirtyIds(mirror) \/ IdOk(mirror', nextRow', i),
           \A f \in Flushers : \A i \in DOMAIN snap'[f].nodes :
               i \in DOMAIN snap[f].nodes \/ i \in Ids(mirror),
           \A h \in Hosts : \/ target'[h] = NoTarget \/ target'[h] = target[h]
                            \/ target'[h].id \in Ids(mirror),
           \A i \in DOMAIN rows' : i \in DOMAIN rows \/ (0 < i /\ i < nextRow'),
           \A i \in DOMAIN pending' : i \in DOMAIN pending \/ i \in DOMAIN rows
    PROVE  Ranged'
<1>1. /\ mirror.next \in Int /\ mirror'.next \in Int /\ nextRow \in Int /\ nextRow' \in Int
      /\ MaxTemp \in Nat
    BY FlushAssumption DEF Base, Typed, Mirrors
<1>2. Ranged
    BY DEF Base
<1>3. \A i \in Int : IdOk(mirror, nextRow, i) => IdOk(mirror', nextRow', i)
    BY <1>1 DEF IdOk
<1>4. /\ Ids(mirror) \subseteq Int /\ Ids(mirror) \cup DirtyIds(mirror) \subseteq Int
      /\ DOMAIN rows \subseteq Int /\ DOMAIN pending \subseteq Int
      /\ DOMAIN rows' \subseteq Int
      /\ \A f \in Flushers : DOMAIN snap[f].nodes \subseteq Int
      /\ \A h \in Hosts : target[h].id \in Int
    BY TableFacts DEF Base, Typed, Mirrors, Ids, DirtyIds, Snaps, Targets
<1>5. \A i \in Ids(mirror') \cup DirtyIds(mirror') : IdOk(mirror', nextRow', i)
    BY <1>2, <1>3, <1>4 DEF Ranged
<1>6. \A f \in Flushers : \A i \in DOMAIN snap'[f].nodes : IdOk(mirror', nextRow', i)
    <2>1. \A f \in Flushers : \A i \in DOMAIN snap[f].nodes : IdOk(mirror', nextRow', i)
        BY <1>2, <1>3, <1>4 DEF Ranged
    <2>2. \A i \in Ids(mirror) : IdOk(mirror', nextRow', i)
        BY <1>2, <1>3, <1>4 DEF Ranged
    <2>3. QED
        BY <2>1, <2>2
<1>7. \A h \in Hosts : target'[h] # NoTarget => IdOk(mirror', nextRow', target'[h].id)
    BY <1>2, <1>3, <1>4 DEF Ranged
<1>8. \A i \in DOMAIN rows' : 0 < i /\ i < nextRow'
    BY <1>1, <1>2, <1>4 DEF Ranged
<1>9. \A i \in DOMAIN pending' : 0 < i /\ i < nextRow'
    BY <1>1, <1>2, <1>4 DEF Ranged
<1>10. RootId < nextRow' /\ mirror'.next <= -1
    BY <1>1, <1>2 DEF Ranged, RootId
<1>11. QED
    BY <1>5, <1>6, <1>7, <1>8, <1>9, <1>10 DEF Ranged

LEMMA RangedStep == Base /\ [Next]_vars => Ranged'
<1> SUFFICES ASSUME Base, [Next]_vars PROVE Ranged'
    OBVIOUS
<1> USE DEF db, flush
<1>0. /\ Typed /\ Ranged /\ Typed'
      /\ mirror \in Mirrors /\ Ids(mirror) \subseteq Int
      /\ mirror.next \in Int /\ nextRow \in Int /\ mirror.next <= mirror.next /\ nextRow <= nextRow
      /\ \A i \in Ids(mirror) : mirror.nodes[i] \in AnyNode
      /\ -MaxTemp - 1 <= mirror.next /\ MaxTemp \in Nat
    BY TypedStep, TableFacts, FlushAssumption DEF Base, Typed, Mirrors, Ids, Ranged
<1>1. ASSUME NEW parent \in Ids(mirror), NEW name \in Names, NEW kind \in {"dir", "file"},
             Create(parent, name, kind)
      PROVE  Ranged'
    <2>1. /\ mirror' = Created(mirror, parent, name, kind) /\ mirror.next >= -MaxTemp
          /\ UNCHANGED <<rows, nextRow, pending, snap, target>>
        BY <1>1 DEF Create
    <2>2. /\ Ids(mirror') = Ids(mirror) \cup {mirror.next} /\ mirror'.next = mirror.next - 1
          /\ mirror'.dirtyC = mirror.dirtyC /\ mirror'.dirtyS = mirror.dirtyS \cup {mirror.next}
        <3> DEFINE new == Created(mirror, parent, name, kind)
        <3>1. parent \in Int
            BY <1>0
        <3>2. /\ Ids(new) = Ids(mirror) \cup {mirror.next} /\ new.next = mirror.next - 1
              /\ new.dirtyC = mirror.dirtyC /\ new.dirtyS = mirror.dirtyS \cup {mirror.next}
            BY <1>0, <3>1, CreatedFacts
        <3> HIDE DEF new
        <3>3. Ids(mirror') = Ids(new)
            BY <2>1 DEF new, Ids
        <3>4. QED
            BY <2>1, <3>2, <3>3 DEF new
    <2>3. IdOk(mirror', nextRow', mirror.next)
        BY <1>0, <2>1, <2>2 DEF IdOk, Ranged, RootId
    <2>4. mirror'.next <= mirror.next /\ -MaxTemp - 1 <= mirror'.next
        BY <1>0, <2>1, <2>2
    <2>5. \A i \in Ids(mirror') \cup DirtyIds(mirror') :
             i \in Ids(mirror) \cup DirtyIds(mirror) \/ IdOk(mirror', nextRow', i)
        BY <2>2, <2>3 DEF DirtyIds
    <2>6. QED
        BY <1>0, <2>1, <2>4, <2>5, RangedIntro
<1>2. ASSUME NEW i \in Ids(mirror), Edit(i) PROVE Ranged'
    <2>1. /\ Ids(mirror') = Ids(mirror) \cup {i} /\ mirror'.next = mirror.next
          /\ mirror'.dirtyC = mirror.dirtyC \cup {i} /\ mirror'.dirtyS = mirror.dirtyS
        BY <1>0, <1>2, EditEffect
    <2>2. \A j \in Ids(mirror') \cup DirtyIds(mirror') : j \in Ids(mirror) \cup DirtyIds(mirror)
        BY <2>1 DEF DirtyIds
    <2>3. QED
        BY <1>0, <1>2, <2>1, <2>2, RangedIntro DEF Edit
<1>3. ASSUME NEW i \in Ids(mirror), Touch(i) PROVE Ranged'
    <2>1. /\ Ids(mirror') = Ids(mirror) /\ mirror'.next = mirror.next
          /\ mirror'.dirtyC = mirror.dirtyC \cup {i} /\ mirror'.dirtyS = mirror.dirtyS
        BY <1>0, <1>3, TouchEffect
    <2>2. \A j \in Ids(mirror') \cup DirtyIds(mirror') : j \in Ids(mirror) \cup DirtyIds(mirror)
        BY <2>1 DEF DirtyIds
    <2>3. QED
        BY <1>0, <1>3, <2>1, <2>2, RangedIntro DEF Touch
<1>4. ASSUME NEW i \in Ids(mirror), Remove(i) PROVE Ranged'
    <2>1. /\ Ids(mirror') = Ids(mirror) \ {i} /\ mirror'.next = mirror.next
          /\ mirror'.dirtyC = mirror.dirtyC \ {i} /\ mirror'.dirtyS = mirror.dirtyS \ {i}
        BY <1>0, <1>4, DeletedFacts DEF Remove
    <2>2. \A j \in Ids(mirror') \cup DirtyIds(mirror') : j \in Ids(mirror) \cup DirtyIds(mirror)
        BY <2>1 DEF DirtyIds
    <2>3. DOMAIN rows' \subseteq DOMAIN rows
        BY <1>4 DEF Remove, Restricted
    <2>4. QED
        BY <1>0, <1>4, <2>1, <2>2, <2>3, RangedIntro DEF Remove
<1>5. ASSUME NEW i \in Ids(mirror), Cd(i) PROVE Ranged'
    <2>1. /\ Ids(mirror') = Ids(mirror) /\ mirror'.next = mirror.next
          /\ mirror'.dirtyC = mirror.dirtyC /\ mirror'.dirtyS = mirror.dirtyS
        BY <1>0, <1>5, CdEffect
    <2>2. \A j \in Ids(mirror') \cup DirtyIds(mirror') : j \in Ids(mirror) \cup DirtyIds(mirror)
        BY <2>1 DEF DirtyIds
    <2>3. QED
        BY <1>0, <1>5, <2>1, <2>2, RangedIntro DEF Cd
<1>6. ASSUME NEW i \in Ids(mirror), NEW parent \in Int, NEW name \in Names \cup {NoParent},
             MoveTo(i, parent, name)
      PROVE  Ranged'
    <2>1. /\ Ids(mirror') = Ids(mirror) /\ mirror'.next = mirror.next
          /\ mirror'.dirtyC = mirror.dirtyC /\ mirror'.dirtyS = mirror.dirtyS \cup {i}
        BY <1>0, <1>6, MovedFacts DEF MoveTo
    <2>2. \A j \in Ids(mirror') \cup DirtyIds(mirror') : j \in Ids(mirror) \cup DirtyIds(mirror)
        BY <2>1 DEF DirtyIds
    <2>3. DOMAIN rows' = DOMAIN rows
        BY <1>6 DEF MoveTo
    <2>4. \A j \in DOMAIN pending' : j \in DOMAIN pending \/ j \in DOMAIN rows
        BY <1>6 DEF MoveTo
    <2>5. QED
        BY <1>0, <1>6, <2>1, <2>2, <2>3, <2>4, RangedIntro DEF MoveTo
<1>7. ASSUME HostCommit PROVE Ranged'
    <2>1. DOMAIN rows' = DOMAIN rows /\ DOMAIN pending' = {}
        BY <1>7 DEF HostCommit, Empty
    <2>2. QED
        BY <1>0, <1>7, <2>1, RangedIntro DEF HostCommit
<1>8. ASSUME NEW h \in Hosts, HostWrite(h) PROVE Ranged'
    <2> DEFINE i == target[h].id
    <2>1. i \in Int /\ target[h].node \in AnyNode /\ IdOk(mirror, nextRow, i)
        BY <1>0, <1>8 DEF Typed, Targets, Ranged, HostWrite
    <2>2. mirror' = Written(mirror, i, target[h].node) /\ UNCHANGED <<rows, nextRow, pending, snap>>
        BY <1>8 DEF HostWrite
    <2>3. /\ Ids(mirror') = Ids(mirror) \cup {i} /\ mirror'.next = mirror.next
          /\ mirror'.dirtyC = mirror.dirtyC \cup {i} /\ mirror'.dirtyS = mirror.dirtyS
        BY <1>0, <2>1, <2>2, WrittenFacts
    <2>4. \A g \in Hosts : target'[g] = NoTarget \/ target'[g] = target[g]
        BY <1>0, <1>8 DEF HostWrite, Typed
    <2>5. IdOk(mirror', nextRow', i)
        BY <2>1, <2>2, <2>3 DEF IdOk
    <2> HIDE DEF i
    <2>6. \A j \in Ids(mirror') \cup DirtyIds(mirror') :
             j \in Ids(mirror) \cup DirtyIds(mirror) \/ IdOk(mirror', nextRow', j)
        BY <2>3, <2>5 DEF DirtyIds
    <2>7. QED
        BY <1>0, <2>2, <2>3, <2>4, <2>6, RangedIntro
<1>9. ASSUME NEW h \in Hosts, NEW i \in Ids(mirror), HostResolve(h, i) PROVE Ranged'
    <2>1. \A g \in Hosts : target'[g] = target[g] \/ target'[g].id \in Ids(mirror)
        BY <1>0, <1>9 DEF HostResolve, Typed
    <2>2. QED
        BY <1>0, <1>9, <2>1, RangedIntro DEF HostResolve
<1>10. ASSUME NEW f \in Flushers, StartFlush(f) \/ Expire(f) PROVE Ranged'
    BY <1>0, <1>10, RangedIntro DEF StartFlush, Expire
<1>11. ASSUME NEW f \in Flushers, NEW value \in {"none", "true", "false"}, Return(f, value),
              UNCHANGED <<mirror, rows, nextRow, pending, target>>
       PROVE  Ranged'
    <2>1. \A g \in Flushers : snap'[g] = snap[g] \/ DOMAIN snap'[g].nodes = {}
        BY <1>0, <1>11, NothingTyped DEF Return, Typed
    <2>2. QED
        BY <1>0, <1>11, <2>1, RangedIntro
<1>12. ASSUME NEW f \in Flushers, TakeSnapshot(f) PROVE Ranged'
    <2>1. CASE Return(f, "true")
        BY <1>11, <1>12, <2>1 DEF TakeSnapshot
    <2>2. CASE ~Return(f, "true")
        <3>1. DOMAIN Snapshot(mirror).nodes \subseteq Ids(mirror)
            BY <1>0, SnapshotFacts
        <3>2. snap' = [snap EXCEPT ![f] = Snapshot(mirror)]
            BY <1>12, <2>2 DEF TakeSnapshot
        <3>3. \A g \in Flushers : \A i \in DOMAIN snap'[g].nodes :
                 i \in DOMAIN snap[g].nodes \/ i \in Ids(mirror)
            BY <1>0, <3>1, <3>2 DEF Typed
        <3>4. QED
            BY <1>0, <1>12, <3>3, RangedIntro DEF TakeSnapshot
    <2>3. QED
        BY <2>1, <2>2
<1>13. ASSUME NEW f \in Flushers, Persisted(f), UNCHANGED <<mirror, pending, target>>,
              snap' = snap \/ \E value \in {"none", "true", "false"} : Return(f, value)
       PROVE  Ranged'
    <2>1. /\ nextRow <= nextRow'
          /\ DOMAIN rows' = DOMAIN rows \cup {NewIds(snap[f])[i] : i \in DOMAIN NewIds(snap[f])}
          /\ \A i \in DOMAIN NewIds(snap[f]) : 0 < NewIds(snap[f])[i] /\ NewIds(snap[f])[i] < nextRow'
        BY <1>13, PersistEffect
    <2>2. \A i \in DOMAIN rows' : i \in DOMAIN rows \/ (0 < i /\ i < nextRow')
        BY <2>1
    <2>3. \A g \in Flushers : snap'[g] = snap[g] \/ DOMAIN snap'[g].nodes = {}
        BY <1>0, <1>13, NothingTyped DEF Return, Typed
    <2>4. QED
        BY <1>0, <1>13, <2>1, <2>2, <2>3, RangedIntro
<1>14. ASSUME NEW f \in Flushers, Confirm(f) PROVE Ranged'
    <2>1. /\ Ids(mirror') = {Real(remap[f], i) : i \in Ids(mirror)}
          /\ mirror'.dirtyC \subseteq mirror.dirtyC /\ mirror'.dirtyS \subseteq mirror.dirtyS
          /\ mirror'.next = mirror.next
        BY <1>14, ConfirmEffect
    <2>2. \A i \in DOMAIN remap[f] : 0 < remap[f][i] /\ remap[f][i] < nextRow /\ remap[f][i] \in Int
        BY <1>14, OwnIsFresh DEF Confirm, Fresh
    <2>3. UNCHANGED <<rows, nextRow, pending, target>>
        BY <1>14 DEF Confirm
    <2>4. \A i \in DOMAIN remap[f] : IdOk(mirror', nextRow', remap[f][i])
        BY <1>0, <2>1, <2>2, <2>3 DEF IdOk, Ranged
    <2>5. \A i \in Ids(mirror') : i \in Ids(mirror) \/ IdOk(mirror', nextRow', i)
        BY <2>1, <2>4 DEF Real
    <2>6. \A i \in Ids(mirror') \cup DirtyIds(mirror') :
             i \in Ids(mirror) \cup DirtyIds(mirror) \/ IdOk(mirror', nextRow', i)
        BY <2>1, <2>5 DEF DirtyIds
    <2>7. \A g \in Flushers : snap'[g] = snap[g] \/ DOMAIN snap'[g].nodes = {}
        BY <1>0, <1>14, NothingTyped DEF Confirm, Return, Typed
    <2>8. QED
        BY <1>0, <2>1, <2>3, <2>6, <2>7, RangedIntro
<1>15. ASSUME UNCHANGED vars PROVE Ranged'
    BY <1>0, <1>15, RangedIntro DEF vars
<1>16. ASSUME NEW i \in Ids(mirror), NEW parent \in Ids(mirror),
              MoveInto(i, parent) \/ \E name \in Names : Move(i, parent, name)
       PROVE  Ranged'
    <2>1. parent \in Int /\ mirror.nodes[i].name \in Names \cup {NoParent}
        BY <1>0 DEF AnyNode
    <2>2. QED
        BY <1>6, <1>16, <2>1 DEF MoveInto, Move
<1>17. ASSUME NEW f \in Flushers, Refused(f) \/ Crash(f) PROVE Ranged'
    BY <1>11, <1>17 DEF Refused, Crash
<1>18. ASSUME NEW f \in Flushers, Commit(f) PROVE Ranged'
    BY <1>13, <1>18 DEF Commit, Persist, Persisted
<1>19. ASSUME NEW f \in Flushers, Fail(f) PROVE Ranged'
    <2>1. CASE UNCHANGED db
        BY <1>11, <1>19, <2>1 DEF Fail
    <2>2. CASE PersistNodes(snap[f])
        BY <1>13, <1>19, <2>2 DEF Fail, PersistNodes, Persisted
    <2>3. QED
        BY <1>19, <2>1, <2>2 DEF Fail
<1>20. QED
    BY <1>1, <1>2, <1>3, <1>4, <1>5, <1>7, <1>8, <1>9, <1>10, <1>12, <1>14, <1>15, <1>16, <1>17,
       <1>18, <1>19
       DEF Next, AgentStep, HostStep, FlushStep

-----------------------------------------------------------------------------
(* Every node was created under a key.                                       *)

LEMMA BornStep == Base /\ [Next]_vars => Born'
<1> SUFFICES ASSUME Base, [Next]_vars PROVE Born'
    OBVIOUS
<1> USE DEF db, flush
<1>0. /\ Typed /\ Ranged /\ Born /\ Typed'
      /\ mirror \in Mirrors /\ Ids(mirror) \subseteq Int /\ DOMAIN mirror.nodes = Ids(mirror)
      /\ DOMAIN mirror'.nodes = Ids(mirror')
      /\ \A i \in Ids(mirror) : mirror.nodes[i] \in AnyNode /\ mirror.nodes[i].born \in Keys
    BY TypedStep, TableFacts DEF Base, Typed, Mirrors, Ids, Born, Bears
<1>1. ASSUME NEW parent \in Ids(mirror), NEW name \in Names, NEW kind \in {"dir", "file"},
             Create(parent, name, kind)
      PROVE  Born'
    <2>1. /\ mirror' = Created(mirror, parent, name, kind) /\ mirror.next >= -MaxTemp
          /\ UNCHANGED <<rows, pending, snap, target>>
        BY <1>1 DEF Create
    <2>2. /\ Ids(mirror') = Ids(mirror) \cup {mirror.next}
          /\ \A j \in Ids(mirror) \ {mirror.next} : mirror'.nodes[j] = mirror.nodes[j]
          /\ mirror'.nodes[mirror.next].born = mirror.next
        <3> DEFINE new == Created(mirror, parent, name, kind)
        <3>1. parent \in Int
            BY <1>0
        <3>2. /\ Ids(new) = Ids(mirror) \cup {mirror.next}
              /\ \A j \in Ids(mirror) \ {mirror.next} : new.nodes[j] = mirror.nodes[j]
              /\ new.nodes[mirror.next] = Node(parent, name, kind, 1, mirror.next)
            BY <1>0, <3>1, CreatedFacts
        <3> HIDE DEF new
        <3>3. Ids(mirror') = Ids(new)
            BY <2>1 DEF new, Ids
        <3>4. QED
            BY <2>1, <3>2, <3>3 DEF new, Node
    <2>3. mirror.next \in Keys
        <3>1. mirror.next \in Int /\ mirror.next <= -1 /\ MaxTemp \in Nat
            BY <1>0, FlushAssumption DEF Mirrors, Ranged
        <3>2. QED
            BY <2>1, <3>1 DEF Keys
    <2>4. Bears(mirror'.nodes)
        BY <1>0, <2>2, <2>3 DEF Bears
    <2>5. QED
        BY <1>0, <2>1, <2>4 DEF Born
<1>2. ASSUME NEW i \in Ids(mirror), Edit(i) PROVE Born'
    <2>1. /\ Ids(mirror') = Ids(mirror) \cup {i} /\ mirror'.nodes[i].born = mirror.nodes[i].born
          /\ \A j \in Ids(mirror) \ {i} : mirror'.nodes[j] = mirror.nodes[j]
        BY <1>0, <1>2, EditEffect
    <2>2. Bears(mirror'.nodes)
        BY <1>0, <2>1 DEF Bears
    <2>3. QED
        BY <1>0, <1>2, <2>2 DEF Born, Edit
<1>3. ASSUME NEW i \in Ids(mirror), Touch(i) \/ Cd(i) PROVE Born'
    <2>1. mirror'.nodes = mirror.nodes
        BY <1>0, <1>3, MarkEffect
    <2>2. QED
        BY <1>0, <1>3, <2>1 DEF Born, Touch, Cd
<1>4. ASSUME NEW i \in Ids(mirror), Remove(i) PROVE Born'
    <2>1. /\ Ids(mirror') = Ids(mirror) \ {i}
          /\ \A j \in Ids(mirror) \ {i} : mirror'.nodes[j] = mirror.nodes[j]
        BY <1>0, <1>4, DeletedFacts DEF Remove
    <2>2. Bears(mirror'.nodes)
        BY <1>0, <2>1 DEF Bears
    <2>3. Bears(rows')
        BY <1>0, <1>4 DEF Remove, Restricted, Born, Bears
    <2>4. QED
        BY <1>0, <1>4, <2>2, <2>3 DEF Born, Remove
<1>5. ASSUME NEW i \in Ids(mirror), NEW parent \in Int, NEW name \in Names \cup {NoParent},
             MoveTo(i, parent, name)
      PROVE  Born'
    <2>1. /\ Ids(mirror') = Ids(mirror) /\ mirror'.nodes[i].born = mirror.nodes[i].born
          /\ \A j \in Ids(mirror) \ {i} : mirror'.nodes[j] = mirror.nodes[j]
        BY <1>0, <1>5, MovedFacts DEF MoveTo
    <2>2. Bears(mirror'.nodes) /\ mirror'.nodes[i].born \in Keys
        BY <1>0, <2>1 DEF Bears
    <2>3. Bears(rows')
        <3>1. \A j \in DOMAIN rows' : j \in DOMAIN rows /\ (rows'[j] = rows[j] \/ rows'[j] = mirror'.nodes[i])
            BY <1>5 DEF MoveTo
        <3>2. QED
            BY <1>0, <2>2, <3>1 DEF Born, Bears
    <2>4. Bears(pending')
        <3>1. \A j \in DOMAIN pending' :
                 (j \in DOMAIN pending /\ pending'[j] = pending[j]) \/ pending'[j] = mirror'.nodes[i]
            BY <1>5 DEF MoveTo
        <3>2. QED
            BY <1>0, <2>2, <3>1 DEF Born, Bears
    <2>5. QED
        BY <1>0, <1>5, <2>2, <2>3, <2>4 DEF Born, MoveTo
<1>6. ASSUME HostCommit PROVE Born'
    <2>1. \A i \in DOMAIN rows' : /\ i \in DOMAIN rows
                                  /\ rows'[i] = rows[i] \/ (i \in DOMAIN pending /\ rows'[i] = pending[i])
        BY <1>6 DEF HostCommit
    <2>2. Bears(rows')
        BY <1>0, <2>1 DEF Born, Bears
    <2>3. QED
        BY <1>0, <1>6, <2>2 DEF Born, Bears, HostCommit, Empty
<1>7. ASSUME NEW h \in Hosts, HostWrite(h) PROVE Born'
    <2> DEFINE i == target[h].id
    <2>1. i \in Int /\ target[h].node \in AnyNode /\ target[h].node.born \in Keys
        BY <1>0, <1>7 DEF Typed, Targets, Born, HostWrite
    <2>2. mirror' = Written(mirror, i, target[h].node) /\ UNCHANGED <<rows, pending, snap>>
        BY <1>7 DEF HostWrite
    <2>3. /\ Ids(mirror') = Ids(mirror) \cup {i}
          /\ \A j \in Ids(mirror) \ {i} : mirror'.nodes[j] = mirror.nodes[j]
          /\ mirror'.nodes[i].born = (IF i \in Ids(mirror) THEN mirror.nodes[i] ELSE target[h].node).born
        BY <1>0, <2>1, <2>2, WrittenFacts
    <2>4. \A g \in Hosts : target'[g] = NoTarget \/ target'[g] = target[g]
        BY <1>0, <1>7 DEF HostWrite, Typed
    <2> HIDE DEF i
    <2>5. mirror'.nodes[i].born \in Keys
        BY <1>0, <2>1, <2>3
    <2>6. Bears(mirror'.nodes)
        BY <1>0, <2>3, <2>5 DEF Bears
    <2>7. QED
        BY <1>0, <2>2, <2>4, <2>6 DEF Born
<1>8. ASSUME NEW h \in Hosts, NEW i \in Ids(mirror), HostResolve(h, i) PROVE Born'
    <2>1. \A g \in Hosts : target'[g] = target[g] \/ target'[g].node = mirror.nodes[i]
        BY <1>0, <1>8 DEF HostResolve, Typed
    <2>2. QED
        BY <1>0, <1>8, <2>1 DEF HostResolve, Born
<1>9. ASSUME NEW f \in Flushers, StartFlush(f) \/ Expire(f) PROVE Born'
    BY <1>0, <1>9 DEF StartFlush, Expire, Born
<1>10. ASSUME NEW f \in Flushers, NEW value \in {"none", "true", "false"}, Return(f, value)
       PROVE  \A g \in Flushers : Bears(snap'[g].nodes)
    BY <1>0, <1>10, NothingTyped DEF Return, Typed, Born, Bears
<1>11. ASSUME NEW f \in Flushers, TakeSnapshot(f) PROVE Born'
    <2>1. CASE Return(f, "true")
        BY <1>0, <1>10, <1>11, <2>1 DEF TakeSnapshot, Born
    <2>2. CASE ~Return(f, "true")
        <3>1. Bears(Snapshot(mirror).nodes)
            BY <1>0, SnapshotFacts DEF Bears
        <3>2. snap' = [snap EXCEPT ![f] = Snapshot(mirror)]
            BY <1>11, <2>2 DEF TakeSnapshot
        <3>3. \A g \in Flushers : Bears(snap'[g].nodes)
            BY <1>0, <3>1, <3>2 DEF Typed, Born
        <3>4. QED
            BY <1>0, <1>11, <3>3 DEF TakeSnapshot, Born
    <2>3. QED
        BY <2>1, <2>2
<1>12. ASSUME NEW f \in Flushers, Persisted(f) PROVE Bears(rows')
    <2> DEFINE s == snap[f]
               new == NewIds(s)
    <2>1. /\ Placed(s) \subseteq DOMAIN s.nodes /\ DOMAIN new = Temps(Placed(s)) /\ new \in Remaps
          /\ DOMAIN rows' = DOMAIN rows \cup {new[i] : i \in DOMAIN new}
          /\ \A i \in DOMAIN new : rows'[new[i]] = RealNode(new, s.nodes[i])
          /\ \A i \in Placed(s) \cap DOMAIN rows : rows'[i] = RealNode(new, s.nodes[i])
          /\ \A i \in DOMAIN rows \ Placed(s) : rows'[i] = rows[i]
        BY <1>12, PersistEffect
    <2>2. \A i \in DOMAIN s.nodes : s.nodes[i] \in AnyNode /\ s.nodes[i].born \in Keys
        BY <1>0, TableFacts DEF Typed, Snaps, Born, Bears
    <2> HIDE DEF new
    <2>3. \A i \in DOMAIN s.nodes : RealNode(new, s.nodes[i]).born \in Keys
        BY <2>1, <2>2, RealNodeType DEF Remaps
    <2> HIDE DEF s
    <2>4. \A i \in DOMAIN new : i \in DOMAIN s.nodes
        BY <2>1 DEF Temps
    <2>5. \A i \in DOMAIN rows' : rows'[i].born \in Keys
        BY <1>0, <2>1, <2>3, <2>4 DEF Born, Bears
    <2>6. QED
        BY <2>5 DEF Bears
<1>13. ASSUME NEW f \in Flushers, Commit(f) PROVE Born'
    <2>1. Bears(rows')
        BY <1>12, <1>13 DEF Commit, Persist, Persisted
    <2>2. QED
        BY <1>0, <1>13, <2>1 DEF Commit, Born
<1>14. ASSUME NEW f \in Flushers, Fail(f) PROVE Born'
    <2>1. Bears(rows')
        BY <1>0, <1>12, <1>14 DEF Fail, PersistNodes, Persisted, Born
    <2>2. QED
        BY <1>0, <1>10, <1>14, <2>1 DEF Fail, Born
<1>15. ASSUME NEW f \in Flushers, Confirm(f) PROVE Born'
    <2>1. /\ Ids(mirror') = {Real(remap[f], i) : i \in Ids(mirror)}
          /\ \A i \in Ids(mirror) :
                mirror'.nodes[Real(remap[f], i)] = RealNode(remap[f], mirror.nodes[i])
        BY <1>15, ConfirmEffect
    <2>2. Fresh(mirror, remap[f])
        BY <1>15, OwnIsFresh DEF Confirm
    <2>3. \A i \in Ids(mirror) : RealNode(remap[f], mirror.nodes[i]).born = mirror.nodes[i].born
        BY <1>0, <2>2, RealNodeType DEF Fresh
    <2>4. \A i \in Ids(mirror) : mirror'.nodes[Real(remap[f], i)].born \in Keys
        BY <1>0, <2>1, <2>3
    <2>5. Bears(mirror'.nodes)
        BY <1>0, <2>1, <2>4 DEF Bears
    <2>6. QED
        BY <1>0, <1>10, <1>15, <2>5 DEF Confirm, Born
<1>16. ASSUME NEW f \in Flushers, Refused(f) \/ Crash(f) PROVE Born'
    BY <1>0, <1>10, <1>16 DEF Refused, Crash, Born
<1>17. ASSUME UNCHANGED vars PROVE Born'
    BY <1>0, <1>17 DEF vars, Born
<1>18. ASSUME NEW i \in Ids(mirror), NEW parent \in Ids(mirror),
              MoveInto(i, parent) \/ \E name \in Names : Move(i, parent, name)
       PROVE  Born'
    <2>1. parent \in Int /\ mirror.nodes[i].name \in Names \cup {NoParent}
        BY <1>0 DEF AnyNode
    <2>2. QED
        BY <1>5, <1>18, <2>1 DEF MoveInto, Move
<1>20. QED
    BY <1>1, <1>2, <1>3, <1>4, <1>6, <1>7, <1>8, <1>9, <1>11, <1>13, <1>14, <1>15, <1>16, <1>17,
       <1>18
       DEF Next, AgentStep, HostStep, FlushStep

-----------------------------------------------------------------------------
(* The keys a transaction gave out stay its own until they are confirmed.    *)

\* What has to be shown of a step of anybody but the confirming flushes.
LEMMA OwnKept ==
    ASSUME Base, Typed', nextRow <= nextRow', NEW f \in Flushers, fpc[f] = "confirm",
           remap'[f] = remap[f], snap'[f] = snap[f],
           \A i \in Ids(mirror') : i \in Ids(mirror) \/ i < 0
                                   \/ \E h \in Hosts : i = target[h].id,
           \A h \in Hosts : \/ target'[h] = NoTarget \/ target'[h] = target[h]
                            \/ target'[h].id \in Ids(mirror),
           \A g \in Flushers : fpc'[g] = "confirm" => fpc[g] = "confirm" /\ remap'[g] = remap[g]
    PROVE  Own(f)'
<1>1. Own(f) /\ nextRow \in Int /\ nextRow' \in Int
    BY DEF Base, FreshKeysGiven, Typed
<1>2. \A i \in DOMAIN remap[f] : remap[f][i] \in Int
    BY OwnIsFresh DEF Fresh
<1>3. \A g \in Flushers : fpc'[g] = "confirm" => Given(g)' = Given(g)
    BY DEF Given
<1>4. Given(f)' = Given(f)
    BY DEF Given
<1>5. \A i \in DOMAIN remap[f] :
          /\ 0 < remap[f][i] /\ remap[f][i] < nextRow'
          /\ remap[f][i] \notin Ids(mirror')
          /\ \A h \in Hosts : target'[h].id # remap[f][i]
    BY <1>1, <1>2 DEF Own, NoTarget, NoParent
<1>6. \A g \in Flushers : fpc'[g] = "confirm" /\ g # f => Given(f)' \cap Given(g)' = {}
    BY <1>1, <1>3, <1>4 DEF Own
<1>7. QED
    BY <1>1, <1>5, <1>6 DEF Own

LEMMA OwnStep == Base /\ [Next]_vars => FreshKeysGiven'
<1> SUFFICES ASSUME Base, [Next]_vars PROVE FreshKeysGiven'
    OBVIOUS
<1> USE DEF db, flush
<1>0. /\ Typed /\ Ranged /\ Typed'
      /\ mirror \in Mirrors /\ Ids(mirror) \subseteq Int /\ nextRow \in Int /\ nextRow <= nextRow
      /\ mirror.next < 0
      /\ \A i \in Ids(mirror) : mirror.nodes[i] \in AnyNode
    BY TypedStep, TableFacts DEF Base, Typed, Mirrors, Ids, Ranged
<1>1. ASSUME UNCHANGED <<nextRow, fpc, snap, remap>>,
             \A i \in Ids(mirror') : i \in Ids(mirror) \/ i < 0 \/ \E h \in Hosts : i = target[h].id,
             \A h \in Hosts : \/ target'[h] = NoTarget \/ target'[h] = target[h]
                              \/ target'[h].id \in Ids(mirror)
      PROVE  FreshKeysGiven'
    BY <1>0, <1>1, OwnKept DEF FreshKeysGiven
<1>2. ASSUME NEW parent \in Ids(mirror), NEW name \in Names, NEW kind \in {"dir", "file"},
             Create(parent, name, kind)
      PROVE  FreshKeysGiven'
    <2>1. Ids(mirror') = Ids(mirror) \cup {mirror.next}
        <3> DEFINE new == Created(mirror, parent, name, kind)
        <3>1. parent \in Int
            BY <1>0
        <3>2. Ids(new) = Ids(mirror) \cup {mirror.next}
            BY <1>0, <3>1, CreatedFacts
        <3> HIDE DEF new
        <3>3. QED
            BY <1>2, <3>2 DEF new, Create
    <2>2. QED
        BY <1>0, <1>1, <1>2, <2>1 DEF Create
<1>3. ASSUME NEW i \in Ids(mirror), Edit(i) PROVE FreshKeysGiven'
    <2>1. Ids(mirror') = Ids(mirror) \cup {i}
        BY <1>0, <1>3, EditEffect
    <2>2. QED
        BY <1>1, <1>3, <2>1 DEF Edit
<1>4. ASSUME NEW i \in Ids(mirror), Touch(i) PROVE FreshKeysGiven'
    <2>1. Ids(mirror') = Ids(mirror)
        BY <1>0, <1>4, TouchEffect
    <2>2. QED
        BY <1>1, <1>4, <2>1 DEF Touch
<1>5. ASSUME NEW i \in Ids(mirror), Cd(i) PROVE FreshKeysGiven'
    <2>1. Ids(mirror') = Ids(mirror)
        BY <1>0, <1>5, CdEffect
    <2>2. QED
        BY <1>1, <1>5, <2>1 DEF Cd
<1>6. ASSUME NEW i \in Ids(mirror), Remove(i) PROVE FreshKeysGiven'
    <2>1. Ids(mirror') = Ids(mirror) \ {i}
        BY <1>0, <1>6, DeletedFacts DEF Remove
    <2>2. QED
        BY <1>1, <1>6, <2>1 DEF Remove
<1>7. ASSUME NEW i \in Ids(mirror), NEW parent \in Ids(mirror),
             MoveInto(i, parent) \/ \E name \in Names : Move(i, parent, name)
      PROVE  FreshKeysGiven'
    <2>1. parent \in Int /\ mirror.nodes[i].name \in Names \cup {NoParent}
        BY <1>0 DEF AnyNode
    <2>2. PICK name \in Names \cup {NoParent} : MoveTo(i, parent, name)
        BY <1>7, <2>1 DEF MoveInto, Move
    <2>3. Ids(mirror') = Ids(mirror)
        BY <1>0, <2>1, <2>2, MovedFacts DEF MoveTo
    <2>4. QED
        BY <1>1, <2>2, <2>3 DEF MoveTo
<1>8. ASSUME HostCommit PROVE FreshKeysGiven'
    BY <1>1, <1>8 DEF HostCommit
<1>9. ASSUME NEW h \in Hosts, HostWrite(h) PROVE FreshKeysGiven'
    <2>1. target[h].id \in Int /\ target[h].node \in AnyNode
        BY <1>0 DEF Typed, Targets
    <2>2. Ids(mirror') = Ids(mirror) \cup {target[h].id}
        BY <1>0, <1>9, <2>1, WrittenFacts DEF HostWrite
    <2>3. \A g \in Hosts : target'[g] = NoTarget \/ target'[g] = target[g]
        BY <1>0, <1>9 DEF HostWrite, Typed
    <2>4. QED
        BY <1>1, <1>9, <2>2, <2>3 DEF HostWrite
<1>10. ASSUME NEW h \in Hosts, NEW i \in Ids(mirror), HostResolve(h, i) PROVE FreshKeysGiven'
    <2>1. \A g \in Hosts : target'[g] = target[g] \/ target'[g].id \in Ids(mirror)
        BY <1>0, <1>10 DEF HostResolve, Typed
    <2>2. QED
        BY <1>1, <1>10, <2>1 DEF HostResolve
<1>11. ASSUME NEW f \in Flushers, StartFlush(f) PROVE FreshKeysGiven'
    <2>1. \A g \in Flushers : fpc'[g] = "confirm" => fpc[g] = "confirm"
        BY <1>0, <1>11 DEF StartFlush, Goto, Typed
    <2>2. QED
        BY <1>0, <1>11, <2>1, OwnKept DEF StartFlush, FreshKeysGiven
<1>12. ASSUME NEW f \in Flushers, NEW value \in {"none", "true", "false"}, Return(f, value),
              UNCHANGED <<mirror, target>>, nextRow <= nextRow'
       PROVE  FreshKeysGiven'
    <2>1. \A g \in Flushers : fpc'[g] = "confirm" =>
             fpc[g] = "confirm" /\ remap'[g] = remap[g] /\ snap'[g] = snap[g]
        BY <1>0, <1>12 DEF Return, Goto, Typed
    <2>2. QED
        BY <1>0, <1>12, <2>1, OwnKept DEF FreshKeysGiven
<1>13. ASSUME NEW f \in Flushers, TakeSnapshot(f) PROVE FreshKeysGiven'
    <2>1. CASE Return(f, "true")
        BY <1>0, <1>12, <1>13, <2>1 DEF TakeSnapshot
    <2>2. CASE ~Return(f, "true")
        <3>1. \A g \in Flushers : fpc'[g] = "confirm" =>
                 fpc[g] = "confirm" /\ remap'[g] = remap[g] /\ snap'[g] = snap[g]
            BY <1>0, <1>13, <2>2 DEF TakeSnapshot, Goto, Typed
        <3>2. UNCHANGED <<mirror, target, nextRow>>
            BY <1>13 DEF TakeSnapshot
        <3>3. QED
            BY <1>0, <3>1, <3>2, OwnKept DEF FreshKeysGiven
    <2>3. QED
        BY <2>1, <2>2
<1>14. ASSUME NEW f \in Flushers, Commit(f) PROVE FreshKeysGiven'
    <2> DEFINE new == NewIds(snap[f])
    <2>1. /\ DOMAIN new = Temps(Placed(snap[f])) /\ new \in Remaps
          /\ \A i \in DOMAIN new : nextRow <= new[i] /\ new[i] < nextRow' /\ 0 < new[i]
          /\ \A i, j \in DOMAIN new : new[i] = new[j] => i = j
          /\ nextRow' \in Int /\ nextRow <= nextRow'
        BY <1>14, PersistEffect DEF Commit, Persist, Persisted
    <2>2. DOMAIN new = Temps(DOMAIN snap[f].nodes)
        BY <1>14, <2>1 DEF Commit, Accepted, AllPlaced
    <2>3. /\ remap' = [remap EXCEPT ![f] = new] /\ fpc' = [fpc EXCEPT ![f] = "confirm"]
          /\ UNCHANGED <<mirror, snap, target>>
        BY <1>14 DEF Commit, Goto
    <2> HIDE DEF new
    <2>4. \A i \in DOMAIN new : new[i] \in Int
        <3>1. PICK S \in SUBSET Int : new \in [S -> Int]
            BY <2>1 DEF Remaps
        <3>2. QED
            BY <3>1
    <2>5. remap'[f] = new /\ snap'[f] = snap[f]
        BY <1>0, <2>3 DEF Typed
    <2>6. \A g \in Flushers : g # f => remap'[g] = remap[g] /\ fpc'[g] = fpc[g]
        BY <1>0, <2>3 DEF Typed
    <2>7. \A g \in Flushers : fpc[g] = "confirm" =>
             \A i \in DOMAIN remap[g] : remap[g][i] \in Int /\ remap[g][i] < nextRow
        BY OwnIsFresh DEF Fresh
    <2>8. \A g \in Flushers : fpc[g] = "confirm" /\ g # f =>
             \A i \in DOMAIN remap[g], j \in DOMAIN new : remap[g][i] # new[j]
        BY <1>0, <2>1, <2>4, <2>7
    <2>9. \A g \in Flushers : fpc'[g] = "confirm" /\ g # f => Given(f)' \cap Given(g)' = {}
        BY <2>5, <2>6, <2>8 DEF Given
    <2>10. \A i \in DOMAIN new : /\ new[i] \notin Ids(mirror)
                                 /\ \A h \in Hosts : target[h].id # new[i]
        <3>1. \A i \in Ids(mirror) : i < nextRow
            BY <1>0 DEF Ranged, IdOk
        <3>2. \A h \in Hosts : target[h].id < nextRow /\ target[h].id \in Int
            BY <1>0 DEF Ranged, IdOk, Typed, Targets, NoTarget, NoParent, RootId
        <3>3. QED
            BY <1>0, <2>1, <2>4, <3>1, <3>2
    <2>11. Own(f)'
        BY <2>1, <2>2, <2>3, <2>5, <2>9, <2>10 DEF Own
    <2>12. ASSUME NEW g \in Flushers, g # f, fpc[g] = "confirm" PROVE Own(g)'
        <3>1. Own(g)
            BY <2>12 DEF Base, FreshKeysGiven
        <3>2. \A i \in DOMAIN remap[g] : remap[g][i] < nextRow'
            BY <1>0, <2>1, <2>7, <2>12
        <3>3. \A k \in Flushers : fpc'[k] = "confirm" /\ k # g => Given(g)' \cap Given(k)' = {}
            BY <2>6, <2>9, <2>12, <3>1 DEF Own, Given
        <3>4. QED
            BY <2>3, <2>6, <2>12, <3>1, <3>2, <3>3 DEF Own
    <2>13. QED
        BY <2>6, <2>11, <2>12 DEF FreshKeysGiven
<1>15. ASSUME NEW f \in Flushers, Fail(f) PROVE FreshKeysGiven'
    <2>1. nextRow <= nextRow'
        BY <1>0, <1>15, PersistEffect DEF Fail, PersistNodes, Persisted
    <2>2. QED
        BY <1>12, <1>15, <2>1 DEF Fail
<1>16. ASSUME NEW f \in Flushers, Confirm(f) PROVE FreshKeysGiven'
    <2>1. Ids(mirror') = {Real(remap[f], i) : i \in Ids(mirror)}
        BY <1>16, ConfirmEffect
    <2>2. Own(f) /\ UNCHANGED <<nextRow, target>> /\ Return(f, "true")
        BY <1>16 DEF Confirm, Base, FreshKeysGiven
    <2>3. \A g \in Flushers : fpc'[g] = "confirm" =>
             g # f /\ fpc[g] = "confirm" /\ remap'[g] = remap[g] /\ snap'[g] = snap[g]
        BY <1>0, <2>2 DEF Return, Goto, Typed
    <2>4. ASSUME NEW g \in Flushers, fpc'[g] = "confirm" PROVE Own(g)'
        <3>1. Own(g)
            BY <2>3, <2>4 DEF Base, FreshKeysGiven
        <3>2. \A i \in DOMAIN remap[g] : remap[g][i] \notin Ids(mirror')
            <4>1. Given(f) \cap Given(g) = {}
                BY <2>2, <2>3, <2>4 DEF Own
            <4>2. \A i \in DOMAIN remap[g], j \in DOMAIN remap[f] : remap[g][i] # remap[f][j]
                BY <4>1 DEF Given
            <4>3. QED
                BY <2>1, <3>1, <4>2 DEF Own, Real
        <3>3. \A k \in Flushers : fpc'[k] = "confirm" /\ k # g => Given(g)' \cap Given(k)' = {}
            BY <2>3, <2>4, <3>1 DEF Own, Given
        <3>4. QED
            BY <2>2, <2>3, <2>4, <3>1, <3>2, <3>3 DEF Own
    <2>5. QED
        BY <2>4 DEF FreshKeysGiven
<1>17. ASSUME NEW f \in Flushers, Refused(f) \/ Crash(f) PROVE FreshKeysGiven'
    BY <1>0, <1>12, <1>17 DEF Refused, Crash
<1>18. ASSUME NEW f \in Flushers, Expire(f) PROVE FreshKeysGiven'
    BY <1>1, <1>18 DEF Expire
<1>19. ASSUME UNCHANGED vars PROVE FreshKeysGiven'
    BY <1>1, <1>19 DEF vars
<1>20. QED
    BY <1>2, <1>3, <1>4, <1>5, <1>6, <1>7, <1>8, <1>9, <1>10, <1>11, <1>13, <1>14, <1>15, <1>16,
       <1>17, <1>18, <1>19
       DEF Next, AgentStep, HostStep, FlushStep

\* The invariant that needs no assumption.
LEMMA BaseAlways == Spec => []Base
<1>1. Base /\ [Next]_vars => Base'
    BY TypedStep, RangedStep, BornStep, OwnStep DEF Base
<1>2. QED
    BY <1>1, BaseInit, PTL DEF Spec

LEMMA BaseTypes == Base => TypeOK
<1> SUFFICES ASSUME Base PROVE TypeOK
    OBVIOUS
<1>0. /\ Typed /\ Ranged /\ Born /\ nextRow \in Int /\ MaxTemp \in Nat
      /\ mirror.next \in Int /\ -MaxTemp - 1 <= mirror.next /\ mirror.next <= -1
      /\ Ids(mirror) \subseteq Int /\ DirtyIds(mirror) \subseteq Int /\ DOMAIN rows \subseteq Int
    BY TableFacts, FlushAssumption DEF Base, Typed, Ranged, Mirrors, Ids, DirtyIds
<1>1. \A i \in Int : IdOk(mirror, nextRow, i) => i \in RowIds \cup (-MaxTemp)..(-1)
    BY <1>0 DEF IdOk, RowIds
<1>2. /\ Ids(mirror) \subseteq RowIds \cup (-MaxTemp)..(-1)
      /\ DirtyIds(mirror) \subseteq RowIds \cup (-MaxTemp)..(-1)
    BY <1>0, <1>1 DEF Ranged
<1>3. /\ \A i \in Ids(mirror) : mirror.nodes[i] \in Nodes
      /\ \A i \in DOMAIN rows : rows[i] \in Nodes
    <2>1. \A n \in AnyNode : n.born \in Keys => n \in Nodes
        BY DEF AnyNode, Nodes
    <2>2. /\ \A i \in Ids(mirror) : mirror.nodes[i] \in AnyNode /\ mirror.nodes[i].born \in Keys
          /\ \A i \in DOMAIN rows : rows[i] \in AnyNode /\ rows[i].born \in Keys
        BY <1>0, TableFacts DEF Typed, Mirrors, Ids, Born, Bears
    <2>3. QED
        BY <2>1, <2>2
<1>4. DOMAIN rows \subseteq RowIds
    BY <1>0 DEF Ranged, RowIds
<1>5. mirror.next \in (-MaxTemp - 1)..(-1)
    BY <1>0
<1>6. QED
    BY <1>0, <1>2, <1>3, <1>4, <1>5 DEF TypeOK, Typed

\* The mirror, the rows and the flushes are what they should be: ids are those
\* of rows or temporary ones that have been given out, whatever is lost, expires
\* or dies.
THEOREM TypesAreKept == Spec => []TypeOK
BY BaseAlways, BaseTypes, PTL

-----------------------------------------------------------------------------
(* The tree. Without hosts that write a node they resolved before, and       *)
(* without mv into a directory, nothing makes two nodes of one path: not     *)
(* flushes that overlap, fail or die.                                        *)

Rooted == IsDir(mirror, RootId) /\ mirror.nodes[RootId].parent = NoParent

TreeInv == TreeSound /\ Rooted

LEMMA TreeInit == Init => TreeInv
<1> SUFFICES ASSUME Init PROVE TreeInv
    OBVIOUS
<1>1. /\ DOMAIN rows = InitialIds /\ RootId \in InitialIds
      /\ rows[RootId] = Node(NoParent, NoParent, "dir", 1, RootId)
      /\ \A i \in InitialIds \ {RootId} : rows[i].parent = RootId
      /\ \A i, j \in InitialIds \ {RootId} : i # j => rows[i].name # rows[j].name
    BY FirstRows
<1>2. mirror.nodes = rows /\ mirror.cwd = RootId /\ Ids(mirror) = InitialIds
    BY <1>1 DEF Init, Ids
<1>3. /\ rows[RootId].parent = NoParent /\ rows[RootId].kind = "dir" /\ RootId # NoParent
    BY <1>1 DEF Node, RootId, NoParent
<1>4. \A i, j \in InitialIds : i # j => ~SamePath(rows[i], rows[j])
    BY <1>1, <1>3 DEF SamePath
<1>5. IsDir(mirror, RootId)
    BY <1>1, <1>2, <1>3 DEF IsDir
<1>6. \A i \in Ids(mirror) \ {RootId} : IsDir(mirror, mirror.nodes[i].parent)
    BY <1>1, <1>2, <1>5
<1>7. QED
    BY <1>2, <1>3, <1>4, <1>5, <1>6 DEF TreeInv, TreeSound, Rooted

\* A step that changes at most versions.
LEMMA TreeKept ==
    ASSUME TreeInv, Ids(mirror') = Ids(mirror), IsDir(mirror', mirror'.cwd),
           \A i \in Ids(mirror) : /\ mirror'.nodes[i].parent = mirror.nodes[i].parent
                                  /\ mirror'.nodes[i].name = mirror.nodes[i].name
                                  /\ mirror'.nodes[i].kind = mirror.nodes[i].kind
    PROVE  TreeInv'
<1>1. \A i, j \in Ids(mirror') : i # j => ~SamePath(mirror'.nodes[i], mirror'.nodes[j])
    BY DEF TreeInv, TreeSound, SamePath
<1>2. \A i \in Int : IsDir(mirror, i) => IsDir(mirror', i)
    BY DEF IsDir
<1>3. \A i \in Ids(mirror') \ {RootId} : IsDir(mirror', mirror'.nodes[i].parent)
    BY DEF TreeInv, TreeSound, IsDir
<1>4. Rooted'
    BY DEF TreeInv, Rooted, IsDir
<1>5. QED
    BY <1>1, <1>3, <1>4 DEF TreeInv, TreeSound

LEMMA TreeStep ==
    ASSUME Hosts = {}, "mvinto" \notin Commands, Base, TreeInv, [Next]_vars
    PROVE  TreeInv'
<1> USE DEF db, flush
<1>0. /\ Typed /\ Ranged /\ TreeSound /\ Rooted
      /\ mirror \in Mirrors /\ Ids(mirror) \subseteq Int /\ mirror.next \in Int
      /\ \A i \in Ids(mirror) : mirror.nodes[i] \in AnyNode
      /\ \A i \in Ids(mirror) : mirror.next < i
      /\ IsDir(mirror, mirror.cwd)
      /\ \A i \in Ids(mirror) \ {RootId} : IsDir(mirror, mirror.nodes[i].parent)
      /\ \A i, j \in Ids(mirror) : i # j => ~SamePath(mirror.nodes[i], mirror.nodes[j])
    BY TableFacts DEF Base, Typed, Mirrors, Ids, Ranged, IdOk, TreeInv, TreeSound
<1>1. ASSUME mirror' = mirror PROVE TreeInv'
    BY <1>0, <1>1, TreeKept
<1>2. ASSUME NEW parent \in Ids(mirror), NEW name \in Names, NEW kind \in {"dir", "file"},
             Create(parent, name, kind)
      PROVE  TreeInv'
    <2> DEFINE new == Created(mirror, parent, name, kind)
               k == mirror.next
    <2>1. parent \in Int /\ k \notin Ids(mirror)
        BY <1>0
    <2>2. /\ Ids(new) = Ids(mirror) \cup {k}
          /\ \A j \in Ids(mirror) \ {k} : new.nodes[j] = mirror.nodes[j]
          /\ new.nodes[k] = Node(parent, name, kind, 1, k)
          /\ new.cwd = mirror.cwd
        BY <1>0, <2>1, CreatedFacts
    <2>3. /\ mirror' = new /\ IsDir(mirror, parent) /\ Children(mirror, parent, name) = {}
        BY <1>2 DEF Create
    <2> HIDE DEF new
    <2>4. /\ Ids(mirror') = Ids(mirror) \cup {k} /\ mirror'.cwd = mirror.cwd
          /\ \A j \in Ids(mirror) : mirror'.nodes[j] = mirror.nodes[j]
          /\ mirror'.nodes[k].parent = parent /\ mirror'.nodes[k].name = name
        BY <2>1, <2>2, <2>3 DEF Ids, Node
    <2>5. \A i : IsDir(mirror, i) => IsDir(mirror', i)
        BY <2>4 DEF IsDir
    <2>6. \A j \in Ids(mirror) : ~SamePath(mirror.nodes[j], mirror'.nodes[k])
                              /\ ~SamePath(mirror'.nodes[k], mirror.nodes[j])
        BY <2>3, <2>4 DEF Children, SamePath
    <2>7. \A i, j \in Ids(mirror') : i # j => ~SamePath(mirror'.nodes[i], mirror'.nodes[j])
        BY <1>0, <2>4, <2>6
    <2>8. \A i \in Ids(mirror') \ {RootId} : IsDir(mirror', mirror'.nodes[i].parent)
        BY <1>0, <2>3, <2>4, <2>5
    <2>9. k # RootId
        BY <1>0 DEF Ranged, RootId
    <2>10. Rooted'
        BY <1>0, <2>4, <2>5, <2>9 DEF Rooted, IsDir
    <2>11. QED
        BY <1>0, <2>4, <2>5, <2>7, <2>8, <2>10 DEF TreeInv, TreeSound
<1>3. ASSUME NEW i \in Ids(mirror), Edit(i) PROVE TreeInv'
    <2>1. /\ Ids(mirror') = Ids(mirror) \cup {i} /\ mirror'.cwd = mirror.cwd
          /\ \A j \in Ids(mirror) \ {i} : mirror'.nodes[j] = mirror.nodes[j]
          /\ mirror'.nodes[i].parent = mirror.nodes[i].parent
          /\ mirror'.nodes[i].name = mirror.nodes[i].name
          /\ mirror'.nodes[i].kind = mirror.nodes[i].kind
        BY <1>0, <1>3, EditEffect
    <2>2. \A j \in Ids(mirror) : /\ mirror'.nodes[j].parent = mirror.nodes[j].parent
                                 /\ mirror'.nodes[j].name = mirror.nodes[j].name
                                 /\ mirror'.nodes[j].kind = mirror.nodes[j].kind
        BY <2>1
    <2>3. IsDir(mirror', mirror'.cwd)
        BY <1>0, <2>1, <2>2 DEF IsDir
    <2>4. QED
        BY <1>0, <2>1, <2>2, <2>3, TreeKept
<1>4. ASSUME NEW i \in Ids(mirror), Touch(i) PROVE TreeInv'
    <2>1. mirror'.nodes = mirror.nodes /\ mirror'.cwd = mirror.cwd
        BY <1>0, <1>4, TouchEffect
    <2>2. QED
        BY <1>0, <2>1, TreeKept DEF Ids, IsDir
<1>5. ASSUME NEW i \in Ids(mirror), Cd(i) PROVE TreeInv'
    <2>1. mirror'.nodes = mirror.nodes /\ mirror'.cwd = i
        BY <1>0, <1>5, CdEffect
    <2>2. QED
        BY <1>0, <1>5, <2>1, TreeKept DEF Ids, IsDir, Cd
<1>6. ASSUME NEW i \in Ids(mirror), Remove(i) PROVE TreeInv'
    <2>1. /\ Ids(mirror') = Ids(mirror) \ {i} /\ mirror'.cwd = mirror.cwd
          /\ \A j \in Ids(mirror) \ {i} : mirror'.nodes[j] = mirror.nodes[j]
        BY <1>0, <1>6, DeletedFacts DEF Remove
    <2>2. mirror.nodes[i].kind = "file"
        BY <1>6 DEF Remove, IsFile
    <2>3. \A j : IsDir(mirror, j) => IsDir(mirror', j)
        BY <2>1, <2>2 DEF IsDir
    <2>4. \A j, k \in Ids(mirror') : j # k => ~SamePath(mirror'.nodes[j], mirror'.nodes[k])
        BY <1>0, <2>1
    <2>5. \A j \in Ids(mirror') \ {RootId} : IsDir(mirror', mirror'.nodes[j].parent)
        BY <1>0, <2>1, <2>3
    <2>6. Rooted'
        BY <1>0, <2>1, <2>3 DEF Rooted, IsDir
    <2>7. QED
        BY <1>0, <2>1, <2>3, <2>4, <2>5, <2>6 DEF TreeInv, TreeSound
<1>7. ASSUME NEW i \in Ids(mirror), NEW parent \in Ids(mirror), NEW name \in Names,
             Move(i, parent, name)
      PROVE  TreeInv'
    <2>1. /\ Ids(mirror') = Ids(mirror) /\ mirror'.cwd = mirror.cwd
          /\ \A j \in Ids(mirror) \ {i} : mirror'.nodes[j] = mirror.nodes[j]
          /\ mirror'.nodes[i].parent = parent /\ mirror'.nodes[i].name = name
          /\ mirror'.nodes[i].kind = mirror.nodes[i].kind
        BY <1>0, <1>7, MovedFacts DEF Move, MoveTo
    <2>2. /\ mirror.nodes[i].kind = "file" /\ IsDir(mirror, parent)
          /\ Children(mirror, parent, name) = {}
        BY <1>7 DEF Move, IsFile
    <2>3. \A j : IsDir(mirror, j) => IsDir(mirror', j)
        BY <2>1 DEF IsDir
    <2>4. \A j \in Ids(mirror) : ~SamePath(mirror.nodes[j], mirror'.nodes[i])
                              /\ ~SamePath(mirror'.nodes[i], mirror.nodes[j])
        BY <2>1, <2>2 DEF Children, SamePath
    <2>5. \A j, k \in Ids(mirror') : j # k => ~SamePath(mirror'.nodes[j], mirror'.nodes[k])
        BY <1>0, <2>1, <2>4
    <2>6. \A j \in Ids(mirror') \ {RootId} : IsDir(mirror', mirror'.nodes[j].parent)
        BY <1>0, <2>1, <2>2, <2>3
    <2>7. i # RootId
        BY <1>0, <2>2 DEF Rooted, IsDir
    <2>8. Rooted'
        BY <1>0, <2>1, <2>3, <2>7 DEF Rooted, IsDir
    <2>9. QED
        BY <1>0, <2>1, <2>3, <2>5, <2>6, <2>8 DEF TreeInv, TreeSound
<1>8. ASSUME NEW f \in Flushers, Confirm(f) PROVE TreeInv'
    <2> DEFINE real(i) == Real(remap[f], i)
    <2>1. /\ Ids(mirror') = {real(i) : i \in Ids(mirror)}
          /\ \A i \in Ids(mirror) : mirror'.nodes[real(i)] = RealNode(remap[f], mirror.nodes[i])
          /\ \A i, j \in Ids(mirror) : real(i) = real(j) => i = j
          /\ mirror'.cwd = IF mirror.cwd \in Ids(mirror) THEN real(mirror.cwd) ELSE mirror.cwd
        BY <1>8, ConfirmEffect
    <2>2. /\ Fresh(mirror, remap[f])
          /\ \A i \in DOMAIN remap[f] : i < 0 /\ 0 < remap[f][i]
        BY <1>8, OwnIsFresh DEF Confirm
    <2>3. \A i \in Ids(mirror) : /\ mirror'.nodes[real(i)].parent = real(mirror.nodes[i].parent)
                                 /\ mirror'.nodes[real(i)].name = mirror.nodes[i].name
                                 /\ mirror'.nodes[real(i)].kind = mirror.nodes[i].kind
        BY <1>0, <2>1, <2>2, RealNodeType DEF Fresh
    <2>4. real(RootId) = RootId /\ real(NoParent) = NoParent
        BY <2>2 DEF Real, RootId, NoParent
    <2>5. \A i \in Ids(mirror) : real(i) # NoParent
        BY <1>0, <2>2 DEF Real, NoParent, Ranged, IdOk
    <2> HIDE DEF real
    <2>6. \A i : IsDir(mirror, i) => IsDir(mirror', real(i))
        BY <2>1, <2>3 DEF IsDir
    <2>7. \A i \in Ids(mirror') \ {RootId} : IsDir(mirror', mirror'.nodes[i].parent)
        BY <1>0, <2>1, <2>3, <2>4, <2>6
    <2>8. ASSUME NEW i \in Ids(mirror), NEW j \in Ids(mirror), i # j
          PROVE  ~SamePath(mirror'.nodes[real(i)], mirror'.nodes[real(j)])
        <3>1. CASE i # RootId /\ j # RootId
            <4>1. mirror.nodes[i].parent \in Ids(mirror) /\ mirror.nodes[j].parent \in Ids(mirror)
                BY <1>0, <3>1 DEF IsDir
            <4>2. QED
                BY <1>0, <2>1, <2>3, <2>8, <4>1 DEF SamePath
        <3>2. CASE i = RootId
            <4>1. mirror.nodes[i].parent = NoParent /\ mirror.nodes[j].parent \in Ids(mirror)
                BY <1>0, <2>8, <3>2 DEF IsDir, Rooted
            <4>2. QED
                BY <2>3, <2>4, <2>5, <4>1 DEF SamePath
        <3>3. CASE j = RootId
            <4>1. mirror.nodes[j].parent = NoParent /\ mirror.nodes[i].parent \in Ids(mirror)
                BY <1>0, <2>8, <3>3 DEF IsDir, Rooted
            <4>2. QED
                BY <2>3, <2>4, <2>5, <4>1 DEF SamePath
        <3>4. QED
            BY <3>1, <3>2, <3>3
    <2>9. \A i, j \in Ids(mirror') : i # j => ~SamePath(mirror'.nodes[i], mirror'.nodes[j])
        BY <2>1, <2>8
    <2>10. IsDir(mirror', mirror'.cwd)
        BY <1>0, <2>1, <2>6 DEF IsDir
    <2>11. Rooted'
        BY <1>0, <2>3, <2>4, <2>6 DEF Rooted, IsDir
    <2>12. QED
        BY <2>7, <2>9, <2>10, <2>11 DEF TreeInv, TreeSound
<1>9. ASSUME NEW h \in Hosts PROVE TreeInv'
    BY <1>9
<1>10. ASSUME HostCommit PROVE TreeInv'
    BY <1>1, <1>10 DEF HostCommit
<1>11. ASSUME NEW f \in Flushers,
              \/ StartFlush(f) \/ Refused(f) \/ TakeSnapshot(f) \/ Commit(f) \/ Fail(f)
              \/ Expire(f) \/ Crash(f)
       PROVE  TreeInv'
    BY <1>1, <1>11 DEF StartFlush, Refused, TakeSnapshot, Commit, Fail, Expire, Crash
<1>12. ASSUME UNCHANGED vars PROVE TreeInv'
    BY <1>1, <1>12 DEF vars
<1>13. QED
    BY <1>2, <1>3, <1>4, <1>5, <1>6, <1>7, <1>8, <1>9, <1>10, <1>11, <1>12
       DEF Next, AgentStep, FlushStep, MoveInto, Command

\* One node per path, under a live directory, whatever flushes overlap, fail or
\* die, as long as the host writes no file by an id it resolved before
\* (MCWorkspaceFlush_stale) and no file is moved into a directory that has one
\* of its name (MCWorkspaceFlush_mvinto).
THEOREM TreeStaysSound ==
    ASSUME Hosts = {}, "mvinto" \notin Commands
    PROVE  Spec => []TreeSound
<1>1. Init => TreeInv
    BY TreeInit
<1>2. Base /\ TreeInv /\ [Next]_vars => TreeInv'
    BY TreeStep
<1>3. TreeInv => TreeSound
    BY DEF TreeInv
<1>4. QED
    BY <1>1, <1>2, <1>3, BaseAlways, PTL DEF Spec

-----------------------------------------------------------------------------
(* What is clean is durable.                                                 *)

\* The flushes hold their lock, or, where a lock may expire, there is one
\* flusher and no command makes or moves a node: two flushes that overlap
\* confirm what the other wrote over (MCWorkspaceFlush_expired), and a node that
\* was created and then edited during a flush is taken for clean when that flush
\* gives it its key.
Settled ==
    \/ ~CanExpire
    \/ /\ \A f, g \in Flushers : f = g
       /\ {"create", "mv", "mvinto"} \cap Commands = {}

\* The session of the host holds back nothing that a flush writes anew, and in
\* memory no host puts back a node whose row is gone.
Session ==
    /\ PostgreSQL => \/ {"mv", "mvinto"} \cap Commands = {}
                     \/ "edit" \notin Commands /\ Hosts = {}
    /\ ~PostgreSQL => "rm" \notin Commands \/ Hosts = {}

\* The cwd is not written before its directory: in PostgreSQL the foreign key of
\* the session row sees to it, in memory nothing does.
CwdHasRow == PostgreSQL \/ "cd" \notin Commands

Active(f) == fpc[f] \in {"commit", "confirm"}

\* One flush at a time is between its snapshot and its confirmation.
Solo ==
    /\ \A f, g \in Flushers : Active(f) /\ Active(g) => f = g
    /\ ~CanExpire => \A f \in Flushers : Active(f) => lock = f
    /\ CanExpire => mirror.next = -1

\* Whatever has a real id has a row.
HaveRows ==
    /\ \A i \in Ids(mirror) : i > 0 => i \in DOMAIN rows
    /\ \A h \in Hosts : target[h].id > 0 => target[h].id \in DOMAIN rows
    /\ \A f \in Flushers : fpc[f] = "confirm" =>
          \A i \in DOMAIN remap[f] : remap[f][i] \in DOMAIN rows

\* The row of a clean node is the node, and nothing in it is temporary.
Clean ==
    \A i \in Ids(mirror) \ DirtyIds(mirror) :
        i \in DOMAIN rows /\ rows[i] = mirror.nodes[i] /\ rows[i].parent >= 0

\* What a flush is writing stays dirty, and under a lock it stays as it is.
InFlight(f) ==
    /\ \A i \in DOMAIN snap[f].nodes :
          /\ i \in Ids(mirror) => i \in DirtyIds(mirror)
          /\ ~CanExpire => i \in Ids(mirror) /\ mirror.nodes[i] = snap[f].nodes[i]
    /\ snap[f].cwdDirty => mirror.dirtyCwd

\* What a flush has written is in the rows until it is confirmed.
Committed(f) ==
    /\ \A i \in DOMAIN snap[f].nodes :
          Real(remap[f], i) \in DOMAIN rows =>
              /\ rows[Real(remap[f], i)] = RealNode(remap[f], snap[f].nodes[i])
              /\ rows[Real(remap[f], i)].parent >= 0
    /\ CwdHasRow /\ snap[f].cwdDirty => cwdRow = snap[f].cwd /\ snap[f].cwd >= 0

Flying ==
    /\ \A f \in Flushers : Active(f) => InFlight(f)
    /\ \A f \in Flushers : fpc[f] = "confirm" => Committed(f)

CwdKept ==
    /\ CwdHasRow /\ ~mirror.dirtyCwd => cwdRow = mirror.cwd /\ cwdRow >= 0
    /\ ~PostgreSQL /\ "cd" \notin Commands => ~mirror.dirtyCwd

\* A row update that waits in the session of the host is that of the node as it
\* still is, or it cannot be committed.
Waiting ==
    /\ \A i \in DOMAIN pending \cap Ids(mirror) :
          pending[i] = mirror.nodes[i] \/ pending[i].parent < 0
    /\ pending # Empty => PostgreSQL /\ {"mv", "mvinto"} \cap Commands # {}
    /\ \A f \in Flushers : fpc[f] = "confirm" =>
          \A i \in DOMAIN remap[f] : remap[f][i] \notin DOMAIN pending

Durable == Solo /\ HaveRows /\ Clean /\ Flying /\ CwdKept /\ Waiting

LEMMA DurableInit == Init => Durable
<1> SUFFICES ASSUME Init PROVE Durable
    OBVIOUS
<1>1. \A i \in DOMAIN rows : rows[i].parent >= 0
    BY FirstRows DEF Node, NoParent, RootId
<1>2. /\ mirror.nodes = rows /\ mirror.next = -1 /\ mirror.cwd = RootId /\ ~mirror.dirtyCwd
      /\ Ids(mirror) = DOMAIN rows /\ cwdRow = RootId /\ pending = Empty
    BY DEF Init, Ids
<1>3. /\ \A f \in Flushers : ~Active(f) /\ fpc[f] # "confirm"
      /\ \A h \in Hosts : target[h].id = NoParent
    BY DEF Init, Active, NoTarget
<1>4. Solo /\ HaveRows /\ Clean /\ Flying
    BY <1>1, <1>2, <1>3 DEF Solo, HaveRows, Clean, Flying, NoParent
<1>5. CwdKept /\ Waiting
    BY <1>2, <1>3 DEF CwdKept, Waiting, RootId, Empty
<1>6. QED
    BY <1>4, <1>5 DEF Durable

\* A command that makes dirty what it changes. While a flush is under way there
\* is none, or the flush has lost its lock.
LEMMA DurableMarked ==
    ASSUME Settled, Session, Base, Typed', Durable, lock = NoOne,
           UNCHANGED <<rows, nextRow, cwdRow, pending, lock, fpc, snap, remap>>,
           CanExpire => mirror'.next = mirror.next,
           \A i \in Ids(mirror) : i \in Ids(mirror'),
           \A i \in Ids(mirror') : \/ i \in DirtyIds(mirror')
                                   \/ i \in Ids(mirror) /\ mirror'.nodes[i] = mirror.nodes[i],
           \A i \in Ids(mirror') : i \in Ids(mirror) \/ i < 0 \/ i \in DOMAIN rows,
           \A i \in DirtyIds(mirror) : i \in DirtyIds(mirror'),
           pending = Empty \/ \A i \in Ids(mirror') :
               i < 0 \/ (i \in Ids(mirror) /\ mirror'.nodes[i] = mirror.nodes[i]),
           \A h \in Hosts : target'[h] = target[h] \/ target'[h] = NoTarget,
           mirror.dirtyCwd => mirror'.dirtyCwd,
           ~mirror'.dirtyCwd => mirror'.cwd = mirror.cwd,
           ~PostgreSQL /\ "cd" \notin Commands => ~mirror'.dirtyCwd
    PROVE  Durable'
<1>1. ~CanExpire => \A f \in Flushers : ~Active(f)
    BY FlushAssumption DEF Durable, Solo
<1>2. Solo'
    BY <1>1 DEF Durable, Solo, Active
<1>3. HaveRows'
    <2>1. Ids(mirror') \subseteq Int
        BY TableFacts DEF Typed, Mirrors, Ids
    <2>2. \A i \in Ids(mirror') : i > 0 => i \in DOMAIN rows
        BY <2>1 DEF Durable, HaveRows
    <2>3. \A h \in Hosts : target'[h].id > 0 => target[h].id > 0 /\ target'[h].id = target[h].id
        BY DEF NoTarget, NoParent
    <2>4. QED
        BY <2>2, <2>3 DEF Durable, HaveRows
<1>4. Clean'
    BY DEF Durable, Clean
<1>5. \A f \in Flushers : Active(f)' => InFlight(f)'
    <2> SUFFICES ASSUME NEW f \in Flushers, Active(f)' PROVE InFlight(f)'
        OBVIOUS
    <2>1. Active(f) /\ CanExpire /\ InFlight(f)
        BY <1>1 DEF Active, Durable, Flying
    <2>2. QED
        BY <2>1 DEF InFlight
<1>6. \A f \in Flushers : fpc'[f] = "confirm" => Committed(f)'
    BY DEF Durable, Flying, Committed
<1>7. CwdKept'
    BY DEF Durable, CwdKept
<1>8. Waiting'
    <2>1. \A i \in DOMAIN pending : ~(i < 0)
        BY TableFacts DEF Base, Typed, Ranged
    <2>2. \A i \in DOMAIN pending \cap Ids(mirror') :
             pending[i] = mirror'.nodes[i] \/ pending[i].parent < 0
        BY <2>1 DEF Durable, Waiting, Empty
    <2>3. QED
        BY <2>2 DEF Durable, Waiting
<1>9. QED
    BY <1>2, <1>3, <1>4, <1>5, <1>6, <1>7, <1>8 DEF Durable, Flying

\* A step of the flushes that leaves the mirror and the database alone and
\* gives no flush anything new to write.
LEMMA DurableIdled ==
    ASSUME Base, Durable, UNCHANGED <<mirror, rows, cwdRow, pending>>,
           \A h \in Hosts : target'[h] = target[h] \/ target'[h].id \in Ids(mirror),
           \A f \in Flushers : Active(f)' =>
               /\ Active(f) /\ fpc'[f] = fpc[f] /\ snap'[f] = snap[f] /\ remap'[f] = remap[f]
               /\ ~CanExpire => lock' = lock
    PROVE  Durable'
<1>1. Solo'
    BY DEF Durable, Solo
<1>2. \A f \in Flushers : fpc'[f] = "confirm" =>
         fpc[f] = "confirm" /\ snap'[f] = snap[f] /\ remap'[f] = remap[f]
    BY DEF Active
<1>3. HaveRows'
    BY <1>2 DEF Durable, HaveRows
<1>4. Clean' /\ CwdKept'
    BY DEF Durable, Clean, CwdKept
<1>5. \A f \in Flushers : Active(f)' => InFlight(f)'
    BY DEF Durable, Flying, InFlight
<1>6. \A f \in Flushers : fpc'[f] = "confirm" => Committed(f)'
    BY <1>2 DEF Durable, Flying, Committed
<1>7. Waiting'
    BY <1>2 DEF Durable, Waiting
<1>8. QED
    BY <1>1, <1>3, <1>4, <1>5, <1>6, <1>7 DEF Durable, Flying

\* A flush that returns leaves the flushes that are under way alone.
LEMMA ReturnIdles ==
    ASSUME Typed, Solo, NEW f \in Flushers, NEW value \in {"none", "true", "false"},
           Return(f, value)
    PROVE  /\ \A g \in Flushers : Active(g)' =>
                 /\ g # f /\ Active(g) /\ fpc'[g] = fpc[g] /\ snap'[g] = snap[g]
                 /\ remap'[g] = remap[g]
                 /\ ~CanExpire => lock' = lock
           /\ ~Active(f)'
BY DEF Typed, Solo, Return, Goto, Active

\* A move marks the node it moves and changes no other.
LEMMA MoveEffect ==
    ASSUME mirror \in Mirrors, NEW i \in Ids(mirror), NEW parent \in Int,
           NEW name \in Names \cup {NoParent}, MoveTo(i, parent, name)
    PROVE  /\ Ids(mirror') = Ids(mirror) /\ mirror'.next = mirror.next
           /\ \A j \in Ids(mirror) \ {i} : mirror'.nodes[j] = mirror.nodes[j]
           /\ mirror'.nodes[i].ver = mirror.nodes[i].ver + 1
           /\ mirror'.nodes[i].born = mirror.nodes[i].born
           /\ mirror'.dirtyC = mirror.dirtyC /\ mirror'.dirtyS = mirror.dirtyS \cup {i}
           /\ mirror'.cwd = mirror.cwd /\ mirror'.dirtyCwd = mirror.dirtyCwd
<1> DEFINE new == Moved(mirror, i, parent, name)
<1>1. /\ Ids(new) = Ids(mirror) /\ new.next = mirror.next
      /\ \A j \in Ids(mirror) \ {i} : new.nodes[j] = mirror.nodes[j]
      /\ new.nodes[i].ver = mirror.nodes[i].ver + 1
      /\ new.nodes[i].born = mirror.nodes[i].born
      /\ new.dirtyC = mirror.dirtyC /\ new.dirtyS = mirror.dirtyS \cup {i}
      /\ new.cwd = mirror.cwd /\ new.dirtyCwd = mirror.dirtyCwd
    BY MovedFacts
<1>2. mirror' = new
    BY DEF MoveTo
<1> HIDE DEF new
<1>3. Ids(mirror') = Ids(new)
    BY <1>2 DEF Ids
<1>4. QED
    BY <1>1, <1>2, <1>3

\* The commit of the host's session writes what waits in it, or nothing, and no
\* row gets a parent that has no row.
LEMMA HostCommitEffect ==
    ASSUME Typed, Ranged, HostCommit
    PROVE  /\ DOMAIN rows' = DOMAIN rows
           /\ \A i \in DOMAIN rows :
                 \/ rows'[i] = rows[i]
                 \/ i \in DOMAIN pending /\ rows'[i] = pending[i] /\ pending[i].parent >= 0
<1> DEFINE new == [i \in DOMAIN rows |-> IF i \in DOMAIN pending THEN pending[i] ELSE rows[i]]
<1>1. CASE rows' = rows
    BY <1>1
<1>2. CASE Consistent(new) /\ rows' = new
    <2>1. \A i \in DOMAIN rows : new[i].parent \in DOMAIN rows \cup {NoParent}
        BY <1>2 DEF Consistent
    <2>2. \A i \in DOMAIN rows : i > 0
        BY TableFacts DEF Ranged, Typed
    <2>3. \A i \in DOMAIN rows : new[i].parent >= 0
        <3>1. \A k \in DOMAIN rows \cup {NoParent} : k >= 0
            BY <2>2, TableFacts DEF NoParent, Typed
        <3>2. QED
            BY <2>1, <3>1
    <2>4. QED
        BY <1>2, <2>3
<1>3. QED
    BY <1>1, <1>2 DEF HostCommit

\* The commands of the agent and of the hosts.
LEMMA DurableCommands ==
    ASSUME Settled, Session, Base, Typed', Durable,
           AgentStep \/ HostCommit \/ \E h \in Hosts : HostStep(h)
    PROVE  Durable'
<1> USE DEF db, flush
<1>0. /\ Typed /\ Ranged /\ Solo /\ HaveRows /\ Clean /\ Flying /\ CwdKept /\ Waiting
      /\ mirror \in Mirrors /\ Ids(mirror) \subseteq Int /\ mirror.next \in Int
      /\ \A i \in Ids(mirror) : mirror.nodes[i] \in AnyNode
      /\ mirror.next < 0
    BY TableFacts DEF Base, Typed, Mirrors, Ids, Ranged, Durable
<1>1. ASSUME NEW parent \in Ids(mirror), NEW name \in Names, NEW kind \in {"dir", "file"},
             Create(parent, name, kind)
      PROVE  Durable'
    <2> DEFINE new == Created(mirror, parent, name, kind)
    <2>1. parent \in Int
        BY <1>0
    <2>2. /\ Ids(new) = Ids(mirror) \cup {mirror.next}
          /\ \A j \in Ids(mirror) \ {mirror.next} : new.nodes[j] = mirror.nodes[j]
          /\ new.dirtyC = mirror.dirtyC /\ new.dirtyS = mirror.dirtyS \cup {mirror.next}
          /\ new.cwd = mirror.cwd /\ new.dirtyCwd = mirror.dirtyCwd
        BY <1>0, <2>1, CreatedFacts
    <2>3. mirror' = new /\ ~CanExpire
        BY <1>1 DEF Create, Command, Settled
    <2> HIDE DEF new
    <2>4. /\ Ids(mirror') = Ids(mirror) \cup {mirror.next}
          /\ \A j \in Ids(mirror) \ {mirror.next} : mirror'.nodes[j] = mirror.nodes[j]
          /\ DirtyIds(mirror') = DirtyIds(mirror) \cup {mirror.next}
          /\ mirror'.cwd = mirror.cwd /\ mirror'.dirtyCwd = mirror.dirtyCwd
        BY <2>2, <2>3 DEF Ids, DirtyIds
    <2>5. QED
        BY <1>0, <1>1, <2>3, <2>4, DurableMarked DEF Create, Command, CwdKept
<1>2. ASSUME NEW i \in Ids(mirror), Edit(i) PROVE Durable'
    <2>1. /\ Ids(mirror') = Ids(mirror) \cup {i} /\ mirror'.next = mirror.next
          /\ \A j \in Ids(mirror) \ {i} : mirror'.nodes[j] = mirror.nodes[j]
          /\ mirror'.dirtyC = mirror.dirtyC \cup {i} /\ mirror'.dirtyS = mirror.dirtyS
          /\ mirror'.cwd = mirror.cwd /\ mirror'.dirtyCwd = mirror.dirtyCwd
        BY <1>0, <1>2, EditEffect
    <2>2. DirtyIds(mirror') = DirtyIds(mirror) \cup {i}
        BY <2>1 DEF DirtyIds
    <2>3. pending = Empty
        BY <1>0, <1>2 DEF Session, Waiting, Edit, Command
    <2>4. QED
        BY <1>0, <1>2, <2>1, <2>2, <2>3, DurableMarked DEF Edit, Command, CwdKept
<1>3. ASSUME NEW i \in Ids(mirror), Touch(i) PROVE Durable'
    <2>1. /\ mirror'.nodes = mirror.nodes /\ mirror'.next = mirror.next
          /\ mirror'.dirtyC = mirror.dirtyC \cup {i} /\ mirror'.dirtyS = mirror.dirtyS
          /\ mirror'.cwd = mirror.cwd /\ mirror'.dirtyCwd = mirror.dirtyCwd
        BY <1>0, <1>3, TouchEffect
    <2>2. DirtyIds(mirror') = DirtyIds(mirror) \cup {i} /\ Ids(mirror') = Ids(mirror)
        BY <2>1 DEF DirtyIds, Ids
    <2>3. QED
        BY <1>0, <1>3, <2>1, <2>2, DurableMarked DEF Touch, Command, CwdKept
<1>4. ASSUME NEW i \in Ids(mirror), Cd(i) PROVE Durable'
    <2>1. /\ mirror'.nodes = mirror.nodes /\ mirror'.next = mirror.next
          /\ mirror'.dirtyC = mirror.dirtyC /\ mirror'.dirtyS = mirror.dirtyS
          /\ mirror'.dirtyCwd
        BY <1>0, <1>4, CdEffect
    <2>2. DirtyIds(mirror') = DirtyIds(mirror) /\ Ids(mirror') = Ids(mirror)
        BY <2>1 DEF DirtyIds, Ids
    <2>3. "cd" \in Commands
        BY <1>4 DEF Cd, Command
    <2>4. \A j \in Ids(mirror') : \/ j \in DirtyIds(mirror')
                                  \/ j \in Ids(mirror) /\ mirror'.nodes[j] = mirror.nodes[j]
        BY <2>1, <2>2
    <2>5. QED
        BY <1>4, <2>1, <2>2, <2>3, <2>4, DurableMarked DEF Cd, Command
<1>5. ASSUME NEW h \in Hosts, HostWrite(h) PROVE Durable'
    <2> DEFINE i == target[h].id
    <2>1. i \in Int /\ target[h].node \in AnyNode /\ i # 0
        BY <1>0, <1>5 DEF Typed, Targets, Ranged, IdOk, HostWrite
    <2>2. /\ Ids(mirror') = Ids(mirror) \cup {i} /\ mirror'.next = mirror.next
          /\ \A j \in Ids(mirror) \ {i} : mirror'.nodes[j] = mirror.nodes[j]
          /\ mirror'.dirtyC = mirror.dirtyC \cup {i} /\ mirror'.dirtyS = mirror.dirtyS
          /\ mirror'.cwd = mirror.cwd /\ mirror'.dirtyCwd = mirror.dirtyCwd
        BY <1>0, <1>5, <2>1, WrittenFacts DEF HostWrite
    <2>3. i < 0 \/ i \in DOMAIN rows
        BY <1>0, <2>1 DEF HaveRows
    <2>4. pending = Empty
        BY <1>0, <1>5 DEF Session, Waiting
    <2>5. \A g \in Hosts : target'[g] = target[g] \/ target'[g] = NoTarget
        BY <1>0, <1>5 DEF HostWrite, Typed
    <2> HIDE DEF i
    <2>6. DirtyIds(mirror') = DirtyIds(mirror) \cup {i}
        BY <2>2 DEF DirtyIds
    <2>7. QED
        BY <1>0, <1>5, <2>2, <2>3, <2>4, <2>5, <2>6, DurableMarked DEF HostWrite, CwdKept
<1>6. ASSUME NEW h \in Hosts, NEW i \in Ids(mirror), HostResolve(h, i) PROVE Durable'
    <2>1. \A g \in Hosts : target'[g] = target[g] \/ target'[g].id \in Ids(mirror)
        BY <1>0, <1>6 DEF HostResolve, Typed
    <2>2. QED
        BY <1>0, <1>6, <2>1, DurableIdled DEF HostResolve, Active
<1>7. ASSUME NEW i \in Ids(mirror), Remove(i) PROVE Durable'
    <2>1. /\ Ids(mirror') = Ids(mirror) \ {i} /\ mirror'.next = mirror.next
          /\ \A j \in Ids(mirror) \ {i} : mirror'.nodes[j] = mirror.nodes[j]
          /\ mirror'.dirtyC = mirror.dirtyC \ {i} /\ mirror'.dirtyS = mirror.dirtyS \ {i}
          /\ mirror'.cwd = mirror.cwd /\ mirror'.dirtyCwd = mirror.dirtyCwd
        BY <1>0, <1>7, DeletedFacts DEF Remove
    <2>2. DirtyIds(mirror') = DirtyIds(mirror) \ {i}
        BY <2>1 DEF DirtyIds
    <2>3. /\ UNCHANGED <<pending, cwdRow, lock, fpc, snap, remap, target>> /\ lock = NoOne
          /\ "rm" \in Commands
        BY <1>7 DEF Remove, Command
    <2>4. /\ DOMAIN rows' = IF PostgreSQL THEN DOMAIN rows ELSE DOMAIN rows \ {i}
          /\ \A j \in DOMAIN rows' : j \in DOMAIN rows /\ rows'[j] = rows[j]
        BY <1>7 DEF Remove, Restricted
    <2>5. ~CanExpire => \A f \in Flushers : ~Active(f)
        BY <1>0, <2>3, FlushAssumption DEF Solo
    <2>6. Solo'
        BY <1>0, <2>1, <2>3 DEF Solo, Active
    <2>7. HaveRows'
        <3>1. \A j \in Ids(mirror') : j > 0 => j \in DOMAIN rows'
            BY <1>0, <2>1, <2>4 DEF HaveRows
        <3>2. \A h \in Hosts : target'[h].id > 0 => target'[h].id \in DOMAIN rows'
            BY <1>0, <2>3, <2>4 DEF HaveRows, Session
        <3>3. \A f \in Flushers : fpc[f] = "confirm" => \A j \in DOMAIN remap[f] : remap[f][j] # i
            BY OwnIsFresh DEF Fresh
        <3>4. \A f \in Flushers : fpc'[f] = "confirm" =>
                 \A j \in DOMAIN remap'[f] : remap'[f][j] \in DOMAIN rows'
            BY <1>0, <2>3, <2>4, <3>3 DEF HaveRows
        <3>5. QED
            BY <3>1, <3>2, <3>4 DEF HaveRows
    <2>8. Clean'
        <3> SUFFICES ASSUME NEW j \in Ids(mirror') \ DirtyIds(mirror')
                     PROVE  j \in DOMAIN rows' /\ rows'[j] = mirror'.nodes[j] /\ rows'[j].parent >= 0
            BY DEF Clean
        <3>1. j \in Ids(mirror) \ DirtyIds(mirror) /\ j # i
            BY <2>1, <2>2
        <3>2. QED
            BY <1>0, <2>1, <2>4, <3>1 DEF Clean
    <2>9. \A f \in Flushers : Active(f)' => InFlight(f)'
        <3> SUFFICES ASSUME NEW f \in Flushers, Active(f)' PROVE InFlight(f)'
            OBVIOUS
        <3>1. Active(f) /\ CanExpire /\ InFlight(f) /\ snap'[f] = snap[f]
            BY <1>0, <2>3, <2>5 DEF Active, Flying
        <3>2. QED
            BY <2>1, <2>2, <3>1 DEF InFlight
    <2>10. \A f \in Flushers : fpc'[f] = "confirm" => Committed(f)'
        BY <1>0, <2>3, <2>4 DEF Flying, Committed
    <2>11. CwdKept' /\ Waiting'
        BY <1>0, <2>1, <2>3 DEF CwdKept, Waiting
    <2>12. QED
        BY <2>6, <2>7, <2>8, <2>9, <2>10, <2>11 DEF Durable, Flying
<1>8. ASSUME NEW i \in Ids(mirror), NEW parent \in Ids(mirror),
             MoveInto(i, parent) \/ \E name \in Names : Move(i, parent, name)
      PROVE  Durable'
    <2>1. parent \in Int /\ mirror.nodes[i].name \in Names \cup {NoParent}
        BY <1>0 DEF AnyNode
    <2>2. PICK name \in Names \cup {NoParent} : MoveTo(i, parent, name)
        BY <1>8, <2>1 DEF MoveInto, Move
    <2>3. lock = NoOne /\ {"mv", "mvinto"} \cap Commands # {} /\ ~CanExpire
        BY <1>8 DEF MoveInto, Move, Command, Settled
    <2>4. /\ Ids(mirror') = Ids(mirror) /\ mirror'.next = mirror.next
          /\ \A j \in Ids(mirror) \ {i} : mirror'.nodes[j] = mirror.nodes[j]
          /\ mirror'.dirtyC = mirror.dirtyC /\ mirror'.dirtyS = mirror.dirtyS \cup {i}
          /\ mirror'.cwd = mirror.cwd /\ mirror'.dirtyCwd = mirror.dirtyCwd
        BY <1>0, <2>1, <2>2, MoveEffect
    <2>5. DirtyIds(mirror') = DirtyIds(mirror) \cup {i}
        BY <2>4 DEF DirtyIds
    <2>6. UNCHANGED <<cwdRow, lock, fpc, snap, remap, target>>
        BY <2>2 DEF MoveTo
    <2>7. \A f \in Flushers : ~Active(f) /\ ~Active(f)' /\ fpc'[f] # "confirm"
        BY <1>0, <2>3, <2>6, FlushAssumption DEF Solo, Active
    <2>8. DOMAIN rows' = DOMAIN rows /\ \A j \in DOMAIN rows \ {i} : rows'[j] = rows[j]
        BY <2>2 DEF MoveTo
    <2>9. Solo' /\ HaveRows' /\ Flying'
        BY <1>0, <2>3, <2>4, <2>6, <2>7, <2>8 DEF Solo, HaveRows, Flying
    <2>10. Clean'
        BY <1>0, <2>4, <2>5, <2>8 DEF Clean
    <2>11. Waiting'
        <3>1. CASE i \in DOMAIN rows /\ PostgreSQL
            <4>1. pending' = [j \in DOMAIN pending \cup {i} |->
                                 IF j = i THEN mirror'.nodes[i] ELSE pending[j]]
                BY <2>2, <3>1 DEF MoveTo
            <4>2. QED
                BY <1>0, <2>3, <2>4, <2>7, <3>1, <4>1 DEF Waiting
        <3>2. CASE ~(i \in DOMAIN rows /\ PostgreSQL)
            <4>1. pending' = pending
                BY <2>2, <3>2 DEF MoveTo
            <4>2. i \notin DOMAIN pending
                <5>1. i \in DOMAIN pending => i > 0
                    BY <1>0 DEF Ranged
                <5>2. QED
                    BY <1>0, <3>2, <5>1 DEF Waiting, HaveRows, Empty
            <4>3. QED
                BY <1>0, <2>4, <2>7, <4>1, <4>2 DEF Waiting
        <3>3. QED
            BY <3>1, <3>2
    <2>12. CwdKept'
        BY <1>0, <2>4, <2>6 DEF CwdKept
    <2>13. QED
        BY <2>9, <2>10, <2>11, <2>12 DEF Durable
<1>9. ASSUME HostCommit PROVE Durable'
    <2>1. /\ UNCHANGED <<mirror, cwdRow, lock, fpc, snap, remap, target>> /\ pending' = Empty
          /\ PostgreSQL /\ ~CanExpire
        BY <1>0, <1>9 DEF HostCommit, Waiting, Settled
    <2>2. /\ DOMAIN rows' = DOMAIN rows
          /\ \A i \in DOMAIN rows :
                \/ rows'[i] = rows[i]
                \/ i \in DOMAIN pending /\ rows'[i] = pending[i] /\ pending[i].parent >= 0
        BY <1>0, <1>9, HostCommitEffect
    <2>3. \A i \in DOMAIN pending : pending[i].parent \in Int
        BY <1>0, TableFacts DEF Typed, AnyNode
    <2>4. \A i \in Ids(mirror) \cap DOMAIN rows :
             rows'[i] = rows[i] \/ (rows'[i] = mirror.nodes[i] /\ rows'[i].parent >= 0)
        BY <1>0, <2>2, <2>3 DEF Waiting
    <2>5. Solo' /\ HaveRows' /\ CwdKept'
        BY <1>0, <2>1, <2>2 DEF Solo, HaveRows, CwdKept, Active
    <2>6. Clean'
        BY <1>0, <2>1, <2>2, <2>4 DEF Clean
    <2>7. \A f \in Flushers : Active(f)' => InFlight(f)'
        BY <1>0, <2>1 DEF Flying, Active, InFlight
    <2>8. ASSUME NEW f \in Flushers, fpc'[f] = "confirm" PROVE Committed(f)'
        <3>1. Committed(f) /\ InFlight(f) /\ fpc[f] = "confirm" /\ remap'[f] = remap[f] /\ snap'[f] = snap[f]
            BY <1>0, <2>1, <2>8 DEF Flying, Active
        <3>2. ASSUME NEW i \in DOMAIN snap[f].nodes, Real(remap[f], i) \in DOMAIN rows
              PROVE  /\ rows'[Real(remap[f], i)] = RealNode(remap[f], snap[f].nodes[i])
                     /\ rows'[Real(remap[f], i)].parent >= 0
            <4>1. CASE i \in DOMAIN remap[f]
                <5>1. remap[f][i] \notin DOMAIN pending
                    BY <1>0, <3>1, <4>1 DEF Waiting
                <5>2. QED
                    BY <2>2, <3>1, <3>2, <4>1, <5>1 DEF Committed, Real
            <4>2. CASE i \notin DOMAIN remap[f]
                <5>1. Real(remap[f], i) = i
                    BY <4>2 DEF Real
                <5>2. i \in Ids(mirror) /\ mirror.nodes[i] = snap[f].nodes[i]
                    BY <2>1, <3>1 DEF InFlight
                <5>3. CASE rows'[i] = rows[i]
                    BY <3>1, <3>2, <5>1, <5>3 DEF Committed
                <5>4. CASE rows'[i] = mirror.nodes[i] /\ rows'[i].parent >= 0
                    <6>1. mirror.nodes[i].parent \notin DOMAIN remap[f]
                        <7>1. \A k \in DOMAIN remap[f] : ~(k >= 0)
                            BY <3>1, OwnIsFresh DEF Fresh
                        <7>2. QED
                            BY <5>4, <7>1
                    <6>2. RealNode(remap[f], mirror.nodes[i]) = mirror.nodes[i]
                        BY <1>0, <5>2, <6>1 DEF RealNode, Real, AnyNode
                    <6>3. QED
                        BY <5>1, <5>2, <5>4, <6>2
                <5>5. QED
                    BY <2>4, <3>2, <5>1, <5>2, <5>3, <5>4
            <4>3. QED
                BY <4>1, <4>2
        <3>3. QED
            BY <2>1, <2>2, <3>1, <3>2 DEF Committed
    <2>9. Waiting'
        BY <2>1 DEF Waiting, Empty
    <2>10. QED
        BY <2>5, <2>6, <2>7, <2>8, <2>9 DEF Durable, Flying
<1>10. QED
    BY <1>1, <1>2, <1>3, <1>4, <1>5, <1>6, <1>7, <1>8, <1>9 DEF AgentStep, HostStep

\* What a flush persists, the clean rows and those of others left alone.
LEMMA DurablePersisted ==
    ASSUME Base, Durable, NEW f \in Flushers, Active(f), Persisted(f), Typed',
           UNCHANGED <<mirror, pending, target>>
    PROVE  /\ Clean'
           /\ \A i \in Ids(mirror) : i > 0 => i \in DOMAIN rows'
           /\ \A h \in Hosts : target'[h].id > 0 => target'[h].id \in DOMAIN rows'
<1>0. Clean /\ HaveRows /\ InFlight(f) /\ Ids(mirror) \subseteq Int
    BY TableFacts DEF Durable, Flying, Base, Typed, Mirrors, Ids
<1>1. /\ Placed(snap[f]) \subseteq DOMAIN snap[f].nodes
      /\ \A i \in DOMAIN rows : i \in DOMAIN rows'
      /\ \A i \in DOMAIN rows \ Placed(snap[f]) : rows'[i] = rows[i]
    BY PersistEffect
<1>2. Clean'
    <2> SUFFICES ASSUME NEW i \in Ids(mirror) \ DirtyIds(mirror)
                 PROVE  i \in DOMAIN rows' /\ rows'[i] = mirror.nodes[i] /\ rows'[i].parent >= 0
        BY DEF Clean
    <2>1. i \notin DOMAIN snap[f].nodes
        BY <1>0 DEF InFlight
    <2>2. QED
        BY <1>0, <1>1, <2>1 DEF Clean
<1>3. QED
    BY <1>0, <1>1, <1>2 DEF HaveRows

LEMMA DurableFlushes ==
    ASSUME Settled, Session, Base, Typed', Ranged', Durable, NEW f \in Flushers,
           FlushStep(f) \/ Expire(f) \/ Crash(f)
    PROVE  Durable'
<1> USE DEF db, flush
<1>0. /\ Typed /\ Ranged /\ Solo /\ HaveRows /\ Clean /\ Flying /\ CwdKept /\ Waiting
      /\ mirror \in Mirrors /\ Ids(mirror) \subseteq Int
      /\ \A i \in Ids(mirror) : mirror.nodes[i] \in AnyNode
    BY TableFacts DEF Base, Typed, Mirrors, Ids, Durable
<1>1. ASSUME NEW value \in {"none", "true", "false"}, Return(f, value),
             UNCHANGED <<mirror, rows, cwdRow, pending, target>>
      PROVE  Durable'
    <2>1. \A g \in Flushers : Active(g)' =>
             /\ Active(g) /\ fpc'[g] = fpc[g] /\ snap'[g] = snap[g] /\ remap'[g] = remap[g]
             /\ ~CanExpire => lock' = lock
        BY <1>0, <1>1, ReturnIdles
    <2>2. QED
        BY <1>1, <2>1, DurableIdled
<1>2. CASE StartFlush(f)
    <2>1. \A g \in Flushers : Active(g)' =>
             /\ Active(g) /\ fpc'[g] = fpc[g] /\ snap'[g] = snap[g] /\ remap'[g] = remap[g]
             /\ ~CanExpire => lock' = lock
        BY <1>0, <1>2 DEF StartFlush, Goto, Active, Typed
    <2>2. QED
        BY <1>2, <2>1, DurableIdled DEF StartFlush
<1>3. CASE Refused(f) \/ Crash(f)
    BY <1>1, <1>3 DEF Refused, Crash
<1>4. CASE Expire(f)
    <2>1. \A g \in Flushers : Active(g)' =>
             /\ Active(g) /\ fpc'[g] = fpc[g] /\ snap'[g] = snap[g] /\ remap'[g] = remap[g]
             /\ ~CanExpire => lock' = lock
        BY <1>4 DEF Expire, Active
    <2>2. QED
        BY <1>4, <2>1, DurableIdled DEF Expire
<1>5. CASE TakeSnapshot(f)
    <2>1. CASE Return(f, "true")
        BY <1>1, <1>5, <2>1 DEF TakeSnapshot
    <2>2. CASE ~Return(f, "true")
        <3>1. /\ lock = NoOne /\ lock' = f /\ snap' = [snap EXCEPT ![f] = Snapshot(mirror)]
              /\ fpc' = [fpc EXCEPT ![f] = "commit"] /\ fpc[f] = "lock"
              /\ UNCHANGED <<mirror, rows, nextRow, cwdRow, pending, target, remap>>
            BY <1>5, <2>2 DEF TakeSnapshot, Goto
        <3>2. \A g \in Flushers : g # f => ~Active(g)
            BY <1>0, <3>1, FlushAssumption DEF Solo, Settled
        <3>3. /\ snap'[f] = Snapshot(mirror) /\ fpc'[f] = "commit"
              /\ \A g \in Flushers : g # f => ~Active(g)' /\ fpc'[g] = fpc[g]
            BY <1>0, <3>1, <3>2 DEF Typed, Active
        <3>4. Solo'
            BY <1>0, <3>1, <3>3 DEF Solo
        <3>5. InFlight(f)'
            <4>1. /\ DOMAIN Snapshot(mirror).nodes \subseteq DirtyIds(mirror) \cap Ids(mirror)
                  /\ \A i \in DOMAIN Snapshot(mirror).nodes :
                        Snapshot(mirror).nodes[i] = mirror.nodes[i]
                  /\ Snapshot(mirror).cwdDirty = mirror.dirtyCwd
                BY <1>0, SnapshotFacts
            <4>2. QED
                BY <3>1, <3>3, <4>1 DEF InFlight
        <3>6. \A g \in Flushers : fpc'[g] # "confirm"
            BY <3>3 DEF Active
        <3>7. Flying'
            BY <3>3, <3>5, <3>6 DEF Flying
        <3>8. HaveRows' /\ Clean' /\ CwdKept' /\ Waiting'
            BY <1>0, <3>1, <3>6 DEF HaveRows, Clean, CwdKept, Waiting
        <3>9. QED
            BY <3>4, <3>7, <3>8 DEF Durable
    <2>3. QED
        BY <2>1, <2>2
<1>6. CASE Commit(f)
    <2> DEFINE s == snap[f]
               new == NewIds(s)
    <2>1. /\ fpc[f] = "commit" /\ Accepted(s) /\ Persisted(f)
          /\ fpc' = [fpc EXCEPT ![f] = "confirm"] /\ remap' = [remap EXCEPT ![f] = new]
          /\ cwdRow' = IF s.cwdDirty THEN s.cwd ELSE cwdRow
          /\ UNCHANGED <<mirror, pending, lock, snap, target>>
        BY <1>6 DEF Commit, Persist, Persisted, Goto
    <2>2. /\ DOMAIN new = Temps(Placed(s)) /\ Placed(s) \subseteq DOMAIN s.nodes /\ new \in Remaps
          /\ \A i \in Placed(s) : s.nodes[i].parent >= 0 \/ s.nodes[i].parent \in Placed(s)
          /\ \A i \in DOMAIN new : nextRow <= new[i] /\ new[i] < nextRow' /\ 0 < new[i]
          /\ DOMAIN rows' = DOMAIN rows \cup {new[i] : i \in DOMAIN new}
          /\ \A i \in DOMAIN new : rows'[new[i]] = RealNode(new, s.nodes[i])
          /\ \A i \in Placed(s) \cap DOMAIN rows : rows'[i] = RealNode(new, s.nodes[i])
        BY <2>1, PersistEffect
    <2>3. Placed(s) = DOMAIN s.nodes
        BY <2>1 DEF Accepted, AllPlaced
    <2>4. /\ Active(f) /\ Clean'
          /\ \A i \in Ids(mirror) : i > 0 => i \in DOMAIN rows'
          /\ \A h \in Hosts : target'[h].id > 0 => target'[h].id \in DOMAIN rows'
        <3>1. Active(f)
            BY <2>1 DEF Active
        <3>2. QED
            BY <2>1, <3>1, DurablePersisted
    <2>5. InFlight(f) /\ s \in Snaps
        BY <1>0, <2>4 DEF Flying, Typed
    <2>6. \A g \in Flushers : g # f => ~Active(g)
        BY <1>0, <2>4 DEF Solo
    <2> HIDE DEF new
    <2>7. /\ remap'[f] = new /\ snap'[f] = s
          /\ \A g \in Flushers : g # f => ~Active(g)' /\ fpc'[g] # "confirm"
        BY <1>0, <2>1, <2>6 DEF Typed, Active
    <2>8. Solo'
        BY <1>0, <2>1, <2>4, <2>7 DEF Solo
    <2>9. HaveRows'
        <3>1. \A i \in DOMAIN remap'[f] : remap'[f][i] \in DOMAIN rows'
            BY <2>2, <2>7
        <3>2. \A g \in Flushers : fpc'[g] = "confirm" => g = f
            BY <2>7
        <3>3. QED
            BY <2>1, <2>4, <3>1, <3>2 DEF HaveRows
    <2>10. \A i \in DOMAIN new : new[i] \in Int
        <3>1. PICK S \in SUBSET Int : new \in [S -> Int]
            BY <2>2 DEF Remaps
        <3>2. QED
            BY <3>1
    <2>11. \A i \in DOMAIN s.nodes : /\ i \in Int /\ i < nextRow
                                     /\ s.nodes[i] \in AnyNode
        BY <1>0, <2>5, TableFacts DEF Snaps, Ranged, IdOk
    <2>12. ASSUME NEW i \in DOMAIN s.nodes, Real(new, i) \in DOMAIN rows'
           PROVE  /\ rows'[Real(new, i)] = RealNode(new, s.nodes[i])
                  /\ rows'[Real(new, i)].parent >= 0
        <3>1. rows'[Real(new, i)] = RealNode(new, s.nodes[i])
            <4>1. CASE i \in DOMAIN new
                BY <2>2, <4>1 DEF Real
            <4>2. CASE i \notin DOMAIN new
                <5>1. Real(new, i) = i
                    BY <4>2 DEF Real
                <5>2. \A k \in DOMAIN new : new[k] # i
                    BY <1>0, <2>2, <2>10, <2>11 DEF Typed
                <5>3. i \in DOMAIN rows
                    BY <2>2, <2>12, <5>1, <5>2
                <5>4. QED
                    BY <2>2, <2>3, <5>1, <5>3
            <4>3. QED
                BY <4>1, <4>2
        <3>2. RealNode(new, s.nodes[i]).parent = Real(new, s.nodes[i].parent)
            <4>1. DOMAIN new \in SUBSET Int /\ new \in [DOMAIN new -> Int]
                BY <2>2 DEF Remaps
            <4>2. QED
                BY <2>11, <4>1, RealNodeType
        <3>3. Real(new, s.nodes[i].parent) >= 0
            <4> DEFINE p == s.nodes[i].parent
            <4>1. p \in Int /\ (p >= 0 \/ p \in Placed(s))
                BY <2>2, <2>3, <2>11 DEF AnyNode
            <4> HIDE DEF p
            <4>2. CASE p >= 0
                <5>1. p \notin DOMAIN new
                    BY <2>2, <4>1, <4>2 DEF Temps
                <5>2. QED
                    BY <4>2, <5>1 DEF Real, p
            <4>3. CASE p < 0 /\ p \in Placed(s)
                <5>1. p \in DOMAIN new
                    BY <2>2, <4>3 DEF Temps
                <5>2. new[p] >= 0
                    BY <2>2, <2>10, <5>1
                <5>3. QED
                    BY <5>1, <5>2 DEF Real, p
            <4>4. QED
                BY <4>1, <4>2, <4>3
        <3>4. QED
            BY <3>1, <3>2, <3>3
    <2>13. CwdHasRow /\ s.cwdDirty => s.cwd >= 0
        <3>1. CASE PostgreSQL /\ s.cwdDirty
            <4>1. s.cwd \in DOMAIN rows'
                BY <2>1, <3>1 DEF Accepted, Persisted
            <4>2. QED
                BY <3>1, <4>1, TableFacts DEF Ranged, Typed
        <3>2. CASE ~PostgreSQL
            BY <1>0, <2>5, <3>2 DEF InFlight, CwdKept, CwdHasRow
        <3>3. QED
            BY <3>1, <3>2
    <2>14. Committed(f)'
        BY <2>1, <2>7, <2>12, <2>13 DEF Committed
    <2>15. InFlight(f)'
        BY <2>1, <2>5, <2>7 DEF InFlight
    <2>16. Flying'
        BY <2>7, <2>14, <2>15 DEF Flying
    <2>17. CwdKept'
        BY <1>0, <2>1, <2>5 DEF CwdKept, InFlight
    <2>18. Waiting'
        <3>1. \A i \in DOMAIN new : new[i] \notin DOMAIN pending
            BY <1>0, <2>2, <2>10, TableFacts DEF Ranged, Typed
        <3>2. QED
            BY <1>0, <2>1, <2>7, <3>1 DEF Waiting
    <2>19. QED
        BY <2>4, <2>8, <2>9, <2>16, <2>17, <2>18 DEF Durable
<1>7. CASE Fail(f)
    <2>1. CASE UNCHANGED db
        BY <1>1, <1>7, <2>1 DEF Fail
    <2>2. CASE PersistNodes(snap[f])
        <3>1. /\ Persisted(f) /\ Return(f, "false") /\ fpc[f] = "commit"
              /\ UNCHANGED <<mirror, pending, target, cwdRow>>
            BY <1>7, <2>2 DEF Fail, PersistNodes, Persisted
        <3>2. Active(f)
            BY <3>1 DEF Active
        <3>3. /\ Clean'
              /\ \A i \in Ids(mirror) : i > 0 => i \in DOMAIN rows'
              /\ \A h \in Hosts : target'[h].id > 0 => target'[h].id \in DOMAIN rows'
            BY <3>1, <3>2, DurablePersisted
        <3>4. \A g \in Flushers : ~Active(g)'
            BY <1>0, <3>1, <3>2, ReturnIdles DEF Solo
        <3>5. Solo' /\ Flying'
            BY <1>0, <3>1, <3>4 DEF Solo, Flying, Active
        <3>6. HaveRows' /\ CwdKept' /\ Waiting'
            BY <1>0, <3>1, <3>3, <3>4 DEF HaveRows, CwdKept, Waiting, Active
        <3>7. QED
            BY <3>3, <3>5, <3>6 DEF Durable
    <2>3. QED
        BY <1>7, <2>1, <2>2 DEF Fail
<1>8. CASE Confirm(f)
    <2> DEFINE s == snap[f]
               real(i) == Real(remap[f], i)
               done(S) == {real(i) : i \in {k \in DOMAIN s.nodes :
                                               Same(mirror, s, remap[f], k)} \cap S}
    <2>1. /\ mirror' \in Mirrors
          /\ Ids(mirror') = {real(i) : i \in Ids(mirror)}
          /\ \A i \in Ids(mirror) : mirror'.nodes[real(i)] = RealNode(remap[f], mirror.nodes[i])
          /\ \A i \in DOMAIN s.nodes :
                Same(mirror, s, remap[f], i) <=>
                   real(i) \in Ids(mirror') /\ mirror'.nodes[real(i)] = RealNode(remap[f], s.nodes[i])
          /\ mirror'.dirtyC = mirror.dirtyC \ done(s.content)
          /\ mirror'.dirtyS = mirror.dirtyS \ done(s.structure)
          /\ mirror'.next = mirror.next
          /\ mirror'.cwd = IF mirror.cwd \in Ids(mirror) THEN real(mirror.cwd) ELSE mirror.cwd
          /\ mirror'.dirtyCwd = (mirror.dirtyCwd /\ ~(s.cwdDirty /\ mirror'.cwd = s.cwd))
        BY <1>8, ConfirmEffect
    <2>2. /\ fpc[f] = "confirm" /\ Return(f, "true")
          /\ UNCHANGED <<rows, nextRow, cwdRow, pending, target>>
        BY <1>8 DEF Confirm
    <2>3. /\ Fresh(mirror, remap[f]) /\ DOMAIN remap[f] = Temps(DOMAIN s.nodes)
          /\ \A i \in DOMAIN remap[f] : i \in Int /\ i < 0 /\ 0 < remap[f][i]
        BY <2>2, OwnIsFresh DEF Fresh
    <2>4. Active(f) /\ InFlight(f) /\ Committed(f)
        BY <1>0, <2>2 DEF Flying, Active
    <2>5. \A g \in Flushers : ~Active(g)' /\ fpc'[g] # "confirm"
        BY <1>0, <2>2, <2>4, ReturnIdles DEF Solo, Active
    <2>6. \A i \in DirtyIds(mirror) \ DirtyIds(mirror') :
             \E k \in DOMAIN s.nodes : i = real(k) /\ Same(mirror, s, remap[f], k)
        BY <2>1 DEF DirtyIds
    <2> HIDE DEF done
    <2>7. ASSUME NEW i \in Ids(mirror), real(i) \notin DirtyIds(mirror')
          PROVE  /\ real(i) \in DOMAIN rows /\ rows[real(i)] = mirror'.nodes[real(i)]
                 /\ rows[real(i)].parent >= 0
        <3>1. CASE i \in DOMAIN remap[f]
            <4>1. i \in DOMAIN s.nodes
                BY <2>3, <3>1 DEF Temps
            <4>2. ~CanExpire
                <5>1. CanExpire => i > 0
                    BY <1>0 DEF Solo, Ranged, IdOk
                <5>2. QED
                    BY <2>3, <3>1, <5>1
            <4>3. mirror.nodes[i] = s.nodes[i]
                BY <2>4, <4>1, <4>2 DEF InFlight
            <4>4. real(i) \in DOMAIN rows
                BY <1>0, <2>2, <3>1 DEF HaveRows, Real
            <4>5. QED
                BY <2>1, <2>4, <4>1, <4>3, <4>4 DEF Committed
        <3>2. CASE i \notin DOMAIN remap[f]
            <4>1. real(i) = i
                BY <3>2 DEF Real
            <4>2. CASE i \notin DirtyIds(mirror)
                <5>1. i \in DOMAIN rows /\ rows[i] = mirror.nodes[i] /\ rows[i].parent >= 0
                    BY <1>0, <4>2 DEF Clean
                <5>2. mirror.nodes[i].parent \notin DOMAIN remap[f]
                    BY <2>3, <5>1
                <5>3. RealNode(remap[f], mirror.nodes[i]) = mirror.nodes[i]
                    BY <1>0, <5>2 DEF RealNode, Real, AnyNode
                <5>4. QED
                    BY <2>1, <4>1, <5>1, <5>3
            <4>3. CASE i \in DirtyIds(mirror)
                <5>1. PICK k \in DOMAIN s.nodes : i = real(k) /\ Same(mirror, s, remap[f], k)
                    BY <2>6, <2>7, <4>1, <4>3
                <5>2. k = i
                    BY <2>3, <5>1 DEF Real, Fresh
                <5>3. mirror'.nodes[i] = RealNode(remap[f], s.nodes[i])
                    BY <2>1, <4>1, <5>1, <5>2
                <5>4. i \in DOMAIN rows
                    <6>1. i > 0
                        <7>1. i \notin Temps(DOMAIN s.nodes) /\ i \in DOMAIN s.nodes
                            BY <2>3, <3>2, <5>1, <5>2
                        <7>2. i \in Int /\ i # 0 /\ ~(i < 0)
                            BY <1>0, <7>1 DEF Temps, Ranged, IdOk
                        <7>3. QED
                            BY <7>2
                    <6>2. QED
                        BY <1>0, <6>1 DEF HaveRows
                <5>5. QED
                    BY <2>4, <4>1, <5>1, <5>2, <5>3, <5>4 DEF Committed
            <4>4. QED
                BY <4>2, <4>3
        <3>3. QED
            BY <3>1, <3>2
    <2>8. Clean'
        BY <2>1, <2>2, <2>7 DEF Clean
    <2>9. HaveRows'
        <3>1. \A i \in Ids(mirror) : real(i) > 0 => real(i) \in DOMAIN rows
            BY <1>0, <2>2 DEF HaveRows, Real
        <3>2. QED
            BY <1>0, <2>1, <2>2, <2>5, <3>1 DEF HaveRows
    <2>10. CwdKept'
        <3>1. ASSUME CwdHasRow, ~mirror.dirtyCwd PROVE cwdRow' = mirror'.cwd /\ cwdRow' >= 0
            <4>1. cwdRow = mirror.cwd /\ cwdRow >= 0
                BY <1>0, <3>1 DEF CwdKept
            <4>2. real(mirror.cwd) = mirror.cwd
                BY <2>3, <4>1 DEF Real
            <4>3. QED
                BY <2>1, <2>2, <4>1, <4>2
        <3>2. ASSUME CwdHasRow, mirror.dirtyCwd, ~mirror'.dirtyCwd
              PROVE  cwdRow' = mirror'.cwd /\ cwdRow' >= 0
            <4>1. s.cwdDirty /\ mirror'.cwd = s.cwd
                BY <2>1, <3>2
            <4>2. QED
                BY <2>2, <2>4, <3>2, <4>1 DEF Committed
        <3>3. QED
            BY <1>0, <2>1, <3>1, <3>2 DEF CwdKept
    <2>11. Waiting'
        <3>1. ASSUME NEW j \in DOMAIN pending \cap Ids(mirror')
              PROVE  pending[j] = mirror'.nodes[j] \/ pending[j].parent < 0
            <4>1. PICK i \in Ids(mirror) : j = real(i)
                BY <2>1, <3>1
            <4>2. i \notin DOMAIN remap[f] /\ j = i
                BY <1>0, <2>2, <3>1, <4>1 DEF Waiting, Real
            <4>3. pending[i] = mirror.nodes[i] \/ pending[i].parent < 0
                BY <1>0, <3>1, <4>2 DEF Waiting
            <4>4. CASE pending[i] = mirror.nodes[i] /\ ~(pending[i].parent < 0)
                <5>1. mirror.nodes[i].parent \notin DOMAIN remap[f]
                    BY <2>3, <4>4
                <5>2. RealNode(remap[f], mirror.nodes[i]) = mirror.nodes[i]
                    BY <1>0, <5>1 DEF RealNode, Real, AnyNode
                <5>3. QED
                    BY <2>1, <4>1, <4>2, <4>4, <5>2
            <4>5. QED
                BY <4>2, <4>3, <4>4
        <3>2. QED
            BY <1>0, <2>2, <2>5, <3>1 DEF Waiting
    <2>12. Solo' /\ Flying'
        BY <1>0, <2>1, <2>5 DEF Solo, Flying
    <2>13. QED
        BY <2>8, <2>9, <2>10, <2>11, <2>12 DEF Durable
<1>9. QED
    BY <1>2, <1>3, <1>4, <1>5, <1>6, <1>7, <1>8 DEF FlushStep

LEMMA DurableAlways ==
    ASSUME Settled, Session
    PROVE  Spec => []Durable
<1>1. ASSUME Base, Durable, [Next]_vars PROVE Durable'
    <2>1. Typed' /\ Ranged'
        BY <1>1, TypedStep, RangedStep
    <2>2. CASE UNCHANGED vars
        <3>1. \A f \in Flushers : Active(f)' =>
                 /\ Active(f) /\ fpc'[f] = fpc[f] /\ snap'[f] = snap[f] /\ remap'[f] = remap[f]
                 /\ ~CanExpire => lock' = lock
            BY <2>2 DEF vars, flush, Active
        <3>2. QED
            BY <1>1, <2>2, <3>1, DurableIdled DEF vars, db
    <2>3. QED
        BY <1>1, <2>1, <2>2, DurableCommands, DurableFlushes DEF Next
<1>2. Base /\ Durable /\ [Next]_vars => Durable'
    BY <1>1
<1>3. QED
    BY <1>2, DurableInit, BaseAlways, PTL DEF Spec

\* Discarding an id from a dirty set never forgets a change: a node that no dirty
\* set names is in the database as it is in the mirror, and so is the cwd.
THEOREM CleanNodesAreDurable ==
    ASSUME Settled, Session, CwdHasRow
    PROVE  Spec => []CleanIsDurable
<1>1. Durable => CleanIsDurable
    BY DEF Durable, Clean, CwdKept, CleanIsDurable
<1>2. QED
    BY <1>1, DurableAlways, PTL
-----------------------------------------------------------------------------
(* No row goes back to an older version.                                     *)

\* No host can have resolved a node that is removed before it writes it: the
\* copy it would put back may be older than the row.
NoneRevived == "rm" \notin Commands \/ Hosts = {}

\* The versions of a node go up from its row through the snapshot that is being
\* written to the mirror, and what waits in the session of the host is not
\* older than the row, or cannot be committed.
Recent ==
    /\ \A i \in DOMAIN rows \cap Ids(mirror) : rows[i].ver <= mirror.nodes[i].ver
    /\ \A f \in Flushers : Active(f) => \A i \in DOMAIN snap[f].nodes :
          /\ i \in DOMAIN rows => rows[i].ver <= snap[f].nodes[i].ver
          /\ i \in Ids(mirror) => snap[f].nodes[i].ver <= mirror.nodes[i].ver
    /\ \A i \in DOMAIN rows \cap DOMAIN pending :
          rows[i].ver <= pending[i].ver \/ pending[i].parent < 0
    /\ \A h \in Hosts : target[h].id > 0 => target[h].id \in Ids(mirror)

Rising == \A i \in DOMAIN rows \cap DOMAIN rows' : rows'[i].ver >= rows[i].ver

LEMMA RecentInit == Init => Recent
<1> SUFFICES ASSUME Init PROVE Recent
    OBVIOUS
<1>1. /\ \A i \in DOMAIN rows : rows[i].ver \in Nat
      /\ mirror.nodes = rows
    BY FirstRows, TableFacts DEF Init, AnyNode
<1>2. \A f \in Flushers : ~Active(f)
    BY DEF Init, Active
<1>3. pending = Empty /\ \A h \in Hosts : target[h].id = 0
    BY DEF Init, NoTarget, NoParent
<1>4. QED
    BY <1>1, <1>2, <1>3 DEF Recent, Empty

\* A step that takes no node back to an older version and writes no row.
LEMMA RecentKept ==
    ASSUME Typed, Typed', Recent,
           \A i \in DOMAIN rows' : i \in DOMAIN rows /\ rows'[i] = rows[i],
           pending' = pending,
           \A i \in Ids(mirror') :
               \/ i \in Ids(mirror) /\ mirror'.nodes[i].ver >= mirror.nodes[i].ver
               \/ i \notin DOMAIN rows /\ \A f \in Flushers : ~Active(f),
           \A f \in Flushers : Active(f)' => Active(f) /\ snap'[f] = snap[f],
           \A h \in Hosts : target'[h].id > 0 => target'[h].id \in Ids(mirror')
    PROVE  Recent' /\ Rising
<1>1. /\ \A i \in DOMAIN rows : rows[i].ver \in Int
      /\ \A i \in Ids(mirror) : mirror.nodes[i].ver \in Int
      /\ \A i \in Ids(mirror') : mirror'.nodes[i].ver \in Int
    BY TableFacts DEF Typed, Mirrors, Ids, AnyNode
<1>2. \A f \in Flushers : Active(f)' =>
         Active(f) /\ \A i \in DOMAIN snap[f].nodes : snap[f].nodes[i].ver \in Int
    BY TableFacts DEF Typed, Snaps, AnyNode
<1>3. \A i \in DOMAIN rows' \cap Ids(mirror') : rows'[i].ver <= mirror'.nodes[i].ver
    BY <1>1 DEF Recent
<1>4. ASSUME NEW f \in Flushers, Active(f)', NEW i \in DOMAIN snap'[f].nodes
      PROVE  /\ i \in DOMAIN rows' => rows'[i].ver <= snap'[f].nodes[i].ver
             /\ i \in Ids(mirror') => snap'[f].nodes[i].ver <= mirror'.nodes[i].ver
    <2>1. /\ Active(f) /\ snap'[f] = snap[f] /\ i \in DOMAIN snap[f].nodes
          /\ snap[f].nodes[i].ver \in Int
        BY <1>2, <1>4
    <2>2. i \in DOMAIN rows' => rows'[i].ver <= snap[f].nodes[i].ver
        BY <2>1 DEF Recent
    <2>3. ASSUME i \in Ids(mirror') PROVE snap[f].nodes[i].ver <= mirror'.nodes[i].ver
        <3>1. i \in Ids(mirror) /\ mirror'.nodes[i].ver >= mirror.nodes[i].ver
            BY <2>1, <2>3
        <3>2. snap[f].nodes[i].ver <= mirror.nodes[i].ver
            BY <2>1, <3>1 DEF Recent
        <3>3. QED
            BY <1>1, <2>1, <2>3, <3>1, <3>2
    <2>4. QED
        BY <2>1, <2>2, <2>3
<1>5. \A i \in DOMAIN rows' \cap DOMAIN pending' :
         rows'[i].ver <= pending'[i].ver \/ pending'[i].parent < 0
    BY DEF Recent
<1>6. Rising
    BY <1>1 DEF Rising
<1>7. QED
    BY <1>3, <1>4, <1>5, <1>6 DEF Recent

LEMMA RecentCommands ==
    ASSUME Settled, Session, NoneRevived, Base, Typed', Durable, Recent,
           AgentStep \/ HostCommit \/ \E h \in Hosts : HostStep(h)
    PROVE  Recent' /\ Rising
<1> USE DEF db, flush
<1>0. /\ Typed /\ Ranged /\ Solo /\ HaveRows /\ Flying /\ Waiting
      /\ mirror \in Mirrors /\ Ids(mirror) \subseteq Int /\ mirror.next \in Int
      /\ \A i \in Ids(mirror) : mirror.nodes[i] \in AnyNode /\ mirror.nodes[i].ver \in Int
      /\ \A i \in DOMAIN rows : i \in Int /\ i > 0 /\ rows[i].ver \in Int
      /\ \A i \in DOMAIN pending : pending[i].ver \in Int /\ pending[i].parent \in Int
      /\ mirror.next < 0
      /\ \A h \in Hosts : target[h].id > 0 => target[h].id \in Ids(mirror)
    BY TableFacts DEF Base, Typed, Mirrors, Ids, Ranged, Durable, AnyNode, Recent
<1>1. ASSUME NEW parent \in Ids(mirror), NEW name \in Names, NEW kind \in {"dir", "file"},
             Create(parent, name, kind)
      PROVE  Recent' /\ Rising
    <2> DEFINE new == Created(mirror, parent, name, kind)
    <2>1. parent \in Int
        BY <1>0
    <2>2. /\ Ids(new) = Ids(mirror) \cup {mirror.next}
          /\ \A j \in Ids(mirror) \ {mirror.next} : new.nodes[j] = mirror.nodes[j]
        BY <1>0, <2>1, CreatedFacts
    <2>3. mirror' = new /\ ~CanExpire /\ lock = NoOne
        BY <1>1 DEF Create, Command, Settled
    <2> HIDE DEF new
    <2>4. /\ Ids(mirror') = Ids(mirror) \cup {mirror.next}
          /\ \A j \in Ids(mirror) \ {mirror.next} : mirror'.nodes[j] = mirror.nodes[j]
        BY <2>2, <2>3 DEF Ids
    <2>5. \A f \in Flushers : ~Active(f)
        BY <1>0, <2>3, FlushAssumption DEF Solo
    <2>6. \A i \in Ids(mirror') :
             \/ i \in Ids(mirror) /\ mirror'.nodes[i].ver >= mirror.nodes[i].ver
             \/ i \notin DOMAIN rows /\ \A f \in Flushers : ~Active(f)
        BY <1>0, <2>4, <2>5
    <2>7. QED
        BY <1>0, <1>1, <2>4, <2>6, RecentKept DEF Create, Active
<1>2. ASSUME NEW i \in Ids(mirror), Edit(i) PROVE Recent' /\ Rising
    <2>1. /\ Ids(mirror') = Ids(mirror) \cup {i}
          /\ \A j \in Ids(mirror) \ {i} : mirror'.nodes[j] = mirror.nodes[j]
          /\ mirror'.nodes[i].ver = mirror.nodes[i].ver + 1
        BY <1>0, <1>2, EditEffect
    <2>2. \A j \in Ids(mirror') :
             j \in Ids(mirror) /\ mirror'.nodes[j].ver >= mirror.nodes[j].ver
        BY <1>0, <2>1
    <2>3. QED
        BY <1>0, <1>2, <2>1, <2>2, RecentKept DEF Edit, Active
<1>3. ASSUME NEW i \in Ids(mirror), Touch(i) \/ Cd(i) PROVE Recent' /\ Rising
    <2>1. mirror'.nodes = mirror.nodes
        BY <1>0, <1>3, MarkEffect
    <2>2. /\ Ids(mirror') = Ids(mirror)
          /\ UNCHANGED <<rows, pending, fpc, snap, target>>
        BY <1>3, <2>1 DEF Touch, Cd, Ids
    <2>3. QED
        BY <1>0, <2>1, <2>2, RecentKept DEF Active
<1>4. ASSUME NEW h \in Hosts, HostWrite(h) PROVE Recent' /\ Rising
    <2> DEFINE i == target[h].id
    <2>1. i \in Int /\ target[h].node \in AnyNode /\ i # 0
        BY <1>0, <1>4 DEF Typed, Targets, Ranged, IdOk, HostWrite
    <2>2. /\ Ids(mirror') = Ids(mirror) \cup {i}
          /\ \A j \in Ids(mirror) \ {i} : mirror'.nodes[j] = mirror.nodes[j]
          /\ i \in Ids(mirror) => mirror'.nodes[i].ver = mirror.nodes[i].ver + 1
        BY <1>0, <1>4, <2>1, WrittenFacts DEF HostWrite
    <2>3. /\ lock = NoOne /\ UNCHANGED <<rows, pending, fpc, snap>>
          /\ \A g \in Hosts : target'[g] = target[g] \/ target'[g] = NoTarget
        BY <1>0, <1>4 DEF HostWrite, Typed
    <2>4. i > 0 => i \in Ids(mirror)
        BY <1>0
    <2>5. CanExpire => i > 0
        BY <1>0, <1>4, <2>1 DEF Solo, Ranged, IdOk, HostWrite
    <2> HIDE DEF i
    <2>6. i \notin Ids(mirror) => i \notin DOMAIN rows /\ \A f \in Flushers : ~Active(f)
        BY <1>0, <2>1, <2>3, <2>4, <2>5, FlushAssumption DEF Solo
    <2>7. \A j \in Ids(mirror') :
             \/ j \in Ids(mirror) /\ mirror'.nodes[j].ver >= mirror.nodes[j].ver
             \/ j \notin DOMAIN rows /\ \A f \in Flushers : ~Active(f)
        BY <1>0, <2>2, <2>6
    <2>8. \A g \in Hosts : target'[g].id > 0 => target'[g].id \in Ids(mirror')
        BY <1>0, <2>2, <2>3 DEF NoTarget, NoParent
    <2>9. QED
        BY <1>0, <2>3, <2>7, <2>8, RecentKept DEF Active
<1>5. ASSUME NEW h \in Hosts, NEW i \in Ids(mirror), HostResolve(h, i) PROVE Recent' /\ Rising
    <2>1. \A g \in Hosts : target'[g] = target[g] \/ target'[g].id \in Ids(mirror)
        BY <1>0, <1>5 DEF HostResolve, Typed
    <2>2. UNCHANGED <<mirror, rows, pending, fpc, snap>>
        BY <1>5 DEF HostResolve
    <2>3. QED
        BY <1>0, <2>1, <2>2, RecentKept DEF Active
<1>6. ASSUME NEW i \in Ids(mirror), Remove(i) PROVE Recent' /\ Rising
    <2>1. /\ Ids(mirror') = Ids(mirror) \ {i}
          /\ \A j \in Ids(mirror) \ {i} : mirror'.nodes[j] = mirror.nodes[j]
        BY <1>0, <1>6, DeletedFacts DEF Remove
    <2>2. /\ UNCHANGED <<pending, fpc, snap>> /\ Hosts = {}
          /\ \A j \in DOMAIN rows' : j \in DOMAIN rows /\ rows'[j] = rows[j]
        BY <1>6 DEF Remove, Command, Restricted, NoneRevived
    <2>3. \A j \in Ids(mirror') :
             j \in Ids(mirror) /\ mirror'.nodes[j].ver >= mirror.nodes[j].ver
        BY <1>0, <2>1
    <2>4. QED
        BY <1>0, <2>2, <2>3, RecentKept DEF Active
<1>7. ASSUME NEW i \in Ids(mirror), NEW parent \in Ids(mirror),
             MoveInto(i, parent) \/ \E name \in Names : Move(i, parent, name)
      PROVE  Recent' /\ Rising
    <2>1. parent \in Int /\ mirror.nodes[i].name \in Names \cup {NoParent}
        BY <1>0 DEF AnyNode
    <2>2. PICK name \in Names \cup {NoParent} : MoveTo(i, parent, name)
        BY <1>7, <2>1 DEF MoveInto, Move
    <2>3. lock = NoOne /\ ~CanExpire
        BY <1>7 DEF MoveInto, Move, Command, Settled
    <2>4. /\ Ids(mirror') = Ids(mirror)
          /\ \A j \in Ids(mirror) \ {i} : mirror'.nodes[j] = mirror.nodes[j]
          /\ mirror'.nodes[i].ver = mirror.nodes[i].ver + 1
        BY <1>0, <2>1, <2>2, MoveEffect
    <2>5. \A f \in Flushers : ~Active(f) /\ ~Active(f)'
        BY <1>0, <2>2, <2>3, FlushAssumption DEF Solo, Active, MoveTo
    <2>6. /\ DOMAIN rows' = DOMAIN rows
          /\ \A j \in DOMAIN rows : rows'[j] = rows[j] \/ (j = i /\ rows'[j] = mirror'.nodes[j])
          /\ target' = target
        BY <2>2 DEF MoveTo
    <2>7. \A j \in DOMAIN pending' :
             \/ j \in DOMAIN pending /\ pending'[j] = pending[j] /\ rows'[j] = rows[j]
             \/ j = i /\ pending'[i] = mirror'.nodes[i] /\ rows'[i] = rows[i]
        <3>1. CASE i \in DOMAIN rows /\ PostgreSQL
            BY <2>2, <3>1 DEF MoveTo
        <3>2. CASE ~PostgreSQL
            BY <1>0, <2>2, <3>2 DEF MoveTo, Waiting, Empty
        <3>3. CASE i \notin DOMAIN rows
            BY <2>2, <3>3 DEF MoveTo
        <3>4. QED
            BY <3>1, <3>2, <3>3
    <2>8. \A j \in DOMAIN rows \cap Ids(mirror) : rows[j].ver <= mirror'.nodes[j].ver
        <3>1. \A j \in DOMAIN rows \cap Ids(mirror) : rows[j].ver <= mirror.nodes[j].ver
            BY DEF Recent
        <3>2. \A j \in Ids(mirror) : mirror.nodes[j].ver <= mirror'.nodes[j].ver
            BY <1>0, <2>4
        <3>3. \A j \in Ids(mirror) : mirror'.nodes[j].ver \in Int
            BY <1>0, <2>4
        <3>4. QED
            BY <1>0, <3>1, <3>2, <3>3
    <2>9. \A j \in DOMAIN rows' \cap Ids(mirror') : rows'[j].ver <= mirror'.nodes[j].ver
        <3>1. \A j \in Ids(mirror) : mirror'.nodes[j].ver \in Int
            BY <1>0, <2>4
        <3>2. QED
            BY <2>4, <2>6, <2>8, <3>1
    <2>10. \A j \in DOMAIN rows' \cap DOMAIN pending' :
              rows'[j].ver <= pending'[j].ver \/ pending'[j].parent < 0
        BY <2>6, <2>7, <2>8 DEF Recent
    <2>11. Rising
        BY <1>0, <2>6, <2>8 DEF Rising
    <2>12. \A h \in Hosts : target'[h].id > 0 => target'[h].id \in Ids(mirror')
        BY <1>0, <2>4, <2>6
    <2>13. QED
        BY <2>5, <2>9, <2>10, <2>11, <2>12 DEF Recent
<1>8. ASSUME HostCommit PROVE Recent' /\ Rising
    <2>1. /\ UNCHANGED <<mirror, fpc, snap, target, lock>> /\ pending' = Empty /\ ~CanExpire
        BY <1>0, <1>8 DEF HostCommit, Waiting, Settled
    <2>2. /\ DOMAIN rows' = DOMAIN rows
          /\ \A i \in DOMAIN rows :
                \/ rows'[i] = rows[i]
                \/ i \in DOMAIN pending /\ rows'[i] = pending[i] /\ pending[i].parent >= 0
        BY <1>0, <1>8, HostCommitEffect
    <2>3. Rising
        BY <1>0, <2>2 DEF Rising, Recent
    <2>4. \A i \in DOMAIN rows \cap Ids(mirror) :
             rows'[i] = rows[i] \/ rows'[i] = mirror.nodes[i]
        BY <1>0, <2>2 DEF Waiting
    <2>5. \A i \in DOMAIN rows \cap Ids(mirror) : rows'[i].ver <= mirror.nodes[i].ver
        BY <1>0, <2>4 DEF Recent
    <2>6. ASSUME NEW f \in Flushers, Active(f), NEW i \in DOMAIN snap[f].nodes
          PROVE  /\ i \in DOMAIN rows => rows'[i].ver <= snap[f].nodes[i].ver
                 /\ i \in Ids(mirror) => snap[f].nodes[i].ver <= mirror.nodes[i].ver
        <3>1. i \in Ids(mirror) /\ mirror.nodes[i] = snap[f].nodes[i]
            BY <1>0, <2>1, <2>6 DEF Flying, InFlight
        <3>2. QED
            BY <1>0, <2>5, <3>1
    <2>7. QED
        BY <1>0, <2>1, <2>2, <2>3, <2>5, <2>6 DEF Recent, Active, Empty
<1>9. QED
    BY <1>1, <1>2, <1>3, <1>4, <1>5, <1>6, <1>7, <1>8 DEF AgentStep, HostStep
LEMMA RecentFlushes ==
    ASSUME Settled, Session, Base, Typed', Durable, Recent, NEW f \in Flushers,
           FlushStep(f) \/ Expire(f) \/ Crash(f)
    PROVE  Recent' /\ Rising
<1> USE DEF db, flush
<1>0. /\ Typed /\ Ranged /\ Solo /\ Flying /\ Waiting
      /\ mirror \in Mirrors /\ Ids(mirror) \subseteq Int
      /\ \A i \in Ids(mirror) : mirror.nodes[i] \in AnyNode /\ mirror.nodes[i].ver \in Int
      /\ \A i \in DOMAIN rows : i \in Int /\ i > 0 /\ rows[i].ver \in Int
      /\ \A h \in Hosts : target[h].id > 0 => target[h].id \in Ids(mirror)
    BY TableFacts DEF Base, Typed, Mirrors, Ids, Ranged, Durable, AnyNode, Recent
<1>1. ASSUME UNCHANGED <<mirror, rows, pending, target>>,
             \A g \in Flushers : Active(g)' => Active(g) /\ snap'[g] = snap[g]
      PROVE  Recent' /\ Rising
    BY <1>0, <1>1, RecentKept
<1>2. ASSUME NEW value \in {"none", "true", "false"}, Return(f, value),
             UNCHANGED <<mirror, rows, pending, target>>
      PROVE  Recent' /\ Rising
    <2>1. \A g \in Flushers : Active(g)' => Active(g) /\ snap'[g] = snap[g]
        BY <1>0, <1>2, ReturnIdles
    <2>2. QED
        BY <1>1, <1>2, <2>1
<1>3. CASE StartFlush(f) \/ Expire(f)
    <2>1. \A g \in Flushers : Active(g)' => Active(g) /\ snap'[g] = snap[g]
        BY <1>0, <1>3 DEF StartFlush, Expire, Goto, Typed, Active
    <2>2. UNCHANGED <<mirror, rows, pending, target>>
        BY <1>3 DEF StartFlush, Expire
    <2>3. QED
        BY <1>1, <2>1, <2>2
<1>4. CASE Refused(f) \/ Crash(f)
    BY <1>2, <1>4 DEF Refused, Crash
<1>5. CASE TakeSnapshot(f)
    <2>1. CASE NothingDirty(Snapshot(mirror))
        BY <1>2, <1>5, <2>1 DEF TakeSnapshot
    <2>2. CASE ~NothingDirty(Snapshot(mirror))
        <3>1. /\ lock = NoOne /\ snap' = [snap EXCEPT ![f] = Snapshot(mirror)]
              /\ fpc' = [fpc EXCEPT ![f] = "commit"]
              /\ UNCHANGED <<mirror, rows, pending, target>>
            BY <1>5, <2>2 DEF TakeSnapshot, Goto
        <3>2. /\ DOMAIN Snapshot(mirror).nodes \subseteq Ids(mirror)
              /\ \A i \in DOMAIN Snapshot(mirror).nodes :
                    Snapshot(mirror).nodes[i] = mirror.nodes[i]
            BY <1>0, SnapshotFacts
        <3>3. /\ snap'[f] = Snapshot(mirror)
              /\ \A g \in Flushers \ {f} : Active(g)' => Active(g) /\ snap'[g] = snap[g]
            BY <1>0, <3>1 DEF Typed, Active
        <3>4. ASSUME NEW g \in Flushers, Active(g)', NEW i \in DOMAIN snap'[g].nodes
              PROVE  /\ i \in DOMAIN rows' => rows'[i].ver <= snap'[g].nodes[i].ver
                     /\ i \in Ids(mirror') => snap'[g].nodes[i].ver <= mirror'.nodes[i].ver
            <4>1. CASE g = f
                <5>1. i \in Ids(mirror) /\ snap'[g].nodes[i] = mirror.nodes[i]
                    BY <3>2, <3>3, <3>4, <4>1
                <5>2. i \in DOMAIN rows => rows[i].ver <= mirror.nodes[i].ver
                    BY <5>1 DEF Recent
                <5>3. QED
                    BY <1>0, <3>1, <5>1, <5>2
            <4>2. CASE g # f
                BY <3>1, <3>3, <3>4, <4>2 DEF Recent
            <4>3. QED
                BY <4>1, <4>2
        <3>5. Rising
            BY <1>0, <3>1 DEF Rising
        <3>6. QED
            BY <3>1, <3>4, <3>5 DEF Recent
    <2>3. QED
        BY <2>1, <2>2
<1>6. ASSUME Persisted(f), Active(f), UNCHANGED <<mirror, pending, target>>,
             \A g \in Flushers : Active(g)' => g = f /\ snap'[f] = snap[f]
      PROVE  Recent' /\ Rising
    <2> DEFINE s == snap[f]
               new == NewIds(s)
    <2>1. /\ Placed(s) \subseteq DOMAIN s.nodes
          /\ \A i \in DOMAIN new : nextRow <= new[i]
          /\ DOMAIN rows' = DOMAIN rows \cup {new[i] : i \in DOMAIN new}
          /\ \A i \in Placed(s) \cap DOMAIN rows : rows'[i] = RealNode(new, s.nodes[i])
          /\ \A i \in DOMAIN rows \ Placed(s) : rows'[i] = rows[i]
          /\ new \in Remaps
        BY <1>6, PersistEffect
    <2> HIDE DEF new
    <2>2. DOMAIN new \in SUBSET Int /\ new \in [DOMAIN new -> Int]
        BY <2>1 DEF Remaps
    <2>3. /\ \A i \in Ids(mirror) \cup DOMAIN s.nodes \cup DOMAIN pending : i \in Int /\ i < nextRow
          /\ \A i \in DOMAIN new : new[i] \in Int
        BY <1>0, <2>2, TableFacts DEF Ranged, IdOk, Typed, Snaps, Mirrors, Ids
    <2>4. \A i \in DOMAIN s.nodes : s.nodes[i] \in AnyNode /\ s.nodes[i].ver \in Int
        BY <1>0, TableFacts DEF Typed, Snaps, AnyNode
    <2>5. \A i \in Ids(mirror) \cup DOMAIN s.nodes \cup DOMAIN pending :
             i \in DOMAIN rows' => i \in DOMAIN rows
        BY <1>0, <2>1, <2>3 DEF Typed
    <2>6. \A i \in DOMAIN rows :
             \/ rows'[i] = rows[i]
             \/ i \in DOMAIN s.nodes /\ rows'[i].ver = s.nodes[i].ver
        BY <2>1, <2>2, <2>4, RealNodeType
    <2>7. \A i \in DOMAIN rows \cap DOMAIN s.nodes : rows[i].ver <= s.nodes[i].ver
        BY <1>6 DEF Recent
    <2>8. Rising
        BY <1>0, <2>4, <2>6, <2>7 DEF Rising
    <2>9. \A i \in DOMAIN rows \cap DOMAIN s.nodes : rows'[i].ver <= s.nodes[i].ver
        BY <1>0, <2>4, <2>6, <2>7
    <2>10. \A i \in DOMAIN rows \cap Ids(mirror) : rows'[i].ver <= mirror.nodes[i].ver
        <3>1. \A i \in DOMAIN s.nodes \cap Ids(mirror) : s.nodes[i].ver <= mirror.nodes[i].ver
            BY <1>6 DEF Recent
        <3>2. QED
            BY <1>0, <2>4, <2>6, <3>1 DEF Recent
    <2>11. ASSUME NEW i \in DOMAIN rows \cap DOMAIN pending
           PROVE  rows'[i].ver <= pending[i].ver \/ pending[i].parent < 0
        <3>1. CASE rows'[i] = rows[i]
            BY <3>1 DEF Recent
        <3>2. CASE i \in DOMAIN s.nodes /\ i \in Ids(mirror)
            BY <1>0, <2>10, <3>2 DEF Waiting
        <3>3. CASE i \in DOMAIN s.nodes /\ i \notin Ids(mirror)
            <4>1. InFlight(f)
                BY <1>0, <1>6 DEF Flying
            <4>2. CanExpire
                BY <3>3, <4>1 DEF InFlight
            <4>3. pending = Empty
                BY <1>0, <4>2 DEF Waiting, Settled
            <4>4. QED
                BY <4>3 DEF Empty
        <3>4. QED
            BY <2>6, <3>1, <3>2, <3>3
    <2>12. \A g \in Flushers : Active(g)' => \A i \in DOMAIN snap'[g].nodes :
              /\ i \in DOMAIN rows' => rows'[i].ver <= snap'[g].nodes[i].ver
              /\ i \in Ids(mirror') => snap'[g].nodes[i].ver <= mirror'.nodes[i].ver
        BY <1>6, <2>5, <2>9 DEF Recent
    <2>13. QED
        BY <1>0, <1>6, <2>5, <2>8, <2>10, <2>11, <2>12 DEF Recent
<1>7. CASE Commit(f)
    <2>1. /\ Persisted(f) /\ Active(f) /\ fpc' = [fpc EXCEPT ![f] = "confirm"]
          /\ UNCHANGED <<mirror, pending, snap, target>>
        BY <1>7 DEF Commit, Persist, Persisted, Goto, Active
    <2>2. \A g \in Flushers : Active(g)' => g = f /\ snap'[f] = snap[f]
        BY <1>0, <2>1 DEF Typed, Solo, Active
    <2>3. QED
        BY <1>6, <2>1, <2>2
<1>8. CASE Fail(f)
    <2>1. CASE UNCHANGED db
        BY <1>2, <1>8, <2>1 DEF Fail
    <2>2. CASE PersistNodes(snap[f])
        <3>1. /\ Persisted(f) /\ Active(f) /\ Return(f, "false")
              /\ UNCHANGED <<mirror, pending, target>>
            BY <1>8, <2>2 DEF Fail, PersistNodes, Persisted, Active
        <3>2. \A g \in Flushers : ~Active(g)'
            BY <1>0, <3>1, ReturnIdles DEF Solo
        <3>3. QED
            BY <1>6, <3>1, <3>2
    <2>3. QED
        BY <1>8, <2>1, <2>2 DEF Fail
<1>9. CASE Confirm(f)
    <2> DEFINE s == snap[f]
               real(i) == Real(remap[f], i)
    <2>1. /\ Ids(mirror') = {real(i) : i \in Ids(mirror)}
          /\ \A i \in Ids(mirror) : mirror'.nodes[real(i)] = RealNode(remap[f], mirror.nodes[i])
        BY <1>9, ConfirmEffect
    <2>2. /\ fpc[f] = "confirm" /\ Return(f, "true") /\ Active(f)
          /\ UNCHANGED <<rows, pending, target>>
        BY <1>9 DEF Confirm, Active
    <2>3. /\ DOMAIN remap[f] = Temps(DOMAIN s.nodes)
          /\ \A i \in DOMAIN remap[f] : i < 0
          /\ DOMAIN remap[f] \in SUBSET Int /\ remap[f] \in [DOMAIN remap[f] -> Int]
        <3>1. remap[f] \in Remaps
            BY <1>0 DEF Typed
        <3>2. DOMAIN remap[f] \in SUBSET Int /\ remap[f] \in [DOMAIN remap[f] -> Int]
            BY <3>1 DEF Remaps
        <3>3. QED
            BY <2>2, <3>2, OwnIsFresh
    <2>4. \A g \in Flushers : ~Active(g)'
        BY <1>0, <2>2, ReturnIdles DEF Solo
    <2>5. \A i \in Ids(mirror) : mirror'.nodes[real(i)].ver = mirror.nodes[i].ver
        BY <1>0, <2>1, <2>3, RealNodeType
    <2>6. Committed(f) /\ InFlight(f)
        BY <1>0, <2>2 DEF Flying
    <2>7. ASSUME NEW i \in Ids(mirror), real(i) \in DOMAIN rows
          PROVE  rows[real(i)].ver <= mirror.nodes[i].ver
        <3>1. CASE i \notin DOMAIN remap[f]
            BY <2>7, <3>1 DEF Real, Recent
        <3>2. CASE i \in DOMAIN remap[f]
            <4>1. i \in DOMAIN s.nodes
                BY <2>3, <3>2 DEF Temps
            <4>2. s.nodes[i] \in AnyNode
                BY <1>0, <4>1, TableFacts DEF Typed, Snaps
            <4>3. rows[real(i)] = RealNode(remap[f], s.nodes[i])
                BY <2>6, <2>7, <4>1 DEF Committed
            <4>4. rows[real(i)].ver = s.nodes[i].ver
                BY <2>3, <4>2, <4>3, RealNodeType
            <4>5. QED
                BY <2>2, <2>7, <4>1, <4>4 DEF Recent
        <3>3. QED
            BY <3>1, <3>2
    <2>8. \A i \in DOMAIN rows \cap Ids(mirror') : rows[i].ver <= mirror'.nodes[i].ver
        BY <2>1, <2>5, <2>7
    <2>9. \A h \in Hosts : target[h].id > 0 => target[h].id \in Ids(mirror')
        <3> SUFFICES ASSUME NEW h \in Hosts, target[h].id > 0
                     PROVE  target[h].id \in Ids(mirror')
            OBVIOUS
        <3>1. target[h].id \in Ids(mirror)
            BY <1>0
        <3>2. target[h].id \notin DOMAIN remap[f]
            BY <1>0, <2>3, <3>1
        <3>3. QED
            BY <2>1, <3>1, <3>2 DEF Real
    <2>10. Rising
        BY <1>0, <2>2 DEF Rising
    <2>11. QED
        BY <2>2, <2>4, <2>8, <2>9, <2>10 DEF Recent
<1>10. QED
    BY <1>3, <1>4, <1>5, <1>7, <1>8, <1>9 DEF FlushStep

LEMMA RecentAlways ==
    ASSUME Settled, Session, NoneRevived
    PROVE  Spec => [](Durable /\ Recent)
<1>1. ASSUME Base, Durable, Recent, [Next]_vars PROVE Recent'
    <2>1. Typed /\ Typed'
        BY <1>1, TypedStep DEF Base
    <2>2. CASE UNCHANGED vars
        BY <1>1, <2>2 DEF vars, db, flush, Recent, Active
    <2>3. QED
        BY <1>1, <2>1, <2>2, RecentCommands, RecentFlushes DEF Next
<1>2. Base /\ Durable /\ Recent /\ [Next]_vars => Recent'
    BY <1>1
<1>3. QED
    BY <1>2, RecentInit, BaseAlways, DurableAlways, PTL DEF Spec

\* A row never goes back to an older version of its node, neither by a flush that
\* wrote an old snapshot nor by a host's late write or commit, as long as locks do
\* not expire, or a single flusher outlives its lock (Settled): two flushes that
\* overlap do take a row back (MCWorkspaceFlush_expired).
THEOREM RowsNeverGoBack ==
    ASSUME Settled, Session, NoneRevived
    PROVE  Spec => NoRegress
<1>1. ASSUME Base, Durable, Recent, [Next]_vars
      PROVE  [\A i \in DOMAIN rows \cap DOMAIN rows' : rows'[i].ver >= rows[i].ver]_vars
    <2>1. Typed'
        BY <1>1, TypedStep
    <2>2. CASE UNCHANGED vars
        BY <2>2
    <2>3. CASE Next
        BY <1>1, <2>1, <2>3, RecentCommands, RecentFlushes DEF Next, Rising
    <2>4. QED
        BY <1>1, <2>2, <2>3
<1>2. Base /\ Durable /\ Recent /\ [Next]_vars =>
         [\A i \in DOMAIN rows \cap DOMAIN rows' : rows'[i].ver >= rows[i].ver]_vars
    BY <1>1
<1>3. QED
    BY <1>2, BaseAlways, RecentAlways, PTL DEF Spec, NoRegress
-----------------------------------------------------------------------------
(* No row outlives its node.                                                 *)

\* Nothing leaves a row behind: no process dies between the transaction and its
\* confirmation, and rm is used where it takes the row with the node.
RowsFollow == MaxCrashes = 0 /\ (PostgreSQL => "rm" \notin Commands)

\* In memory, where a transaction that fails is not rolled back, every batch
\* has the directories of the nodes it has.
Orderly == ~PostgreSQL => \A f \in Flushers : fpc[f] = "commit" => AllPlaced(snap[f])

\* A row is that of a node, or of one that a flush is about to confirm.
LiveRows ==
    \A k \in DOMAIN rows :
        k \in Ids(mirror) \/ \E f \in Flushers : fpc[f] = "confirm" /\ k \in Given(f)

\* A step that takes no node from a row and ends no confirmation.
LEMMA LiveKept ==
    ASSUME LiveRows, DOMAIN rows' \subseteq DOMAIN rows,
           \A k \in DOMAIN rows' : k \in Ids(mirror) => k \in Ids(mirror'),
           \A f \in Flushers : fpc[f] = "confirm" => fpc'[f] = "confirm" /\ remap'[f] = remap[f]
    PROVE  LiveRows'
BY DEF LiveRows, Given

LEMMA LiveCommands ==
    ASSUME RowsFollow, Base, LiveRows,
           AgentStep \/ HostCommit \/ \E h \in Hosts : HostStep(h)
    PROVE  LiveRows'
<1> USE DEF db, flush
<1>0. /\ Typed /\ Ranged
      /\ mirror \in Mirrors /\ Ids(mirror) \subseteq Int /\ mirror.next \in Int
      /\ \A i \in Ids(mirror) : mirror.nodes[i] \in AnyNode
    BY TableFacts DEF Base, Typed, Mirrors, Ids
<1>1. UNCHANGED <<fpc, remap>>
    BY DEF AgentStep, HostStep, Create, Edit, Touch, Remove, Cd, MoveInto, Move, MoveTo,
           HostCommit, HostWrite, HostResolve
<1>2. ASSUME UNCHANGED rows, Ids(mirror) \subseteq Ids(mirror') PROVE LiveRows'
    BY <1>1, <1>2, LiveKept
<1>3. ASSUME NEW parent \in Ids(mirror), NEW name \in Names, NEW kind \in {"dir", "file"},
             Create(parent, name, kind)
      PROVE  LiveRows'
    <2>1. Ids(Created(mirror, parent, name, kind)) = Ids(mirror) \cup {mirror.next}
        BY <1>0, CreatedFacts
    <2>2. QED
        BY <1>2, <1>3, <2>1 DEF Create
<1>4. ASSUME NEW i \in Ids(mirror), Edit(i) PROVE LiveRows'
    <2>1. Ids(mirror') = Ids(mirror) \cup {i}
        BY <1>0, <1>4, EditEffect
    <2>2. QED
        BY <1>2, <1>4, <2>1 DEF Edit
<1>5. ASSUME NEW i \in Ids(mirror), Touch(i) \/ Cd(i) PROVE LiveRows'
    <2>1. mirror'.nodes = mirror.nodes
        BY <1>0, <1>5, MarkEffect
    <2>2. QED
        BY <1>2, <1>5, <2>1 DEF Touch, Cd, Ids
<1>6. ASSUME NEW h \in Hosts, HostWrite(h) PROVE LiveRows'
    <2>1. target[h].id \in Int /\ target[h].node \in AnyNode
        BY <1>0, <1>6 DEF Typed, Targets
    <2>2. Ids(mirror') = Ids(mirror) \cup {target[h].id}
        BY <1>0, <1>6, <2>1, WrittenFacts DEF HostWrite
    <2>3. QED
        BY <1>2, <1>6, <2>2 DEF HostWrite
<1>7. ASSUME NEW h \in Hosts, NEW i \in Ids(mirror), HostResolve(h, i) PROVE LiveRows'
    BY <1>2, <1>7 DEF HostResolve
<1>8. ASSUME NEW i \in Ids(mirror), Remove(i) PROVE LiveRows'
    <2>1. Ids(mirror') = Ids(mirror) \ {i}
        BY <1>0, <1>8, DeletedFacts DEF Remove
    <2>2. ~PostgreSQL
        BY <1>8 DEF Remove, Command, RowsFollow
    <2>3. DOMAIN rows' = DOMAIN rows \ {i}
        BY <1>8, <2>2 DEF Remove, Restricted
    <2>4. QED
        BY <1>1, <2>1, <2>3, LiveKept
<1>9. ASSUME NEW i \in Ids(mirror), NEW parent \in Ids(mirror),
             MoveInto(i, parent) \/ \E name \in Names : Move(i, parent, name)
      PROVE  LiveRows'
    <2>1. parent \in Int /\ mirror.nodes[i].name \in Names \cup {NoParent}
        BY <1>0 DEF AnyNode
    <2>2. PICK name \in Names \cup {NoParent} : MoveTo(i, parent, name)
        BY <1>9, <2>1 DEF MoveInto, Move
    <2>3. Ids(mirror') = Ids(mirror) /\ DOMAIN rows' = DOMAIN rows
        BY <1>0, <2>1, <2>2, MoveEffect DEF MoveTo
    <2>4. QED
        BY <1>1, <2>3, LiveKept
<1>10. ASSUME HostCommit PROVE LiveRows'
    <2>1. DOMAIN rows' = DOMAIN rows /\ mirror' = mirror
        BY <1>0, <1>10, HostCommitEffect DEF HostCommit
    <2>2. QED
        BY <1>1, <2>1, LiveKept
<1>11. QED
    BY <1>3, <1>4, <1>5, <1>6, <1>7, <1>8, <1>9, <1>10 DEF AgentStep, HostStep

LEMMA LiveFlushes ==
    ASSUME RowsFollow, Base, Durable, LiveRows, Orderly, NEW f \in Flushers,
           FlushStep(f) \/ Expire(f) \/ Crash(f)
    PROVE  LiveRows'
<1> USE DEF db, flush
<1>0. Typed /\ Ranged /\ Solo /\ Flying /\ Ids(mirror) \subseteq Int
    BY TableFacts DEF Base, Typed, Mirrors, Ids, Durable
<1>1. ASSUME UNCHANGED <<mirror, rows>>, fpc[f] # "confirm",
             \A g \in Flushers \ {f} : fpc'[g] = fpc[g] /\ remap'[g] = remap[g]
      PROVE  LiveRows'
    BY <1>1, LiveKept
<1>2. ASSUME NEW value \in {"none", "true", "false"}, Return(f, value),
             UNCHANGED <<mirror, rows>>, fpc[f] # "confirm"
      PROVE  LiveRows'
    <2>1. \A g \in Flushers \ {f} : fpc'[g] = fpc[g] /\ remap'[g] = remap[g]
        BY <1>0, <1>2 DEF Return, Goto, Typed
    <2>2. QED
        BY <1>1, <1>2, <2>1
<1>3. CASE StartFlush(f) \/ Refused(f) \/ TakeSnapshot(f)
    <2>1. fpc[f] # "confirm" /\ UNCHANGED <<mirror, rows>>
        BY <1>3 DEF StartFlush, Refused, TakeSnapshot
    <2>2. CASE Return(f, "true")
        BY <1>2, <2>1, <2>2
    <2>3. CASE ~Return(f, "true")
        <3>1. remap' = remap /\ \E label : Goto(f, label)
            BY <1>3, <2>3 DEF StartFlush, Refused, TakeSnapshot
        <3>2. QED
            BY <1>0, <1>1, <2>1, <3>1 DEF Goto, Typed
    <2>4. QED
        BY <2>2, <2>3
<1>4. CASE Expire(f)
    BY <1>4, LiveKept DEF Expire
<1>5. ~Crash(f)
    BY <1>0 DEF Crash, RowsFollow, Typed
<1>6. CASE Commit(f)
    <2> DEFINE new == NewIds(snap[f])
    <2>1. /\ Persisted(f) /\ fpc[f] = "commit" /\ mirror' = mirror
          /\ fpc' = [fpc EXCEPT ![f] = "confirm"] /\ remap' = [remap EXCEPT ![f] = new]
        BY <1>6 DEF Commit, Persist, Persisted, Goto
    <2>2. DOMAIN rows' = DOMAIN rows \cup {new[i] : i \in DOMAIN new}
        BY <2>1, PersistEffect
    <2> HIDE DEF new
    <2>3. fpc'[f] = "confirm" /\ Given(f)' = {new[i] : i \in DOMAIN new}
        BY <1>0, <2>1 DEF Typed, Given
    <2>4. \A g \in Flushers : fpc[g] = "confirm" => fpc'[g] = "confirm" /\ Given(g)' = Given(g)
        BY <1>0, <2>1 DEF Typed, Given
    <2>5. QED
        BY <2>1, <2>2, <2>3, <2>4 DEF LiveRows
<1>7. CASE Fail(f)
    <2>1. UNCHANGED db
        BY <1>7 DEF Fail, Orderly
    <2>2. QED
        BY <1>2, <1>7, <2>1 DEF Fail
<1>8. CASE Confirm(f)
    <2>1. /\ fpc[f] = "confirm" /\ rows' = rows /\ InFlight(f)
          /\ \A g \in Flushers : fpc[g] = "confirm" => g = f
        BY <1>0, <1>8 DEF Confirm, Solo, Flying, Active
    <2>2. Ids(mirror') = {Real(remap[f], i) : i \in Ids(mirror)}
        BY <1>8, ConfirmEffect
    <2>3. /\ DOMAIN remap[f] = Temps(DOMAIN snap[f].nodes)
          /\ \A i \in DOMAIN remap[f] : i < 0 /\ i \in Int
        BY <2>1, OwnIsFresh DEF Fresh
    <2>4. \A i \in DOMAIN remap[f] : i \in Ids(mirror)
        <3> SUFFICES ASSUME NEW i \in DOMAIN remap[f] PROVE i \in Ids(mirror)
            OBVIOUS
        <3>1. i \in DOMAIN snap[f].nodes /\ i < 0 /\ i \in Int
            BY <2>3 DEF Temps
        <3>2. ~CanExpire
            BY <1>0, <3>1 DEF Solo, Ranged, IdOk
        <3>3. QED
            BY <2>1, <3>1, <3>2 DEF InFlight
    <2>5. ASSUME NEW k \in DOMAIN rows PROVE k \in Ids(mirror')
        <3>1. CASE k \in Ids(mirror)
            <4>1. k \notin DOMAIN remap[f]
                BY <1>0, <2>3 DEF Ranged
            <4>2. QED
                BY <2>2, <3>1, <4>1 DEF Real
        <3>2. CASE k \in Given(f)
            BY <2>2, <2>4, <3>2 DEF Given, Real
        <3>3. QED
            BY <2>1, <3>1, <3>2 DEF LiveRows
    <2>6. QED
        BY <2>1, <2>5 DEF LiveRows
<1>9. QED
    BY <1>3, <1>4, <1>5, <1>6, <1>7, <1>8 DEF FlushStep

\* Between flushes the database has no row of a node that is not in the mirror:
\* what was removed does not come back when the mirror is rebuilt from the rows.
THEOREM NoRowOutlivesItsNode ==
    ASSUME Settled, Session, RowsFollow
    PROVE  Spec /\ []Orderly => []RowsAreLive
<1>1. Init => LiveRows
    BY DEF Init, LiveRows, Ids
<1>2. ASSUME Base, Durable, Orderly, LiveRows, [Next]_vars PROVE LiveRows'
    <2>1. CASE UNCHANGED vars
        BY <1>2, <2>1, LiveKept DEF vars, db, flush
    <2>2. QED
        BY <1>2, <2>1, LiveCommands, LiveFlushes DEF Next
<1>3. Base /\ Durable /\ Orderly /\ LiveRows /\ [Next]_vars => LiveRows'
    BY <1>2
<1>4. LiveRows => RowsAreLive
    BY DEF LiveRows, RowsAreLive
<1>5. QED
    BY <1>1, <1>3, <1>4, BaseAlways, DurableAlways, PTL DEF Spec
-----------------------------------------------------------------------------
(* A flush that answers True is a durability boundary.                       *)

\* A batch has room for all that is dirty, the temporary ids that stay in the
\* dirty sets included.
Fits == Cardinality(DirtyIds(mirror)) <= Batch

\* A flush that is under way writes all that is dirty, and has not answered.
Covered ==
    \A f \in Flushers :
        /\ Active(f) => \A i \in Ids(mirror) \cap DirtyIds(mirror) : i \in DOMAIN snap[f].nodes
        /\ fpc[f] # "idle" => answer[f] # "true"

\* What is dirty fits, so the batch is what is dirty.
LEMMA SnapshotCovers ==
    ASSUME Typed, Ranged, Fits
    PROVE  /\ BatchIds(mirror) = DirtyIds(mirror)
           /\ DOMAIN Snapshot(mirror).nodes = DirtyIds(mirror) \cap Ids(mirror)
<1>1. mirror \in Mirrors /\ nextRow \in Int /\ mirror.next \in Int /\ DirtyIds(mirror) \subseteq Int
    BY DEF Typed, Mirrors, DirtyIds
<1>2. DirtyIds(mirror) \subseteq mirror.next..nextRow
    BY <1>1 DEF Ranged, IdOk
<1>3. IsFiniteSet(DirtyIds(mirror))
    BY <1>1, <1>2, FS_Interval, FS_Subset
<1>4. BatchIds(mirror) = DirtyIds(mirror)
    BY <1>1, <1>3, BatchIsAll DEF Fits
<1>5. QED
    BY <1>4 DEF Snapshot, Restricted

\* The answer True is given by a flush that is refused the lock, by one that
\* finds nothing dirty, and by one that confirms.
LEMMA WhoAnswersTrue ==
    ASSUME Typed, NEW f \in Flushers, fpc[f] # "idle", answer[f] # "true",
           answer'[f] = "true", [Next]_vars
    PROVE  \/ Refused(f)
           \/ TakeSnapshot(f) /\ NothingDirty(Snapshot(mirror))
           \/ Confirm(f)
<1> USE DEF flush
<1>1. answer' # answer
    OBVIOUS
<1>2. PICK g \in Flushers : FlushStep(g) \/ Expire(g) \/ Crash(g)
    BY <1>1 DEF Next, vars, AgentStep, HostStep, Create, Edit, Touch, Remove, Cd, MoveInto, Move,
                MoveTo, HostCommit, HostWrite, HostResolve
<1>3. \E value : answer' = [answer EXCEPT ![g] = value]
    BY <1>1, <1>2 DEF FlushStep, StartFlush, Refused, TakeSnapshot, Commit, Fail, Confirm, Expire,
                      Crash, Return
<1>4. g = f
    BY <1>3 DEF Typed
<1>5. ~StartFlush(f) /\ ~Commit(f) /\ ~Expire(f)
    BY DEF StartFlush, Commit, Expire
<1>6. ~Fail(f) /\ ~Crash(f)
    BY DEF Fail, Crash, Return, Typed
<1>7. ASSUME TakeSnapshot(f) PROVE NothingDirty(Snapshot(mirror))
    BY <1>1, <1>7 DEF TakeSnapshot
<1>8. QED
    BY <1>2, <1>4, <1>5, <1>6, <1>7 DEF FlushStep

LEMMA CoveredStep ==
    ASSUME ~CanExpire, Base, Durable, Fits, Covered, [Next]_vars
    PROVE  Covered'
<1> USE DEF db, flush
<1>0. Typed /\ Ranged /\ Solo /\ NoOne \notin Flushers
    BY FlushAssumption DEF Base, Durable
<1>1. ASSUME UNCHANGED <<fpc, snap, answer>>, mirror' = mirror \/ lock = NoOne PROVE Covered'
    <2>1. CASE mirror' = mirror
        BY <1>1, <2>1 DEF Covered, Active
    <2>2. CASE lock = NoOne
        <3>1. \A f \in Flushers : ~Active(f)
            BY <1>0, <2>2 DEF Solo
        <3>2. QED
            BY <1>1, <3>1 DEF Covered, Active
    <2>3. QED
        BY <1>1, <2>1, <2>2
<1>2. CASE AgentStep
    <2>1. CASE \E parent \in Ids(mirror), name \in Names, kind \in {"dir", "file"} :
                  Create(parent, name, kind)
        BY <1>1, <2>1 DEF Create, Command
    <2>2. CASE \E i \in Ids(mirror) : Edit(i) \/ Touch(i)
        BY <1>1, <2>2 DEF Edit, Touch, Command
    <2>3. CASE \E i \in Ids(mirror) : Remove(i) \/ Cd(i)
        BY <1>1, <2>3 DEF Remove, Cd, Command
    <2>4. CASE \E i, parent \in Ids(mirror) :
                  MoveInto(i, parent) \/ \E name \in Names : Move(i, parent, name)
        BY <1>1, <2>4 DEF MoveInto, Move, MoveTo, Command
    <2>5. QED
        BY <1>2, <2>1, <2>2, <2>3, <2>4 DEF AgentStep
<1>3. CASE HostCommit \/ \E h \in Hosts : HostStep(h)
    BY <1>1, <1>3 DEF HostStep, HostCommit, HostWrite, HostResolve
<1>4. CASE UNCHANGED vars
    BY <1>1, <1>4 DEF vars
<1>5. ASSUME NEW f \in Flushers, NEW value \in {"none", "true", "false"}, Return(f, value),
             mirror' = mirror \/ Active(f)
      PROVE  Covered'
    <2>1. /\ fpc'[f] = "idle"
          /\ \A g \in Flushers \ {f} : fpc'[g] = fpc[g] /\ snap'[g] = snap[g] /\ answer'[g] = answer[g]
        BY <1>0, <1>5 DEF Return, Goto, Typed
    <2>2. CASE mirror' = mirror
        BY <2>1, <2>2 DEF Covered, Active
    <2>3. CASE Active(f)
        <3>1. \A g \in Flushers : ~Active(g)'
            BY <1>0, <2>1, <2>3 DEF Solo, Active
        <3>2. QED
            BY <2>1, <3>1 DEF Covered
    <2>4. QED
        BY <1>5, <2>2, <2>3
<1>6. ASSUME NEW f \in Flushers, FlushStep(f) \/ Expire(f) \/ Crash(f) PROVE Covered'
    <2>1. CASE StartFlush(f)
        BY <1>0, <2>1 DEF StartFlush, Goto, Typed, Covered, Active
    <2>2. CASE Refused(f)
        BY <1>5, <2>2 DEF Refused
    <2>3. CASE TakeSnapshot(f) /\ NothingDirty(Snapshot(mirror))
        BY <1>5, <2>3 DEF TakeSnapshot
    <2>4. CASE TakeSnapshot(f) /\ ~NothingDirty(Snapshot(mirror))
        <3>1. /\ mirror' = mirror /\ answer' = answer /\ fpc[f] = "lock"
              /\ snap' = [snap EXCEPT ![f] = Snapshot(mirror)]
              /\ fpc' = [fpc EXCEPT ![f] = "commit"]
            BY <2>4 DEF TakeSnapshot, Goto
        <3>2. /\ snap'[f] = Snapshot(mirror)
              /\ \A g \in Flushers \ {f} : snap'[g] = snap[g] /\ fpc'[g] = fpc[g]
            BY <1>0, <3>1 DEF Typed
        <3>3. DOMAIN Snapshot(mirror).nodes = DirtyIds(mirror) \cap Ids(mirror)
            BY <1>0, SnapshotCovers
        <3>4. ASSUME NEW g \in Flushers PROVE
                  /\ Active(g)' => \A i \in Ids(mirror') \cap DirtyIds(mirror') :
                                      i \in DOMAIN snap'[g].nodes
                  /\ fpc'[g] # "idle" => answer'[g] # "true"
            <4>1. CASE g = f
                BY <3>1, <3>2, <3>3, <4>1 DEF Covered
            <4>2. CASE g # f
                BY <3>1, <3>2, <4>2 DEF Covered, Active
            <4>3. QED
                BY <4>1, <4>2
        <3>5. QED
            BY <3>4 DEF Covered
    <2>5. CASE Commit(f)
        <3>1. /\ UNCHANGED <<mirror, answer, snap>> /\ fpc[f] = "commit"
              /\ fpc' = [fpc EXCEPT ![f] = "confirm"]
            BY <2>5 DEF Commit, Goto
        <3>2. \A g \in Flushers : /\ Active(g)' => Active(g)
                                  /\ fpc'[g] # "idle" => fpc[g] # "idle"
            BY <1>0, <3>1 DEF Typed, Active
        <3>3. QED
            BY <3>1, <3>2 DEF Covered
    <2>6. CASE Fail(f)
        BY <1>5, <2>6 DEF Fail
    <2>7. CASE Confirm(f)
        BY <1>5, <2>7 DEF Confirm, Active
    <2>8. CASE Expire(f)
        BY <2>8 DEF Expire
    <2>9. CASE Crash(f)
        BY <1>5, <2>9 DEF Crash
    <2>10. QED
        BY <1>6, <2>1, <2>2, <2>3, <2>4, <2>5, <2>6, <2>7, <2>8, <2>9 DEF FlushStep
<1>7. QED
    BY <1>2, <1>3, <1>4, <1>6 DEF Next

\* What the mirror has when a flush confirms, or finds nothing to do, has a row
\* that is as new.
LEMMA ConfirmedIsDurable ==
    ASSUME ~CanExpire, Base, Durable, Covered, Fits, NEW f \in Flushers,
           \/ TakeSnapshot(f) /\ NothingDirty(Snapshot(mirror))
           \/ Confirm(f)
    PROVE  \A j \in Ids(mirror') : /\ j \in DOMAIN rows'
                                   /\ rows'[j].born = mirror'.nodes[j].born
                                   /\ rows'[j].ver = mirror'.nodes[j].ver
<1>0. Typed /\ Ranged /\ Flying /\ Clean /\ HaveRows
      /\ \A i \in Ids(mirror) : mirror.nodes[i] \in AnyNode
    BY TableFacts DEF Base, Durable, Typed, Mirrors, Ids
<1>1. CASE TakeSnapshot(f) /\ NothingDirty(Snapshot(mirror))
    <2>1. DirtyIds(mirror) = {} /\ mirror' = mirror /\ rows' = rows
        BY <1>0, <1>1, SnapshotCovers DEF TakeSnapshot, NothingDirty, Snapshot, db
    <2>2. QED
        BY <1>0, <2>1 DEF Clean
<1>2. CASE Confirm(f)
    <2> DEFINE s == snap[f]
               real(i) == Real(remap[f], i)
    <2>1. /\ Ids(mirror') = {real(i) : i \in Ids(mirror)}
          /\ \A i \in Ids(mirror) : mirror'.nodes[real(i)] = RealNode(remap[f], mirror.nodes[i])
        BY <1>2, ConfirmEffect
    <2>2. /\ fpc[f] = "confirm" /\ rows' = rows /\ Active(f)
          /\ InFlight(f) /\ Committed(f)
        BY <1>0, <1>2 DEF Confirm, db, Flying, Active
    <2>3. /\ DOMAIN remap[f] = Temps(DOMAIN s.nodes)
          /\ \A i \in DOMAIN remap[f] : ~(i > 0)
          /\ DOMAIN remap[f] \in SUBSET Int /\ remap[f] \in [DOMAIN remap[f] -> Int]
        <3>1. remap[f] \in Remaps
            BY <1>0 DEF Typed
        <3>2. DOMAIN remap[f] \in SUBSET Int /\ remap[f] \in [DOMAIN remap[f] -> Int]
            BY <3>1 DEF Remaps
        <3>3. QED
            BY <2>2, <3>2, OwnIsFresh
    <2>4. ASSUME NEW i \in Ids(mirror)
          PROVE  /\ real(i) \in DOMAIN rows
                 /\ rows[real(i)].born = mirror.nodes[i].born
                 /\ rows[real(i)].ver = mirror.nodes[i].ver
        <3>1. CASE i \in DirtyIds(mirror)
            <4>1. i \in DOMAIN s.nodes /\ mirror.nodes[i] = s.nodes[i]
                BY <2>2, <3>1 DEF Covered, InFlight
            <4>2. real(i) \in DOMAIN rows
                <5>1. CASE i \in DOMAIN remap[f]
                    BY <1>0, <2>2, <5>1 DEF HaveRows, Real
                <5>2. CASE i \notin DOMAIN remap[f]
                    <6>1. i \in Int /\ i # 0 /\ ~(i < 0)
                        BY <1>0, <2>3, <4>1, <5>2, TableFacts DEF Temps, Ranged, IdOk, Typed, Mirrors, Ids
                    <6>2. QED
                        BY <1>0, <5>2, <6>1 DEF HaveRows, Real
                <5>3. QED
                    BY <5>1, <5>2
            <4>3. rows[real(i)] = RealNode(remap[f], mirror.nodes[i])
                BY <2>2, <4>1, <4>2 DEF Committed
            <4>4. QED
                BY <1>0, <2>3, <4>2, <4>3, RealNodeType
        <3>2. CASE i \notin DirtyIds(mirror)
            <4>1. i \in DOMAIN rows /\ rows[i] = mirror.nodes[i]
                BY <1>0, <3>2 DEF Clean
            <4>2. i \notin DOMAIN remap[f]
                BY <1>0, <2>3, <4>1, TableFacts DEF Ranged, Typed
            <4>3. QED
                BY <4>1, <4>2 DEF Real
        <3>3. QED
            BY <3>1, <3>2
    <2>5. \A i \in Ids(mirror) : /\ mirror'.nodes[real(i)].born = mirror.nodes[i].born
                                 /\ mirror'.nodes[real(i)].ver = mirror.nodes[i].ver
        BY <1>0, <2>1, <2>3, RealNodeType
    <2>6. QED
        BY <2>1, <2>2, <2>4, <2>5
<1>3. QED
    BY <1>1, <1>2

\* flush() that answers True: what the mirror held when it was called, and still
\* holds, has a row at least as new. It takes a batch with room for all that is
\* dirty, a lock that does not expire and that the flush is not refused.
THEOREM AnsweredFlushIsDurable ==
    ASSUME ~CanExpire, Session
    PROVE  Spec /\ []Fits /\ [][\A f \in Flushers : ~Refused(f)]_vars => FlushIsDurable
<1> DEFINE Boundary == \A f \in Flushers :
               fpc[f] # "idle" /\ answer'[f] = "true" =>
                   \A i \in DOMAIN asked[f] :
                       Has(mirror'.nodes, asked[f][i]) => Has(rows', asked[f][i])
<1>1. Settled
    BY DEF Settled
<1>2. Init => Covered
    BY DEF Init, Covered, Active
<1>3. Base /\ Durable /\ Fits /\ Covered /\ [Next]_vars => Covered'
    BY CoveredStep
<1>4. ASSUME Base, Durable, Fits, Covered, [Next]_vars, [\A f \in Flushers : ~Refused(f)]_vars
      PROVE  [Boundary]_vars
    <2>1. CASE UNCHANGED vars
        BY <2>1
    <2>2. ASSUME NEW f \in Flushers, fpc[f] # "idle", answer'[f] = "true", ~Refused(f),
                 NEW i \in DOMAIN asked[f], Has(mirror'.nodes, asked[f][i])
          PROVE  Has(rows', asked[f][i])
        <3>1. answer[f] # "true"
            BY <1>4, <2>2 DEF Covered
        <3>2. \/ TakeSnapshot(f) /\ NothingDirty(Snapshot(mirror))
              \/ Confirm(f)
            BY <1>4, <2>2, <3>1, WhoAnswersTrue DEF Base
        <3>3. \A j \in Ids(mirror') : /\ j \in DOMAIN rows'
                                      /\ rows'[j].born = mirror'.nodes[j].born
                                      /\ rows'[j].ver = mirror'.nodes[j].ver
            BY <1>4, <3>2, ConfirmedIsDurable
        <3>4. QED
            BY <2>2, <3>3 DEF Has, Ids
    <2>3. CASE \A f \in Flushers : ~Refused(f)
        BY <2>2, <2>3
    <2>4. QED
        BY <1>4, <2>1, <2>3
<1>5. Base /\ Durable /\ Fits /\ Covered /\ [Next]_vars /\ [\A f \in Flushers : ~Refused(f)]_vars
          => [Boundary]_vars
    BY <1>4
<1>6. FlushIsDurable <=> [][Boundary]_vars
    BY DEF FlushIsDurable
<1> HIDE DEF Boundary
<1>7. QED
    BY <1>1, <1>2, <1>3, <1>5, <1>6, BaseAlways, DurableAlways, PTL DEF Spec
-----------------------------------------------------------------------------
(* The flushes write back, as WriteBack says.                                *)

Distinct(table) == \A i, j \in DOMAIN table : table[i].born = table[j].born => i = j

\* A table of distinct nodes has one version of each of them and none of others.
LEMMA VersionOfNode ==
    ASSUME NEW table, Distinct(table), NEW i \in DOMAIN table
    PROVE  VersionIn(table, table[i].born) = table[i].ver
BY DEF VersionIn, Distinct

LEMMA VersionOfNone ==
    ASSUME NEW table, NEW k, \A i \in DOMAIN table : table[i].born # k
    PROVE  VersionIn(table, k) = 0
BY DEF VersionIn

\* Two tables with the same nodes, be it under other ids, have the same versions.
LEMMA VersionsKept ==
    ASSUME NEW old, NEW new, Distinct(old), Distinct(new),
           \A i \in DOMAIN old : \E j \in DOMAIN new :
               new[j].born = old[i].born /\ new[j].ver = old[i].ver,
           \A j \in DOMAIN new : \E i \in DOMAIN old : new[j].born = old[i].born,
           NEW k
    PROVE  VersionIn(new, k) = VersionIn(old, k)
<1>1. CASE \E i \in DOMAIN old : old[i].born = k
    <2>1. PICK i \in DOMAIN old : old[i].born = k
        BY <1>1
    <2>2. PICK j \in DOMAIN new : new[j].born = old[i].born /\ new[j].ver = old[i].ver
        OBVIOUS
    <2>3. VersionIn(old, k) = old[i].ver
        BY <2>1, VersionOfNode
    <2>4. VersionIn(new, k) = new[j].ver
        BY <2>1, <2>2, VersionOfNode
    <2>5. QED
        BY <2>2, <2>3, <2>4
<1>2. CASE ~\E i \in DOMAIN old : old[i].born = k
    <2>1. \A j \in DOMAIN new : new[j].born # k
        BY <1>2
    <2>2. QED
        BY <1>2, <2>1, VersionOfNone
<1>3. QED
    BY <1>1, <1>2

\* One node changes its version, the others stay.
LEMMA OneVersionChanges ==
    ASSUME NEW old, NEW new, Distinct(old), Distinct(new), NEW i \in DOMAIN old,
           DOMAIN new = DOMAIN old, \A j \in DOMAIN old \ {i} : new[j] = old[j],
           new[i].born = old[i].born
    PROVE  /\ VersionIn(new, old[i].born) = new[i].ver
           /\ VersionIn(old, old[i].born) = old[i].ver
           /\ \A k : k # old[i].born => VersionIn(new, k) = VersionIn(old, k)
<1>1. VersionIn(new, old[i].born) = new[i].ver /\ VersionIn(old, old[i].born) = old[i].ver
    BY VersionOfNode
<1>2. ASSUME NEW k, k # old[i].born PROVE VersionIn(new, k) = VersionIn(old, k)
    <2>1. CASE \E j \in DOMAIN old : old[j].born = k
        <3>1. PICK j \in DOMAIN old : old[j].born = k
            BY <2>1
        <3>2. new[j] = old[j]
            BY <1>2, <3>1
        <3>3. QED
            BY <3>1, <3>2, VersionOfNode
    <2>2. CASE ~\E j \in DOMAIN old : old[j].born = k
        <3>1. \A j \in DOMAIN new : new[j].born # k
            BY <1>2, <2>2
        <3>2. QED
            BY <2>2, <3>1, VersionOfNone
    <2>3. QED
        BY <2>1, <2>2
<1>3. QED
    BY <1>1, <1>2

\* One node comes or goes, the others stay.
LEMMA OneNodeMore ==
    ASSUME NEW small, NEW large, Distinct(large), NEW i \in DOMAIN large,
           DOMAIN small = DOMAIN large \ {i}, \A j \in DOMAIN small : small[j] = large[j]
    PROVE  /\ Distinct(small)
           /\ VersionIn(large, large[i].born) = large[i].ver
           /\ VersionIn(small, large[i].born) = 0
           /\ \A k : k # large[i].born => VersionIn(small, k) = VersionIn(large, k)
<1>1. Distinct(small) /\ \A j \in DOMAIN small : small[j].born # large[i].born
    BY DEF Distinct
<1>2. VersionIn(large, large[i].born) = large[i].ver /\ VersionIn(small, large[i].born) = 0
    BY <1>1, VersionOfNode, VersionOfNone
<1>3. ASSUME NEW k, k # large[i].born PROVE VersionIn(small, k) = VersionIn(large, k)
    <2>1. CASE \E j \in DOMAIN small : small[j].born = k
        <3>1. PICK j \in DOMAIN small : small[j].born = k
            BY <2>1
        <3>2. QED
            BY <1>1, <3>1, VersionOfNode
    <2>2. CASE ~\E j \in DOMAIN small : small[j].born = k
        <3>1. \A j \in DOMAIN large : large[j].born # k
            BY <1>3, <2>2
        <3>2. QED
            BY <2>2, <3>1, VersionOfNone
    <2>3. QED
        BY <2>1, <2>2
<1>4. QED
    BY <1>1, <1>2, <1>3

\* Every node is known by its key: no two nodes of the mirror have the same, a
\* row bears that of its node, and every node has a version.
Identified ==
    /\ Distinct(mirror.nodes)
    /\ \A i \in Ids(mirror) : mirror.next < mirror.nodes[i].born /\ mirror.nodes[i].ver > 0
    /\ \A i \in DOMAIN rows :
          /\ rows[i].ver > 0
          /\ i \in Ids(mirror) => rows[i].born = mirror.nodes[i].born

\* The rows are those of distinct nodes.
LEMMA RowsDistinct ==
    ~CanExpire /\ Base /\ Durable /\ LiveRows /\ Identified => Distinct(rows)
<1> SUFFICES ASSUME ~CanExpire, Base, Durable, LiveRows, Identified,
                    NEW i \in DOMAIN rows, NEW j \in DOMAIN rows, rows[i].born = rows[j].born
             PROVE  i = j
    BY DEF Distinct
<1>0. Typed /\ Ranged /\ Solo /\ Flying
    BY DEF Base, Durable
<1>1. ASSUME NEW k \in DOMAIN rows, k \notin Ids(mirror)
      PROVE  \E f \in Flushers, t \in Ids(mirror) :
                /\ fpc[f] = "confirm" /\ t \in DOMAIN remap[f] /\ remap[f][t] = k /\ ~(t > 0)
                /\ rows[k].born = mirror.nodes[t].born
    <2>1. PICK f \in Flushers : fpc[f] = "confirm" /\ k \in Given(f)
        BY <1>1 DEF LiveRows
    <2>2. PICK t \in DOMAIN remap[f] : remap[f][t] = k
        BY <2>1 DEF Given
    <2>3. t \in DOMAIN snap[f].nodes /\ t < 0 /\ remap[f] \in Remaps
        BY <1>0, <2>1, <2>2, OwnIsFresh DEF Temps, Typed
    <2>4. /\ t \in Ids(mirror) /\ mirror.nodes[t] = snap[f].nodes[t]
          /\ rows[k] = RealNode(remap[f], snap[f].nodes[t])
        BY <1>0, <2>1, <2>2, <2>3 DEF Flying, InFlight, Committed, Active, Real
    <2>5. /\ mirror.nodes[t] \in AnyNode /\ t \in Int
          /\ DOMAIN remap[f] \in SUBSET Int /\ remap[f] \in [DOMAIN remap[f] -> Int]
        <3>1. DOMAIN remap[f] \in SUBSET Int /\ remap[f] \in [DOMAIN remap[f] -> Int]
            BY <2>3 DEF Remaps
        <3>2. mirror.nodes \in Tables /\ t \in DOMAIN mirror.nodes
            BY <1>0, <2>4 DEF Typed, Mirrors, Ids
        <3>3. QED
            BY <3>1, <3>2, TableFacts
    <2>6. rows[k].born = mirror.nodes[t].born
        <3> DEFINE node == mirror.nodes[t]
        <3>1. node \in AnyNode /\ rows[k] = RealNode(remap[f], node)
            BY <2>4, <2>5
        <3> HIDE DEF node
        <3>2. RealNode(remap[f], node).born = node.born
            BY <2>5, <3>1, RealNodeType
        <3>3. QED
            BY <3>1, <3>2 DEF node
    <2>7. QED
        BY <2>1, <2>2, <2>3, <2>4, <2>5, <2>6
<1>2. CASE i \in Ids(mirror) /\ j \in Ids(mirror)
    BY <1>2 DEF Identified, Distinct, Ids
<1>3. ASSUME NEW p \in DOMAIN rows, NEW q \in DOMAIN rows, rows[p].born = rows[q].born,
             p \in Ids(mirror), q \notin Ids(mirror)
      PROVE  FALSE
    <2>1. PICK f \in Flushers, t \in Ids(mirror) : ~(t > 0) /\ rows[q].born = mirror.nodes[t].born
        BY <1>1, <1>3
    <2>2. t = p
        BY <1>3, <2>1 DEF Identified, Distinct, Ids
    <2>3. QED
        BY <1>0, <2>1, <2>2, TableFacts DEF Ranged, Typed
<1>4. CASE i \notin Ids(mirror) /\ j \notin Ids(mirror)
    <2>1. PICK f \in Flushers, t \in Ids(mirror) :
             /\ fpc[f] = "confirm" /\ t \in DOMAIN remap[f] /\ remap[f][t] = i
             /\ rows[i].born = mirror.nodes[t].born
        BY <1>1, <1>4
    <2>2. PICK g \in Flushers, u \in Ids(mirror) :
             /\ fpc[g] = "confirm" /\ u \in DOMAIN remap[g] /\ remap[g][u] = j
             /\ rows[j].born = mirror.nodes[u].born
        BY <1>1, <1>4
    <2>3. f = g
        BY <1>0, <2>1, <2>2 DEF Solo, Active
    <2>4. t = u
        BY <2>1, <2>2 DEF Identified, Distinct, Ids
    <2>5. QED
        BY <2>1, <2>2, <2>3, <2>4
<1>5. QED
    BY <1>2, <1>3, <1>4
LEMMA IdentifiedInit == Init => Identified
<1> SUFFICES ASSUME Init PROVE Identified
    OBVIOUS
<1>1. /\ mirror.nodes = rows /\ mirror.next = -1
      /\ \A i \in DOMAIN rows : i \in Int /\ 0 < i
      /\ \A i \in DOMAIN rows : rows[i].born = i /\ rows[i].ver = 1
    <2>1. \A i \in DOMAIN rows : i \in Int /\ 0 < i
        BY FirstRows DEF InitialIds
    <2>2. \A i \in DOMAIN rows : rows[i].born = i /\ rows[i].ver = 1
        BY FirstRows DEF Node
    <2>3. QED
        BY <2>1, <2>2 DEF Init
<1>2. QED
    BY <1>1 DEF Identified, Distinct, Ids

\* A step that keeps the keys of the nodes and writes rows under them.
LEMMA IdentifiedKept ==
    ASSUME Identified, mirror'.next = mirror.next,
           \A i \in Ids(mirror') : /\ i \in Ids(mirror)
                                   /\ mirror'.nodes[i].born = mirror.nodes[i].born
                                   /\ mirror'.nodes[i].ver > 0,
           \A i \in DOMAIN rows' : /\ rows'[i].ver > 0
                                   /\ i \in Ids(mirror) => rows'[i].born = mirror.nodes[i].born
    PROVE  Identified'
<1>1. Distinct(mirror'.nodes)
    BY DEF Identified, Distinct, Ids
<1>2. QED
    BY <1>1 DEF Identified

\* The mirror and the rows after a removal, in memory.
LEMMA RemoveEffect ==
    ASSUME RowsFollow, Base, NEW i \in Ids(mirror), Remove(i)
    PROVE  /\ Ids(mirror') = Ids(mirror) \ {i} /\ mirror'.next = mirror.next
           /\ \A j \in Ids(mirror) \ {i} : mirror'.nodes[j] = mirror.nodes[j]
           /\ ~PostgreSQL
           /\ DOMAIN rows' = DOMAIN rows \ {i}
           /\ \A j \in DOMAIN rows \ {i} : rows'[j] = rows[j]
<1>1. mirror \in Mirrors
    BY DEF Base, Typed
<1>2. ~PostgreSQL
    BY DEF Remove, Command, RowsFollow
<1>3. /\ DOMAIN rows' = DOMAIN rows \ {i}
      /\ \A j \in DOMAIN rows \ {i} : rows'[j] = rows[j]
    BY <1>2 DEF Remove, Restricted
<1>4. QED
    BY <1>1, <1>2, <1>3, DeletedFacts DEF Remove

\* The host's session writes the nodes as they are, and no row that a flush has
\* given out but not confirmed.
LEMMA HostCommitWrites ==
    ASSUME ~CanExpire, Base, Durable, HostCommit
    PROVE  /\ DOMAIN rows' = DOMAIN rows
           /\ \A i \in DOMAIN rows :
                 \/ rows'[i] = rows[i]
                 \/ i \in Ids(mirror) /\ rows'[i] = mirror.nodes[i]
                 \/ /\ i \notin Ids(mirror) /\ rows'[i] = pending[i]
                    /\ \A f \in Flushers : fpc[f] = "confirm" => i \notin Given(f)
<1>1. Typed /\ Ranged /\ Waiting
    BY DEF Base, Durable
<1>2. /\ DOMAIN rows' = DOMAIN rows
      /\ \A i \in DOMAIN rows :
            \/ rows'[i] = rows[i]
            \/ i \in DOMAIN pending /\ rows'[i] = pending[i] /\ pending[i].parent >= 0
    BY <1>1, HostCommitEffect
<1>3. \A i \in DOMAIN pending : pending[i].parent \in Int
    BY <1>1, TableFacts DEF Typed, AnyNode
<1>4. \A i \in DOMAIN pending \cap Ids(mirror) : pending[i] = mirror.nodes[i] \/ pending[i].parent < 0
    BY <1>1 DEF Waiting
<1>5. \A i \in DOMAIN pending : \A f \in Flushers : fpc[f] = "confirm" => i \notin Given(f)
    BY <1>1 DEF Waiting, Given
<1>6. QED
    BY <1>2, <1>3, <1>4, <1>5

\* A transaction under the lock writes the nodes of the mirror as they are.
LEMMA CommitWrites ==
    ASSUME ~CanExpire, Base, Durable, NEW f \in Flushers, Active(f), Persisted(f)
    PROVE  /\ DOMAIN rows \subseteq DOMAIN rows'
           /\ \A i \in DOMAIN rows' :
                 \/ i \in DOMAIN rows /\ rows'[i] = rows[i]
                 \/ /\ i \in DOMAIN rows \cap Ids(mirror)
                    /\ rows'[i].born = mirror.nodes[i].born /\ rows'[i].ver = mirror.nodes[i].ver
                 \/ /\ i \notin Ids(mirror) /\ i \notin DOMAIN rows
                    /\ \E j \in Ids(mirror) : /\ rows'[i].born = mirror.nodes[j].born
                                              /\ rows'[i].ver = mirror.nodes[j].ver
<1> DEFINE s == snap[f]
           new == NewIds(s)
<1>1. /\ Typed /\ Ranged /\ InFlight(f)
      /\ \A i \in Ids(mirror) : mirror.nodes[i] \in AnyNode
    BY TableFacts DEF Base, Durable, Flying, Typed, Mirrors, Ids
<1>2. /\ new \in Remaps
      /\ DOMAIN new = Temps(Placed(s)) /\ Placed(s) \subseteq DOMAIN s.nodes
      /\ \A i \in DOMAIN new : nextRow <= new[i] /\ 0 < new[i]
      /\ DOMAIN rows' = DOMAIN rows \cup {new[i] : i \in DOMAIN new}
      /\ \A i \in DOMAIN new : rows'[new[i]] = RealNode(new, s.nodes[i])
      /\ \A i \in Placed(s) \cap DOMAIN rows : rows'[i] = RealNode(new, s.nodes[i])
      /\ \A i \in DOMAIN rows \ Placed(s) : rows'[i] = rows[i]
    BY PersistEffect
<1>3. \A i \in DOMAIN s.nodes : i \in Ids(mirror) /\ s.nodes[i] = mirror.nodes[i]
    BY <1>1 DEF InFlight
<1> HIDE DEF new, s
<1>4. DOMAIN new \in SUBSET Int /\ new \in [DOMAIN new -> Int]
    BY <1>2 DEF Remaps
<1>5. \A i \in DOMAIN s.nodes : /\ RealNode(new, s.nodes[i]).born = mirror.nodes[i].born
                                /\ RealNode(new, s.nodes[i]).ver = mirror.nodes[i].ver
    BY <1>1, <1>3, <1>4, RealNodeType
<1>6. ASSUME NEW t \in DOMAIN new
      PROVE  /\ new[t] \notin Ids(mirror) /\ new[t] \notin DOMAIN rows
             /\ t \in Ids(mirror)
             /\ rows'[new[t]].born = mirror.nodes[t].born /\ rows'[new[t]].ver = mirror.nodes[t].ver
    <2>1. new[t] \in Int /\ nextRow \in Int /\ Ids(mirror) \subseteq Int /\ DOMAIN rows \subseteq Int
        BY <1>1, <1>4, TableFacts DEF Typed, Mirrors, Ids
    <2>2. new[t] \notin Ids(mirror) /\ new[t] \notin DOMAIN rows
        BY <1>1, <1>2, <2>1 DEF Ranged, IdOk
    <2>3. t \in DOMAIN s.nodes
        BY <1>2 DEF Temps
    <2>4. QED
        BY <1>2, <1>3, <1>5, <2>2, <2>3
<1>7. ASSUME NEW i \in DOMAIN rows
      PROVE  \/ rows'[i] = rows[i]
             \/ /\ i \in Ids(mirror)
                /\ rows'[i].born = mirror.nodes[i].born /\ rows'[i].ver = mirror.nodes[i].ver
    BY <1>2, <1>3, <1>5
<1>8. QED
    BY <1>2, <1>6, <1>7

LEMMA IdentifiedStep ==
    ASSUME ~CanExpire, Hosts = {}, RowsFollow, Base, Typed', Durable, LiveRows, Orderly, Identified,
           [Next]_vars
    PROVE  Identified'
<1> USE DEF db, flush
<1>0. /\ Typed /\ Ranged /\ Solo /\ Flying /\ Waiting
      /\ mirror \in Mirrors /\ Ids(mirror) \subseteq Int /\ mirror.next \in Int
      /\ \A i \in Ids(mirror) : mirror.nodes[i] \in AnyNode /\ mirror.nodes[i].ver \in Int
                                /\ mirror.nodes[i].ver > 0
                                /\ mirror.nodes[i].born \in Int
      /\ mirror.next < 0 /\ \A i \in DOMAIN rows : i > 0
      /\ \A i \in DOMAIN rows : /\ rows[i].ver > 0
                                /\ i \in Ids(mirror) => rows[i].born = mirror.nodes[i].born
    BY TableFacts DEF Base, Typed, Mirrors, Ids, Ranged, Durable, AnyNode, Identified
<1>1. ASSUME UNCHANGED rows, mirror' = mirror PROVE Identified'
    BY <1>1 DEF Identified
<1>2. ASSUME NEW parent \in Ids(mirror), NEW name \in Names, NEW kind \in {"dir", "file"},
             Create(parent, name, kind)
      PROVE  Identified'
    <2> DEFINE new == Created(mirror, parent, name, kind)
    <2>1. parent \in Int
        BY <1>0
    <2>2. /\ Ids(new) = Ids(mirror) \cup {mirror.next}
          /\ \A j \in Ids(mirror) \ {mirror.next} : new.nodes[j] = mirror.nodes[j]
          /\ new.nodes[mirror.next] = Node(parent, name, kind, 1, mirror.next)
          /\ new.next = mirror.next - 1
        BY <1>0, <2>1, CreatedFacts
    <2>3. mirror' = new /\ rows' = rows
        BY <1>2 DEF Create
    <2> HIDE DEF new
    <2>4. /\ Ids(mirror') = Ids(mirror) \cup {mirror.next}
          /\ \A j \in Ids(mirror) \ {mirror.next} : mirror'.nodes[j] = mirror.nodes[j]
          /\ mirror'.nodes[mirror.next].born = mirror.next /\ mirror'.nodes[mirror.next].ver = 1
          /\ mirror'.next = mirror.next - 1
        BY <2>2, <2>3 DEF Ids, Node
    <2>5. mirror.next \notin Ids(mirror)
        BY <1>0 DEF Ranged, IdOk
    <2>6. \A i \in Ids(mirror) : mirror.next < mirror.nodes[i].born
        BY DEF Identified
    <2>7. Distinct(mirror'.nodes)
        BY <1>0, <2>4, <2>5, <2>6 DEF Identified, Distinct, Ids
    <2>8. \A i \in Ids(mirror') : mirror'.next < mirror'.nodes[i].born /\ mirror'.nodes[i].ver > 0
        BY <1>0, <2>4, <2>6
    <2>9. QED
        BY <1>0, <2>3, <2>4, <2>7, <2>8 DEF Identified
<1>3. ASSUME NEW i \in Ids(mirror), Edit(i) PROVE Identified'
    <2>1. /\ Ids(mirror') = Ids(mirror) \cup {i} /\ mirror'.next = mirror.next
          /\ \A j \in Ids(mirror) \ {i} : mirror'.nodes[j] = mirror.nodes[j]
          /\ mirror'.nodes[i].ver = mirror.nodes[i].ver + 1
          /\ mirror'.nodes[i].born = mirror.nodes[i].born
        BY <1>0, <1>3, EditEffect
    <2>2. \A j \in Ids(mirror') : /\ j \in Ids(mirror)
                                  /\ mirror'.nodes[j].born = mirror.nodes[j].born
                                  /\ mirror'.nodes[j].ver > 0
        BY <1>0, <2>1
    <2>3. QED
        BY <1>0, <1>3, <2>1, <2>2, IdentifiedKept DEF Edit
<1>4. ASSUME NEW i \in Ids(mirror), Touch(i) \/ Cd(i) PROVE Identified'
    <2>1. mirror'.nodes = mirror.nodes /\ mirror'.next = mirror.next
        BY <1>0, <1>4, MarkEffect
    <2>2. rows' = rows
        BY <1>4 DEF Touch, Cd
    <2>3. QED
        BY <1>0, <2>1, <2>2, IdentifiedKept DEF Ids
<1>5. ASSUME NEW i \in Ids(mirror), Remove(i) PROVE Identified'
    BY <1>0, <1>5, RemoveEffect, IdentifiedKept
<1>6. ASSUME NEW i \in Ids(mirror), NEW parent \in Ids(mirror),
             MoveInto(i, parent) \/ \E name \in Names : Move(i, parent, name)
      PROVE  Identified'
    <2>1. parent \in Int /\ mirror.nodes[i].name \in Names \cup {NoParent}
        BY <1>0 DEF AnyNode
    <2>2. PICK name \in Names \cup {NoParent} : MoveTo(i, parent, name)
        BY <1>6, <2>1 DEF MoveInto, Move
    <2>3. /\ Ids(mirror') = Ids(mirror) /\ mirror'.next = mirror.next
          /\ \A j \in Ids(mirror) \ {i} : mirror'.nodes[j] = mirror.nodes[j]
          /\ mirror'.nodes[i].ver = mirror.nodes[i].ver + 1
          /\ mirror'.nodes[i].born = mirror.nodes[i].born
        BY <1>0, <2>1, <2>2, MoveEffect
    <2>4. /\ DOMAIN rows' = DOMAIN rows
          /\ \A j \in DOMAIN rows : rows'[j] = rows[j] \/ (j = i /\ rows'[j] = mirror'.nodes[j])
        BY <2>2 DEF MoveTo
    <2>5. mirror'.nodes[i].ver > 0
        BY <1>0, <2>3
    <2>6. QED
        BY <1>0, <2>3, <2>4, <2>5, IdentifiedKept
<1>7. ASSUME HostCommit PROVE Identified'
    <2>1. \A i \in DOMAIN rows : i \in Ids(mirror) \/ \E f \in Flushers : fpc[f] = "confirm" /\ i \in Given(f)
        BY DEF LiveRows
    <2>2. /\ DOMAIN rows' = DOMAIN rows /\ mirror' = mirror
          /\ \A i \in DOMAIN rows :
                rows'[i] = rows[i] \/ (i \in Ids(mirror) /\ rows'[i] = mirror.nodes[i])
        BY <1>7, <2>1, HostCommitWrites DEF HostCommit
    <2>3. QED
        BY <1>0, <2>2, IdentifiedKept
<1>8. ASSUME NEW f \in Flushers, FlushStep(f) \/ Expire(f) \/ Crash(f) PROVE Identified'
    <2>1. CASE StartFlush(f) \/ Refused(f) \/ TakeSnapshot(f) \/ Expire(f) \/ Crash(f)
        BY <1>1, <2>1 DEF StartFlush, Refused, TakeSnapshot, Expire, Crash
    <2>2. CASE Fail(f)
        BY <1>1, <2>2 DEF Fail, Orderly
    <2>3. CASE Commit(f)
        <3>1. Active(f) /\ Persisted(f) /\ mirror' = mirror
            BY <2>3 DEF Commit, Persist, Persisted, Active
        <3>2. \A i \in DOMAIN rows' : /\ rows'[i].ver > 0
                                      /\ i \in Ids(mirror) => rows'[i].born = mirror.nodes[i].born
            BY <1>0, <3>1, CommitWrites
        <3>3. QED
            BY <1>0, <3>1, <3>2, IdentifiedKept
    <2>4. CASE Confirm(f)
        <3> DEFINE real(i) == Real(remap[f], i)
        <3>1. /\ Ids(mirror') = {real(i) : i \in Ids(mirror)} /\ mirror'.next = mirror.next
              /\ \A i \in Ids(mirror) : mirror'.nodes[real(i)] = RealNode(remap[f], mirror.nodes[i])
              /\ \A i, j \in Ids(mirror) : real(i) = real(j) => i = j
            BY <2>4, ConfirmEffect
        <3>2. fpc[f] = "confirm" /\ rows' = rows /\ InFlight(f) /\ Committed(f)
            BY <1>0, <2>4 DEF Confirm, Flying, Active
        <3>3. /\ DOMAIN remap[f] = Temps(DOMAIN snap[f].nodes)
              /\ DOMAIN remap[f] \in SUBSET Int /\ remap[f] \in [DOMAIN remap[f] -> Int]
            <4>1. remap[f] \in Remaps
                BY <1>0 DEF Typed
            <4>2. DOMAIN remap[f] \in SUBSET Int /\ remap[f] \in [DOMAIN remap[f] -> Int]
                BY <4>1 DEF Remaps
            <4>3. QED
                BY <3>2, <4>2, OwnIsFresh
        <3>4. \A i \in Ids(mirror) : /\ mirror'.nodes[real(i)].born = mirror.nodes[i].born
                                     /\ mirror'.nodes[real(i)].ver = mirror.nodes[i].ver
            BY <1>0, <3>1, <3>3, RealNodeType
        <3>5. Distinct(mirror'.nodes)
            BY <3>1, <3>4 DEF Identified, Distinct, Ids
        <3>6. \A j \in Ids(mirror') : mirror'.next < mirror'.nodes[j].born /\ mirror'.nodes[j].ver > 0
            <4>1. \A i \in Ids(mirror) : mirror.next < mirror.nodes[i].born
                BY DEF Identified
            <4>2. QED
                BY <1>0, <3>1, <3>4, <4>1
        <3>7. ASSUME NEW i \in Ids(mirror), real(i) \in DOMAIN rows
              PROVE  rows[real(i)].born = mirror.nodes[i].born
            <4>1. CASE i \in DOMAIN remap[f]
                <5>1. i \in DOMAIN snap[f].nodes
                    BY <3>3, <4>1 DEF Temps
                <5>2. rows[real(i)] = RealNode(remap[f], mirror.nodes[i])
                    BY <3>2, <3>7, <5>1 DEF InFlight, Committed
                <5>3. QED
                    BY <1>0, <3>3, <5>2, RealNodeType
            <4>2. CASE i \notin DOMAIN remap[f]
                BY <1>0, <3>7, <4>2 DEF Real
            <4>3. QED
                BY <4>1, <4>2
        <3>8. \A j \in DOMAIN rows : j \in Ids(mirror') => rows[j].born = mirror'.nodes[j].born
            BY <3>1, <3>4, <3>7
        <3>9. QED
            BY <1>0, <3>2, <3>5, <3>6, <3>8 DEF Identified
    <2>5. QED
        BY <1>8, <2>1, <2>2, <2>3, <2>4 DEF FlushStep
<1>9. CASE UNCHANGED vars
    BY <1>1, <1>9 DEF vars
<1>10. QED
    BY <1>2, <1>3, <1>4, <1>5, <1>6, <1>7, <1>8, <1>9 DEF Next, AgentStep
\* The steps of WriteBack, in terms of the two tables.
LEMMA ChangeMaps ==
    ASSUME NEW k \in Keys,
           VersionIn(mirror'.nodes, k) = VersionIn(mirror.nodes, k) + 1,
           \A j \in Keys \ {k} : VersionIn(mirror'.nodes, j) = VersionIn(mirror.nodes, j),
           \A j \in Keys : VersionIn(rows', j) = VersionIn(rows, j)
    PROVE  Abstract!WNext
<1>1. Abstract!Change(k)
    BY DEF Abstract!Change
<1>2. QED
    BY <1>1 DEF Abstract!WNext

LEMMA ChangeThroughMaps ==
    ASSUME NEW k \in Keys, VersionIn(rows, k) > 0, VersionIn(mirror.nodes, k) > 0,
           VersionIn(mirror'.nodes, k) = VersionIn(mirror.nodes, k) + 1,
           VersionIn(rows', k) = VersionIn(mirror.nodes, k) + 1,
           \A j \in Keys \ {k} : /\ VersionIn(mirror'.nodes, j) = VersionIn(mirror.nodes, j)
                                 /\ VersionIn(rows', j) = VersionIn(rows, j)
    PROVE  Abstract!WNext
<1>1. Abstract!ChangeThrough(k)
    BY DEF Abstract!ChangeThrough
<1>2. QED
    BY <1>1 DEF Abstract!WNext

LEMMA DropMaps ==
    ASSUME NEW k \in Keys, VersionIn(mirror.nodes, k) > 0,
           VersionIn(mirror'.nodes, k) = 0, VersionIn(rows', k) = 0,
           \A j \in Keys \ {k} : /\ VersionIn(mirror'.nodes, j) = VersionIn(mirror.nodes, j)
                                 /\ VersionIn(rows', j) = VersionIn(rows, j)
    PROVE  Abstract!WNext
<1>1. Abstract!Drop(k)
    BY DEF Abstract!Drop
<1>2. QED
    BY <1>1 DEF Abstract!WNext

LEMMA PersistMaps ==
    ASSUME \A k \in Keys : VersionIn(mirror'.nodes, k) = VersionIn(mirror.nodes, k),
           \A k \in Keys :
               \/ VersionIn(rows', k) = VersionIn(rows, k)
               \/ /\ VersionIn(rows', k) = VersionIn(mirror.nodes, k)
                  /\ VersionIn(mirror.nodes, k) > 0
    PROVE  Abstract!WNext
<1> DEFINE S == {k \in Keys : /\ VersionIn(mirror.nodes, k) > 0
                              /\ VersionIn(rows', k) = VersionIn(mirror.nodes, k)}
<1>1. S \in SUBSET {k \in Keys : [j \in Keys |-> VersionIn(mirror.nodes, j)][k] > 0}
    OBVIOUS
<1>2. \A k \in Keys : VersionIn(rows', k) = IF k \in S THEN VersionIn(mirror.nodes, k)
                                                       ELSE VersionIn(rows, k)
    OBVIOUS
<1> HIDE DEF S
<1>3. [k \in Keys |-> VersionIn(rows', k)] =
      [k \in Keys |-> IF k \in S THEN [j \in Keys |-> VersionIn(mirror.nodes, j)][k]
                                 ELSE [j \in Keys |-> VersionIn(rows, j)][k]]
    BY <1>2
<1>4. [k \in Keys |-> VersionIn(mirror'.nodes, k)] = [k \in Keys |-> VersionIn(mirror.nodes, k)]
    OBVIOUS
<1>5. Abstract!PersistSome
    BY <1>1, <1>3, <1>4 DEF Abstract!PersistSome
<1>6. QED
    BY <1>5 DEF Abstract!WNext

LEMMA StutterMaps ==
    ASSUME \A k \in Keys : /\ VersionIn(mirror'.nodes, k) = VersionIn(mirror.nodes, k)
                           /\ VersionIn(rows', k) = VersionIn(rows, k)
    PROVE  UNCHANGED Abstract!wvars
BY DEF Abstract!wvars

\* A step that leaves the mirror alone and writes, in the rows, nothing but what
\* the mirror has.
LEMMA WritingMaps ==
    ASSUME Typed, Identified, Distinct(rows), Distinct(rows'), mirror'.nodes = mirror.nodes,
           DOMAIN rows \subseteq DOMAIN rows', \A i \in DOMAIN rows : rows'[i].born = rows[i].born,
           \A i \in DOMAIN rows' :
               \/ i \in DOMAIN rows /\ rows'[i] = rows[i]
               \/ \E j \in Ids(mirror) : /\ rows'[i].born = mirror.nodes[j].born
                                         /\ rows'[i].ver = mirror.nodes[j].ver
    PROVE  Abstract!WNext
<1>1. ASSUME NEW k \in Keys
      PROVE  \/ VersionIn(rows', k) = VersionIn(rows, k)
             \/ /\ VersionIn(rows', k) = VersionIn(mirror.nodes, k)
                /\ VersionIn(mirror.nodes, k) > 0
    <2>1. CASE \E i \in DOMAIN rows' : rows'[i].born = k
        <3>1. PICK i \in DOMAIN rows' : rows'[i].born = k
            BY <2>1
        <3>2. VersionIn(rows', k) = rows'[i].ver
            BY <3>1, VersionOfNode
        <3>3. CASE i \in DOMAIN rows /\ rows'[i] = rows[i]
            BY <3>1, <3>2, <3>3, VersionOfNode
        <3>4. ASSUME NEW j \in Ids(mirror), rows'[i].born = mirror.nodes[j].born,
                     rows'[i].ver = mirror.nodes[j].ver
              PROVE  /\ VersionIn(rows', k) = VersionIn(mirror.nodes, k)
                     /\ VersionIn(mirror.nodes, k) > 0
            <4>1. Distinct(mirror.nodes) /\ j \in DOMAIN mirror.nodes /\ mirror.nodes[j].ver > 0
                BY DEF Identified, Ids
            <4>2. VersionIn(mirror.nodes, k) = mirror.nodes[j].ver
                BY <3>1, <3>4, <4>1, VersionOfNode
            <4>3. QED
                BY <3>2, <3>4, <4>1, <4>2
        <3>5. QED
            BY <3>3, <3>4
    <2>2. CASE ~\E i \in DOMAIN rows' : rows'[i].born = k
        <3>1. \A i \in DOMAIN rows : rows[i].born # k
            BY <2>2
        <3>2. VersionIn(rows', k) = 0 /\ VersionIn(rows, k) = 0
            BY <2>2, <3>1, VersionOfNone
        <3>3. QED
            BY <3>2
    <2>3. QED
        BY <2>1, <2>2
<1>2. QED
    BY <1>1, PersistMaps

\* Every step of the workspace and of its flushes is one of WriteBack's, or
\* changes neither what is live nor what is durable.
LEMMA StepMaps ==
    ASSUME ~CanExpire, Hosts = {}, RowsFollow, Base, Durable, LiveRows, Orderly, Identified,
           Distinct(rows), Typed', Identified', Distinct(rows'), Next
    PROVE  Abstract!WNext \/ UNCHANGED Abstract!wvars
<1> USE DEF db, flush
<1>0. /\ Typed /\ Ranged /\ Solo /\ Flying /\ Waiting /\ Bears(mirror.nodes)
      /\ mirror \in Mirrors /\ Ids(mirror) \subseteq Int /\ mirror.next \in Int
      /\ \A i \in Ids(mirror) : /\ mirror.nodes[i] \in AnyNode /\ mirror.nodes[i].ver \in Int
                                /\ mirror.nodes[i].ver > 0
      /\ Distinct(mirror.nodes) /\ Distinct(mirror'.nodes)
      /\ \A i \in DOMAIN rows : /\ rows[i].ver > 0
                                /\ i \in Ids(mirror) => rows[i].born = mirror.nodes[i].born
    BY TableFacts DEF Base, Typed, Mirrors, Ids, Ranged, Durable, AnyNode, Identified, Born
<1>1. ASSUME rows' = rows, mirror'.nodes = mirror.nodes PROVE UNCHANGED Abstract!wvars
    BY <1>1, StutterMaps
<1>2. ASSUME NEW parent \in Ids(mirror), NEW name \in Names, NEW kind \in {"dir", "file"},
             Create(parent, name, kind)
      PROVE  Abstract!WNext
    <2> DEFINE new == Created(mirror, parent, name, kind)
               k == mirror.next
    <2>1. parent \in Int
        BY <1>0
    <2>2. /\ Ids(new) = Ids(mirror) \cup {k}
          /\ \A j \in Ids(mirror) \ {k} : new.nodes[j] = mirror.nodes[j]
          /\ new.nodes[k] = Node(parent, name, kind, 1, k)
        BY <1>0, <2>1, CreatedFacts
    <2>3. mirror' = new /\ rows' = rows /\ -MaxTemp <= k
        BY <1>2 DEF Create
    <2>4. k \in Int /\ k <= -1 /\ MaxTemp \in Nat
        BY <1>0, FlushAssumption DEF Ranged
    <2>5. k \in Keys /\ k \notin Ids(mirror)
        BY <1>0, <2>3, <2>4 DEF Keys, Ranged, IdOk
    <2> HIDE DEF new, k
    <2>6. /\ DOMAIN mirror.nodes = DOMAIN mirror'.nodes \ {k} /\ k \in DOMAIN mirror'.nodes
          /\ \A j \in DOMAIN mirror.nodes : mirror.nodes[j] = mirror'.nodes[j]
          /\ mirror'.nodes[k].born = k /\ mirror'.nodes[k].ver = 1
        BY <2>2, <2>3, <2>5 DEF Ids, Node
    <2>7. /\ VersionIn(mirror'.nodes, k) = 1 /\ VersionIn(mirror.nodes, k) = 0
          /\ \A j : j # k => VersionIn(mirror.nodes, j) = VersionIn(mirror'.nodes, j)
        BY <1>0, <2>6, OneNodeMore
    <2>8. QED
        BY <2>3, <2>5, <2>7, ChangeMaps
<1>3. ASSUME NEW i \in Ids(mirror), DOMAIN mirror'.nodes = DOMAIN mirror.nodes,
             \A j \in Ids(mirror) \ {i} : mirror'.nodes[j] = mirror.nodes[j],
             mirror'.nodes[i].born = mirror.nodes[i].born,
             mirror'.nodes[i].ver = mirror.nodes[i].ver + 1
      PROVE  /\ mirror.nodes[i].born \in Keys
             /\ VersionIn(mirror.nodes, mirror.nodes[i].born) = mirror.nodes[i].ver
             /\ VersionIn(mirror'.nodes, mirror.nodes[i].born) = mirror.nodes[i].ver + 1
             /\ \A j : j # mirror.nodes[i].born =>
                   VersionIn(mirror'.nodes, j) = VersionIn(mirror.nodes, j)
    <2>1. i \in DOMAIN mirror.nodes
        BY DEF Ids
    <2>2. mirror.nodes[i].born \in Keys
        BY <1>0, <2>1 DEF Bears
    <2>3. /\ VersionIn(mirror'.nodes, mirror.nodes[i].born) = mirror'.nodes[i].ver
          /\ VersionIn(mirror.nodes, mirror.nodes[i].born) = mirror.nodes[i].ver
          /\ \A j : j # mirror.nodes[i].born =>
                VersionIn(mirror'.nodes, j) = VersionIn(mirror.nodes, j)
        BY <1>0, <1>3, <2>1, OneVersionChanges DEF Ids
    <2>4. QED
        BY <1>3, <2>2, <2>3
<1>4. ASSUME NEW i \in Ids(mirror), Edit(i) PROVE Abstract!WNext
    <2>1. /\ Ids(mirror') = Ids(mirror) \cup {i}
          /\ \A j \in Ids(mirror) \ {i} : mirror'.nodes[j] = mirror.nodes[j]
          /\ mirror'.nodes[i].ver = mirror.nodes[i].ver + 1
          /\ mirror'.nodes[i].born = mirror.nodes[i].born
        BY <1>0, <1>4, EditEffect
    <2>2. DOMAIN mirror'.nodes = DOMAIN mirror.nodes /\ rows' = rows
        BY <1>4, <2>1 DEF Ids, Edit
    <2>3. QED
        BY <1>3, <2>1, <2>2, ChangeMaps
<1>5. ASSUME NEW i \in Ids(mirror), Touch(i) \/ Cd(i) PROVE UNCHANGED Abstract!wvars
    <2>1. mirror'.nodes = mirror.nodes
        BY <1>0, <1>5, MarkEffect
    <2>2. rows' = rows
        BY <1>5 DEF Touch, Cd
    <2>3. QED
        BY <1>1, <2>1, <2>2
<1>6. ASSUME NEW i \in Ids(mirror), Remove(i) PROVE Abstract!WNext
    <2> DEFINE k == mirror.nodes[i].born
    <2>1. /\ Ids(mirror') = Ids(mirror) \ {i}
          /\ \A j \in Ids(mirror) \ {i} : mirror'.nodes[j] = mirror.nodes[j]
          /\ DOMAIN rows' = DOMAIN rows \ {i}
          /\ \A j \in DOMAIN rows \ {i} : rows'[j] = rows[j]
          /\ lock = NoOne
        BY <1>6, RemoveEffect DEF Remove, Command
    <2>2. \A f \in Flushers : fpc[f] # "confirm"
        BY <1>0, <2>1, FlushAssumption DEF Solo, Active
    <2>3. DOMAIN rows \subseteq Ids(mirror)
        BY <2>2 DEF LiveRows
    <2>4. i \in DOMAIN mirror.nodes /\ k \in Keys
        BY <1>0 DEF Ids, Bears
    <2>5. /\ VersionIn(mirror.nodes, k) = mirror.nodes[i].ver
          /\ VersionIn(mirror'.nodes, k) = 0
          /\ \A j : j # k => VersionIn(mirror'.nodes, j) = VersionIn(mirror.nodes, j)
        BY <1>0, <2>1, <2>4, OneNodeMore DEF Ids
    <2>6. VersionIn(rows', k) = 0 /\ \A j : j # k => VersionIn(rows', j) = VersionIn(rows, j)
        <3>1. CASE i \in DOMAIN rows
            <4>1. rows[i].born = k
                BY <1>0, <3>1
            <4>2. /\ VersionIn(rows', rows[i].born) = 0
                  /\ \A j : j # rows[i].born => VersionIn(rows', j) = VersionIn(rows, j)
                BY <2>1, <3>1, OneNodeMore
            <4>3. QED
                BY <4>1, <4>2
        <3>2. CASE i \notin DOMAIN rows
            <4>1. rows' = rows
                <5>1. rows' \in Tables /\ rows \in Tables
                    BY <1>0 DEF Typed
                <5>2. QED
                    BY <2>1, <3>2, <5>1, TableFacts
            <4>2. \A j \in DOMAIN rows : rows[j].born # k
                BY <1>0, <2>3, <3>2 DEF Distinct, Ids
            <4>3. QED
                BY <4>1, <4>2, VersionOfNone
        <3>3. QED
            BY <3>1, <3>2
    <2>7. QED
        BY <1>0, <2>4, <2>5, <2>6, DropMaps
<1>7. ASSUME NEW i \in Ids(mirror), NEW parent \in Ids(mirror),
             MoveInto(i, parent) \/ \E name \in Names : Move(i, parent, name)
      PROVE  Abstract!WNext
    <2> DEFINE k == mirror.nodes[i].born
    <2>1. parent \in Int /\ mirror.nodes[i].name \in Names \cup {NoParent}
        BY <1>0 DEF AnyNode
    <2>2. PICK name \in Names \cup {NoParent} : MoveTo(i, parent, name)
        BY <1>7, <2>1 DEF MoveInto, Move
    <2>3. /\ Ids(mirror') = Ids(mirror)
          /\ \A j \in Ids(mirror) \ {i} : mirror'.nodes[j] = mirror.nodes[j]
          /\ mirror'.nodes[i].ver = mirror.nodes[i].ver + 1
          /\ mirror'.nodes[i].born = mirror.nodes[i].born
        BY <1>0, <2>1, <2>2, MoveEffect
    <2>4. /\ k \in Keys
          /\ VersionIn(mirror.nodes, k) = mirror.nodes[i].ver
          /\ VersionIn(mirror'.nodes, k) = mirror.nodes[i].ver + 1
          /\ \A j : j # k => VersionIn(mirror'.nodes, j) = VersionIn(mirror.nodes, j)
        BY <1>3, <2>3 DEF Ids
    <2>5. CASE i \notin DOMAIN rows \/ PostgreSQL
        <3>1. rows' = rows
            BY <2>2, <2>5 DEF MoveTo
        <3>2. QED
            BY <2>4, <3>1, ChangeMaps
    <2>6. CASE i \in DOMAIN rows /\ ~PostgreSQL
        <3>1. /\ DOMAIN rows' = DOMAIN rows /\ rows'[i] = mirror'.nodes[i]
              /\ \A j \in DOMAIN rows \ {i} : rows'[j] = rows[j]
            BY <2>2, <2>6 DEF MoveTo
        <3>2. rows[i].born = k /\ rows'[i].born = k
            BY <1>0, <2>3, <2>6, <3>1
        <3>3. /\ VersionIn(rows', rows[i].born) = rows'[i].ver
              /\ VersionIn(rows, rows[i].born) = rows[i].ver
              /\ \A j : j # rows[i].born => VersionIn(rows', j) = VersionIn(rows, j)
            BY <2>6, <3>1, <3>2, OneVersionChanges
        <3>4. QED
            BY <1>0, <2>3, <2>4, <2>6, <3>1, <3>2, <3>3, ChangeThroughMaps
    <2>7. QED
        BY <2>5, <2>6
<1>8. ASSUME HostCommit PROVE Abstract!WNext
    <2>1. \A i \in DOMAIN rows : i \in Ids(mirror) \/ \E f \in Flushers : fpc[f] = "confirm" /\ i \in Given(f)
        BY DEF LiveRows
    <2>2. /\ DOMAIN rows' = DOMAIN rows /\ mirror' = mirror
          /\ \A i \in DOMAIN rows :
                rows'[i] = rows[i] \/ (i \in Ids(mirror) /\ rows'[i] = mirror.nodes[i])
        BY <1>8, <2>1, HostCommitWrites DEF HostCommit
    <2>3. \A i \in DOMAIN rows : rows'[i].born = rows[i].born
        BY <1>0, <2>2
    <2>4. QED
        BY <1>0, <2>2, <2>3, WritingMaps
<1>9. ASSUME NEW f \in Flushers, FlushStep(f) \/ Expire(f) \/ Crash(f)
      PROVE  Abstract!WNext \/ UNCHANGED Abstract!wvars
    <2>1. CASE StartFlush(f) \/ Refused(f) \/ TakeSnapshot(f) \/ Expire(f) \/ Crash(f)
        BY <1>1, <2>1 DEF StartFlush, Refused, TakeSnapshot, Expire, Crash
    <2>2. CASE Fail(f)
        BY <1>1, <2>2 DEF Fail, Orderly
    <2>3. CASE Commit(f)
        <3>1. Active(f) /\ Persisted(f) /\ mirror' = mirror
            BY <2>3 DEF Commit, Persist, Persisted, Active
        <3>2. /\ DOMAIN rows \subseteq DOMAIN rows'
              /\ \A i \in DOMAIN rows' :
                    \/ i \in DOMAIN rows /\ rows'[i] = rows[i]
                    \/ /\ i \in DOMAIN rows \cap Ids(mirror)
                       /\ rows'[i].born = mirror.nodes[i].born /\ rows'[i].ver = mirror.nodes[i].ver
                    \/ /\ i \notin Ids(mirror) /\ i \notin DOMAIN rows
                       /\ \E j \in Ids(mirror) : /\ rows'[i].born = mirror.nodes[j].born
                                                 /\ rows'[i].ver = mirror.nodes[j].ver
            BY <3>1, CommitWrites
        <3>3. \A i \in DOMAIN rows : rows'[i].born = rows[i].born
            BY <1>0, <3>2
        <3>4. \A i \in DOMAIN rows' :
                 \/ i \in DOMAIN rows /\ rows'[i] = rows[i]
                 \/ \E j \in Ids(mirror) : /\ rows'[i].born = mirror.nodes[j].born
                                           /\ rows'[i].ver = mirror.nodes[j].ver
            BY <3>2
        <3>5. QED
            BY <1>0, <3>1, <3>2, <3>3, <3>4, WritingMaps
    <2>4. CASE Confirm(f)
        <3> DEFINE real(i) == Real(remap[f], i)
        <3>1. /\ Ids(mirror') = {real(i) : i \in Ids(mirror)}
              /\ \A i \in Ids(mirror) : mirror'.nodes[real(i)] = RealNode(remap[f], mirror.nodes[i])
            BY <2>4, ConfirmEffect
        <3>2. rows' = rows
            BY <2>4 DEF Confirm
        <3>3. DOMAIN remap[f] \in SUBSET Int /\ remap[f] \in [DOMAIN remap[f] -> Int]
            <4>1. remap[f] \in Remaps
                BY <1>0 DEF Typed
            <4>2. QED
                BY <4>1 DEF Remaps
        <3>4. \A i \in Ids(mirror) : /\ mirror'.nodes[real(i)].born = mirror.nodes[i].born
                                     /\ mirror'.nodes[real(i)].ver = mirror.nodes[i].ver
            BY <1>0, <3>1, <3>3, RealNodeType
        <3> HIDE DEF real
        <3> DEFINE old == mirror.nodes
                   new == mirror'.nodes
        <3>5. \A i \in DOMAIN old : \E j \in DOMAIN new :
                    new[j].born = old[i].born /\ new[j].ver = old[i].ver
            BY <3>1, <3>4 DEF Ids
        <3>6. \A j \in DOMAIN new : \E i \in DOMAIN old : new[j].born = old[i].born
            BY <3>1, <3>4 DEF Ids
        <3>7. Distinct(old) /\ Distinct(new)
            BY <1>0
        <3> HIDE DEF old, new
        <3>8. \A k \in Keys : VersionIn(new, k) = VersionIn(old, k)
            BY <3>5, <3>6, <3>7, VersionsKept
        <3> USE DEF old, new
        <3>9. QED
            BY <3>2, <3>8, StutterMaps
    <2>5. QED
        BY <1>9, <2>1, <2>2, <2>3, <2>4 DEF FlushStep
<1>10. QED
    BY <1>2, <1>4, <1>5, <1>6, <1>7, <1>8, <1>9 DEF Next, AgentStep

\* At first the database is what the mirror has.
LEMMA InitMaps == Init => Abstract!WInit
<1> SUFFICES ASSUME Init PROVE Abstract!WInit
    OBVIOUS
<1>1. mirror.nodes = rows /\ Distinct(rows) /\ \A i \in DOMAIN rows : rows[i].ver \in Nat
    BY FirstRows, IdentifiedInit, TableFacts DEF Init, Identified, AnyNode
<1>2. ASSUME NEW k \in Keys PROVE VersionIn(rows, k) \in Nat
    <2>1. CASE \E i \in DOMAIN rows : rows[i].born = k
        BY <1>1, <2>1, VersionOfNode
    <2>2. CASE ~\E i \in DOMAIN rows : rows[i].born = k
        BY <2>2, VersionOfNone
    <2>3. QED
        BY <2>1, <2>2
<1>3. QED
    BY <1>1, <1>2 DEF Abstract!WInit

\* Where nothing leaves a row behind and no host puts a node back, the mirror
\* and the rows, node by node, are a write-back cache and its store: locks,
\* batches, temporary ids, remapping, refused and failed flushes and the host's
\* late commits do not show.
THEOREM FlushesWriteBack ==
    ASSUME ~CanExpire, Hosts = {}, Session, RowsFollow
    PROVE  Spec /\ []Orderly => WritesBack
<1>1. Settled
    BY DEF Settled
<1>2. Init => LiveRows
    BY DEF Init, LiveRows, Ids
<1>3. Base /\ Durable /\ Orderly /\ LiveRows /\ Identified /\ [Next]_vars => LiveRows' /\ Identified'
    <2> SUFFICES ASSUME Base, Durable, Orderly, LiveRows, Identified, [Next]_vars
                 PROVE  LiveRows' /\ Identified'
        OBVIOUS
    <2>1. Identified'
        BY TypedStep, IdentifiedStep
    <2>2. CASE UNCHANGED vars
        BY <2>1, <2>2, LiveKept DEF vars, db, flush
    <2>3. CASE Next
        BY <2>1, <2>3, LiveCommands, LiveFlushes DEF Next
    <2>4. QED
        BY <2>2, <2>3
<1>4. Spec /\ []Orderly => [](LiveRows /\ Identified)
    BY <1>1, <1>2, <1>3, IdentifiedInit, BaseAlways, DurableAlways, PTL DEF Spec
<1>5. Base /\ Durable /\ LiveRows /\ Identified => Distinct(rows)
    BY RowsDistinct
<1>6. Spec /\ []Orderly => []Distinct(rows)
    BY <1>1, <1>4, <1>5, BaseAlways, DurableAlways, PTL
<1>7. Base /\ Durable /\ Orderly /\ LiveRows /\ Identified /\ Distinct(rows)
         /\ Identified' /\ Distinct(rows)' /\ [Next]_vars => [Abstract!WNext]_(Abstract!wvars)
    <2> SUFFICES ASSUME Base, Durable, Orderly, LiveRows, Identified, Distinct(rows),
                        Identified', Distinct(rows'), [Next]_vars
                 PROVE  Abstract!WNext \/ UNCHANGED Abstract!wvars
        OBVIOUS
    <2>1. CASE UNCHANGED vars
        BY <2>1, StutterMaps DEF vars, db
    <2>2. CASE Next
        BY <2>2, TypedStep, StepMaps
    <2>3. QED
        BY <2>1, <2>2
<1>8. QED
    BY <1>1, <1>4, <1>6, <1>7, InitMaps, BaseAlways, DurableAlways, PTL
    DEF Spec, WritesBack, Abstract!WSpec
=============================================================================
