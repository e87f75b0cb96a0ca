---------------------------- MODULE Mirror_proofs ----------------------------
(* Facts about the operators of Mirror that the proofs about the modules    *)
(* built on it need: what a batch holds, that fresh keys are distinct, and  *)
(* what remapping and confirming do to nodes and to dirty sets.             *)
EXTENDS Mirror, FiniteSetTheorems, WellFoundedInduction, TLAPS

-----------------------------------------------------------------------------
(* Types.                                                                   *)

AnyNode == [parent : Int, name : Names \cup {NoParent}, kind : {"dir", "file"},
            ver : Nat, born : Int]
Tables == UNION {[S -> AnyNode] : S \in SUBSET Int}
Mirrors == [nodes : Tables, dirtyC : SUBSET Int, dirtyS : SUBSET Int, cwd : Int,
            dirtyCwd : BOOLEAN, next : Int]

\* A table is a function on its ids.
LEMMA TableFacts ==
    ASSUME NEW table \in Tables
    PROVE  /\ DOMAIN table \in SUBSET Int
           /\ table \in [DOMAIN table -> AnyNode]
           /\ \A i \in DOMAIN table : table[i] \in AnyNode
BY DEF Tables

\* What is a function on ids is a table.
LEMMA TableIntro ==
    ASSUME NEW S \in SUBSET Int, NEW table \in [S -> AnyNode]
    PROVE  table \in Tables
BY DEF Tables

\* Mirrors with the same fields are the same.
LEMMA MirrorEqual ==
    ASSUME NEW m \in Mirrors, NEW n \in Mirrors,
           m.nodes = n.nodes, m.dirtyC = n.dirtyC, m.dirtyS = n.dirtyS,
           m.cwd = n.cwd, m.dirtyCwd = n.dirtyCwd, m.next = n.next
    PROVE  m = n
BY DEF Mirrors

LEMMA RestrictedTable ==
    ASSUME NEW table \in Tables, NEW S \in SUBSET DOMAIN table
    PROVE  /\ Restricted(table, S) \in Tables
           /\ DOMAIN Restricted(table, S) = S
           /\ \A i \in S : Restricted(table, S)[i] = table[i]
<1>1. Restricted(table, S) \in [S -> AnyNode]
    BY TableFacts DEF Restricted
<1>2. S \in SUBSET Int
    BY TableFacts
<1>3. QED
    BY <1>1, <1>2, TableIntro DEF Restricted

LEMMA OverTable ==
    ASSUME NEW changes \in Tables, NEW table \in Tables
    PROVE  /\ Over(changes, table) \in Tables
           /\ DOMAIN Over(changes, table) = DOMAIN changes \cup DOMAIN table
           /\ \A i \in DOMAIN changes : Over(changes, table)[i] = changes[i]
           /\ \A i \in DOMAIN table \ DOMAIN changes : Over(changes, table)[i] = table[i]
<1>1. Over(changes, table) \in [DOMAIN changes \cup DOMAIN table -> AnyNode]
    BY TableFacts DEF Over
<1>2. (DOMAIN changes \cup DOMAIN table) \in SUBSET Int
    BY TableFacts
<1>3. QED
    BY <1>1, <1>2, TableIntro DEF Over

-----------------------------------------------------------------------------
(* Batches.                                                                 *)

\* What has room is taken whole.
LEMMA FirstAll ==
    ASSUME NEW S \in SUBSET Int, IsFiniteSet(S), NEW n \in Int, Cardinality(S) <= n
    PROVE  First(S, n) = S
<1>1. ASSUME NEW i \in S PROVE Cardinality({j \in S : j < i}) < n
    <2>1. {j \in S : j < i} \in SUBSET (S \ {i})
        OBVIOUS
    <2>2. /\ IsFiniteSet(S \ {i})
          /\ Cardinality(S \ {i}) = Cardinality(S) - 1
        BY FS_RemoveElement
    <2>3. Cardinality({j \in S : j < i}) <= Cardinality(S) - 1
        BY <2>1, <2>2, FS_Subset
    <2>4. /\ Cardinality(S) \in Nat
          /\ Cardinality({j \in S : j < i}) \in Nat
        BY <2>1, <2>2, FS_Subset, FS_CardinalityType
    <2>5. QED
        BY <2>3, <2>4
<1>2. QED
    BY <1>1 DEF First

\* The next key of each temporary id differs from the others.
FreshKeys(temps, next, remap) ==
    remap = [i \in temps |-> next + Cardinality({j \in temps : j > i})]

LEMMA FreshKeysDiffer ==
    ASSUME NEW temps \in SUBSET Int, IsFiniteSet(temps), NEW next \in Int, NEW remap,
           FreshKeys(temps, next, remap)
    PROVE  /\ DOMAIN remap = temps
           /\ \A i \in temps : remap[i] \in next..(next + Cardinality(temps) - 1)
           /\ \A i, j \in temps : remap[i] = remap[j] => i = j
<1> DEFINE Above(i) == {j \in temps : j > i}
<1>1. Cardinality(temps) \in Nat
    BY FS_CardinalityType
<1>2. ASSUME NEW i \in temps
      PROVE  /\ IsFiniteSet(Above(i))
             /\ Cardinality(Above(i)) \in Nat
             /\ Cardinality(Above(i)) <= Cardinality(temps) - 1
    <2>1. Above(i) \in SUBSET (temps \ {i})
        OBVIOUS
    <2>2. /\ IsFiniteSet(temps \ {i})
          /\ Cardinality(temps \ {i}) = Cardinality(temps) - 1
        BY FS_RemoveElement
    <2>3. QED
        BY <2>1, <2>2, FS_Subset, FS_CardinalityType
<1>3. ASSUME NEW i \in temps, NEW j \in temps, i < j
      PROVE  Cardinality(Above(j)) < Cardinality(Above(i))
    <2>1. Above(j) \in SUBSET Above(i)
        <3>1. \A k \in temps : k > j => k > i
            BY <1>3
        <3>2. QED
            BY <3>1
    <2>2. j \in Above(i) /\ j \notin Above(j)
        BY <1>3
    <2>3. Above(j) # Above(i)
        BY <2>2
    <2>4. /\ Cardinality(Above(j)) <= Cardinality(Above(i))
          /\ Cardinality(Above(j)) # Cardinality(Above(i))
        BY <1>2, <2>1, <2>3, FS_Subset
    <2>5. QED
        BY <1>2, <2>4
<1>4. \A i \in temps : remap[i] = next + Cardinality(Above(i))
    BY DEF FreshKeys
<1>5. DOMAIN remap = temps
    BY DEF FreshKeys
<1> HIDE DEF Above
<1>6. ASSUME NEW i \in temps, NEW j \in temps, remap[i] = remap[j] PROVE i = j
    <2>1. Cardinality(Above(i)) = Cardinality(Above(j))
        BY <1>2, <1>4, <1>6
    <2>2. ~(i < j) /\ ~(j < i)
        BY <1>2, <1>3, <2>1
    <2>3. QED
        BY <2>2
<1>7. \A i \in temps : remap[i] \in next..(next + Cardinality(temps) - 1)
    BY <1>1, <1>2, <1>4
<1>8. QED
    BY <1>5, <1>6, <1>7

\* A batch consists of dirty ids.
LEMMA BatchIsDirty ==
    ASSUME NEW m \in Mirrors
    PROVE  /\ ContentBatch(m) \in SUBSET m.dirtyC
           /\ StructureBatch(m) \in SUBSET m.dirtyS
           /\ BatchIds(m) \in SUBSET DirtyIds(m)
BY DEF ContentBatch, StructureBatch, BatchIds, DirtyIds, First

\* When all that is dirty has room in one batch, the batch is all that is dirty.
LEMMA BatchIsAll ==
    ASSUME NEW m \in Mirrors, IsFiniteSet(DirtyIds(m)), Cardinality(DirtyIds(m)) <= Batch
    PROVE  /\ ContentBatch(m) = m.dirtyC
           /\ StructureBatch(m) = m.dirtyS
           /\ BatchIds(m) = DirtyIds(m)
<1> USE BatchAssumption
<1>1. /\ m.dirtyC \in SUBSET Int /\ m.dirtyS \in SUBSET Int
      /\ m.dirtyC \in SUBSET DirtyIds(m) /\ m.dirtyS \in SUBSET DirtyIds(m)
    BY DEF Mirrors, DirtyIds
<1>2. Cardinality(DirtyIds(m)) \in Nat
    BY FS_CardinalityType
<1>3. /\ IsFiniteSet(m.dirtyC) /\ Cardinality(m.dirtyC) <= Cardinality(DirtyIds(m))
      /\ IsFiniteSet(m.dirtyS) /\ Cardinality(m.dirtyS) <= Cardinality(DirtyIds(m))
      /\ Cardinality(m.dirtyC) \in Nat /\ Cardinality(m.dirtyS) \in Nat
    BY <1>1, FS_Subset, FS_CardinalityType
<1>4. ContentBatch(m) = m.dirtyC /\ StructureBatch(m) = m.dirtyS
    BY <1>1, <1>2, <1>3, FirstAll DEF ContentBatch, StructureBatch
<1> DEFINE Rest == m.dirtyC \ m.dirtyS
<1>5. Rest = DirtyIds(m) \ m.dirtyS /\ DirtyIds(m) \cap m.dirtyS = m.dirtyS
    BY DEF DirtyIds
<1>6. /\ IsFiniteSet(Rest)
      /\ Cardinality(Rest) = Cardinality(DirtyIds(m)) - Cardinality(m.dirtyS)
    BY <1>5, FS_Difference
<1>7. Cardinality(Rest) <= Batch - Cardinality(m.dirtyS)
    BY <1>2, <1>3, <1>6
<1>8. First(Rest, Batch - Cardinality(m.dirtyS)) = Rest
    BY <1>1, <1>3, <1>6, <1>7, FirstAll
<1>9. BatchIds(m) = m.dirtyS \cup Rest
    BY <1>4, <1>8 DEF BatchIds
<1>10. QED
    BY <1>4, <1>9 DEF DirtyIds

-----------------------------------------------------------------------------
(* Remapping and confirming.                                                *)

\* The map gives different new ids that the mirror does not have.
Fresh(m, remap) ==
    /\ DOMAIN remap \in SUBSET Int
    /\ remap \in [DOMAIN remap -> Int]
    /\ \A i \in DOMAIN remap : remap[i] \notin Ids(m)
    /\ \A i, j \in DOMAIN remap : remap[i] = remap[j] => i = j

LEMMA RealNodeType ==
    ASSUME NEW D \in SUBSET Int, NEW remap \in [D -> Int], NEW node \in AnyNode
    PROVE  /\ RealNode(remap, node) \in AnyNode
           /\ RealNode(remap, node).parent = Real(remap, node.parent)
           /\ RealNode(remap, node).name = node.name
           /\ RealNode(remap, node).kind = node.kind
           /\ RealNode(remap, node).ver = node.ver
           /\ RealNode(remap, node).born = node.born
<1>1. Real(remap, node.parent) \in Int
    BY DEF Real, AnyNode
<1>2. QED
    BY <1>1 DEF RealNode, AnyNode

\* Every node is found again under its real id, with its parent's real id,
\* and no two nodes become one.
LEMMA RemappedFacts ==
    ASSUME NEW m \in Mirrors, NEW remap, Fresh(m, remap)
    PROVE  LET now == Remapped(m, remap)
           IN /\ now \in Mirrors
              /\ Ids(now) = {Real(remap, i) : i \in Ids(m)}
              /\ \A i \in Ids(m) : now.nodes[Real(remap, i)] = RealNode(remap, m.nodes[i])
              /\ \A i, j \in Ids(m) : Real(remap, i) = Real(remap, j) => i = j
              /\ now.dirtyC = m.dirtyC /\ now.dirtyS = m.dirtyS
              /\ now.dirtyCwd = m.dirtyCwd /\ now.next = m.next
              /\ now.cwd = IF m.cwd \in Ids(m) THEN Real(remap, m.cwd) ELSE m.cwd
<1> DEFINE temps == DOMAIN remap \cap Ids(m)
           ids == (Ids(m) \ temps) \cup {remap[i] : i \in temps}
           source(j) == IF \E i \in temps : remap[i] = j
                        THEN CHOOSE i \in temps : remap[i] = j ELSE j
           nodes == [j \in ids |-> RealNode(remap, m.nodes[source(j)])]
           cwd == IF m.cwd \in temps THEN remap[m.cwd] ELSE m.cwd
           now == Remapped(m, remap)
<1>1. /\ m.nodes \in Tables /\ Ids(m) \in SUBSET Int
      /\ \A i \in Ids(m) : m.nodes[i] \in AnyNode
    BY TableFacts DEF Mirrors, Ids
<1>2. /\ temps \in SUBSET Ids(m) /\ temps \in SUBSET DOMAIN remap
      /\ \A i \in temps : remap[i] \in Int /\ remap[i] \notin Ids(m)
      /\ \A i, j \in temps : remap[i] = remap[j] => i = j
    BY DEF Fresh
<1>3. \A i \in Ids(m) : Real(remap, i) = IF i \in temps THEN remap[i] ELSE i
    BY DEF Real
<1>4. now = [m EXCEPT !.nodes = nodes, !.cwd = cwd]
    BY DEF Remapped
<1> HIDE DEF temps
<1>5. \A i \in Ids(m) : Real(remap, i) \in ids
    BY <1>2, <1>3
<1>6. \A j \in ids : \E i \in Ids(m) : j = Real(remap, i)
    BY <1>2, <1>3
<1>7. ids = {Real(remap, i) : i \in Ids(m)}
    BY <1>5, <1>6
<1>8. ASSUME NEW i \in Ids(m) PROVE source(Real(remap, i)) = i
    <2>1. CASE i \in temps
        BY <1>2, <1>3, <2>1
    <2>2. CASE i \notin temps
        BY <1>2, <1>3, <2>2
    <2>3. QED
        BY <2>1, <2>2
<1>9. \A i, j \in Ids(m) : Real(remap, i) = Real(remap, j) => i = j
    BY <1>2, <1>3
<1>10. ids \in SUBSET Int
    BY <1>1, <1>2
<1> HIDE DEF source
<1>11. \A i \in Ids(m) : nodes[Real(remap, i)] = RealNode(remap, m.nodes[i])
    BY <1>5, <1>8
<1>12. \A j \in ids : nodes[j] \in AnyNode
    <2>1. \A i \in Ids(m) : RealNode(remap, m.nodes[i]) \in AnyNode
        BY <1>1, RealNodeType DEF Fresh
    <2>2. QED
        BY <1>6, <1>11, <2>1
<1>13. nodes \in Tables
    <2>1. nodes \in [ids -> AnyNode]
        BY <1>12
    <2>2. QED
        BY <1>10, <2>1, TableIntro
<1>14. DOMAIN nodes = ids
    OBVIOUS
<1>15. cwd \in Int /\ cwd = IF m.cwd \in Ids(m) THEN Real(remap, m.cwd) ELSE m.cwd
    BY <1>2, <1>3 DEF Mirrors
<1> HIDE DEF nodes, cwd, ids
<1>16. /\ now \in Mirrors /\ now.nodes = nodes /\ now.cwd = cwd
       /\ now.dirtyC = m.dirtyC /\ now.dirtyS = m.dirtyS
       /\ now.dirtyCwd = m.dirtyCwd /\ now.next = m.next
    BY <1>4, <1>13, <1>15 DEF Mirrors
<1>17. Ids(now) = ids
    BY <1>14, <1>16 DEF Ids
<1> HIDE DEF now
<1>18. QED
    BY <1>7, <1>9, <1>11, <1>15, <1>16, <1>17 DEF now

\* The node written for id i of the snapshot is what the remapped mirror has.
Same(m, snap, remap, i) ==
    /\ Real(remap, i) \in Ids(Remapped(m, remap))
    /\ Remapped(m, remap).nodes[Real(remap, i)] = RealNode(remap, snap.nodes[i])

\* A confirmation remaps the mirror and takes out of each dirty set exactly
\* the ids that the snapshot covered there and that are as they were written.
LEMMA ConfirmedFacts ==
    ASSUME NEW m \in Mirrors, NEW remap, Fresh(m, remap), NEW snap, snap.cwdDirty \in BOOLEAN
    PROVE  LET new == Confirmed(m, snap, remap)
               now == Remapped(m, remap)
               done(S) == {Real(remap, i) :
                              i \in {k \in DOMAIN snap.nodes : Same(m, snap, remap, k)} \cap S}
           IN /\ new \in Mirrors
              /\ new.nodes = now.nodes /\ new.cwd = now.cwd /\ new.next = m.next
              /\ new.dirtyC = m.dirtyC \ done(snap.content)
              /\ new.dirtyS = m.dirtyS \ done(snap.structure)
              /\ new.dirtyCwd = (m.dirtyCwd /\ ~(snap.cwdDirty /\ now.cwd = snap.cwd))
<1> DEFINE now == Remapped(m, remap)
           done(S) == {Real(remap, i) :
                          i \in {k \in DOMAIN snap.nodes : Same(m, snap, remap, k)} \cap S}
           new == Confirmed(m, snap, remap)
<1>1. /\ now \in Mirrors /\ now.dirtyC = m.dirtyC /\ now.dirtyS = m.dirtyS
      /\ now.dirtyCwd = m.dirtyCwd /\ now.next = m.next
    BY RemappedFacts
<1>2. new = [now EXCEPT !.dirtyC = @ \ done(snap.content),
                        !.dirtyS = @ \ done(snap.structure),
                        !.dirtyCwd = @ /\ ~(snap.cwdDirty /\ now.cwd = snap.cwd)]
    BY DEF Confirmed, Same
<1> HIDE DEF done, now, new
<1> DEFINE dirtyC == m.dirtyC \ done(snap.content)
           dirtyS == m.dirtyS \ done(snap.structure)
           dirtyCwd == m.dirtyCwd /\ ~(snap.cwdDirty /\ now.cwd = snap.cwd)
<1>3. dirtyC \in SUBSET Int /\ dirtyS \in SUBSET Int /\ dirtyCwd \in BOOLEAN
    BY DEF Mirrors
<1>4. new = [now EXCEPT !.dirtyC = dirtyC, !.dirtyS = dirtyS, !.dirtyCwd = dirtyCwd]
    BY <1>1, <1>2
<1> HIDE DEF dirtyC, dirtyS, dirtyCwd
<1>5. new \in Mirrors
    BY <1>1, <1>3, <1>4 DEF Mirrors
<1>6. /\ new.nodes = now.nodes /\ new.cwd = now.cwd /\ new.next = now.next
      /\ new.dirtyC = dirtyC /\ new.dirtyS = dirtyS /\ new.dirtyCwd = dirtyCwd
    BY <1>1, <1>4 DEF Mirrors
<1>7. QED
    BY <1>1, <1>5, <1>6 DEF new, now, done, dirtyC, dirtyS, dirtyCwd

-----------------------------------------------------------------------------
(* Mutations.                                                               *)

LEMMA WrittenFacts ==
    ASSUME NEW m \in Mirrors, NEW i \in Int, NEW node \in AnyNode,
           NEW old, old = IF i \in Ids(m) THEN m.nodes[i] ELSE node
    PROVE  LET new == Written(m, i, node)
           IN /\ new \in Mirrors
              /\ Ids(new) = Ids(m) \cup {i}
              /\ \A j \in Ids(m) \ {i} : new.nodes[j] = m.nodes[j]
              /\ new.nodes[i].ver = old.ver + 1 /\ new.nodes[i].born = old.born
              /\ new.nodes[i].parent = old.parent /\ new.nodes[i].name = old.name
              /\ new.nodes[i].kind = old.kind
              /\ new.dirtyC = m.dirtyC \cup {i} /\ new.dirtyS = m.dirtyS
              /\ new.cwd = m.cwd /\ new.dirtyCwd = m.dirtyCwd /\ new.next = m.next
<1> DEFINE one == [old EXCEPT !.ver = @ + 1]
           nodes == [j \in Ids(m) \cup {i} |-> IF j = i THEN one ELSE m.nodes[j]]
           new == Written(m, i, node)
<1>1. /\ m.nodes \in Tables /\ Ids(m) \in SUBSET Int
      /\ \A j \in Ids(m) : m.nodes[j] \in AnyNode
    BY TableFacts DEF Mirrors, Ids
<1>2. old \in AnyNode
    BY <1>1
<1>3. /\ one \in AnyNode /\ one.ver = old.ver + 1 /\ one.born = old.born
      /\ one.parent = old.parent /\ one.name = old.name /\ one.kind = old.kind
    BY <1>2 DEF AnyNode
<1> HIDE DEF one
<1>4. nodes \in Tables
    <2>1. nodes \in [Ids(m) \cup {i} -> AnyNode] /\ (Ids(m) \cup {i}) \in SUBSET Int
        BY <1>1, <1>3
    <2>2. QED
        BY <2>1, TableIntro
<1>5. /\ DOMAIN nodes = Ids(m) \cup {i} /\ nodes[i] = one
      /\ \A j \in Ids(m) \ {i} : nodes[j] = m.nodes[j]
    OBVIOUS
<1>6. new = [m EXCEPT !.nodes = nodes, !.dirtyC = @ \cup {i}]
    BY DEF Written, one
<1> HIDE DEF nodes
<1>7. /\ new \in Mirrors /\ new.nodes = nodes
      /\ new.dirtyC = m.dirtyC \cup {i} /\ new.dirtyS = m.dirtyS
      /\ new.cwd = m.cwd /\ new.dirtyCwd = m.dirtyCwd /\ new.next = m.next
    BY <1>4, <1>6 DEF Mirrors
<1> HIDE DEF new
<1>8. QED
    BY <1>3, <1>5, <1>7 DEF new, one, Ids

LEMMA CreatedFacts ==
    ASSUME NEW m \in Mirrors, NEW parent \in Int, NEW name \in Names,
           NEW kind \in {"dir", "file"}
    PROVE  LET new == Created(m, parent, name, kind)
           IN /\ new \in Mirrors
              /\ Ids(new) = Ids(m) \cup {m.next}
              /\ \A j \in Ids(m) \ {m.next} : new.nodes[j] = m.nodes[j]
              /\ new.nodes[m.next] = Node(parent, name, kind, 1, m.next)
              /\ new.dirtyC = m.dirtyC /\ new.dirtyS = m.dirtyS \cup {m.next}
              /\ new.cwd = m.cwd /\ new.dirtyCwd = m.dirtyCwd /\ new.next = m.next - 1
<1> DEFINE one == Node(parent, name, kind, 1, m.next)
           nodes == [j \in Ids(m) \cup {m.next} |-> IF j = m.next THEN one ELSE m.nodes[j]]
           new == Created(m, parent, name, kind)
<1>1. /\ m.nodes \in Tables /\ Ids(m) \in SUBSET Int /\ m.next \in Int
      /\ \A j \in Ids(m) : m.nodes[j] \in AnyNode
    BY TableFacts DEF Mirrors, Ids
<1>2. one \in AnyNode
    BY <1>1 DEF AnyNode, Node
<1> HIDE DEF one
<1>3. nodes \in Tables
    <2>1. nodes \in [Ids(m) \cup {m.next} -> AnyNode] /\ (Ids(m) \cup {m.next}) \in SUBSET Int
        BY <1>1, <1>2
    <2>2. QED
        BY <2>1, TableIntro
<1>4. /\ DOMAIN nodes = Ids(m) \cup {m.next} /\ nodes[m.next] = one
      /\ \A j \in Ids(m) \ {m.next} : nodes[j] = m.nodes[j]
    OBVIOUS
<1> DEFINE below == m.next - 1
           dirtyS == m.dirtyS \cup {m.next}
<1>5. below \in Int /\ dirtyS \in SUBSET Int
    BY <1>1 DEF Mirrors
<1>6. new = [m EXCEPT !.nodes = nodes, !.next = below, !.dirtyS = dirtyS]
    BY DEF Created, one, Mirrors
<1> HIDE DEF nodes, below, dirtyS
<1>7. /\ new \in Mirrors /\ new.nodes = nodes
      /\ new.dirtyC = m.dirtyC /\ new.dirtyS = dirtyS
      /\ new.cwd = m.cwd /\ new.dirtyCwd = m.dirtyCwd /\ new.next = below
    BY <1>3, <1>5, <1>6 DEF Mirrors
<1> HIDE DEF new
<1>8. QED
    BY <1>4, <1>7 DEF new, one, below, dirtyS, Ids

LEMMA MovedFacts ==
    ASSUME NEW m \in Mirrors, NEW i \in Ids(m), NEW parent \in Int, NEW name \in Names \cup {NoParent}
    PROVE  LET new == Moved(m, i, parent, name)
           IN /\ new \in Mirrors
              /\ Ids(new) = Ids(m)
              /\ \A j \in Ids(m) \ {i} : new.nodes[j] = m.nodes[j]
              /\ new.nodes[i].ver = m.nodes[i].ver + 1 /\ new.nodes[i].born = m.nodes[i].born
              /\ new.nodes[i].parent = parent /\ new.nodes[i].name = name
              /\ new.nodes[i].kind = m.nodes[i].kind
              /\ new.dirtyC = m.dirtyC /\ new.dirtyS = m.dirtyS \cup {i}
              /\ new.cwd = m.cwd /\ new.dirtyCwd = m.dirtyCwd /\ new.next = m.next
<1> DEFINE one == [m.nodes[i] EXCEPT !.parent = parent, !.name = name, !.ver = @ + 1]
           nodes == [m.nodes EXCEPT ![i] = one]
           new == Moved(m, i, parent, name)
<1>1. /\ m.nodes \in Tables /\ Ids(m) \in SUBSET Int /\ m.nodes \in [Ids(m) -> AnyNode]
      /\ \A j \in Ids(m) : m.nodes[j] \in AnyNode
    BY TableFacts DEF Mirrors, Ids
<1>2. /\ one \in AnyNode /\ one.ver = m.nodes[i].ver + 1 /\ one.born = m.nodes[i].born
      /\ one.parent = parent /\ one.name = name /\ one.kind = m.nodes[i].kind
    <2> DEFINE old == m.nodes[i]
               ver == old.ver + 1
    <2>1. old \in AnyNode
        BY <1>1
    <2>2. ver \in Nat
        BY <2>1 DEF AnyNode
    <2>3. one = [old EXCEPT !.parent = parent, !.name = name, !.ver = ver]
        OBVIOUS
    <2> HIDE DEF old, ver, one
    <2>4. /\ one \in AnyNode /\ one.ver = ver /\ one.born = old.born
          /\ one.parent = parent /\ one.name = name /\ one.kind = old.kind
        BY <2>1, <2>2, <2>3 DEF AnyNode
    <2>5. QED
        BY <2>4 DEF old, ver
<1>3. new = [m EXCEPT !.nodes = nodes, !.dirtyS = @ \cup {i}]
    BY DEF Moved
<1> HIDE DEF one
<1>4. nodes \in Tables
    <2>1. nodes \in [Ids(m) -> AnyNode]
        BY <1>1, <1>2
    <2>2. QED
        BY <1>1, <2>1, TableIntro
<1>5. /\ DOMAIN nodes = Ids(m) /\ nodes[i] = one
      /\ \A j \in Ids(m) \ {i} : nodes[j] = m.nodes[j]
    BY <1>1
<1> HIDE DEF nodes, new
<1>6. /\ new \in Mirrors /\ new.nodes = nodes
      /\ new.dirtyC = m.dirtyC /\ new.dirtyS = m.dirtyS \cup {i}
      /\ new.cwd = m.cwd /\ new.dirtyCwd = m.dirtyCwd /\ new.next = m.next
    <2> DEFINE dirtyS == m.dirtyS \cup {i}
    <2>1. dirtyS \in SUBSET Int
        BY <1>1 DEF Mirrors
    <2>2. new = [m EXCEPT !.nodes = nodes, !.dirtyS = dirtyS]
        BY <1>3
    <2> HIDE DEF dirtyS
    <2>3. new \in Mirrors
        BY <1>4, <2>1, <2>2 DEF Mirrors
    <2>4. /\ new.nodes = nodes /\ new.dirtyC = m.dirtyC /\ new.dirtyS = dirtyS
          /\ new.cwd = m.cwd /\ new.dirtyCwd = m.dirtyCwd /\ new.next = m.next
        BY <2>2 DEF Mirrors
    <2>5. QED
        BY <2>3, <2>4 DEF dirtyS
<1>7. QED
    BY <1>2, <1>5, <1>6 DEF new, Ids

LEMMA DeletedFacts ==
    ASSUME NEW m \in Mirrors, NEW i \in Ids(m)
    PROVE  LET new == Deleted(m, i)
           IN /\ new \in Mirrors
              /\ Ids(new) = Ids(m) \ {i}
              /\ \A j \in Ids(m) \ {i} : new.nodes[j] = m.nodes[j]
              /\ new.dirtyC = m.dirtyC \ {i} /\ new.dirtyS = m.dirtyS \ {i}
              /\ new.cwd = m.cwd /\ new.dirtyCwd = m.dirtyCwd /\ new.next = m.next
<1> DEFINE nodes == Restricted(m.nodes, Ids(m) \ {i})
           new == Deleted(m, i)
<1>1. m.nodes \in Tables /\ (Ids(m) \ {i}) \in SUBSET DOMAIN m.nodes
    BY DEF Mirrors, Ids
<1>2. /\ nodes \in Tables /\ DOMAIN nodes = Ids(m) \ {i}
      /\ \A j \in Ids(m) \ {i} : nodes[j] = m.nodes[j]
    BY <1>1, RestrictedTable
<1>3. new = [m EXCEPT !.nodes = nodes, !.dirtyC = @ \ {i}, !.dirtyS = @ \ {i}]
    BY DEF Deleted
<1> HIDE DEF nodes
<1>4. /\ new \in Mirrors /\ new.nodes = nodes
      /\ new.dirtyC = m.dirtyC \ {i} /\ new.dirtyS = m.dirtyS \ {i}
      /\ new.cwd = m.cwd /\ new.dirtyCwd = m.dirtyCwd /\ new.next = m.next
    BY <1>2, <1>3 DEF Mirrors
<1> HIDE DEF new
<1>5. QED
    BY <1>2, <1>4 DEF new, Ids

LEMMA TouchedFacts ==
    ASSUME NEW m \in Mirrors, NEW i \in Int
    PROVE  LET new == Touched(m, i)
           IN /\ new \in Mirrors
              /\ new.nodes = m.nodes /\ new.next = m.next
              /\ new.dirtyC = m.dirtyC \cup {i} /\ new.dirtyS = m.dirtyS
              /\ new.cwd = m.cwd /\ new.dirtyCwd = m.dirtyCwd
BY DEF Mirrors, Touched

LEMMA ChangedDirFacts ==
    ASSUME NEW m \in Mirrors, NEW i \in Int
    PROVE  LET new == ChangedDir(m, i)
           IN /\ new \in Mirrors
              /\ new.nodes = m.nodes /\ new.next = m.next
              /\ new.dirtyC = m.dirtyC /\ new.dirtyS = m.dirtyS
              /\ new.cwd = i /\ new.dirtyCwd = TRUE
BY DEF Mirrors, ChangedDir
=============================================================================
