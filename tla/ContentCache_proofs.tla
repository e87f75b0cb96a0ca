------------------------- MODULE ContentCache_proofs -------------------------
(* Proofs about ContentCache, for all numbers of processes, files, writes   *)
(* and broken transactions, and for all sizes and limits of the cache.      *)
EXTENDS ContentCache, SequenceTheorems, FiniteSetTheorems, WellFoundedInduction, TLAPS

-----------------------------------------------------------------------------
(* The invariant.                                                          *)

VersionSet == [ver : Nat, content : [id : Nat, size : Nat]]
Entries == [content : [id : Nat, size : Nat], ver : Nat, flushed : Nat,
            pending : SUBSET VersionSet, dirty : BOOLEAN]
EntryMaps == UNION {[S -> Entries] : S \in SUBSET Files}
Caches == [entries : EntryMaps, lru : Seq(Files), bytes : Int]
Jobs == [at : {"sleep", "take"}, todo : SUBSET Files]
        \cup [at : {"sql", "settle", "drop"}, todo : SUBSET Files, file : Files,
              expected : Nat, final : VersionSet]

\* The order names an id once, and every cached id.
Ordered(c) ==
    /\ \A i, j \in 1..Len(c.lru) : c.lru[i] = c.lru[j] => i = j
    /\ Cached(c) \subseteq Range(c.lru)

Typed ==
    /\ row \in [Files -> VersionSet]
    /\ node \in [Processes -> [Files -> VersionSet]]
    /\ cache \in [Processes -> Caches]
    /\ \A p \in Processes : Ordered(cache[p])
    /\ dirtyIds \in [Processes -> SUBSET Files]
    /\ job \in [Processes -> Jobs]
    /\ parent \in Seq(Nat) /\ Len(parent) <= MaxWrites
    /\ dropped \subseteq Writes
    /\ outgrown \in BOOLEAN

Copying(p) == job[p].at \in {"sql", "settle", "drop"}
Shown(e) == Version(e.ver, e.content)

\* Descends, with the history of writes as an argument.
Under(par, n, m) ==
    \A S \in SUBSET (0..Len(par)) :
        m \in S /\ (\A k \in 1..Len(par) : par[k] \in S => k \in S) => n \in S

\* A version that was written, no larger than the cache unless one was.
KnownVersion(par, big, v) ==
    /\ v.ver \in 1..(Len(par) + 1)
    /\ v.content.id \in 0..Len(par)
    /\ v.content.size \in Sizes
    /\ big \/ v.content.size <= MaxBytes

KnownEntry(par, big, e) ==
    KnownVersion(par, big, Shown(e)) /\ \A v \in e.pending : KnownVersion(par, big, v)

Known ==
    /\ \A f \in Files : KnownVersion(parent, outgrown, row[f])
    /\ \A p \in Processes :
          /\ \A f \in Files : KnownVersion(parent, outgrown, node[p][f])
          /\ \A f \in Cached(cache[p]) : KnownEntry(parent, outgrown, cache[p].entries[f])
          /\ Copying(p) => KnownVersion(parent, outgrown, job[p].final)

\* What is pending in an entry is newer than what was flushed, each version was
\* written over the one before, and the last of them is the one it shows.
Chained(par, e) ==
    /\ e.flushed <= e.ver
    /\ e.dirty <=> e.pending # {}
    /\ e.dirty => Shown(e) \in e.pending
    /\ \A v \in e.pending :
          /\ e.flushed < v.ver /\ v.ver <= e.ver
          /\ v.ver = e.ver => v.content = e.content
          /\ v.content.id # 0
          /\ \A w \in e.pending : v.ver <= w.ver => Under(par, w.content.id, v.content.id)

\* As long as the row r has the version that the entry was flushed at, the entry
\* was written over what the row has. A clean entry shows what the row had.
Follows(par, gone, r, e) ==
    /\ e.flushed <= r.ver
    /\ e.flushed = r.ver =>
          /\ Under(par, e.content.id, r.content.id)
          /\ \A v \in e.pending : Under(par, v.content.id, r.content.id)
    /\ e.dirty \/ e.content.id \in gone \/ Under(par, r.content.id, e.content.id)

Tracked ==
    \A p \in Processes : \A f \in Cached(cache[p]) :
        /\ Chained(parent, cache[p].entries[f])
        /\ Follows(parent, dropped, row[f], cache[p].entries[f])

\* The version v is what the row r has or had.
OfRow(par, r, v) ==
    /\ v.ver <= r.ver
    /\ v.ver = r.ver => v = r
    /\ Under(par, r.content.id, v.content.id)

RowsRead == \A p \in Processes, f \in Files : OfRow(parent, row[f], node[p][f])

\* What the flusher copied is still pending, and what it found out about the row
\* is still true.
Found(par, r, j, e) ==
    /\ j.final \in e.pending
    /\ j.at = "sql" => j.expected = e.flushed
    /\ j.at = "settle" => OfRow(par, r, j.final)
    /\ j.at = "drop" => e.flushed < r.ver

Working ==
    \A p \in Processes : Copying(p) =>
        /\ job[p].file \in Cached(cache[p])
        /\ Found(parent, row[job[p].file], job[p], cache[p].entries[job[p].file])

\* The count of bytes is right unless a file was larger than the cache.
Exact(c) == c.bytes = Bytes(c.entries, Cached(c))
Counted == outgrown \/ \A p \in Processes : Exact(cache[p])

Tracking == Typed /\ Known /\ Tracked /\ RowsRead /\ Working
Inv == Tracking /\ Counted /\ NoSilentLoss

-----------------------------------------------------------------------------
(* Smallest numbers, and counting.                                         *)

\* Min of a set of numbers is in it, and no larger than the others.
LEMMA SmallestNumber ==
    ASSUME NEW N \in SUBSET Nat, N # {}
    PROVE  Min(N) \in N /\ \A m \in N : Min(N) <= m
<1>1. \A m, n \in Nat : m < n => <<m, n>> \in OpToRel(<, Nat)
    BY DEF OpToRel
<1>2. N \subseteq Nat
    OBVIOUS
<1>3. \E n \in N : \A m \in N : <<m, n>> \notin OpToRel(<, Nat)
    BY <1>2, NatLessThanWellFounded, WFMin, Zenon
<1>4. \E n \in N : \A m \in N : ~(m < n)
    BY <1>1, <1>2, <1>3, Zenon
<1>5. \E n \in N : \A m \in N : n <= m
    BY <1>4
<1>6. QED
    BY <1>5 DEF Min

\* Max of two numbers.
LEMMA Larger ==
    ASSUME NEW m \in Nat, NEW n \in Nat
    PROVE  Max({m, n}) = IF m >= n THEN m ELSE n
<1>1. \E x \in {m, n} : \A y \in {m, n} : x >= y
    OBVIOUS
<1>2. Max({m, n}) \in {m, n} /\ \A y \in {m, n} : Max({m, n}) >= y
    BY <1>1 DEF Max
<1>3. QED
    BY <1>2

\* The bytes are a finite set.
LEMMA BytesAreFinite ==
    ASSUME NEW entries, NEW fs, IsFiniteSet(fs),
           \A f \in fs : entries[f].content.size \in Nat
    PROVE  IsFiniteSet(UNION {{f} \X (1..entries[f].content.size) : f \in fs})
<1> DEFINE Of(f) == {f} \X (1..entries[f].content.size)
<1> DEFINE All == {Of(f) : f \in fs}
<1>1. ASSUME NEW f \in fs PROVE IsFiniteSet(Of(f))
    <2> DEFINE n == entries[f].content.size
    <2>1. n \in Nat
        OBVIOUS
    <2> HIDE DEF n
    <2>2. IsFiniteSet(1..n)
        BY <2>1, FS_Interval
    <2>3. IsFiniteSet({f})
        BY FS_Singleton
    <2>4. IsFiniteSet({f} \X (1..n))
        BY <2>2, <2>3, FS_Product
    <2>5. QED
        BY <2>4 DEF n
<1>2. IsFiniteSet(All)
    <2> DEFINE each == [f \in fs |-> Of(f)]
    <2>1. each \in Surjection(fs, All)
        BY DEF Surjection
    <2>2. QED
        BY <2>1, FS_Surjection
<1>3. \A T \in All : IsFiniteSet(T)
    BY <1>1
<1>4. QED
    BY <1>2, <1>3, FS_UNION

\* An entry that leaves takes its bytes with it.
LEMMA BytesWithout ==
    ASSUME NEW entries, NEW fs, IsFiniteSet(fs),
           \A f \in fs : entries[f].content.size \in Nat,
           NEW gone \in SUBSET fs
    PROVE  /\ Bytes(entries, fs) \in Nat /\ Bytes(entries, gone) \in Nat
           /\ Bytes(entries, fs \ gone) = Bytes(entries, fs) - Bytes(entries, gone)
<1> DEFINE Of(f) == {f} \X (1..entries[f].content.size)
           All(gs) == UNION {Of(f) : f \in gs}
<1>1. IsFiniteSet(gone) /\ IsFiniteSet(fs \ gone)
    BY FS_Subset
<1>2. IsFiniteSet(All(fs)) /\ IsFiniteSet(All(gone)) /\ IsFiniteSet(All(fs \ gone))
    BY <1>1, BytesAreFinite
<1>3. All(fs \ gone) = All(fs) \ All(gone)
    OBVIOUS
<1>4. All(fs) \cap All(gone) = All(gone)
    OBVIOUS
<1> HIDE DEF Of, All
<1>5. Cardinality(All(fs) \ All(gone)) = Cardinality(All(fs)) - Cardinality(All(gone))
    <2> DEFINE S == All(fs)
               T == All(gone)
    <2>1. IsFiniteSet(S) /\ IsFiniteSet(T) /\ S \cap T = T
        BY <1>2, <1>4
    <2> HIDE DEF S, T
    <2>2. Cardinality(S \ T) = Cardinality(S) - Cardinality(S \cap T)
        BY <2>1, FS_Difference
    <2>3. Cardinality(S \ T) = Cardinality(S) - Cardinality(T)
        BY <2>1, <2>2
    <2>4. QED
        BY <2>3 DEF S, T
<1>6. Cardinality(All(fs)) \in Nat /\ Cardinality(All(gone)) \in Nat
    BY <1>2, FS_CardinalityType
<1>7. /\ Bytes(entries, fs) = Cardinality(All(fs))
      /\ Bytes(entries, gone) = Cardinality(All(gone))
      /\ Bytes(entries, fs \ gone) = Cardinality(All(fs \ gone))
    BY Zenon DEF Bytes, All, Of
<1>8. QED
    BY <1>3, <1>5, <1>6, <1>7

\* A single entry counts for its size.
LEMMA BytesOfOne ==
    ASSUME NEW entries, NEW f, entries[f].content.size \in Nat
    PROVE  Bytes(entries, {f}) = entries[f].content.size
<1> DEFINE n == entries[f].content.size
           pairs == {f} \X (1..n)
<1>1. Bytes(entries, {f}) = Cardinality(pairs)
    <2>1. UNION {{g} \X (1..entries[g].content.size) : g \in {f}} = pairs
        OBVIOUS
    <2>2. QED
        BY <2>1 DEF Bytes
<1>2. n \in Nat
    OBVIOUS
<1> HIDE DEF n
<1>3. IsFiniteSet({f}) /\ Cardinality({f}) = 1
    BY FS_Singleton
<1>4. IsFiniteSet(1..n) /\ Cardinality(1..n) = n
    BY <1>2, FS_Interval
<1>5. Cardinality(pairs) = 1 * n
    <2> DEFINE S == {f}
               T == 1..n
    <2>1. IsFiniteSet(S) /\ Cardinality(S) = 1 /\ IsFiniteSet(T) /\ Cardinality(T) = n
        BY <1>3, <1>4
    <2> HIDE DEF S, T
    <2>2. Cardinality(S \X T) = Cardinality(S) * Cardinality(T)
        BY <2>1, FS_Product
    <2>3. QED
        BY <2>1, <2>2 DEF S, T
<1>6. QED
    BY <1>1, <1>2, <1>5 DEF n

\* Only the sizes count.
LEMMA BytesOfSame ==
    ASSUME NEW entries, NEW others, NEW fs,
           \A f \in fs : entries[f].content.size = others[f].content.size
    PROVE  Bytes(entries, fs) = Bytes(others, fs)
<1>1. {{f} \X (1..entries[f].content.size) : f \in fs}
          = {{f} \X (1..others[f].content.size) : f \in fs}
    OBVIOUS
<1>2. QED
    BY <1>1 DEF Bytes

-----------------------------------------------------------------------------
(* The order.                                                              *)

Distinct(s) == \A i, j \in 1..Len(s) : s[i] = s[j] => i = j

\* Part of a sequence has the type, the length and the elements one expects.
LEMMA PartOf ==
    ASSUME NEW s \in Seq(Files), NEW m \in 1..(Len(s) + 1), NEW k \in 0..Len(s)
    PROVE  /\ SubSeq(s, m, k) \in Seq(Files)
           /\ Len(SubSeq(s, m, k)) = IF m <= k THEN k - m + 1 ELSE 0
           /\ \A i \in 1..(k - m + 1) : SubSeq(s, m, k)[i] = s[m + i - 1]
<1>1. m \in Int /\ k \in Int
    OBVIOUS
<1>2. \A i \in m..k : s[i] \in Files
    OBVIOUS
<1>3. QED
    BY <1>1, <1>2, SubSeqProperties

\* In a sequence without repetitions, RemoveFirst takes the element out and
\* keeps the rest.
LEMMA RemoveFirstRemoves ==
    ASSUME NEW s \in Seq(Files), Distinct(s), NEW f
    PROVE  /\ RemoveFirst(s, f) \in Seq(Files)
           /\ Distinct(RemoveFirst(s, f))
           /\ Range(RemoveFirst(s, f)) = Range(s) \ {f}
<1> DEFINE n == Len(s)
<1>1. n \in Nat /\ DOMAIN s = 1..n /\ \A i \in 1..n : s[i] \in Files
    OBVIOUS
<1>2. CASE ~\E i \in 1..n : s[i] = f
    BY <1>1, <1>2 DEF RemoveFirst, Range
<1>3. CASE \E i \in 1..n : s[i] = f
    <2> DEFINE I == {i \in 1..n : s[i] = f}
               k == Min(I)
    <2>1. I \in SUBSET Nat /\ I # {}
        BY <1>1, <1>3
    <2>2. k \in I
        BY <2>1, SmallestNumber
    <2>3. RemoveFirst(s, f) = SubSeq(s, 1, k - 1) \o SubSeq(s, k + 1, n)
        BY <1>3, <2>1 DEF RemoveFirst, RemoveAt, SelectInSeq
    <2>4. k \in 1..n /\ s[k] = f
        BY <2>2
    <2> HIDE DEF k, n, I
    <2> DEFINE u == SubSeq(s, 1, k - 1)
               v == SubSeq(s, k + 1, n)
               r == u \o v
    <2>5. /\ u \in Seq(Files) /\ Len(u) = k - 1
          /\ \A i \in 1..(k - 1) : u[i] = s[i]
        <3>1. 1 \in 1..(Len(s) + 1) /\ k - 1 \in 0..Len(s)
            BY <1>1, <2>4 DEF n
        <3>2. /\ u \in Seq(Files) /\ Len(u) = IF 1 <= k - 1 THEN k - 1 - 1 + 1 ELSE 0
              /\ \A i \in 1..(k - 1 - 1 + 1) : u[i] = s[1 + i - 1]
            BY <3>1, PartOf
        <3>3. QED
            BY <1>1, <2>4, <3>2
    <2>6. /\ v \in Seq(Files) /\ Len(v) = n - k
          /\ \A i \in 1..(n - k) : v[i] = s[k + i]
        <3>1. k + 1 \in 1..(Len(s) + 1) /\ n \in 0..Len(s)
            BY <1>1, <2>4 DEF n
        <3>2. /\ v \in Seq(Files) /\ Len(v) = IF k + 1 <= n THEN n - (k + 1) + 1 ELSE 0
              /\ \A i \in 1..(n - (k + 1) + 1) : v[i] = s[k + 1 + i - 1]
            BY <3>1, PartOf
        <3>3. QED
            BY <1>1, <2>4, <3>2
    <2> HIDE DEF u, v
    <2>7. /\ r \in Seq(Files) /\ Len(r) = n - 1
          /\ \A i \in 1..(n - 1) : r[i] = IF i <= k - 1 THEN s[i] ELSE s[i + 1]
        <3>1. /\ r \in Seq(Files) /\ Len(r) = Len(u) + Len(v)
              /\ \A i \in 1..(Len(u) + Len(v)) :
                    r[i] = IF i <= Len(u) THEN u[i] ELSE v[i - Len(u)]
            BY <2>5, <2>6, ConcatProperties
        <3>2. ASSUME NEW i \in 1..(n - 1)
              PROVE  r[i] = IF i <= k - 1 THEN s[i] ELSE s[i + 1]
            <4>1. i \in 1..(Len(u) + Len(v))
                BY <1>1, <2>4, <2>5, <2>6
            <4>2. CASE i <= k - 1
                BY <3>1, <4>1, <4>2, <2>4, <2>5
            <4>3. CASE ~(i <= k - 1)
                <5>1. i - Len(u) \in 1..(n - k) /\ k + (i - Len(u)) = i + 1
                    BY <1>1, <2>4, <2>5, <4>3
                <5>2. QED
                    BY <3>1, <4>1, <4>3, <2>4, <2>5, <2>6, <5>1
            <4>4. QED
                BY <4>2, <4>3
        <3>3. QED
            BY <1>1, <2>4, <2>5, <2>6, <3>1, <3>2
    <2> HIDE DEF r
    <2>8. ASSUME NEW i \in 1..(n - 1), NEW j \in 1..(n - 1), r[i] = r[j] PROVE i = j
        <3>1. \A l, m \in 1..n : s[l] = s[m] => l = m
            BY DEF Distinct, n
        <3>2. /\ i \in Nat /\ j \in Nat /\ i \in 1..n /\ j \in 1..n
              /\ i + 1 \in 1..n /\ j + 1 \in 1..n
            BY <1>1
        <3>3. QED
            BY <1>1, <2>4, <2>7, <2>8, <3>1, <3>2
    <2>9. ASSUME NEW i \in 1..(n - 1) PROVE r[i] \in Range(s) \ {f}
        <3>1. \A l, m \in 1..n : s[l] = s[m] => l = m
            BY DEF Distinct, n
        <3>2. i \in 1..n /\ i + 1 \in 1..n
            BY <1>1
        <3>3. QED
            BY <1>1, <2>4, <2>7, <3>1, <3>2 DEF Range
    <2>10. ASSUME NEW g \in Range(s) \ {f} PROVE \E i \in 1..(n - 1) : r[i] = g
        <3>1. PICK i \in 1..n : s[i] = g
            BY <1>1 DEF Range
        <3>2. i # k
            BY <2>4, <3>1
        <3>3. CASE i < k
            <4>1. i \in 1..(n - 1) /\ i <= k - 1
                BY <1>1, <2>4, <3>3
            <4>2. QED
                BY <2>7, <3>1, <4>1
        <3>4. CASE i > k
            <4>1. i - 1 \in 1..(n - 1) /\ ~(i - 1 <= k - 1) /\ (i - 1) + 1 = i
                BY <1>1, <2>4, <3>4
            <4>2. QED
                BY <2>7, <3>1, <4>1
        <3>5. QED
            BY <1>1, <2>4, <3>2, <3>3, <3>4
    <2>11. DOMAIN r = 1..(n - 1)
        BY <2>7
    <2>12. Range(r) = Range(s) \ {f}
        BY <2>9, <2>10, <2>11 DEF Range
    <2>13. RemoveFirst(s, f) = r
        BY <2>3 DEF r, u, v
    <2>14. QED
        BY <2>7, <2>8, <2>12, <2>13 DEF Distinct
<1>4. QED
    BY <1>2, <1>3

\* The id is the last one now, and is there once.
LEMMA Touches ==
    ASSUME NEW s \in Seq(Files), Distinct(s), NEW f \in Files
    PROVE  /\ Touch(s, f) \in Seq(Files)
           /\ Distinct(Touch(s, f))
           /\ Range(Touch(s, f)) = Range(s) \cup {f}
           /\ Len(Touch(s, f)) > 0
           /\ Touch(s, f)[Len(Touch(s, f))] = f
<1> DEFINE r == RemoveFirst(s, f)
           t == Append(r, f)
<1>1. r \in Seq(Files) /\ Distinct(r) /\ Range(r) = Range(s) \ {f}
    BY RemoveFirstRemoves
<1>2. Touch(s, f) = t
    BY DEF Touch
<1> HIDE DEF r
<1>3. /\ t \in Seq(Files) /\ Len(t) = Len(r) + 1
      /\ \A i \in 1..Len(r) : t[i] = r[i]
      /\ t[Len(r) + 1] = f
    BY <1>1, AppendProperties
<1>4. DOMAIN t = 1..(Len(r) + 1) /\ DOMAIN r = 1..Len(r) /\ Len(r) \in Nat
    BY <1>1, <1>3
<1> HIDE DEF t
<1>5. Range(t) = Range(r) \cup {f}
    <2>1. ASSUME NEW g \in Range(t) PROVE g \in Range(r) \cup {f}
        <3>1. PICK i \in 1..(Len(r) + 1) : g = t[i]
            BY <1>4 DEF Range
        <3>2. CASE i = Len(r) + 1
            BY <1>3, <3>1, <3>2
        <3>3. CASE i # Len(r) + 1
            <4>1. i \in 1..Len(r)
                BY <1>4, <3>3
            <4>2. QED
                BY <1>3, <1>4, <3>1, <4>1 DEF Range
        <3>4. QED
            BY <3>2, <3>3
    <2>2. Range(r) \subseteq Range(t)
        <3>1. ASSUME NEW i \in 1..Len(r) PROVE i \in 1..(Len(r) + 1) /\ t[i] = r[i]
            BY <1>3, <1>4
        <3>2. QED
            BY <1>4, <3>1 DEF Range
    <2>3. f \in Range(t)
        <3>1. Len(r) + 1 \in 1..(Len(r) + 1)
            BY <1>4
        <3>2. QED
            BY <1>3, <1>4, <3>1 DEF Range
    <2>4. QED
        BY <2>1, <2>2, <2>3
<1>6. ASSUME NEW i \in 1..(Len(r) + 1), NEW j \in 1..(Len(r) + 1), t[i] = t[j] PROVE i = j
    <2>1. \A k \in 1..Len(r) : t[k] # f
        BY <1>1, <1>3, <1>4 DEF Range
    <2>2. \A k \in 1..(Len(r) + 1) : k \in 1..Len(r) \/ k = Len(r) + 1
        BY <1>4
    <2>3. CASE i \in 1..Len(r) /\ j \in 1..Len(r)
        BY <1>1, <1>3, <1>6, <2>3 DEF Distinct
    <2>4. QED
        BY <1>3, <1>6, <2>1, <2>2, <2>3
<1>7. QED
    BY <1>1, <1>2, <1>3, <1>4, <1>5, <1>6 DEF Distinct

-----------------------------------------------------------------------------
(* Eviction and loading.                                                   *)

\* The parts of a cache have their types.
LEMMA CacheType ==
    ASSUME NEW c \in Caches
    PROVE  /\ Cached(c) \subseteq Files
           /\ c.entries \in [Cached(c) -> Entries]
           /\ IsFiniteSet(Cached(c))
           /\ \A f \in Cached(c) : c.entries[f].content.size \in Nat
           /\ c.lru \in Seq(Files) /\ c.bytes \in Int
<1>1. c.entries \in EntryMaps /\ c.lru \in Seq(Files) /\ c.bytes \in Int
    BY DEF Caches
<1>2. PICK S \in SUBSET Files : c.entries \in [S -> Entries]
    BY <1>1 DEF EntryMaps
<1>3. Cached(c) = S
    BY <1>2 DEF Cached
<1>4. IsFiniteSet(Cached(c))
    BY <1>3, FS_Subset, CacheAssumption
<1>5. \A f \in Cached(c) : c.entries[f].content.size \in Nat
    BY <1>2, <1>3 DEF Entries
<1>6. QED
    BY <1>1, <1>2, <1>3, <1>4, <1>5

\* The cache without the first ids of its order.
LEMMA CutCache ==
    ASSUME NEW c \in Caches, Ordered(c), NEW k \in 0..Len(c.lru)
    PROVE  /\ Cut(c, k) \in Caches
           /\ Ordered(Cut(c, k))
           /\ Cached(Cut(c, k)) = {f \in Cached(c) : \A i \in 1..k : c.lru[i] # f}
           /\ \A f \in Cached(Cut(c, k)) : Cut(c, k).entries[f] = c.entries[f]
           /\ Exact(c) => Exact(Cut(c, k))
           /\ k < Len(c.lru) => /\ Cut(c, k).lru # <<>>
                                /\ Head(Cut(c, k).lru) = c.lru[k + 1]
<1> DEFINE gone == {c.lru[i] : i \in 1..k} \cap Cached(c)
           left == Cached(c) \ gone
           entries == [f \in left |-> c.entries[f]]
           lru == SubSeq(c.lru, k + 1, Len(c.lru))
           n == Len(c.lru)
<1>1. /\ Cached(c) \subseteq Files /\ c.entries \in [Cached(c) -> Entries]
      /\ IsFiniteSet(Cached(c)) /\ \A f \in Cached(c) : c.entries[f].content.size \in Nat
      /\ c.lru \in Seq(Files) /\ c.bytes \in Int
    BY CacheType
<1>2. /\ Cut(c, k).entries = entries /\ Cut(c, k).lru = lru
      /\ Cut(c, k).bytes = c.bytes - Bytes(c.entries, gone)
      /\ Cut(c, k) = [entries |-> entries, lru |-> lru,
                      bytes |-> c.bytes - Bytes(c.entries, gone)]
    BY DEF Cut
<1>3. n \in Nat /\ k \in 0..n /\ DOMAIN c.lru = 1..n
    BY <1>1
<1>4. /\ lru \in Seq(Files) /\ Len(lru) = n - k
      /\ \A i \in 1..(n - k) : lru[i] = c.lru[k + i]
    <2>1. k + 1 \in 1..(Len(c.lru) + 1) /\ Len(c.lru) \in 0..Len(c.lru)
        BY <1>3
    <2>2. /\ lru \in Seq(Files) /\ Len(lru) = IF k + 1 <= n THEN n - (k + 1) + 1 ELSE 0
          /\ \A i \in 1..(n - (k + 1) + 1) : lru[i] = c.lru[k + 1 + i - 1]
        BY <1>1, <2>1, PartOf
    <2>3. QED
        BY <1>3, <2>2
<1>5. /\ Bytes(c.entries, Cached(c)) \in Nat /\ Bytes(c.entries, gone) \in Nat
      /\ Bytes(c.entries, left) = Bytes(c.entries, Cached(c)) - Bytes(c.entries, gone)
    BY <1>1, BytesWithout
<1>6. entries \in EntryMaps
    <2>1. left \in SUBSET Files /\ entries \in [left -> Entries]
        BY <1>1
    <2>2. QED
        BY <2>1 DEF EntryMaps
<1>7. Cut(c, k) \in Caches
    BY <1>1, <1>2, <1>4, <1>5, <1>6 DEF Caches
<1>8. Cached(Cut(c, k)) = left
    BY <1>2 DEF Cached
<1>9. left = {f \in Cached(c) : \A i \in 1..k : c.lru[i] # f}
    OBVIOUS
<1>10. \A f \in Cached(Cut(c, k)) : Cut(c, k).entries[f] = c.entries[f]
    BY <1>2, <1>8
<1>11. Exact(c) => Exact(Cut(c, k))
    <2>1. Bytes(Cut(c, k).entries, left) = Bytes(c.entries, left)
        BY <1>8, <1>10, BytesOfSame
    <2>2. QED
        BY <1>1, <1>2, <1>5, <1>8, <2>1 DEF Exact
<1> HIDE DEF lru, left, gone, entries
<1>12. Ordered(Cut(c, k))
    <2>1. ASSUME NEW i \in 1..Len(lru), NEW j \in 1..Len(lru), lru[i] = lru[j] PROVE i = j
        <3>1. k + i \in 1..n /\ k + j \in 1..n /\ i \in 1..(n - k) /\ j \in 1..(n - k)
            BY <1>3, <1>4
        <3>2. k + i = k + j
            BY <1>4, <2>1, <3>1 DEF Ordered
        <3>3. QED
            BY <1>3, <3>2
    <2>2. ASSUME NEW f \in left PROVE f \in Range(lru)
        <3>1. PICK i \in 1..n : c.lru[i] = f
            BY <1>3, <1>9 DEF Ordered, Range
        <3>2. ~(i \in 1..k)
            BY <1>9, <3>1
        <3>3. i - k \in 1..(n - k) /\ k + (i - k) = i
            BY <1>3, <3>2
        <3>4. DOMAIN lru = 1..(n - k)
            BY <1>4
        <3>5. lru[i - k] = f
            BY <1>4, <3>1, <3>3
        <3>6. QED
            BY <3>3, <3>4, <3>5 DEF Range
    <2>3. QED
        BY <1>2, <1>8, <2>1, <2>2 DEF Ordered
<1>13. ASSUME k < n PROVE lru # <<>> /\ Head(lru) = c.lru[k + 1]
    <2>1. 1 \in 1..(n - k) /\ Len(lru) > 0
        BY <1>3, <1>4, <1>13
    <2>2. lru # <<>> /\ Head(lru) = lru[1]
        BY <1>4, <2>1
    <2>3. QED
        BY <1>4, <2>1, <2>2
<1>14. QED
    BY <1>2, <1>7, <1>8, <1>9, <1>10, <1>11, <1>12, <1>13

\* Only clean entries are evicted. What is last in the order stays if it fits.
LEMMA EvictedCache ==
    ASSUME NEW c \in Caches, Ordered(c)
    PROVE  /\ Evicted(c) \in Caches
           /\ Ordered(Evicted(c))
           /\ Cached(Evicted(c)) \subseteq Cached(c)
           /\ \A f \in Cached(Evicted(c)) : Evicted(c).entries[f] = c.entries[f]
           /\ \A f \in Cached(c) : c.entries[f].dirty => f \in Cached(Evicted(c))
           /\ Exact(c) =>
                 /\ Exact(Evicted(c))
                 /\ \A f \in Cached(c) :
                       /\ Len(c.lru) > 0 /\ c.lru[Len(c.lru)] = f
                       /\ c.entries[f].content.size <= MaxBytes
                       => f \in Cached(Evicted(c))
<1> DEFINE n == Len(c.lru)
           N == {k \in 0..n : Stops(Cut(c, k))}
           m == Min(N)
           d == Cut(c, m)
<1>1. /\ Cached(c) \subseteq Files /\ c.entries \in [Cached(c) -> Entries]
      /\ IsFiniteSet(Cached(c)) /\ \A f \in Cached(c) : c.entries[f].content.size \in Nat
      /\ c.lru \in Seq(Files) /\ c.bytes \in Int
    BY CacheType
<1>2. n \in Nat /\ DOMAIN c.lru = 1..n
    BY <1>1
<1>3. \A i, j \in 1..n : c.lru[i] = c.lru[j] => i = j
    BY DEF Ordered
<1>4. n \in N
    <2>1. n \in 0..n
        BY <1>2
    <2>2. Cached(Cut(c, n)) = {f \in Cached(c) : \A i \in 1..n : c.lru[i] # f}
        BY <2>1, CutCache
    <2>3. Cached(Cut(c, n)) = {}
        BY <1>2, <2>2 DEF Ordered, Range
    <2>4. QED
        BY <2>1, <2>3 DEF Stops
<1>5. N \in SUBSET Nat /\ N # {}
    BY <1>2, <1>4
<1>6. m \in N /\ \A k \in N : m <= k
    BY <1>5, SmallestNumber
<1>7. Evicted(c) = d
    BY DEF Evicted
<1>8. m \in 0..n
    BY <1>6
<1> HIDE DEF m
<1>9. /\ d \in Caches /\ Ordered(d)
      /\ Cached(d) = {f \in Cached(c) : \A i \in 1..m : c.lru[i] # f}
      /\ \A f \in Cached(d) : d.entries[f] = c.entries[f]
      /\ Exact(c) => Exact(d)
    BY <1>8, CutCache
<1>10. ASSUME NEW f \in Cached(c), c.entries[f].dirty, NEW i \in 1..m, c.lru[i] = f
       PROVE  FALSE
    <2> DEFINE b == Cut(c, i - 1)
    <2>1. i - 1 \in 0..n /\ i - 1 < n /\ i - 1 < m /\ i \in 1..n /\ (i - 1) + 1 = i
        BY <1>2, <1>8
    <2>2. /\ Cached(b) = {g \in Cached(c) : \A j \in 1..(i - 1) : c.lru[j] # g}
          /\ \A g \in Cached(b) : b.entries[g] = c.entries[g]
          /\ b.lru # <<>> /\ Head(b.lru) = c.lru[i]
        BY <2>1, CutCache
    <2>3. \A j \in 1..(i - 1) : c.lru[j] # f
        <3>1. ASSUME NEW j \in 1..(i - 1), c.lru[j] = f PROVE FALSE
            <4>1. j \in 1..n /\ j # i
                BY <2>1
            <4>2. QED
                BY <1>3, <1>10, <2>1, <3>1, <4>1
        <3>2. QED
            BY <3>1
    <2> HIDE DEF b
    <2>4. HeadIsDirty(b)
        BY <1>10, <2>2, <2>3 DEF HeadIsDirty
    <2>5. i - 1 \in N
        BY <2>1, <2>4 DEF Stops, b
    <2>6. m <= i - 1
        BY <1>6, <2>5
    <2>7. QED
        BY <1>8, <2>1, <2>6
<1>11. ASSUME Exact(c), NEW f \in Cached(c), n > 0, c.lru[n] = f,
              c.entries[f].content.size <= MaxBytes
       PROVE  f \in Cached(d)
    <2>1. CASE m < n
        <3>1. ASSUME NEW i \in 1..m, c.lru[i] = f PROVE FALSE
            <4>1. i \in 1..n /\ n \in 1..n /\ i # n
                BY <1>2, <1>8, <1>11, <2>1
            <4>2. QED
                BY <1>3, <1>11, <3>1, <4>1
        <3>2. QED
            BY <1>9, <3>1
    <2>2. CASE m = n
        <3> DEFINE b == Cut(c, n - 1)
        <3>1. n - 1 \in 0..n /\ n - 1 < m /\ n \in 1..n
            BY <1>2, <1>11, <2>2
        <3>2. /\ Cached(b) = {g \in Cached(c) : \A j \in 1..(n - 1) : c.lru[j] # g}
              /\ \A g \in Cached(b) : b.entries[g] = c.entries[g]
              /\ Exact(b) /\ b \in Caches
            BY <1>11, <3>1, CutCache
        <3>3. \A j \in 1..(n - 1) : j \in 1..n /\ j # n
            BY <1>2
        <3>4. f \in Cached(b)
            BY <1>3, <1>11, <3>1, <3>2, <3>3
        <3>5. ASSUME NEW g \in Cached(b) PROVE g = f
            <4>1. PICK j \in 1..n : c.lru[j] = g
                BY <1>2, <3>2 DEF Ordered, Range
            <4>2. ~(j \in 1..(n - 1))
                BY <3>2, <4>1
            <4>3. j = n
                BY <1>2, <4>2
            <4>4. QED
                BY <1>11, <4>1, <4>3
        <3>6. Cached(b) = {f}
            BY <3>4, <3>5
        <3>7. b.bytes = c.entries[f].content.size
            <4>1. b.entries[f].content.size = c.entries[f].content.size
                BY <3>2, <3>4
            <4>2. c.entries[f].content.size \in Nat
                BY <1>1
            <4>3. Bytes(b.entries, {f}) = b.entries[f].content.size
                BY <4>1, <4>2, BytesOfOne
            <4>4. QED
                BY <3>2, <3>6, <4>1, <4>3 DEF Exact
        <3>8. Cardinality(Cached(b)) = 1
            BY <3>6, FS_Singleton
        <3>9. ~Over(b)
            <4>1. MaxBytes \in Nat /\ MaxFiles \in Nat \ {0}
                BY CacheAssumption
            <4>2. c.entries[f].content.size \in Nat
                BY <1>1
            <4>3. QED
                BY <1>11, <3>7, <3>8, <4>1, <4>2 DEF Over
        <3>10. n - 1 \in N
            BY <3>1, <3>9 DEF Stops
        <3>11. m <= n - 1
            BY <1>6, <3>10
        <3>12. QED
            BY <1>2, <1>8, <3>1, <3>11
    <2>3. QED
        BY <1>2, <1>8, <2>1, <2>2
<1>12. QED
    BY <1>7, <1>9, <1>10, <1>11

\* A cache with an entry that is new, or in place of another.
LEMMA EnteredCache ==
    ASSUME NEW c \in Caches, Ordered(c), NEW f \in Files, NEW e \in Entries, NEW b \in Int,
           NEW d, d = [entries |-> With(c.entries, f, e), lru |-> Touch(c.lru, f), bytes |-> b]
    PROVE  /\ d \in Caches
           /\ Ordered(d)
           /\ Cached(d) = Cached(c) \cup {f}
           /\ \A g \in Cached(d) : d.entries[g] = IF g = f THEN e ELSE c.entries[g]
           /\ Len(d.lru) > 0 /\ d.lru[Len(d.lru)] = f
           /\ Exact(c) /\ b = c.bytes + e.content.size
                              - (IF f \in Cached(c) THEN c.entries[f].content.size ELSE 0)
              => Exact(d)
<1> DEFINE all == Cached(c) \cup {f}
           others == Cached(c) \ {f}
<1>1. /\ Cached(c) \subseteq Files /\ c.entries \in [Cached(c) -> Entries]
      /\ IsFiniteSet(Cached(c)) /\ \A g \in Cached(c) : c.entries[g].content.size \in Nat
      /\ c.lru \in Seq(Files) /\ c.bytes \in Int
    BY CacheType
<1>2. /\ Touch(c.lru, f) \in Seq(Files) /\ Distinct(Touch(c.lru, f))
      /\ Range(Touch(c.lru, f)) = Range(c.lru) \cup {f}
      /\ Len(Touch(c.lru, f)) > 0 /\ Touch(c.lru, f)[Len(Touch(c.lru, f))] = f
    <2>1. Distinct(c.lru)
        BY DEF Ordered, Distinct
    <2>2. QED
        BY <1>1, <2>1, Touches
<1>3. d.entries = [g \in all |-> IF g = f THEN e ELSE c.entries[g]]
    BY DEF With, Cached
<1>4. d.entries \in EntryMaps
    <2>1. all \in SUBSET Files /\ d.entries \in [all -> Entries]
        BY <1>1, <1>3
    <2>2. QED
        BY <2>1 DEF EntryMaps
<1>5. d \in Caches
    BY <1>2, <1>4 DEF Caches
<1>6. Cached(d) = all
    BY <1>3 DEF Cached
<1>7. Ordered(d)
    BY <1>2, <1>6 DEF Ordered, Distinct
<1>8. ASSUME Exact(c), b = c.bytes + e.content.size
                           - (IF f \in Cached(c) THEN c.entries[f].content.size ELSE 0)
      PROVE  Exact(d)
    <2> DEFINE D == d.entries
    <2>1. /\ IsFiniteSet(all) /\ {f} \in SUBSET all /\ all \ {f} = others
          /\ \A g \in all : D[g].content.size \in Nat
        BY <1>5, <1>6, CacheType
    <2> HIDE DEF D, all, others
    <2>2. /\ Bytes(D, all) \in Nat /\ Bytes(D, {f}) \in Nat
          /\ Bytes(D, all \ {f}) = Bytes(D, all) - Bytes(D, {f})
        BY <2>1, BytesWithout
    <2> USE DEF D, all, others
    <2>3. Bytes(d.entries, {f}) = e.content.size
        <3>1. d.entries[f] = e
            BY <1>3
        <3>2. d.entries[f].content.size = e.content.size /\ e.content.size \in Nat
            BY <3>1 DEF Entries
        <3>3. Bytes(d.entries, {f}) = d.entries[f].content.size
            BY <3>2, BytesOfOne
        <3>4. QED
            BY <3>2, <3>3
    <2>4. Bytes(d.entries, others) = Bytes(c.entries, others)
        BY <1>3, BytesOfSame
    <2> DEFINE old == IF f \in Cached(c) THEN c.entries[f].content.size ELSE 0
               held == Bytes(c.entries, Cached(c))
    <2>5. Bytes(c.entries, others) = held - old /\ held \in Nat /\ old \in Nat
        <3>1. CASE f \in Cached(c)
            <4>1. {f} \in SUBSET Cached(c) /\ old \in Nat /\ old = c.entries[f].content.size
                BY <1>1, <3>1
            <4>2. /\ Bytes(c.entries, others) = held - Bytes(c.entries, {f})
                  /\ held \in Nat
                BY <1>1, <4>1, BytesWithout
            <4>3. Bytes(c.entries, {f}) = old
                <5>1. c.entries[f].content.size \in Nat
                    BY <4>1
                <5>2. Bytes(c.entries, {f}) = c.entries[f].content.size
                    BY <5>1, BytesOfOne
                <5>3. QED
                    BY <4>1, <5>2
            <4> HIDE DEF old, held
            <4>4. QED
                BY <4>1, <4>2, <4>3
        <3>2. CASE f \notin Cached(c)
            <4>1. others = Cached(c) /\ old = 0
                BY <3>2
            <4>2. {} \in SUBSET Cached(c)
                OBVIOUS
            <4>3. held \in Nat
                BY <1>1, <4>2, BytesWithout
            <4>4. Bytes(c.entries, others) = held
                BY <4>1
            <4> HIDE DEF old, held
            <4>5. QED
                BY <4>1, <4>3, <4>4
        <3>3. QED
            BY <3>1, <3>2
    <2>6. c.bytes = held /\ d.bytes = b /\ b = c.bytes + e.content.size - old
        BY <1>8 DEF Exact
    <2>7. e.content.size \in Nat
        BY DEF Entries
    <2>8. Bytes(c.entries, others) = Bytes(d.entries, all) - Bytes(d.entries, {f})
        BY <2>1, <2>2, <2>4
    <2> HIDE DEF old, held, all, others
    <2>9. Bytes(d.entries, all) = b
        BY <2>2, <2>3, <2>5, <2>6, <2>7, <2>8
    <2>10. QED
        BY <1>6, <2>6, <2>9 DEF Exact
<1>9. QED
    BY <1>2, <1>3, <1>5, <1>6, <1>7, <1>8

\* What a load gives its caller is an entry.
LEMMA EntryType ==
    ASSUME NEW c \in Caches, NEW f \in Files, NEW r \in VersionSet
    PROVE  EntryOf(c, f, r) \in Entries
<1>1. c.entries \in [Cached(c) -> Entries]
    BY CacheType
<1>2. Fresh(r) \in Entries
    BY DEF Fresh, Entries, VersionSet
<1>3. QED
    BY <1>1, <1>2 DEF EntryOf

\* After a load the entry is there if it fits, and no dirty one is gone.
LEMMA LoadedCache ==
    ASSUME NEW c \in Caches, Ordered(c), NEW f \in Files, NEW r \in VersionSet
    PROVE  /\ Loaded(c, f, r) \in Caches
           /\ Ordered(Loaded(c, f, r))
           /\ Cached(Loaded(c, f, r)) \subseteq Cached(c) \cup {f}
           /\ \A g \in Cached(Loaded(c, f, r)) :
                 Loaded(c, f, r).entries[g] = IF g = f THEN EntryOf(c, f, r) ELSE c.entries[g]
           /\ \A g \in Cached(c) : c.entries[g].dirty => g \in Cached(Loaded(c, f, r))
           /\ f \in Cached(c) => f \in Cached(Loaded(c, f, r))
           /\ Exact(c) =>
                 /\ Exact(Loaded(c, f, r))
                 /\ r.content.size <= MaxBytes => f \in Cached(Loaded(c, f, r))
<1>1. /\ Cached(c) \subseteq Files /\ c.entries \in [Cached(c) -> Entries]
      /\ c.lru \in Seq(Files) /\ c.bytes \in Int
    BY CacheType
<1>2. CASE f \in Cached(c)
    <2> DEFINE d == [c EXCEPT !.lru = Touch(@, f)]
    <2>1. Loaded(c, f, r) = d
        BY <1>2 DEF Loaded
    <2>2. /\ Touch(c.lru, f) \in Seq(Files) /\ Distinct(Touch(c.lru, f))
          /\ Range(Touch(c.lru, f)) = Range(c.lru) \cup {f}
        <3>1. Distinct(c.lru)
            BY DEF Ordered, Distinct
        <3>2. QED
            BY <1>1, <3>1, Touches
    <2>3. d \in Caches /\ d.entries = c.entries /\ d.lru = Touch(c.lru, f) /\ d.bytes = c.bytes
        BY <2>2 DEF Caches
    <2>4. Cached(d) = Cached(c)
        BY <2>3 DEF Cached
    <2>5. Ordered(d)
        BY <2>2, <2>3, <2>4 DEF Ordered, Distinct
    <2>6. Exact(c) => Exact(d)
        BY <2>3, <2>4 DEF Exact
    <2>7. EntryOf(c, f, r) = c.entries[f]
        BY <1>2 DEF EntryOf
    <2> HIDE DEF d
    <2>8. QED
        BY <1>2, <2>1, <2>3, <2>4, <2>5, <2>6, <2>7
<1>3. CASE f \notin Cached(c)
    <2> DEFINE b == c.bytes + r.content.size
               d == [entries |-> With(c.entries, f, Fresh(r)), lru |-> Touch(c.lru, f),
                     bytes |-> b]
    <2>1. Loaded(c, f, r) = Evicted(d) /\ EntryOf(c, f, r) = Fresh(r)
        BY <1>3 DEF Loaded, EntryOf
    <2>2. /\ Fresh(r) \in Entries /\ Fresh(r).content.size = r.content.size
          /\ r.content.size \in Nat
        BY DEF Fresh, Entries, VersionSet
    <2>3. b \in Int /\ b = c.bytes + Fresh(r).content.size - 0
        BY <1>1, <2>2
    <2> HIDE DEF b
    <2>4. /\ d \in Caches /\ Ordered(d)
          /\ Cached(d) = Cached(c) \cup {f}
          /\ \A g \in Cached(d) : d.entries[g] = IF g = f THEN Fresh(r) ELSE c.entries[g]
          /\ Len(d.lru) > 0 /\ d.lru[Len(d.lru)] = f
          /\ Exact(c) => Exact(d)
        BY <1>3, <2>2, <2>3, EnteredCache
    <2> HIDE DEF d
    <2>5. /\ Evicted(d) \in Caches /\ Ordered(Evicted(d))
          /\ Cached(Evicted(d)) \subseteq Cached(d)
          /\ \A g \in Cached(Evicted(d)) : Evicted(d).entries[g] = d.entries[g]
          /\ \A g \in Cached(d) : d.entries[g].dirty => g \in Cached(Evicted(d))
          /\ Exact(d) =>
                /\ Exact(Evicted(d))
                /\ \A g \in Cached(d) :
                      /\ Len(d.lru) > 0 /\ d.lru[Len(d.lru)] = g
                      /\ d.entries[g].content.size <= MaxBytes
                      => g \in Cached(Evicted(d))
        BY <2>4, EvictedCache
    <2>6. QED
        BY <1>3, <2>1, <2>2, <2>4, <2>5
<1>4. QED
    BY <1>2, <1>3

\* The cache after a write to an entry that was loaded into c.
Written(c, f, e, content) ==
    Evicted([entries |-> IF f \in Cached(c) THEN With(c.entries, f, Updated(e, content))
                         ELSE c.entries,
             lru |-> Touch(c.lru, f),
             bytes |-> c.bytes - e.content.size + content.size])

\* After a write the entry is there, changed, if it fits, and no dirty one is gone.
LEMMA WrittenCache ==
    ASSUME NEW c \in Caches, Ordered(c), NEW f \in Files, NEW e \in Entries,
           NEW content \in [id : Nat, size : Nat],
           f \in Cached(c) => e = c.entries[f]
    PROVE  /\ Updated(e, content) \in Entries
           /\ Written(c, f, e, content) \in Caches
           /\ Ordered(Written(c, f, e, content))
           /\ Cached(Written(c, f, e, content)) \subseteq Cached(c)
           /\ \A g \in Cached(Written(c, f, e, content)) :
                 Written(c, f, e, content).entries[g]
                     = IF g = f THEN Updated(e, content) ELSE c.entries[g]
           /\ \A g \in Cached(c) :
                 c.entries[g].dirty => g \in Cached(Written(c, f, e, content))
           /\ f \in Cached(c) =>
                 /\ f \in Cached(Written(c, f, e, content))
                 /\ Exact(c) => Exact(Written(c, f, e, content))
<1> DEFINE b == c.bytes - e.content.size + content.size
           d == [entries |-> IF f \in Cached(c) THEN With(c.entries, f, Updated(e, content))
                             ELSE c.entries,
                 lru |-> Touch(c.lru, f), bytes |-> b]
<1>1. /\ Cached(c) \subseteq Files /\ c.entries \in [Cached(c) -> Entries]
      /\ c.lru \in Seq(Files) /\ c.bytes \in Int
    BY CacheType
<1>2. /\ e.content.size \in Nat /\ content.size \in Nat /\ b \in Int
      /\ e.ver + 1 \in Nat /\ Version(e.ver + 1, content) \in VersionSet
    BY <1>1 DEF Entries, Version, VersionSet
<1>3. /\ Updated(e, content) \in Entries /\ Updated(e, content).dirty
      /\ Updated(e, content).content = content
    BY <1>2 DEF Updated, Entries
<1>4. Written(c, f, e, content) = Evicted(d)
    BY DEF Written
<1>5. /\ d \in Caches /\ Ordered(d) /\ Cached(d) = Cached(c)
      /\ \A g \in Cached(d) : d.entries[g] = IF g = f THEN Updated(e, content)
                                             ELSE c.entries[g]
      /\ f \in Cached(c) /\ Exact(c) => Exact(d)
    <2>1. CASE f \in Cached(c)
        <3>1. d = [entries |-> With(c.entries, f, Updated(e, content)),
                   lru |-> Touch(c.lru, f), bytes |-> b]
            BY <2>1
        <3>2. b = c.bytes + Updated(e, content).content.size - c.entries[f].content.size
            BY <1>1, <1>2, <1>3, <2>1
        <3> HIDE DEF d, b
        <3>3. /\ d \in Caches /\ Ordered(d) /\ Cached(d) = Cached(c) \cup {f}
              /\ \A g \in Cached(d) : d.entries[g] = IF g = f THEN Updated(e, content)
                                                     ELSE c.entries[g]
              /\ Exact(c) => Exact(d)
            BY <1>2, <1>3, <2>1, <3>1, <3>2, EnteredCache
        <3>4. QED
            BY <2>1, <3>3
    <2>2. CASE f \notin Cached(c)
        <3>1. d.entries = c.entries /\ d.lru = Touch(c.lru, f)
            BY <2>2
        <3>2. /\ Touch(c.lru, f) \in Seq(Files) /\ Distinct(Touch(c.lru, f))
              /\ Range(Touch(c.lru, f)) = Range(c.lru) \cup {f}
            <4>1. Distinct(c.lru)
                BY DEF Ordered, Distinct
            <4>2. QED
                BY <1>1, <4>1, Touches
        <3>3. d \in Caches
            BY <1>2, <2>2, <3>2 DEF Caches
        <3>4. Cached(d) = Cached(c)
            BY <3>1 DEF Cached
        <3>5. Ordered(d)
            BY <3>1, <3>2, <3>4 DEF Ordered, Distinct
        <3>6. QED
            BY <2>2, <3>1, <3>3, <3>4, <3>5
    <2>3. QED
        BY <2>1, <2>2
<1> HIDE DEF d
<1>6. /\ Evicted(d) \in Caches /\ Ordered(Evicted(d))
      /\ Cached(Evicted(d)) \subseteq Cached(d)
      /\ \A g \in Cached(Evicted(d)) : Evicted(d).entries[g] = d.entries[g]
      /\ \A g \in Cached(d) : d.entries[g].dirty => g \in Cached(Evicted(d))
      /\ Exact(d) => Exact(Evicted(d))
    BY <1>5, EvictedCache
<1>7. QED
    BY <1>3, <1>4, <1>5, <1>6

-----------------------------------------------------------------------------
(* What was written over what.                                             *)

LEMMA DescendsIsUnder == \A n, m : Descends(n, m) <=> Under(parent, n, m)
BY DEF Descends, Writes, Under

\* Under is reflexive, transitive, and kept when writes are added.
LEMMA UnderSelf == \A par, n : Under(par, n, n)
BY DEF Under

LEMMA UnderThrough ==
    ASSUME NEW par, NEW n, NEW k, NEW m, Under(par, n, k), Under(par, k, m)
    PROVE  Under(par, n, m)
BY DEF Under

\* Nothing that was there at the start was written over a write.
LEMMA UnderWrites ==
    ASSUME NEW par \in Seq(Nat), NEW n, NEW m \in 1..Len(par), Under(par, n, m)
    PROVE  n \in 1..Len(par)
<1>1. 1..Len(par) \in SUBSET (0..Len(par))
    OBVIOUS
<1>2. QED
    BY <1>1 DEF Under

LEMMA UnderGrows ==
    ASSUME NEW par \in Seq(Nat), NEW x \in Nat, NEW m \in 0..Len(par)
    PROVE  /\ \A n : Under(par, n, m) => Under(Append(par, x), n, m)
           /\ Under(par, x, m) => Under(Append(par, x), Len(par) + 1, m)
<1> DEFINE par2 == Append(par, x)
<1>1. /\ Len(par) \in Nat /\ Len(par2) = Len(par) + 1
      /\ \A k \in 1..Len(par) : par2[k] = par[k]
      /\ par2[Len(par) + 1] = x
    BY AppendProperties
<1> HIDE DEF par2
<1>2. ASSUME NEW n, Under(par, n, m), NEW S \in SUBSET (0..Len(par2)), m \in S,
             \A k \in 1..Len(par2) : par2[k] \in S => k \in S
      PROVE  n \in S
    <2> DEFINE T == S \cap (0..Len(par))
    <2>1. m \in T /\ T \in SUBSET (0..Len(par))
        BY <1>2
    <2>2. ASSUME NEW k \in 1..Len(par), par[k] \in T PROVE k \in T
        <3>1. k \in 1..Len(par2) /\ k \in 0..Len(par)
            BY <1>1
        <3>2. QED
            BY <1>1, <1>2, <2>2, <3>1
    <2>3. n \in T
        BY <1>2, <2>1, <2>2 DEF Under
    <2>4. QED
        BY <2>3
<1>3. \A n : Under(par, n, m) => Under(par2, n, m)
    BY <1>2 DEF Under
<1>4. ASSUME Under(par, x, m), NEW S \in SUBSET (0..Len(par2)), m \in S,
             \A k \in 1..Len(par2) : par2[k] \in S => k \in S
      PROVE  Len(par) + 1 \in S
    <2>1. Under(par2, x, m)
        BY <1>3, <1>4
    <2>2. x \in S
        BY <1>4, <2>1 DEF Under
    <2>3. Len(par) + 1 \in 1..Len(par2)
        BY <1>1
    <2>4. QED
        BY <1>1, <1>4, <2>2, <2>3
<1>5. QED
    BY <1>3, <1>4 DEF par2, Under

-----------------------------------------------------------------------------
(* Entries.                                                                *)

\* The fields of an entry, for the provers.
LEMMA EntryFields ==
    ASSUME NEW e \in Entries
    PROVE  /\ e.content \in [id : Nat, size : Nat] /\ e.ver \in Nat /\ e.flushed \in Nat
           /\ e.pending \subseteq VersionSet /\ e.dirty \in BOOLEAN
           /\ \A v \in e.pending : /\ v.ver \in Nat /\ v.content \in [id : Nat, size : Nat]
                                   /\ v = Version(v.ver, v.content)
BY DEF Entries, VersionSet, Version

\* The entry made of a row object, current or old, is tracked.
LEMMA FreshIsTracked ==
    ASSUME NEW par, NEW gone, NEW r \in VersionSet, NEW v \in VersionSet, OfRow(par, r, v)
    PROVE  Chained(par, Fresh(v)) /\ Follows(par, gone, r, Fresh(v))
<1>1. /\ Fresh(v).content = v.content /\ Fresh(v).ver = v.ver /\ Fresh(v).flushed = v.ver
      /\ Fresh(v).pending = {} /\ Fresh(v).dirty = FALSE
    BY DEF Fresh
<1>2. v.ver \in Nat /\ r.ver \in Nat
    BY DEF VersionSet
<1>3. Chained(par, Fresh(v))
    BY <1>1, <1>2 DEF Chained
<1>4. Follows(par, gone, r, Fresh(v))
    BY <1>1, <1>2, UnderSelf DEF Follows, OfRow
<1>5. QED
    BY <1>3, <1>4

\* More writes, made by anyone, leave an entry tracked.
LEMMA TrackedGrows ==
    ASSUME NEW par \in Seq(Nat), NEW x \in Nat, NEW gone, NEW big,
           NEW r, KnownVersion(par, big, r), NEW e, KnownEntry(par, big, e),
           Chained(par, e), Follows(par, gone, r, e)
    PROVE  Chained(Append(par, x), e) /\ Follows(Append(par, x), gone, r, e)
<1>1. /\ r.content.id \in 0..Len(par) /\ e.content.id \in 0..Len(par)
      /\ \A v \in e.pending : v.content.id \in 0..Len(par)
    BY DEF KnownEntry, KnownVersion, Shown, Version
<1>2. \A m \in 0..Len(par) : \A n : Under(par, n, m) => Under(Append(par, x), n, m)
    BY UnderGrows
<1>3. Chained(Append(par, x), e)
    BY <1>1, <1>2 DEF Chained
<1>4. Follows(Append(par, x), gone, r, e)
    BY <1>1, <1>2 DEF Follows
<1>5. QED
    BY <1>3, <1>4

LEMMA OfRowGrows ==
    ASSUME NEW par \in Seq(Nat), NEW x \in Nat, NEW big, NEW r, NEW v,
           KnownVersion(par, big, v), OfRow(par, r, v)
    PROVE  OfRow(Append(par, x), r, v)
BY UnderGrows DEF KnownVersion, OfRow

\* A write is chained to what was pending.
LEMMA UpdatedIsTracked ==
    ASSUME NEW par \in Seq(Nat), NEW gone, NEW big,
           NEW r \in VersionSet, KnownVersion(par, big, r),
           NEW e \in Entries, KnownEntry(par, big, e),
           Chained(par, e), Follows(par, gone, r, e),
           NEW content \in [id : Nat, size : Nat], content.id = Len(par) + 1
    PROVE  LET par2 == Append(par, e.content.id)
               u == Updated(e, content)
           IN Chained(par2, u) /\ Follows(par2, gone, r, u)
<1> DEFINE par2 == Append(par, e.content.id)
           u == Updated(e, content)
           new == Version(e.ver + 1, content)
<1>1. /\ e.content \in [id : Nat, size : Nat] /\ e.ver \in Nat /\ e.flushed \in Nat
      /\ e.pending \subseteq VersionSet /\ e.dirty \in BOOLEAN
      /\ \A v \in e.pending : /\ v.ver \in Nat /\ v.content \in [id : Nat, size : Nat]
                              /\ v = Version(v.ver, v.content)
    BY EntryFields
<1>2. /\ u.content = content /\ u.ver = e.ver + 1 /\ u.flushed = e.flushed
      /\ u.pending = e.pending \cup {new} /\ u.dirty = TRUE
    BY DEF Updated, Entries
<1>3. /\ r.content.id \in 0..Len(par) /\ e.content.id \in 0..Len(par)
      /\ \A v \in e.pending : v.content.id \in 0..Len(par)
    BY DEF KnownEntry, KnownVersion, Shown, Version
<1>4. new.ver = e.ver + 1 /\ new.content = content /\ content.id # 0 /\ Shown(u) = new
    <2>1. Len(par) \in Nat
        OBVIOUS
    <2>2. QED
        BY <1>2, <2>1 DEF Version, Shown
<1>5. \A m \in 0..Len(par) : \A n : Under(par, n, m) => Under(par2, n, m)
    BY <1>1, UnderGrows
<1>6. \A m \in 0..Len(par) : Under(par, e.content.id, m) => Under(par2, content.id, m)
    BY <1>1, UnderGrows
<1> HIDE DEF par2, u, new
<1>7. \A v \in e.pending : Under(par, e.content.id, v.content.id)
    <2>1. ASSUME NEW v \in e.pending PROVE Under(par, e.content.id, v.content.id)
        <3>1. Shown(e) \in e.pending /\ Shown(e).ver = e.ver /\ Shown(e).content = e.content
            BY <1>1, <2>1 DEF Chained, Shown, Version
        <3>2. v.ver <= e.ver
            BY <2>1 DEF Chained
        <3>3. QED
            BY <2>1, <3>1, <3>2 DEF Chained
    <2>2. QED
        BY <2>1
<1>8. Chained(par2, u)
    <2>1. u.flushed <= u.ver /\ u.dirty /\ u.pending # {} /\ Shown(u) \in u.pending
        BY <1>1, <1>2, <1>4 DEF Chained
    <2>2. ASSUME NEW v \in u.pending
          PROVE  /\ u.flushed < v.ver /\ v.ver <= u.ver
                 /\ v.ver = u.ver => v.content = u.content
                 /\ v.content.id # 0
        <3>1. CASE v = new
            BY <1>1, <1>2, <1>4, <3>1 DEF Chained
        <3>2. CASE v \in e.pending
            BY <1>1, <1>2, <3>2 DEF Chained
        <3>3. QED
            BY <1>2, <3>1, <3>2
    <2>3. ASSUME NEW v \in u.pending, NEW w \in u.pending, v.ver <= w.ver
          PROVE  Under(par2, w.content.id, v.content.id)
        <3>1. CASE w \in e.pending /\ v \in e.pending
            BY <1>3, <1>5, <2>3, <3>1 DEF Chained
        <3>2. CASE w = new /\ v \in e.pending
            BY <1>3, <1>4, <1>6, <1>7, <3>2
        <3>3. CASE w = new /\ v = new
            BY <3>3, UnderSelf
        <3>4. CASE w \in e.pending /\ v = new
            BY <1>1, <1>4, <2>3, <3>4 DEF Chained
        <3>5. QED
            BY <1>2, <3>1, <3>2, <3>3, <3>4
    <2>4. QED
        BY <1>2, <2>1, <2>2, <2>3 DEF Chained
<1>9. Follows(par2, gone, r, u)
    <2>1. ASSUME u.flushed = r.ver, NEW v \in u.pending
          PROVE  Under(par2, v.content.id, r.content.id)
        <3>1. CASE v = new
            BY <1>2, <1>3, <1>4, <1>6, <2>1, <3>1 DEF Follows
        <3>2. CASE v \in e.pending
            BY <1>2, <1>3, <1>5, <2>1, <3>2 DEF Follows
        <3>3. QED
            BY <1>2, <2>1, <3>1, <3>2
    <2>2. new \in u.pending
        BY <1>2
    <2>3. QED
        BY <1>2, <1>4, <2>1, <2>2 DEF Follows
<1>10. QED
    BY <1>8, <1>9 DEF par2, u

\* A row that moves on, over what it was.
LEMMA RowMoves ==
    ASSUME NEW par, NEW gone, NEW r \in VersionSet, NEW s \in VersionSet,
           r.ver < s.ver, Under(par, s.content.id, r.content.id)
    PROVE  /\ \A e \in Entries : Follows(par, gone, r, e) => Follows(par, gone, s, e)
           /\ \A v \in VersionSet : OfRow(par, r, v) => OfRow(par, s, v)
           /\ \A j : \A e \in Entries : j.final \in VersionSet /\ Found(par, r, j, e)
                                           => Found(par, s, j, e)
<1>1. r.ver \in Nat /\ s.ver \in Nat
    BY DEF VersionSet
<1>2. ASSUME NEW e \in Entries, Follows(par, gone, r, e) PROVE Follows(par, gone, s, e)
    <2>1. e.flushed \in Nat
        BY DEF Entries
    <2>2. e.flushed <= s.ver /\ e.flushed # s.ver
        BY <1>1, <1>2, <2>1 DEF Follows
    <2>3. Under(par, r.content.id, e.content.id) => Under(par, s.content.id, e.content.id)
        BY UnderThrough
    <2>4. QED
        BY <1>2, <2>2, <2>3 DEF Follows
<1>3. ASSUME NEW v \in VersionSet, OfRow(par, r, v) PROVE OfRow(par, s, v)
    <2>1. v.ver \in Nat
        BY DEF VersionSet
    <2>2. v.ver <= s.ver /\ v.ver # s.ver
        BY <1>1, <1>3, <2>1 DEF OfRow
    <2>3. Under(par, s.content.id, v.content.id)
        BY <1>3, UnderThrough DEF OfRow
    <2>4. QED
        BY <2>2, <2>3 DEF OfRow
<1>4. ASSUME NEW j, NEW e \in Entries, j.final \in VersionSet, Found(par, r, j, e)
      PROVE  Found(par, s, j, e)
    <2>1. e.flushed \in Nat
        BY DEF Entries
    <2>2. j.at = "drop" => e.flushed < s.ver
        BY <1>1, <1>4, <2>1 DEF Found
    <2>3. QED
        BY <1>3, <1>4, <2>2 DEF Found
<1>5. QED
    BY <1>2, <1>3, <1>4

\* What the flusher wrote is no longer pending.
Settled(e, v) ==
    LET left == {w \in e.pending : w.ver > v.ver}
    IN [e EXCEPT !.flushed = Max({@, v.ver}), !.pending = left, !.dirty = left # {}]

\* After a settle, what is still pending is newer than what was flushed.
LEMMA SettledIsTracked ==
    ASSUME NEW par, NEW gone, NEW r \in VersionSet, NEW e \in Entries, Chained(par, e),
           NEW v \in e.pending, OfRow(par, r, v)
    PROVE  /\ Settled(e, v) \in Entries
           /\ Chained(par, Settled(e, v))
           /\ Follows(par, gone, r, Settled(e, v))
<1> DEFINE left == {w \in e.pending : w.ver > v.ver}
           d == Settled(e, v)
<1>1. /\ e.content \in [id : Nat, size : Nat] /\ e.ver \in Nat /\ e.flushed \in Nat
      /\ e.pending \subseteq VersionSet /\ e.dirty \in BOOLEAN
      /\ \A w \in e.pending : /\ w.ver \in Nat /\ w.content \in [id : Nat, size : Nat]
                              /\ w = Version(w.ver, w.content)
    BY EntryFields
<1>2. e.flushed < v.ver /\ v.ver <= e.ver /\ v.ver \in Nat
    BY <1>1 DEF Chained
<1>3. Max({e.flushed, v.ver}) = v.ver
    BY <1>1, <1>2, Larger
<1>4. /\ d \in Entries /\ d.content = e.content /\ d.ver = e.ver /\ d.flushed = v.ver
      /\ d.pending = left /\ d.dirty = (left # {})
    BY <1>1, <1>2, <1>3 DEF Settled, Entries
<1> HIDE DEF d
<1>5. /\ Shown(e) \in e.pending /\ Shown(e).ver = e.ver /\ Shown(e).content = e.content
      /\ Shown(d) = Shown(e)
    BY <1>4 DEF Chained, Shown, Version
<1>6. left # {} => Shown(e) \in left
    <2>1. ASSUME NEW w \in left PROVE e.ver > v.ver
        BY <1>1, <1>2, <2>1 DEF Chained
    <2>2. QED
        BY <1>5, <2>1
<1>7. Chained(par, d)
    <2>1. ASSUME NEW w \in left
          PROVE  /\ v.ver < w.ver /\ w.ver <= e.ver
                 /\ w.ver = e.ver => w.content = e.content
                 /\ w.content.id # 0
                 /\ \A u \in left : w.ver <= u.ver => Under(par, u.content.id, w.content.id)
        BY <1>1, <1>2 DEF Chained
    <2>2. QED
        BY <1>2, <1>4, <1>5, <1>6, <2>1 DEF Chained
<1>8. Under(par, e.content.id, v.content.id)
    BY <1>2, <1>5 DEF Chained
<1>9. \A w \in left : Under(par, w.content.id, v.content.id)
    BY <1>1, <1>2 DEF Chained
<1>10. left = {} => e.content = v.content
    <2>1. left = {} => ~(e.ver > v.ver)
        BY <1>5
    <2>2. left = {} => v.ver = e.ver
        BY <1>1, <1>2, <2>1
    <2>3. QED
        BY <2>2 DEF Chained
<1>11. Follows(par, gone, r, d)
    BY <1>4, <1>8, <1>9, <1>10 DEF Follows, OfRow
<1>12. QED
    BY <1>4, <1>7, <1>11 DEF d

\* After a conflict nothing is pending.
Discarded(e) == [e EXCEPT !.pending = {}, !.dirty = FALSE]
PendingIds(e) == {v.content.id : v \in e.pending}

\* A discarded entry is clean, and its contents are counted as discarded.
LEMMA DiscardedIsTracked ==
    ASSUME NEW par, NEW gone, NEW r \in VersionSet, NEW e \in Entries, Chained(par, e),
           e.pending # {}, e.flushed < r.ver
    PROVE  /\ Discarded(e) \in Entries
           /\ Chained(par, Discarded(e))
           /\ Follows(par, gone \cup PendingIds(e), r, Discarded(e))
<1> DEFINE d == Discarded(e)
<1>1. e.flushed \in Nat /\ r.ver \in Nat /\ e.ver \in Nat
    BY DEF Entries, VersionSet
<1>2. /\ d \in Entries /\ d.content = e.content /\ d.ver = e.ver /\ d.flushed = e.flushed
      /\ d.pending = {} /\ d.dirty = FALSE
    BY DEF Discarded, Entries
<1> HIDE DEF d
<1>3. Shown(e) \in e.pending /\ Shown(e).content = e.content
    BY DEF Chained, Shown, Version
<1>4. e.content.id \in PendingIds(e)
    BY <1>3 DEF PendingIds
<1>5. Chained(par, d)
    BY <1>2 DEF Chained
<1>6. Follows(par, gone \cup PendingIds(e), r, d)
    BY <1>1, <1>2, <1>4 DEF Follows
<1>7. QED
    BY <1>2, <1>5, <1>6 DEF d

-----------------------------------------------------------------------------
(* Callers.                                                                *)

LEMMA CacheOf ==
    ASSUME Typed, NEW p \in Processes
    PROVE  /\ cache[p] \in Caches /\ Ordered(cache[p])
           /\ Cached(cache[p]) \subseteq Files
           /\ \A f \in Cached(cache[p]) : cache[p].entries[f] \in Entries
<1>1. cache[p] \in Caches /\ Ordered(cache[p])
    BY DEF Typed
<1>2. QED
    BY <1>1, CacheType

LEMMA JobOf ==
    ASSUME Typed, NEW p \in Processes
    PROVE  /\ job[p] \in Jobs /\ job[p].todo \subseteq Files
           /\ Copying(p) => /\ job[p].file \in Files /\ job[p].final \in VersionSet
                            /\ job[p].expected \in Nat
                            /\ job[p] \in [at : {"sql", "settle", "drop"},
                                           todo : SUBSET Files, file : Files,
                                           expected : Nat, final : VersionSet]
<1>1. job[p] \in Jobs
    BY DEF Typed
<1>2. QED
    BY <1>1 DEF Jobs, Copying

\* What has something pending is dirty.
LEMMA PendingIsDirty ==
    ASSUME Tracked, NEW p \in Processes, NEW f \in Cached(cache[p]),
           cache[p].entries[f].pending # {}
    PROVE  cache[p].entries[f].dirty
BY DEF Tracked, Chained

LEMMA CopiedIsDirty ==
    ASSUME Tracked, Working, NEW p \in Processes, Copying(p)
    PROVE  job[p].file \in Cached(cache[p]) /\ cache[p].entries[job[p].file].dirty
BY DEF Tracked, Working, Found, Chained

LEMMA EntryIsTracked ==
    ASSUME Tracking, NEW p \in Processes, NEW f \in Files
    PROVE  LET e == EntryOf(cache[p], f, node[p][f])
           IN /\ e \in Entries
              /\ KnownEntry(parent, outgrown, e)
              /\ Chained(parent, e)
              /\ Follows(parent, dropped, row[f], e)
<1> DEFINE v == node[p][f]
<1> USE DEF Tracking
<1>1. row[f] \in VersionSet /\ v \in VersionSet
    BY DEF Typed
<1>2. cache[p] \in Caches
    BY CacheOf
<1>3. EntryOf(cache[p], f, v) \in Entries
    BY <1>1, <1>2, EntryType
<1>4. CASE f \in Cached(cache[p])
    BY <1>3, <1>4 DEF EntryOf, Known, Tracked
<1>5. CASE f \notin Cached(cache[p])
    <2>1. EntryOf(cache[p], f, v) = Fresh(v)
        BY <1>5 DEF EntryOf
    <2>2. OfRow(parent, row[f], v)
        BY DEF RowsRead
    <2>3. Chained(parent, Fresh(v)) /\ Follows(parent, dropped, row[f], Fresh(v))
        BY <1>1, <2>2, FreshIsTracked
    <2>4. Shown(Fresh(v)) = v /\ Fresh(v).pending = {}
        BY <1>1 DEF Shown, Fresh, Version, VersionSet
    <2>5. KnownEntry(parent, outgrown, Fresh(v))
        BY <2>4 DEF KnownEntry, Known
    <2>6. QED
        BY <1>3, <2>1, <2>3, <2>5
<1>6. QED
    BY <1>4, <1>5

\* One lemma per step of a caller: it keeps the invariant.
LEMMA QueryStep ==
    ASSUME Inv, NEW p \in Processes, NEW f \in Files, Query(p, f)
    PROVE  Inv'
<1> USE DEF Inv, Tracking
<1>1. /\ node' = [node EXCEPT ![p][f] = row[f]]
      /\ row' = row /\ cache' = cache /\ dirtyIds' = dirtyIds /\ job' = job
      /\ parent' = parent /\ dropped' = dropped /\ outgrown' = outgrown
    BY DEF Query
<1>2. node \in [Processes -> [Files -> VersionSet]] /\ row \in [Files -> VersionSet]
    BY DEF Typed
<1>3. /\ node' \in [Processes -> [Files -> VersionSet]]
      /\ \A q \in Processes, g \in Files :
            node'[q][g] = IF q = p /\ g = f THEN row[g] ELSE node[q][g]
    BY <1>1, <1>2
<1>4. Typed'
    BY <1>1, <1>3 DEF Typed, Writes
<1>5. Known'
    BY <1>1, <1>3 DEF Known, Copying
<1>6. Tracked' /\ Working' /\ Counted'
    BY <1>1 DEF Tracked, Working, Copying, Counted
<1>7. RowsRead'
    <2>1. OfRow(parent, row[f], row[f])
        BY <1>2, UnderSelf DEF OfRow, VersionSet
    <2>2. QED
        BY <1>1, <1>3, <2>1 DEF RowsRead
<1>8. NoSilentLoss'
    BY <1>1 DEF NoSilentLoss, Accounted, Durable, Pending, Writes, Descends
<1>9. QED
    BY <1>4, <1>5, <1>6, <1>7, <1>8

LEMMA GetStep ==
    ASSUME Inv, NEW p \in Processes, NEW f \in Files, Get(p, f)
    PROVE  Inv'
<1> USE DEF Inv, Tracking
<1> DEFINE c == cache[p]
           d == Loaded(c, f, node[p][f])
           e == EntryOf(c, f, node[p][f])
<1>1. /\ cache' = [cache EXCEPT ![p] = d]
      /\ row' = row /\ node' = node /\ dirtyIds' = dirtyIds /\ job' = job
      /\ parent' = parent /\ dropped' = dropped /\ outgrown' = outgrown
    BY DEF Get
<1>2. node[p][f] \in VersionSet /\ cache \in [Processes -> Caches]
    BY DEF Typed
<1>3. /\ c \in Caches /\ Ordered(c) /\ Cached(c) \subseteq Files
      /\ \A g \in Cached(c) : c.entries[g] \in Entries
    BY CacheOf
<1>4. /\ d \in Caches /\ Ordered(d) /\ Cached(d) \subseteq Cached(c) \cup {f}
      /\ \A g \in Cached(d) : d.entries[g] = IF g = f THEN e ELSE c.entries[g]
      /\ \A g \in Cached(c) : c.entries[g].dirty => g \in Cached(d)
      /\ Exact(c) => Exact(d)
    BY <1>2, <1>3, LoadedCache
<1>5. /\ e \in Entries /\ KnownEntry(parent, outgrown, e)
      /\ Chained(parent, e) /\ Follows(parent, dropped, row[f], e)
    BY EntryIsTracked
<1>6. f \in Cached(c) => e = c.entries[f]
    BY DEF EntryOf
<1> HIDE DEF c, d, e
<1>7. /\ cache' \in [Processes -> Caches] /\ cache'[p] = d
      /\ \A q \in Processes : q # p => cache'[q] = cache[q]
    BY <1>1, <1>2, <1>4
<1>8. \A g \in Cached(c) : c.entries[g].dirty =>
          g \in Cached(d) /\ d.entries[g] = c.entries[g]
    BY <1>4, <1>6
<1>9. Typed'
    <2>1. \A q \in Processes : Ordered(cache'[q])
        BY <1>4, <1>7 DEF Typed
    <2>2. QED
        BY <1>1, <1>7, <2>1 DEF Typed, Writes
<1>10. Known'
    <2>1. ASSUME NEW q \in Processes, NEW g \in Cached(cache'[q])
          PROVE  KnownEntry(parent, outgrown, cache'[q].entries[g])
        <3>1. CASE q = p
            BY <1>4, <1>5, <1>7, <2>1, <3>1 DEF Known, c
        <3>2. CASE q # p
            BY <1>7, <2>1, <3>2 DEF Known
        <3>3. QED
            BY <3>1, <3>2
    <2>2. QED
        BY <1>1, <2>1 DEF Known, Copying
<1>11. Tracked'
    <2>1. ASSUME NEW q \in Processes, NEW g \in Cached(cache'[q])
          PROVE  /\ Chained(parent, cache'[q].entries[g])
                 /\ Follows(parent, dropped, row[g], cache'[q].entries[g])
        <3>1. CASE q = p
            BY <1>4, <1>5, <1>7, <2>1, <3>1 DEF Tracked, c
        <3>2. CASE q # p
            BY <1>7, <2>1, <3>2 DEF Tracked
        <3>3. QED
            BY <3>1, <3>2
    <2>2. QED
        BY <1>1, <2>1 DEF Tracked
<1>12. RowsRead'
    BY <1>1 DEF RowsRead
<1>13. Working'
    <2>1. ASSUME NEW q \in Processes, Copying(q)
          PROVE  /\ job[q].file \in Cached(cache'[q])
                 /\ cache'[q].entries[job[q].file] = cache[q].entries[job[q].file]
        <3>1. job[q].file \in Cached(cache[q]) /\ cache[q].entries[job[q].file].dirty
            BY <2>1, CopiedIsDirty
        <3>2. QED
            BY <1>7, <1>8, <3>1 DEF c
    <2>2. QED
        BY <1>1, <2>1 DEF Working, Copying
<1>14. Counted'
    BY <1>1, <1>4, <1>7 DEF Counted, c
<1>15. NoSilentLoss'
    <2>1. ASSUME NEW q \in Processes, NEW g \in Files, NEW n \in Pending(q, g)
          PROVE  n \in Pending(q, g)'
        <3>1. g \in Cached(cache[q]) /\ n \in {v.content.id : v \in cache[q].entries[g].pending}
            BY <2>1 DEF Pending
        <3>2. cache[q].entries[g].dirty
            BY <3>1, PendingIsDirty
        <3>3. /\ g \in Cached(cache'[q])
              /\ cache'[q].entries[g] = cache[q].entries[g]
            BY <1>7, <1>8, <3>1, <3>2 DEF c
        <3>4. QED
            BY <3>1, <3>3 DEF Pending
    <2>2. QED
        BY <1>1, <2>1 DEF NoSilentLoss, Accounted, Durable, Writes, Descends
<1>16. QED
    BY <1>9, <1>10, <1>11, <1>12, <1>13, <1>14, <1>15

LEMMA KnownGrows ==
    ASSUME NEW par \in Seq(Nat), NEW x \in Nat, NEW big \in BOOLEAN, NEW z \in BOOLEAN
    PROVE  /\ \A v : KnownVersion(par, big, v) => KnownVersion(Append(par, x), big \/ z, v)
           /\ \A e : KnownEntry(par, big, e) => KnownEntry(Append(par, x), big \/ z, e)
<1>1. Len(Append(par, x)) = Len(par) + 1 /\ Len(par) \in Nat
    OBVIOUS
<1>2. ASSUME NEW v, KnownVersion(par, big, v)
      PROVE  KnownVersion(Append(par, x), big \/ z, v)
    <2>1. v.ver \in 1..(Len(par) + 1 + 1) /\ v.content.id \in 0..(Len(par) + 1)
        BY <1>1, <1>2 DEF KnownVersion
    <2>2. QED
        BY <1>1, <1>2, <2>1 DEF KnownVersion
<1>3. QED
    BY <1>2 DEF KnownEntry

LEMMA WriteStep ==
    ASSUME Inv, NEW p \in Processes, NEW f \in Files, NEW size \in Sizes, Write(p, f, size)
    PROVE  Inv'
<1> USE DEF Inv, Tracking
<1> DEFINE c == cache[p]
           d == Loaded(c, f, node[p][f])
           e == EntryOf(c, f, node[p][f])
           content == [id |-> Len(parent) + 1, size |-> size]
           u == Updated(e, content)
           w == Written(d, f, e, content)
           x == e.content.id
           par2 == Append(parent, x)
           z == size > MaxBytes
<1>1. /\ Len(parent) < MaxWrites
      /\ parent' = par2
      /\ outgrown' = (outgrown \/ z)
      /\ cache' = [cache EXCEPT ![p] = w]
      /\ dirtyIds' = [dirtyIds EXCEPT ![p] = @ \cup {f}]
      /\ row' = row /\ node' = node /\ job' = job /\ dropped' = dropped
    BY DEF Write, Written
<1>2. /\ node[p][f] \in VersionSet /\ cache \in [Processes -> Caches]
      /\ parent \in Seq(Nat) /\ Len(parent) \in Nat /\ MaxWrites \in Nat
      /\ outgrown \in BOOLEAN /\ z \in BOOLEAN
      /\ size \in Nat /\ MaxBytes \in Nat
    BY CacheAssumption DEF Typed
<1>3. /\ c \in Caches /\ Ordered(c) /\ Cached(c) \subseteq Files
      /\ \A g \in Cached(c) : c.entries[g] \in Entries
    BY CacheOf
<1>4. /\ d \in Caches /\ Ordered(d) /\ Cached(d) \subseteq Cached(c) \cup {f}
      /\ \A g \in Cached(d) : d.entries[g] = IF g = f THEN e ELSE c.entries[g]
      /\ \A g \in Cached(c) : c.entries[g].dirty => g \in Cached(d)
      /\ f \in Cached(c) => f \in Cached(d)
      /\ Exact(c) => /\ Exact(d)
                     /\ node[p][f].content.size <= MaxBytes => f \in Cached(d)
    BY <1>2, <1>3, LoadedCache
<1>5. /\ e \in Entries /\ KnownEntry(parent, outgrown, e)
      /\ Chained(parent, e) /\ Follows(parent, dropped, row[f], e)
    BY EntryIsTracked
<1>6. f \in Cached(c) => e = c.entries[f]
    BY DEF EntryOf
<1>7. content \in [id : Nat, size : Nat] /\ content.id = Len(parent) + 1 /\ content.size = size
    BY <1>2
<1>8. x \in Nat /\ e.ver \in Nat
    BY <1>5 DEF Entries
<1> HIDE DEF c, d, e, content, w, z
<1>9. /\ u \in Entries /\ w \in Caches /\ Ordered(w) /\ Cached(w) \subseteq Cached(d)
      /\ \A g \in Cached(w) : w.entries[g] = IF g = f THEN u ELSE d.entries[g]
      /\ \A g \in Cached(d) : d.entries[g].dirty => g \in Cached(w)
      /\ f \in Cached(d) => /\ f \in Cached(w)
                            /\ Exact(d) => Exact(w)
    <2>1. f \in Cached(d) => e = d.entries[f]
        BY <1>4
    <2>2. QED
        BY <1>4, <1>5, <1>7, <2>1, WrittenCache DEF w
<1>10. Chained(par2, u) /\ Follows(par2, dropped, row[f], u)
    <2>1. row[f] \in VersionSet /\ KnownVersion(parent, outgrown, row[f])
        BY DEF Typed, Known
    <2>2. QED
        BY <1>2, <1>5, <1>7, <2>1, UpdatedIsTracked
<1>11. /\ u.pending = e.pending \cup {Version(e.ver + 1, content)}
       /\ u.flushed = e.flushed /\ u.ver = e.ver + 1 /\ u.content = content
    BY <1>5 DEF Updated, Entries
<1> HIDE DEF u
<1>12. /\ Len(par2) = Len(parent) + 1 /\ par2 \in Seq(Nat)
       /\ \A v : KnownVersion(parent, outgrown, v) => KnownVersion(par2, outgrown', v)
       /\ \A k : KnownEntry(parent, outgrown, k) => KnownEntry(par2, outgrown', k)
    <2>1. Len(par2) = Len(parent) + 1 /\ par2 \in Seq(Nat)
        BY <1>2, <1>8
    <2>2. QED
        BY <1>1, <1>2, <1>8, <2>1, KnownGrows
<1>13. KnownEntry(par2, outgrown', u)
    <2>1. e.ver \in 1..(Len(parent) + 1)
        BY <1>5 DEF KnownEntry, KnownVersion, Shown, Version
    <2>2. KnownVersion(par2, outgrown', Version(e.ver + 1, content))
        <3>1. e.ver + 1 \in 1..(Len(par2) + 1) /\ content.id \in 0..Len(par2)
            BY <1>2, <1>7, <1>8, <1>12, <2>1
        <3>2. outgrown' \/ size <= MaxBytes
            <4>1. z \/ size <= MaxBytes
                BY <1>2 DEF z
            <4>2. z => outgrown'
                BY <1>1
            <4>3. QED
                BY <4>1, <4>2
        <3>3. QED
            BY <1>7, <3>1, <3>2 DEF KnownVersion, Version
    <2>3. Shown(u) = Version(e.ver + 1, content)
        BY <1>11 DEF Shown
    <2>4. \A v \in e.pending : KnownVersion(par2, outgrown', v)
        BY <1>5, <1>12 DEF KnownEntry
    <2>5. QED
        BY <1>11, <2>2, <2>3, <2>4 DEF KnownEntry
<1>14. /\ cache' \in [Processes -> Caches] /\ cache'[p] = w
       /\ \A q \in Processes : q # p => cache'[q] = cache[q]
    BY <1>1, <1>2, <1>9
<1>15. ASSUME NEW g \in Cached(c), c.entries[g].dirty
       PROVE  /\ g \in Cached(w)
              /\ w.entries[g] = IF g = f THEN u ELSE c.entries[g]
              /\ g = f => c.entries[g] = e
    <2>1. g \in Cached(d) /\ d.entries[g] = c.entries[g]
        BY <1>4, <1>6, <1>15
    <2>2. QED
        BY <1>6, <1>9, <1>15, <2>1
<1>16. ASSUME NEW g \in Cached(w)
       PROVE  \/ g = f /\ w.entries[g] = u
              \/ g # f /\ g \in Cached(c) /\ w.entries[g] = c.entries[g]
    BY <1>4, <1>9, <1>16
<1> HIDE DEF par2
<1>17. Typed'
    <2>1. \A q \in Processes : Ordered(cache'[q])
        BY <1>9, <1>14 DEF Typed
    <2>2. dirtyIds' \in [Processes -> SUBSET Files]
        BY <1>1 DEF Typed
    <2>3. Len(parent') <= MaxWrites /\ parent' \in Seq(Nat)
        BY <1>1, <1>2, <1>12
    <2>4. dropped' \subseteq Writes'
        BY <1>1, <1>2, <1>12 DEF Typed, Writes
    <2>5. QED
        BY <1>1, <1>2, <1>14, <2>1, <2>2, <2>3, <2>4 DEF Typed
<1>18. Known'
    <2>1. ASSUME NEW q \in Processes, NEW g \in Cached(cache'[q])
          PROVE  KnownEntry(parent', outgrown', cache'[q].entries[g])
        <3>1. CASE q = p
            BY <1>1, <1>12, <1>13, <1>14, <1>16, <2>1, <3>1 DEF Known, c
        <3>2. CASE q # p
            BY <1>1, <1>12, <1>14, <2>1, <3>2 DEF Known
        <3>3. QED
            BY <3>1, <3>2
    <2>2. QED
        BY <1>1, <1>12, <2>1 DEF Known, Copying
<1>19. \A g \in Files : KnownVersion(parent, outgrown, row[g])
    BY DEF Known
<1>20. Tracked'
    <2>1. ASSUME NEW q \in Processes, NEW g \in Cached(cache[q])
          PROVE  /\ Chained(par2, cache[q].entries[g])
                 /\ Follows(par2, dropped, row[g], cache[q].entries[g])
        <3>1. g \in Files
            BY <2>1, CacheOf
        <3>2. /\ KnownEntry(parent, outgrown, cache[q].entries[g])
              /\ Chained(parent, cache[q].entries[g])
              /\ Follows(parent, dropped, row[g], cache[q].entries[g])
            BY <2>1 DEF Known, Tracked
        <3>3. QED
            BY <1>2, <1>8, <1>19, <3>1, <3>2, TrackedGrows DEF par2
    <2>2. ASSUME NEW q \in Processes, NEW g \in Cached(cache'[q])
          PROVE  /\ Chained(par2, cache'[q].entries[g])
                 /\ Follows(par2, dropped, row[g], cache'[q].entries[g])
        <3>1. CASE q = p
            BY <1>10, <1>14, <1>16, <2>1, <2>2, <3>1 DEF c, par2
        <3>2. CASE q # p
            BY <1>14, <2>1, <2>2, <3>2
        <3>3. QED
            BY <3>1, <3>2
    <2>3. QED
        BY <1>1, <2>2 DEF Tracked
<1>21. RowsRead'
    <2>1. ASSUME NEW q \in Processes, NEW g \in Files PROVE OfRow(par2, row[g], node[q][g])
        <3>1. KnownVersion(parent, outgrown, node[q][g]) /\ OfRow(parent, row[g], node[q][g])
            BY DEF Known, RowsRead
        <3>2. QED
            BY <1>2, <1>8, <3>1, OfRowGrows DEF par2
    <2>2. QED
        BY <1>1, <2>1 DEF RowsRead
<1>22. Working'
    <2>1. ASSUME NEW q \in Processes, Copying(q)
          PROVE  /\ job[q].file \in Cached(cache'[q])
                 /\ Found(par2, row[job[q].file], job[q], cache'[q].entries[job[q].file])
        <3> DEFINE g == job[q].file
        <3>1. g \in Cached(cache[q]) /\ cache[q].entries[g].dirty
            BY <2>1, CopiedIsDirty
        <3>2. /\ g \in Cached(cache'[q])
              /\ \/ cache'[q].entries[g] = cache[q].entries[g]
                 \/ cache'[q].entries[g] = u /\ cache[q].entries[g] = e
            BY <1>14, <1>15, <3>1 DEF c
        <3>3. Found(parent, row[g], job[q], cache[q].entries[g])
            BY <2>1 DEF Working
        <3>4. /\ job[q].final \in cache'[q].entries[g].pending
              /\ cache'[q].entries[g].flushed = cache[q].entries[g].flushed
            BY <1>11, <3>2, <3>3 DEF Found
        <3>5. OfRow(parent, row[g], job[q].final) => OfRow(par2, row[g], job[q].final)
            <4>1. KnownVersion(parent, outgrown, job[q].final)
                BY <2>1 DEF Known
            <4>2. QED
                BY <1>2, <1>8, <4>1, OfRowGrows DEF par2
        <3>6. QED
            BY <3>2, <3>3, <3>4, <3>5 DEF Found
    <2>2. QED
        BY <1>1, <2>1 DEF Working, Copying
<1>23. CASE outgrown'
    <2>1. Counted' /\ NoSilentLoss'
        BY <1>23 DEF Counted, NoSilentLoss
    <2>2. QED
        BY <1>17, <1>18, <1>20, <1>21, <1>22, <2>1
<1>24. CASE ~outgrown'
    <2>1. ~outgrown /\ \A q \in Processes : Exact(cache[q])
        BY <1>1, <1>24 DEF Counted
    <2>2. Exact(d) /\ f \in Cached(d)
        <3>1. node[p][f].content.size <= MaxBytes
            BY <2>1 DEF Known, KnownVersion
        <3>2. QED
            BY <1>4, <2>1, <3>1 DEF c
    <2>3. Exact(w) /\ f \in Cached(w) /\ w.entries[f] = u
        BY <1>9, <2>2
    <2>4. Counted'
        BY <1>14, <2>1, <2>3 DEF Counted
    <2>5. ASSUME NEW n \in Writes, Accounted(n) PROVE Accounted(n)'
        <3>1. CASE n \in dropped
            BY <1>1, <3>1 DEF Accounted
        <3>2. CASE Durable(n)
            <4>1. PICK g \in Files : Under(parent, row[g].content.id, n)
                BY <3>2, DescendsIsUnder DEF Durable
            <4>2. n \in 0..Len(parent)
                BY <1>2 DEF Writes
            <4>3. Under(par2, row[g].content.id, n)
                BY <1>2, <1>8, <4>1, <4>2, UnderGrows DEF par2
            <4>4. Durable(n)'
                BY <1>1, <4>3 DEF Durable, Descends, Writes, Under
            <4>5. QED
                BY <4>4 DEF Accounted
        <3>3. ASSUME NEW q \in Processes, NEW g \in Files, n \in Pending(q, g)
              PROVE  n \in Pending(q, g)'
            <4>1. /\ g \in Cached(cache[q])
                  /\ n \in {v.content.id : v \in cache[q].entries[g].pending}
                BY <3>3 DEF Pending
            <4>2. cache[q].entries[g].dirty
                BY <4>1, PendingIsDirty
            <4>3. /\ g \in Cached(cache'[q])
                  /\ \/ cache'[q].entries[g] = cache[q].entries[g]
                     \/ cache'[q].entries[g] = u /\ cache[q].entries[g] = e
                BY <1>14, <1>15, <4>1, <4>2 DEF c
            <4>4. cache[q].entries[g].pending \subseteq cache'[q].entries[g].pending
                BY <1>11, <4>3
            <4>5. QED
                BY <4>1, <4>3, <4>4 DEF Pending
        <3>4. QED
            BY <2>5, <3>1, <3>2, <3>3 DEF Accounted
    <2>6. ASSUME NEW n, n = Len(parent) + 1 PROVE Accounted(n)'
        <3>1. Version(e.ver + 1, content) \in u.pending
              /\ Version(e.ver + 1, content).content.id = n
            BY <1>7, <1>11, <2>6 DEF Version
        <3>2. n \in {v.content.id : v \in u.pending}
            BY <3>1
        <3>3. f \in Cached(cache'[p]) /\ cache'[p].entries[f] = u
            BY <1>14, <2>3
        <3>4. n \in Pending(p, f)'
            BY <3>2, <3>3 DEF Pending
        <3>5. QED
            BY <3>4 DEF Accounted
    <2>7. \A n \in 1..(Len(parent) + 1) : n \in Writes \/ n = Len(parent) + 1
        BY <1>2 DEF Writes
    <2>8. \A n \in Writes' : Accounted(n)'
        <3>1. Writes' = 1..(Len(parent) + 1)
            BY <1>1, <1>12 DEF Writes
        <3>2. \A n \in Writes : Accounted(n)
            BY <2>1 DEF NoSilentLoss
        <3>3. QED
            BY <2>5, <2>6, <2>7, <3>1, <3>2
    <2>9. NoSilentLoss'
        BY <2>8 DEF NoSilentLoss
    <2>10. QED
        BY <1>17, <1>18, <1>20, <1>21, <1>22, <2>4, <2>9
<1>25. QED
    BY <1>23, <1>24

-----------------------------------------------------------------------------
(* The flusher: where it is.                                               *)

\* A step of a flusher that changes no row and no entry.
LEMMA JobStep ==
    ASSUME Inv, NEW p \in Processes,
           row' = row /\ node' = node /\ cache' = cache,
           parent' = parent /\ dropped' = dropped /\ outgrown' = outgrown,
           dirtyIds' \in [Processes -> SUBSET Files],
           job' \in [Processes -> Jobs],
           \A q \in Processes : q # p => job'[q] = job[q],
           Copying(p)' =>
               /\ job'[p].file \in Cached(cache[p])
               /\ Found(parent, row[job'[p].file], job'[p], cache[p].entries[job'[p].file])
    PROVE  Inv'
<1> USE DEF Inv, Tracking
<1>1. Typed'
    BY DEF Typed, Writes
<1>2. Copying(p)' => KnownVersion(parent, outgrown, job'[p].final)
    BY DEF Found, Known, KnownEntry
<1>3. Known'
    BY <1>2 DEF Known, Copying
<1>4. Working'
    BY DEF Working, Copying
<1>5. Tracked' /\ RowsRead' /\ Counted' /\ NoSilentLoss'
    BY DEF Tracked, RowsRead, Counted, NoSilentLoss, Accounted, Durable, Pending, Writes,
           Descends
<1>6. QED
    BY <1>1, <1>3, <1>4, <1>5

LEMMA Continues ==
    ASSUME Typed, NEW p \in Processes, NEW todo \in SUBSET Files, Continue(p, todo)
    PROVE  /\ job' \in [Processes -> Jobs]
           /\ \A q \in Processes : q # p => job'[q] = job[q]
           /\ ~Copying(p)'
<1>1. job \in [Processes -> Jobs]
    BY DEF Typed
<1>2. Sleeping \in Jobs /\ [at |-> "take", todo |-> todo] \in Jobs
    BY DEF Sleeping, Jobs
<1>3. job' = [job EXCEPT ![p] = IF todo = {} THEN Sleeping
                                ELSE [at |-> "take", todo |-> todo]]
    BY DEF Continue
<1>4. job'[p].at \in {"sleep", "take"}
    BY <1>1, <1>3 DEF Sleeping
<1>5. QED
    BY <1>1, <1>2, <1>3, <1>4 DEF Copying

LEMMA GoesTo ==
    ASSUME Typed, NEW p \in Processes, Copying(p),
           NEW at \in {"sql", "settle", "drop"}, Goto(p, at)
    PROVE  /\ job' \in [Processes -> Jobs]
           /\ \A q \in Processes : q # p => job'[q] = job[q]
           /\ job'[p].at = at /\ job'[p].file = job[p].file
           /\ job'[p].final = job[p].final /\ job'[p].expected = job[p].expected
<1>1. job \in [Processes -> Jobs] /\ job' = [job EXCEPT ![p].at = at]
    BY DEF Typed, Goto
<1>2. job[p] \in [at : {"sql", "settle", "drop"}, todo : SUBSET Files, file : Files,
                  expected : Nat, final : VersionSet]
    BY JobOf
<1>3. /\ job'[p] = [job[p] EXCEPT !.at = at]
      /\ \A q \in Processes : q # p => job'[q] = job[q]
      /\ job' \in [Processes -> Jobs]
    <2>1. [job[p] EXCEPT !.at = at] \in Jobs
        BY <1>2 DEF Jobs
    <2>2. QED
        BY <1>1, <2>1
<1>4. QED
    BY <1>2, <1>3

LEMMA WakeStep ==
    ASSUME Inv, NEW p \in Processes, Wake(p)
    PROVE  Inv'
<1>1. PICK batch \in SUBSET dirtyIds[p] :
          job' = [job EXCEPT ![p] = [at |-> "take", todo |-> batch]]
    BY DEF Wake, kSubset
<1>2. /\ row' = row /\ node' = node /\ cache' = cache /\ dirtyIds' = dirtyIds
      /\ parent' = parent /\ dropped' = dropped /\ outgrown' = outgrown
    BY DEF Wake
<1>3. /\ dirtyIds \in [Processes -> SUBSET Files] /\ job \in [Processes -> Jobs]
    BY DEF Inv, Tracking, Typed
<1>4. [at |-> "take", todo |-> batch] \in Jobs
    BY <1>3 DEF Jobs
<1>5. /\ job' \in [Processes -> Jobs] /\ job'[p].at = "take"
      /\ \A q \in Processes : q # p => job'[q] = job[q]
    BY <1>1, <1>3, <1>4
<1>6. ~Copying(p)'
    BY <1>5 DEF Copying
<1>7. QED
    BY <1>2, <1>3, <1>5, <1>6, JobStep

LEMMA NewestIsPending ==
    ASSUME NEW par, NEW e, Chained(par, e), e.pending # {}
    PROVE  Newest(e.pending) \in e.pending
<1>1. Shown(e) \in e.pending /\ Shown(e).ver = e.ver
    BY DEF Chained, Shown, Version
<1>2. \E v \in e.pending : \A w \in e.pending : w.ver <= v.ver
    BY <1>1 DEF Chained
<1>3. QED
    BY <1>2 DEF Newest

LEMMA TakeStep ==
    ASSUME Inv, NEW p \in Processes, NEW f \in Files, Take(p, f)
    PROVE  Inv'
<1> DEFINE rest == job[p].todo \ {f}
           e == cache[p].entries[f]
           j == [at |-> "sql", todo |-> rest, file |-> f, expected |-> e.flushed,
                 final |-> Newest(e.pending)]
<1>1. /\ row' = row /\ node' = node /\ cache' = cache
      /\ parent' = parent /\ dropped' = dropped /\ outgrown' = outgrown
    BY DEF Take
<1>2. /\ dirtyIds \in [Processes -> SUBSET Files] /\ job \in [Processes -> Jobs]
      /\ Typed /\ rest \in SUBSET Files
    BY JobOf DEF Inv, Tracking, Typed
<1>3. CASE HasPending(p, f)
    <2>1. job' = [job EXCEPT ![p] = j] /\ dirtyIds' = dirtyIds
        BY <1>3 DEF Take
    <2>2. f \in Cached(cache[p]) /\ e.pending # {}
        BY <1>3 DEF HasPending
    <2>3. Chained(parent, e) /\ e \in Entries
        BY <1>2, <2>2, CacheOf DEF Inv, Tracking, Tracked
    <2>4. Newest(e.pending) \in e.pending
        BY <2>2, <2>3, NewestIsPending
    <2>5. Newest(e.pending) \in VersionSet /\ e.flushed \in Nat
        BY <2>3, <2>4 DEF Entries
    <2>6. j \in Jobs
        BY <1>2, <2>5 DEF Jobs
    <2>7. Found(parent, row[f], j, e)
        BY <2>4 DEF Found
    <2>8. job' \in [Processes -> Jobs] /\ job'[p] = j
          /\ \A q \in Processes : q # p => job'[q] = job[q]
        BY <1>2, <2>1, <2>6
    <2>9. job'[p].file = f
        BY <2>8
    <2> HIDE DEF j
    <2>10. QED
        BY <1>1, <1>2, <2>1, <2>2, <2>7, <2>8, <2>9, JobStep
<1>4. CASE ~HasPending(p, f)
    <2>1. Continue(p, rest) /\ dirtyIds' = [dirtyIds EXCEPT ![p] = @ \ {f}]
        BY <1>4 DEF Take
    <2>2. /\ job' \in [Processes -> Jobs] /\ ~Copying(p)'
          /\ \A q \in Processes : q # p => job'[q] = job[q]
        BY <1>2, <2>1, Continues
    <2>3. dirtyIds' \in [Processes -> SUBSET Files]
        BY <1>2, <2>1
    <2>4. QED
        BY <1>1, <2>2, <2>3, JobStep
<1>5. QED
    BY <1>3, <1>4

LEMMA ConflictStep ==
    ASSUME Inv, NEW p \in Processes, Conflict(p)
    PROVE  Inv'
<1> DEFINE f == job[p].file
           e == cache[p].entries[f]
<1>1. /\ row' = row /\ node' = node /\ cache' = cache /\ dirtyIds' = dirtyIds
      /\ parent' = parent /\ dropped' = dropped /\ outgrown' = outgrown
      /\ job[p].at = "sql" /\ row[f].ver # job[p].expected /\ Goto(p, "drop")
    BY DEF Conflict
<1>2. Typed /\ Copying(p) /\ dirtyIds \in [Processes -> SUBSET Files]
    BY <1>1 DEF Inv, Tracking, Typed, Copying
<1>3. /\ job' \in [Processes -> Jobs]
      /\ \A q \in Processes : q # p => job'[q] = job[q]
      /\ job'[p].at = "drop" /\ job'[p].file = f /\ job'[p].final = job[p].final
    BY <1>1, <1>2, GoesTo
<1>4. f \in Cached(cache[p]) /\ Found(parent, row[f], job[p], e)
    BY <1>2 DEF Inv, Tracking, Working
<1>5. f \in Files /\ e \in Entries /\ row[f] \in VersionSet
    BY <1>2, <1>4, CacheOf DEF Typed
<1>6. e.flushed < row[f].ver
    <2>1. e.flushed <= row[f].ver
        BY <1>4 DEF Inv, Tracking, Tracked, Follows
    <2>2. e.flushed \in Nat /\ row[f].ver \in Nat /\ e.flushed # row[f].ver
        BY <1>1, <1>4, <1>5 DEF Entries, VersionSet, Found
    <2>3. QED
        BY <2>1, <2>2
<1>7. Found(parent, row[f], job'[p], e)
    BY <1>3, <1>4, <1>6 DEF Found
<1>8. QED
    BY <1>1, <1>2, <1>3, <1>4, <1>7, JobStep

-----------------------------------------------------------------------------
(* The flusher: rows.                                                      *)

\* The row that has the expected version is replaced by what was written over it.
LEMMA RowStep ==
    ASSUME Inv, NEW p \in Processes, job[p].at = "sql",
           row[job[p].file].ver = job[p].expected,
           row' = [row EXCEPT ![job[p].file] = job[p].final],
           node' = node /\ cache' = cache /\ dirtyIds' = dirtyIds,
           parent' = parent /\ dropped' = dropped /\ outgrown' = outgrown,
           job' \in [Processes -> Jobs],
           \A q \in Processes : q # p => job'[q] = job[q],
           Copying(p)' => job'[p].at = "settle" /\ job'[p].file = job[p].file
                          /\ job'[p].final = job[p].final
    PROVE  Inv' /\ \A g \in Files : Under(parent, row'[g].content.id, row[g].content.id)
<1> USE DEF Inv, Tracking
<1> DEFINE f == job[p].file
           v == job[p].final
           e == cache[p].entries[f]
<1>1. Copying(p)
    BY DEF Copying
<1>2. f \in Files /\ v \in VersionSet
    BY <1>1, JobOf
<1>3. f \in Cached(cache[p]) /\ v \in e.pending /\ e.flushed = row[f].ver
    BY <1>1 DEF Working, Found
<1>4. Chained(parent, e) /\ Follows(parent, dropped, row[f], e)
    BY <1>3 DEF Tracked
<1>5. row[f].ver < v.ver /\ Under(parent, v.content.id, row[f].content.id)
    BY <1>3, <1>4 DEF Chained, Follows
<1>6. row \in [Files -> VersionSet]
    BY DEF Typed
<1>7. /\ row' \in [Files -> VersionSet] /\ row'[f] = v
      /\ \A g \in Files : g # f => row'[g] = row[g]
    BY <1>2, <1>6
<1> HIDE DEF f, v
<1>8. /\ \A k \in Entries : Follows(parent, dropped, row[f], k)
                              => Follows(parent, dropped, v, k)
      /\ \A u \in VersionSet : OfRow(parent, row[f], u) => OfRow(parent, v, u)
      /\ \A j : \A k \in Entries : j.final \in VersionSet /\ Found(parent, row[f], j, k)
                                     => Found(parent, v, j, k)
    BY <1>2, <1>5, <1>6, RowMoves
<1>9. Typed'
    BY <1>7 DEF Typed, Writes
<1>10. Known'
    <2>1. KnownVersion(parent, outgrown, v)
        BY <1>1 DEF Known, v
    <2>2. \A g \in Files : KnownVersion(parent, outgrown, row'[g])
        BY <1>7, <2>1 DEF Known
    <2>3. \A q \in Processes : Copying(q)' => KnownVersion(parent, outgrown, job'[q].final)
        <3>1. ASSUME NEW q \in Processes, q # p, Copying(q)'
              PROVE  KnownVersion(parent, outgrown, job'[q].final)
            BY <3>1 DEF Known, Copying
        <3>2. QED
            BY <2>1, <3>1 DEF v
    <2>4. QED
        BY <2>2, <2>3 DEF Known
<1>11. Tracked'
    <2>1. ASSUME NEW q \in Processes, NEW g \in Cached(cache[q])
          PROVE  /\ Chained(parent, cache[q].entries[g])
                 /\ Follows(parent, dropped, row'[g], cache[q].entries[g])
        <3>1. g \in Files /\ cache[q].entries[g] \in Entries
            BY <2>1, CacheOf
        <3>2. /\ Chained(parent, cache[q].entries[g])
              /\ Follows(parent, dropped, row[g], cache[q].entries[g])
            BY <2>1 DEF Tracked
        <3>3. QED
            BY <1>7, <1>8, <3>1, <3>2
    <2>2. QED
        BY <2>1 DEF Tracked
<1>12. RowsRead'
    <2>1. ASSUME NEW q \in Processes, NEW g \in Files
          PROVE  OfRow(parent, row'[g], node[q][g])
        <3>1. node[q][g] \in VersionSet /\ OfRow(parent, row[g], node[q][g])
            BY DEF RowsRead, Typed
        <3>2. QED
            BY <1>7, <1>8, <3>1
    <2>2. QED
        BY <2>1 DEF RowsRead
<1>13. Working'
    <2>1. ASSUME NEW q \in Processes, q # p, Copying(q)'
          PROVE  /\ job'[q].file \in Cached(cache[q])
                 /\ Found(parent, row'[job'[q].file], job'[q], cache[q].entries[job'[q].file])
        <3> DEFINE g == job[q].file
        <3>1. job'[q] = job[q] /\ Copying(q)
            BY <2>1 DEF Copying
        <3>2. g \in Cached(cache[q]) /\ Found(parent, row[g], job[q], cache[q].entries[g])
            BY <3>1 DEF Working
        <3>3. g \in Files /\ cache[q].entries[g] \in Entries /\ job[q].final \in VersionSet
            BY <3>1, <3>2, CacheOf, JobOf
        <3>4. Found(parent, row'[g], job[q], cache[q].entries[g])
            <4>1. CASE g = f
                BY <1>7, <1>8, <3>2, <3>3, <4>1
            <4>2. CASE g # f
                BY <1>7, <3>2, <3>3, <4>2
            <4>3. QED
                BY <4>1, <4>2
        <3>5. QED
            BY <3>1, <3>2, <3>4
    <2>2. ASSUME Copying(p)'
          PROVE  /\ job'[p].file \in Cached(cache[p])
                 /\ Found(parent, row'[job'[p].file], job'[p], cache[p].entries[job'[p].file])
        <3>1. job'[p].file = f /\ job'[p].final = v /\ job'[p].at = "settle"
            BY <2>2 DEF f, v
        <3>2. OfRow(parent, v, v)
            BY <1>2, UnderSelf DEF OfRow, VersionSet
        <3>3. QED
            BY <1>3, <1>7, <3>1, <3>2 DEF Found
    <2>3. QED
        BY <2>1, <2>2 DEF Working
<1>14. Counted'
    BY DEF Counted
<1>15. \A g \in Files : Under(parent, row'[g].content.id, row[g].content.id)
    BY <1>5, <1>7, UnderSelf
<1>16. NoSilentLoss'
    <2>1. ASSUME NEW n, Durable(n) PROVE Durable(n)'
        <3>1. PICK g \in Files : Under(parent, row[g].content.id, n)
            BY <2>1, DescendsIsUnder DEF Durable
        <3>2. Under(parent, row'[g].content.id, n)
            BY <1>15, <3>1, UnderThrough
        <3>3. QED
            BY <3>2 DEF Durable, Descends, Writes, Under
    <2>2. QED
        BY <2>1 DEF NoSilentLoss, Accounted, Pending, Writes
<1>17. QED
    BY <1>9, <1>10, <1>11, <1>12, <1>13, <1>14, <1>15, <1>16

\* The UPDATE puts into the row what was written over it.
LEMMA UpdateStep ==
    ASSUME Inv, NEW p \in Processes, Update(p)
    PROVE  Inv' /\ \A g \in Files : Under(parent, row'[g].content.id, row[g].content.id)
<1>1. /\ job[p].at = "sql" /\ row[job[p].file].ver = job[p].expected
      /\ row' = [row EXCEPT ![job[p].file] = job[p].final]
      /\ node' = node /\ cache' = cache /\ dirtyIds' = dirtyIds
      /\ parent' = parent /\ dropped' = dropped /\ outgrown' = outgrown
      /\ Goto(p, "settle")
    BY DEF Update
<1>2. Typed /\ Copying(p)
    BY <1>1 DEF Inv, Tracking, Copying
<1>3. /\ job' \in [Processes -> Jobs]
      /\ \A q \in Processes : q # p => job'[q] = job[q]
      /\ job'[p].at = "settle" /\ job'[p].file = job[p].file /\ job'[p].final = job[p].final
    BY <1>1, <1>2, GoesTo
<1>4. QED
    BY <1>1, <1>3, RowStep

LEMMA BreakStep ==
    ASSUME Inv, NEW p \in Processes, Break(p)
    PROVE  Inv' /\ \A g \in Files : Under(parent, row'[g].content.id, row[g].content.id)
<1>1. /\ node' = node /\ cache' = cache /\ dirtyIds' = dirtyIds
      /\ parent' = parent /\ dropped' = dropped /\ outgrown' = outgrown
      /\ Continue(p, job[p].todo) /\ job[p].at = "sql"
    BY DEF Break
<1>2. Typed /\ job[p].todo \in SUBSET Files /\ dirtyIds \in [Processes -> SUBSET Files]
    BY JobOf DEF Inv, Tracking, Typed
<1>3. /\ job' \in [Processes -> Jobs] /\ ~Copying(p)'
      /\ \A q \in Processes : q # p => job'[q] = job[q]
    BY <1>1, <1>2, Continues
<1>4. CASE row' = row
    <2>1. Inv'
        BY <1>1, <1>2, <1>3, <1>4, JobStep
    <2>2. QED
        BY <1>4, <2>1, UnderSelf
<1>5. CASE /\ row[job[p].file].ver = job[p].expected
           /\ row' = [row EXCEPT ![job[p].file] = job[p].final]
    BY <1>1, <1>3, <1>5, RowStep
<1>6. QED
    BY <1>4, <1>5 DEF Break

-----------------------------------------------------------------------------
(* The flusher: entries.                                                   *)

Replaced(C, p, f, e) == [C EXCEPT ![p].entries[f] = e]

LEMMA EntryReplaced ==
    ASSUME NEW C \in [Processes -> Caches], NEW p \in Processes, Ordered(C[p]),
           NEW f \in Cached(C[p]), NEW e \in Entries,
           e.content = C[p].entries[f].content
    PROVE  LET D == Replaced(C, p, f, e)
           IN /\ D \in [Processes -> Caches]
              /\ \A q \in Processes : q # p => D[q] = C[q]
              /\ Ordered(D[p]) /\ Cached(D[p]) = Cached(C[p])
              /\ \A g \in Cached(C[p]) :
                    D[p].entries[g] = IF g = f THEN e ELSE C[p].entries[g]
              /\ Exact(C[p]) => Exact(D[p])
<1> DEFINE D == Replaced(C, p, f, e)
           c == C[p]
           d == [c EXCEPT !.entries[f] = e]
<1>1. c \in Caches /\ c.entries \in [Cached(c) -> Entries] /\ Cached(c) \subseteq Files
    BY CacheType
<1>2. D = [C EXCEPT ![p] = d]
    BY DEF Replaced
<1> HIDE DEF c, D
<1>3. /\ d.entries = [c.entries EXCEPT ![f] = e] /\ d.lru = c.lru /\ d.bytes = c.bytes
      /\ d = [entries |-> [c.entries EXCEPT ![f] = e], lru |-> c.lru, bytes |-> c.bytes]
    <2>1. c = [entries |-> c.entries, lru |-> c.lru, bytes |-> c.bytes]
        BY <1>1 DEF Caches
    <2> DEFINE es == c.entries
               ls == c.lru
               bs == c.bytes
    <2>2. c = [entries |-> es, lru |-> ls, bytes |-> bs]
        BY <2>1
    <2> HIDE DEF es, ls, bs
    <2>3. d = [entries |-> [es EXCEPT ![f] = e], lru |-> ls, bytes |-> bs]
        BY <2>2
    <2>4. QED
        BY <2>3 DEF es, ls, bs
<1> HIDE DEF d
<1>4. /\ d.entries \in [Cached(c) -> Entries] /\ Cached(d) = Cached(c)
      /\ \A g \in Cached(c) : d.entries[g] = IF g = f THEN e ELSE c.entries[g]
    <2>1. d.entries \in [Cached(c) -> Entries]
        BY <1>1, <1>3
    <2>2. \A g \in Cached(c) : d.entries[g] = IF g = f THEN e ELSE c.entries[g]
        BY <1>1, <1>3
    <2>3. QED
        BY <2>1, <2>2 DEF Cached
<1>5. d \in Caches
    <2>1. d.entries \in EntryMaps
        BY <1>1, <1>4 DEF EntryMaps
    <2>2. QED
        BY <1>1, <1>3, <2>1 DEF Caches
<1>6. D \in [Processes -> Caches] /\ D[p] = d /\ \A q \in Processes : q # p => D[q] = C[q]
    BY <1>2, <1>5
<1>7. Ordered(d)
    BY <1>3, <1>4 DEF Ordered, c
<1>8. Exact(c) => Exact(d)
    <2>1. \A g \in Cached(c) : d.entries[g].content.size = c.entries[g].content.size
        BY <1>4 DEF c
    <2>2. Bytes(d.entries, Cached(c)) = Bytes(c.entries, Cached(c))
        BY <2>1, BytesOfSame
    <2>3. QED
        BY <1>3, <1>4, <2>2 DEF Exact
<1>9. QED
    BY <1>4, <1>6, <1>7, <1>8 DEF c, D

\* A step of a flusher that puts an entry in the place of another with the same
\* content, with less pending.
LEMMA EntryStep ==
    ASSUME Inv, NEW p \in Processes, NEW f \in Cached(cache[p]),
           NEW e \in Entries, NEW gone,
           e.content = cache[p].entries[f].content, e.ver = cache[p].entries[f].ver,
           e.pending \subseteq cache[p].entries[f].pending,
           Chained(parent, e), Follows(parent, gone, row[f], e),
           dropped' = dropped \cup gone, gone \subseteq Writes,
           \A v \in cache[p].entries[f].pending \ e.pending :
               v.content.id \in gone \/ Under(parent, row[f].content.id, v.content.id),
           cache' = [cache EXCEPT ![p].entries[f] = e],
           row' = row /\ node' = node /\ parent' = parent /\ outgrown' = outgrown,
           dirtyIds' \in [Processes -> SUBSET Files],
           job' \in [Processes -> Jobs],
           \A q \in Processes : q # p => job'[q] = job[q],
           ~Copying(p)'
    PROVE  Inv'
<1> USE DEF Inv, Tracking
<1> DEFINE c == cache[p]
           d == cache'[p]
<1>1. /\ c \in Caches /\ Ordered(c) /\ Cached(c) \subseteq Files
      /\ \A g \in Cached(c) : c.entries[g] \in Entries
    BY CacheOf
<1>2. cache \in [Processes -> Caches]
    BY DEF Typed
<1>3. /\ cache' \in [Processes -> Caches]
      /\ \A q \in Processes : q # p => cache'[q] = cache[q]
      /\ Ordered(d) /\ Cached(d) = Cached(c)
      /\ \A g \in Cached(c) : d.entries[g] = IF g = f THEN e ELSE c.entries[g]
      /\ Exact(c) => Exact(d)
    <2>1. /\ cache' \in [Processes -> Caches]
          /\ \A q \in Processes : q # p => cache'[q] = cache[q]
          /\ Ordered(cache'[p]) /\ Cached(cache'[p]) = Cached(cache[p])
          /\ \A g \in Cached(cache[p]) :
                cache'[p].entries[g] = IF g = f THEN e ELSE cache[p].entries[g]
          /\ Exact(cache[p]) => Exact(cache'[p])
        <3>1. /\ Ordered(cache[p]) /\ e.content = cache[p].entries[f].content
              /\ cache' = Replaced(cache, p, f, e)
            BY <1>1 DEF Replaced
        <3> DEFINE C == cache
                   D == Replaced(C, p, f, e)
        <3>2. C \in [Processes -> Caches] /\ Ordered(C[p]) /\ f \in Cached(C[p])
              /\ e \in Entries /\ e.content = C[p].entries[f].content
            BY <1>2, <3>1
        <3> HIDE DEF C
        <3>3. D \in [Processes -> Caches]
            BY <3>2, EntryReplaced
        <3>4. \A q \in Processes : q # p => D[q] = C[q]
            BY <3>2, EntryReplaced
        <3>5. Ordered(D[p]) /\ Cached(D[p]) = Cached(C[p])
            BY <3>2, EntryReplaced
        <3>6. \A g \in Cached(C[p]) :
                    D[p].entries[g] = IF g = f THEN e ELSE C[p].entries[g]
            BY <3>2, EntryReplaced
        <3>7. Exact(C[p]) => Exact(D[p])
            BY <3>2, EntryReplaced
        <3> HIDE DEF D
        <3>8. cache' = D
            BY <3>1 DEF D, C
        <3>9. QED
            BY <3>3, <3>4, <3>5, <3>6, <3>7, <3>8 DEF C
    <2>2. QED
        BY <2>1
<1> HIDE DEF d, c
<1>4. Typed'
    <2>1. \A q \in Processes : Ordered(cache'[q])
        BY <1>3 DEF Typed, d
    <2>2. dropped' \subseteq Writes'
        BY DEF Typed, Writes
    <2>3. QED
        BY <1>3, <2>1, <2>2 DEF Typed
<1>5. Known'
    <2>1. KnownEntry(parent, outgrown, e)
        <3>1. KnownEntry(parent, outgrown, c.entries[f])
            BY DEF Known, c
        <3>2. Shown(e) = Shown(c.entries[f])
            BY DEF Shown, c
        <3>3. QED
            BY <3>1, <3>2 DEF KnownEntry, c
    <2>2. ASSUME NEW q \in Processes, NEW g \in Cached(cache'[q])
          PROVE  KnownEntry(parent, outgrown, cache'[q].entries[g])
        <3>1. CASE q = p
            BY <1>3, <2>1, <2>2, <3>1 DEF Known, c, d
        <3>2. CASE q # p
            BY <1>3, <2>2, <3>2 DEF Known
        <3>3. QED
            BY <3>1, <3>2
    <2>3. QED
        BY <2>2 DEF Known, Copying
<1>6. Tracked'
    <2>1. ASSUME NEW q \in Processes, NEW g \in Cached(cache[q])
          PROVE  Follows(parent, dropped', row[g], cache[q].entries[g])
        BY DEF Tracked, Follows
    <2>2. Follows(parent, dropped', row[f], e)
        BY DEF Follows
    <2>3. ASSUME NEW q \in Processes, NEW g \in Cached(cache'[q])
          PROVE  /\ Chained(parent, cache'[q].entries[g])
                 /\ Follows(parent, dropped', row[g], cache'[q].entries[g])
        <3>1. CASE q = p /\ g = f
            BY <1>3, <2>2, <2>3, <3>1 DEF c, d
        <3>2. CASE ~(q = p /\ g = f)
            <4>1. g \in Cached(cache[q]) /\ cache'[q].entries[g] = cache[q].entries[g]
                BY <1>3, <2>3, <3>2 DEF c, d
            <4>2. QED
                BY <2>1, <4>1 DEF Tracked
        <3>3. QED
            BY <3>1, <3>2
    <2>4. QED
        BY <2>3 DEF Tracked
<1>7. RowsRead'
    BY DEF RowsRead
<1>8. Working'
    BY <1>3 DEF Working, Copying
<1>9. Counted'
    BY <1>3 DEF Counted, c, d
<1>10. NoSilentLoss'
    <2>1. ASSUME NEW n, Accounted(n) PROVE Accounted(n)'
        <3>1. CASE n \in dropped
            BY <3>1 DEF Accounted
        <3>2. Durable(n)' <=> Durable(n)
            BY DEF Durable, Descends, Writes
        <3>3. CASE Durable(n)
            BY <3>2, <3>3 DEF Accounted
        <3>4. ASSUME NEW q \in Processes, NEW g \in Files, n \in Pending(q, g)
              PROVE  Accounted(n)'
            <4>1. g \in Cached(cache[q])
                BY <3>4 DEF Pending
            <4>2. PICK v \in cache[q].entries[g].pending : n = v.content.id
                BY <3>4, <4>1 DEF Pending
            <4>3. CASE q = p /\ g = f
                <5>1. CASE v \in e.pending
                    <6>1. g \in Cached(cache'[q]) /\ cache'[q].entries[g] = e
                        BY <1>3, <4>3 DEF c, d
                    <6>2. n \in Pending(q, g)'
                        BY <4>2, <5>1, <6>1 DEF Pending
                    <6>3. QED
                        BY <6>2 DEF Accounted
                <5>2. CASE v \notin e.pending
                    <6>1. n \in gone \/ Under(parent, row[f].content.id, n)
                        BY <4>2, <4>3, <5>2
                    <6>2. CASE n \in gone
                        BY <6>2 DEF Accounted
                    <6>3. CASE Under(parent, row[f].content.id, n)
                        <7>1. f \in Files
                            BY <1>1 DEF c
                        <7>2. Durable(n)
                            BY <6>3, <7>1, DescendsIsUnder DEF Durable
                        <7>3. QED
                            BY <3>2, <7>2 DEF Accounted
                    <6>4. QED
                        BY <6>1, <6>2, <6>3
                <5>3. QED
                    BY <5>1, <5>2
            <4>4. CASE ~(q = p /\ g = f)
                <5>1. g \in Cached(cache'[q]) /\ cache'[q].entries[g] = cache[q].entries[g]
                    BY <1>3, <4>1, <4>4 DEF c, d
                <5>2. n \in Pending(q, g)'
                    BY <4>2, <5>1 DEF Pending
                <5>3. QED
                    BY <5>2 DEF Accounted
            <4>5. QED
                BY <4>3, <4>4
        <3>5. QED
            BY <2>1, <3>1, <3>3, <3>4 DEF Accounted
    <2>2. QED
        BY <2>1 DEF NoSilentLoss, Writes
<1>11. QED
    BY <1>4, <1>5, <1>6, <1>7, <1>8, <1>9, <1>10

LEMMA SettleStep ==
    ASSUME Inv, NEW p \in Processes, Settle(p)
    PROVE  Inv'
<1> DEFINE f == job[p].file
           v == job[p].final
           e == cache[p].entries[f]
           d == Settled(e, v)
           left == {w \in e.pending : w.ver > v.ver}
           none == {}
<1>1. Copying(p) /\ job[p].at = "settle" /\ Typed /\ Tracked
    BY DEF Settle, Copying, Inv, Tracking
<1>2. f \in Cached(cache[p]) /\ v \in e.pending /\ OfRow(parent, row[f], v)
    BY <1>1 DEF Inv, Tracking, Working, Found
<1>3. /\ f \in Files /\ e \in Entries /\ row[f] \in VersionSet
      /\ Chained(parent, e)
    BY <1>1, <1>2, CacheOf DEF Typed, Tracked
<1>4. /\ cache' = [cache EXCEPT ![p].entries[f] = d]
      /\ row' = row /\ node' = node /\ parent' = parent /\ dropped' = dropped
      /\ outgrown' = outgrown /\ Continue(p, job[p].todo)
      /\ dirtyIds' = dirtyIds \/ dirtyIds' = [dirtyIds EXCEPT ![p] = @ \ {f}]
    BY <1>2 DEF Settle, Settled
<1>5. /\ d \in Entries /\ Chained(parent, d)
      /\ Follows(parent, none, row[f], d)
    BY <1>2, <1>3, SettledIsTracked
<1>6. d.content = e.content /\ d.ver = e.ver /\ d.pending = left
    BY <1>3 DEF Settled, Entries
<1>7. /\ dirtyIds' \in [Processes -> SUBSET Files]
      /\ job' \in [Processes -> Jobs] /\ ~Copying(p)'
      /\ \A q \in Processes : q # p => job'[q] = job[q]
    <2>1. job[p].todo \in SUBSET Files /\ dirtyIds \in [Processes -> SUBSET Files]
        BY <1>1, JobOf DEF Typed
    <2>2. QED
        BY <1>1, <1>4, <2>1, Continues
<1> HIDE DEF d, e, f, v
<1>8. ASSUME NEW w \in e.pending \ d.pending
      PROVE  Under(parent, row[f].content.id, w.content.id)
    <2>1. w \in e.pending /\ ~(w.ver > v.ver)
        BY <1>6
    <2>2. w.ver <= v.ver
        <3>1. e.pending \subseteq VersionSet
            BY <1>3 DEF Entries
        <3>2. w.ver \in Nat /\ v.ver \in Nat
            BY <1>2, <2>1, <3>1 DEF VersionSet
        <3>3. QED
            BY <2>1, <3>2
    <2>3. Under(parent, v.content.id, w.content.id)
        BY <1>2, <1>3, <2>1, <2>2 DEF Chained
    <2>4. Under(parent, row[f].content.id, v.content.id)
        BY <1>2 DEF OfRow
    <2>5. QED
        BY <2>3, <2>4, UnderThrough
<1>9. dropped' = dropped \cup none /\ none \subseteq Writes
    BY <1>4
<1>10. d.pending \subseteq e.pending
    BY <1>6
<1> HIDE DEF left, none
<1>11. \A w \in e.pending \ d.pending :
           w.content.id \in none \/ Under(parent, row[f].content.id, w.content.id)
    BY <1>8
<1>12. QED
    BY <1>2, <1>3, <1>4, <1>5, <1>6, <1>7, <1>9, <1>10, <1>11, EntryStep DEF e

LEMMA DropStep ==
    ASSUME Inv, NEW p \in Processes, Drop(p)
    PROVE  Inv'
<1> DEFINE f == job[p].file
           e == cache[p].entries[f]
           d == Discarded(e)
           gone == PendingIds(e)
<1>1. Copying(p) /\ job[p].at = "drop" /\ Typed /\ Tracked
    BY DEF Drop, Copying, Inv, Tracking
<1>2. f \in Cached(cache[p]) /\ e.pending # {} /\ e.flushed < row[f].ver
    BY <1>1 DEF Inv, Tracking, Working, Found
<1>3. /\ f \in Files /\ e \in Entries /\ row[f] \in VersionSet
      /\ Chained(parent, e)
    BY <1>1, <1>2, CacheOf DEF Typed, Tracked
<1>4. /\ cache' = [cache EXCEPT ![p].entries[f] = d]
      /\ dropped' = dropped \cup gone
      /\ row' = row /\ node' = node /\ parent' = parent
      /\ outgrown' = outgrown /\ Continue(p, job[p].todo)
      /\ dirtyIds' = [dirtyIds EXCEPT ![p] = @ \ {f}]
    BY <1>2 DEF Drop, PendingIds, Discarded
<1>5. /\ d \in Entries /\ Chained(parent, d)
      /\ Follows(parent, {} \cup gone, row[f], d)
    BY <1>2, <1>3, DiscardedIsTracked
<1>6. d.content = e.content /\ d.ver = e.ver /\ d.pending = {}
    BY <1>3 DEF Discarded, Entries
<1>7. /\ dirtyIds' \in [Processes -> SUBSET Files]
      /\ job' \in [Processes -> Jobs] /\ ~Copying(p)'
      /\ \A q \in Processes : q # p => job'[q] = job[q]
    <2>1. job[p].todo \in SUBSET Files /\ dirtyIds \in [Processes -> SUBSET Files]
        BY <1>1, JobOf DEF Typed
    <2>2. QED
        BY <1>1, <1>4, <2>1, Continues
<1>8. gone \subseteq Writes
    <2>1. ASSUME NEW w \in e.pending PROVE w.content.id \in Writes
        <3>1. w.content.id \in 0..Len(parent)
            BY <1>2, <2>1 DEF Inv, Tracking, Known, KnownEntry, KnownVersion
        <3>2. w.content.id # 0
            BY <1>3, <2>1 DEF Chained
        <3>3. Len(parent) \in Nat
            BY <1>1 DEF Typed
        <3>4. QED
            BY <3>1, <3>2, <3>3 DEF Writes
    <2>2. QED
        BY <2>1 DEF PendingIds
<1>9. \A w \in e.pending : w.content.id \in gone
    BY DEF PendingIds
<1> HIDE DEF d, e, f, gone
<1>10. Follows(parent, gone, row[f], d) /\ d.pending \subseteq e.pending
    BY <1>5, <1>6
<1>11. \A w \in e.pending \ d.pending :
           w.content.id \in gone \/ Under(parent, row[f].content.id, w.content.id)
    BY <1>9
<1>12. QED
    BY <1>2, <1>4, <1>5, <1>6, <1>7, <1>8, <1>10, <1>11, EntryStep DEF e

-----------------------------------------------------------------------------
(* The invariant holds.                                                    *)

LEMMA InitInv == Init => Inv
<1> SUFFICES ASSUME Init PROVE Inv
    OBVIOUS
<1>1. PICK size \in Sizes : row = [f \in Files |-> Version(1, [id |-> 0, size |-> size])]
    BY DEF Init
<1>2. /\ node = [p \in Processes |-> row]
      /\ cache = [p \in Processes |-> [entries |-> <<>>, lru |-> <<>>, bytes |-> 0]]
      /\ dirtyIds = [p \in Processes |-> {}]
      /\ job = [p \in Processes |-> Sleeping]
      /\ parent = <<>> /\ dropped = {}
      /\ outgrown = (\E f \in Files : row[f].content.size > MaxBytes)
    BY DEF Init
<1>3. size \in Nat /\ MaxBytes \in Nat /\ MaxWrites \in Nat
    BY CacheAssumption
<1>4. /\ row \in [Files -> VersionSet]
      /\ \A f \in Files : /\ row[f].ver = 1 /\ row[f].content.id = 0
                          /\ row[f].content.size = size
    BY <1>1, <1>3 DEF Version, VersionSet
<1>5. Len(parent) = 0 /\ parent \in Seq(Nat)
    BY <1>2
<1>6. \A f \in Files : KnownVersion(parent, outgrown, row[f])
    <2>1. ASSUME NEW f \in Files PROVE outgrown \/ row[f].content.size <= MaxBytes
        BY <1>2, <1>3, <1>4
    <2>2. QED
        BY <1>4, <1>5, <2>1 DEF KnownVersion
<1>7. \A p \in Processes : /\ cache[p].entries = <<>> /\ cache[p].lru = <<>>
                           /\ cache[p].bytes = 0 /\ Cached(cache[p]) = {}
    BY <1>2 DEF Cached
<1>8. \A p \in Processes : job[p] = Sleeping /\ ~Copying(p)
    BY <1>2 DEF Sleeping, Copying
<1>9. Typed
    <2>1. <<>> \in EntryMaps
        <3>1. <<>> \in [{} -> Entries]
            OBVIOUS
        <3>2. QED
            BY <3>1 DEF EntryMaps
    <2>2. [entries |-> <<>>, lru |-> <<>>, bytes |-> 0] \in Caches
        BY <2>1 DEF Caches
    <2>3. cache \in [Processes -> Caches]
        BY <1>2, <2>2
    <2>4. \A p \in Processes : Ordered(cache[p])
        BY <1>7 DEF Ordered
    <2>5. job \in [Processes -> Jobs]
        BY <1>2 DEF Sleeping, Jobs
    <2>6. node \in [Processes -> [Files -> VersionSet]]
        BY <1>2, <1>4
    <2>7. dirtyIds \in [Processes -> SUBSET Files] /\ dropped \subseteq Writes
        BY <1>2
    <2>8. outgrown \in BOOLEAN
        BY <1>2
    <2>9. QED
        BY <1>3, <1>4, <1>5, <2>3, <2>4, <2>5, <2>6, <2>7, <2>8 DEF Typed
<1>10. Known
    BY <1>2, <1>6, <1>7, <1>8 DEF Known
<1>11. Tracked /\ Working
    BY <1>7, <1>8 DEF Tracked, Working
<1>12. RowsRead
    BY <1>2, <1>4, UnderSelf DEF RowsRead, OfRow
<1>13. Counted
    <2>1. ASSUME NEW p \in Processes PROVE Exact(cache[p])
        <3> DEFINE c == cache[p]
                   pairs == UNION {{f} \X (1..c.entries[f].content.size) : f \in Cached(c)}
        <3>1. pairs = {}
            BY <1>7
        <3>2. Cardinality({}) = 0
            BY FS_EmptySet
        <3>3. Bytes(c.entries, Cached(c)) = Cardinality(pairs)
            BY DEF Bytes
        <3> HIDE DEF pairs
        <3>4. Bytes(c.entries, Cached(c)) = 0
            BY <3>1, <3>2, <3>3
        <3>5. QED
            BY <1>7, <3>4 DEF Exact
    <2>2. QED
        BY <2>1 DEF Counted
<1>14. NoSilentLoss
    BY <1>5 DEF NoSilentLoss, Writes
<1>15. QED
    BY <1>9, <1>10, <1>11, <1>12, <1>13, <1>14 DEF Inv, Tracking

\* A row is only replaced by what was written over it.
RowsMove == \A f \in Files : Under(parent, row'[f].content.id, row[f].content.id)

LEMMA NextInv ==
    ASSUME Inv, [Next]_vars
    PROVE  Inv' /\ RowsMove
<1>1. CASE UNCHANGED vars
    <2>1. /\ row' = row /\ node' = node /\ cache' = cache /\ dirtyIds' = dirtyIds
          /\ job' = job /\ parent' = parent /\ dropped' = dropped /\ outgrown' = outgrown
        BY <1>1 DEF vars
    <2>2. Inv'
        BY <2>1 DEF Inv, Tracking, Typed, Known, Tracked, RowsRead, Working, Counted, Copying,
                    NoSilentLoss, Accounted, Durable, Pending, Writes, Descends
    <2>3. QED
        BY <2>1, <2>2, UnderSelf DEF RowsMove
<1>2. ASSUME NEW p \in Processes, NEW f \in Files,
             Query(p, f) \/ Get(p, f) \/ \E s \in Sizes : Write(p, f, s)
      PROVE  Inv' /\ RowsMove
    <2>1. row' = row
        BY <1>2 DEF Query, Get, Write
    <2>2. Inv'
        BY <1>2, QueryStep, GetStep, WriteStep
    <2>3. QED
        BY <2>1, <2>2, UnderSelf DEF RowsMove
<1>3. ASSUME NEW p \in Processes,
             Wake(p) \/ Conflict(p) \/ Settle(p) \/ Drop(p) \/ \E f \in Files : Take(p, f)
      PROVE  Inv' /\ RowsMove
    <2>1. row' = row
        BY <1>3 DEF Wake, Conflict, Settle, Drop, Take
    <2>2. Inv'
        BY <1>3, WakeStep, ConflictStep, SettleStep, DropStep, TakeStep
    <2>3. QED
        BY <2>1, <2>2, UnderSelf DEF RowsMove
<1>4. ASSUME NEW p \in Processes, Update(p) \/ Break(p) PROVE Inv' /\ RowsMove
    BY <1>4, UpdateStep, BreakStep DEF RowsMove
<1>5. CASE Next
    BY <1>2, <1>3, <1>4, <1>5 DEF Next, Flush
<1>6. QED
    BY <1>1, <1>5

\* The invariant, by induction over the steps.
LEMMA InvHolds == Spec => []Inv
<1>1. Init => Inv
    BY InitInv
<1>2. Inv /\ [Next]_vars => Inv'
    BY NextInv
<1>3. QED
    BY <1>1, <1>2, PTL DEF Spec

-----------------------------------------------------------------------------
(* The theorems.                                                           *)

\* Versions and contents are those that were written, the order of the cache names
\* the cached files, and only writes are discarded.
THEOREM TypesAreKept == Spec => []TypeOK
<1>1. Inv => TypeOK
    <2> SUFFICES ASSUME Inv PROVE TypeOK
        OBVIOUS
    <2> USE DEF Inv, Tracking
    <2>1. Len(parent) \in Nat /\ MaxWrites \in Nat /\ Len(parent) <= MaxWrites
        BY CacheAssumption DEF Typed
    <2>2. ASSUME NEW v \in VersionSet, KnownVersion(parent, outgrown, v) PROVE v \in Versions
        <3>1. /\ v = [ver |-> v.ver, content |-> v.content]
              /\ v.content = [id |-> v.content.id, size |-> v.content.size]
            BY DEF VersionSet
        <3>2. v.ver \in 1..(MaxWrites + 1) /\ v.content.id \in 0..MaxWrites
              /\ v.content.size \in Sizes
            BY <2>1, <2>2 DEF KnownVersion
        <3>3. QED
            BY <3>1, <3>2 DEF Versions, Contents
    <2>3. row \in [Files -> Versions]
        BY <2>2 DEF Typed, Known
    <2>4. node \in [Processes -> [Files -> Versions]]
        BY <2>2 DEF Typed, Known
    <2>5. ASSUME NEW p \in Processes
          PROVE  /\ Cached(cache[p]) \subseteq Range(cache[p].lru)
                 /\ Range(cache[p].lru) \subseteq Files
                 /\ dirtyIds[p] \subseteq Files
                 /\ job[p].at \in {"sleep", "take", "sql", "settle", "drop"}
                 /\ job[p].todo \subseteq Files
        <3>1. Cached(cache[p]) \subseteq Range(cache[p].lru)
            BY CacheOf DEF Ordered
        <3>2. cache[p].lru \in Seq(Files)
            BY CacheOf, CacheType
        <3>3. Range(cache[p].lru) \subseteq Files
            BY <3>2 DEF Range
        <3>4. job[p] \in Jobs /\ dirtyIds[p] \subseteq Files
            BY DEF Typed
        <3>5. QED
            BY <3>1, <3>3, <3>4 DEF Jobs
    <2>6. QED
        BY <2>3, <2>4, <2>5 DEF TypeOK, Typed
<1>2. QED
    BY <1>1, InvHolds, PTL

\* A clean entry shows what is or was in the row, or what was discarded at a
\* conflict, however evictions, flushes and the writes of others interleave.
THEOREM CleanEntriesAreCommitted == Spec => []CleanIsCommitted
<1>1. Inv => CleanIsCommitted
    BY DescendsIsUnder DEF Inv, Tracking, Tracked, Follows, CleanIsCommitted
<1>2. QED
    BY <1>1, InvHolds, PTL

\* As long as every file fits into the cache, a write is durable, pending or
\* discarded at a counted conflict: no eviction and no flush loses it.
THEOREM NoWriteIsLost == Spec => []NoSilentLoss
<1>1. Inv => NoSilentLoss
    BY DEF Inv
<1>2. QED
    BY <1>1, InvHolds, PTL

\* The test of the version keeps a flush from replacing what its writer had not
\* seen, in spite of row objects of any age.
THEOREM FlushesAreNotBlind == Spec => NoBlindOverwrite
<1>1. Inv /\ [Next]_vars =>
          [\A f \in Files : Descends(row'[f].content.id, row[f].content.id)]_row
    <2> SUFFICES ASSUME Inv, [Next]_vars
                 PROVE  \A f \in Files : Descends(row'[f].content.id, row[f].content.id)
        OBVIOUS
    <2>1. RowsMove
        BY NextInv
    <2>2. QED
        BY <2>1 DEF RowsMove, Descends, Under, Writes
<1>2. QED
    BY <1>1, InvHolds, PTL DEF Spec, NoBlindOverwrite
=============================================================================
