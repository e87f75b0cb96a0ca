-------------------------- MODULE AgentShell_proofs --------------------------
(* Proofs about AgentShell, for all numbers of agents, hosts, paths, calls   *)
(* and errors, for every set of chains and both stores.                      *)
EXTENDS AgentShell, SequenceTheorems, FiniteSetTheorems, WellFoundedInduction, TLAPS

-----------------------------------------------------------------------------
(* Induction, on sets.                                                     *)

LEMMA SmallestNumber ==
    ASSUME NEW N \in SUBSET Nat, N # {}
    PROVE  \E n \in N : \A m \in N : n <= m
<1>1. \A m, n \in Nat : m < n => <<m, n>> \in OpToRel(<, Nat)
    BY DEF OpToRel
<1>2. N \subseteq Nat
    OBVIOUS
<1>3. \E n \in N : \A m \in N : <<m, n>> \notin OpToRel(<, Nat)
    BY <1>2, NatLessThanWellFounded, WFMin, Zenon
<1>4. \E n \in N : \A m \in N : ~(m < n)
    BY <1>1, <1>2, <1>3, Zenon
<1>5. QED
    BY <1>4

LEMMA NatSetInduction ==
    ASSUME NEW N \in SUBSET Nat, 0 \in N, \A n \in N : n + 1 \in N
    PROVE  N = Nat
<1>1. ASSUME Nat \ N # {} PROVE FALSE
    <2>1. PICK n \in Nat \ N : \A m \in Nat \ N : n <= m
        BY <1>1, SmallestNumber
    <2>2. n - 1 \in N
        BY <2>1
    <2>3. QED
        BY <2>1, <2>2
<1>2. QED
    BY <1>1

\* What holds of the empty sequence, and of a sequence with one more element
\* when it holds without, holds of all sequences.
LEMMA SeqInduction ==
    ASSUME NEW X, NEW T \in SUBSET Seq(X), <<>> \in T,
           \A s \in T : \A x \in X : Append(s, x) \in T
    PROVE  T = Seq(X)
<1> DEFINE N == {n \in Nat : \A s \in Seq(X) : Len(s) = n => s \in T}
<1>1. 0 \in N
    OBVIOUS
<1>2. ASSUME NEW n \in N PROVE n + 1 \in N
    <2>1. ASSUME NEW s \in Seq(X), Len(s) = n + 1 PROVE s \in T
        <3> DEFINE front == SubSeq(s, 1, n)
        <3>1. /\ n \in Nat /\ n + 1 \in 1..Len(s)
              /\ \A i \in 1..n : s[i] \in X
              /\ s[n + 1] \in X
            BY <2>1
        <3>2. front \in Seq(X) /\ Len(front) = n /\ \A i \in 1..n : front[i] = s[i]
            <4>1. n \in Int /\ 1 \in Int
                BY <3>1
            <4>2. /\ front \in Seq(X)
                  /\ Len(front) = IF 1 <= n THEN n - 1 + 1 ELSE 0
                  /\ \A i \in 1..(n - 1 + 1) : front[i] = s[1 + i - 1]
                BY <3>1, <4>1, SubSeqProperties
            <4> HIDE DEF front
            <4>3. QED
                BY <3>1, <4>2
        <3>3. front \in T
            BY <3>2
        <3> HIDE DEF front
        <3>4. Append(front, s[n + 1]) \in T
            BY <3>1, <3>3
        <3>5. Append(front, s[n + 1]) = s
            <4> DEFINE x == s[n + 1]
            <4>1. x \in X /\ n \in Nat /\ Len(front) = n /\ front \in Seq(X)
                BY <3>1, <3>2
            <4>2. \A i \in 1..n : front[i] = s[i]
                BY <3>2
            <4>3. s[n + 1] = x
                OBVIOUS
            <4> HIDE DEF x
            <4>4. /\ Append(front, x) \in Seq(X)
                  /\ Len(Append(front, x)) = n + 1
                  /\ \A i \in 1..n : Append(front, x)[i] = front[i]
                  /\ Append(front, x)[n + 1] = x
                BY <4>1, AppendProperties
            <4>5. ASSUME NEW i \in 1..(n + 1) PROVE Append(front, x)[i] = s[i]
                <5>1. i \in 1..n \/ i = n + 1
                    BY <4>1
                <5>2. CASE i \in 1..n
                    BY <4>2, <4>4, <5>2
                <5>3. CASE i = n + 1
                    BY <4>3, <4>4, <5>3
                <5>4. QED
                    BY <5>1, <5>2, <5>3
            <4>6. QED
                BY <4>3, <4>4, <4>5, <2>1, SeqEqual
        <3>6. QED
            BY <3>4, <3>5
    <2>2. QED
        BY <2>1
<1>3. N = Nat
    BY <1>1, <1>2, NatSetInduction
<1>4. ASSUME NEW s \in Seq(X) PROVE s \in T
    <2>1. Len(s) \in N
        BY <1>3
    <2>2. QED
        BY <2>1
<1>5. QED
    BY <1>4

-----------------------------------------------------------------------------
(* Folds. FoldLeft is a recursion over sets of positions, of which it takes *)
(* the last one first.                                                     *)

LEMMA LastPosition ==
    ASSUME NEW n \in Nat, NEW S \in SUBSET (1..n), S # {}
    PROVE  Max(S) \in S /\ \A i \in S : i <= Max(S)
<1> DEFINE N == {n - i : i \in S}
<1>1. N \in SUBSET Nat /\ N # {}
    <2>1. ASSUME NEW i \in S PROVE n - i \in Nat
        <3>1. i \in 1..n
            OBVIOUS
        <3>2. QED
            BY <3>1
    <2>2. QED
        BY <2>1
<1>2. PICK m \in N : \A k \in N : m <= k
    <2> HIDE DEF N
    <2>1. QED
        BY <1>1, SmallestNumber
<1>3. PICK i \in S : m = n - i
    BY <1>2
<1>4. \A j \in S : i >= j
    <2>1. ASSUME NEW j \in S PROVE i >= j
        <3>1. n - j \in N
            OBVIOUS
        <3>2. n - i <= n - j
            BY <1>2, <1>3, <3>1
        <3>3. QED
            BY <3>2
    <2>2. QED
        BY <2>1
<1>5. Max(S) \in S /\ \A j \in S : Max(S) >= j
    BY <1>4, Zenon DEF Max
<1>6. QED
    BY <1>5

\* A fold over n positions, by a step that is a function.
FoldsOver(f, n, base, step) ==
    \A S \in SUBSET (1..n) :
        f[S] = IF S = {} THEN base ELSE step[<<f[S \ {Max(S)}], Max(S)>>]

LEMMA FoldExists ==
    ASSUME NEW Acc, NEW base \in Acc, NEW n \in Nat, NEW step \in [Acc \X (1..n) -> Acc]
    PROVE  \E f \in [SUBSET (1..n) -> Acc] : FoldsOver(f, n, base, step)
<1> DEFINE Folds(f, k) ==
              \A S \in SUBSET (1..k) :
                  f[S] = IF S = {} THEN base ELSE step[<<f[S \ {Max(S)}], Max(S)>>]
           Foldable(k) == \E f \in [SUBSET (1..k) -> Acc] : Folds(f, k)
           N == {k \in Nat : k <= n => Foldable(k)}
<1>1. 0 \in N
    <2>1. SUBSET (1..0) = {{}}
        OBVIOUS
    <2>2. [S \in SUBSET (1..0) |-> base] \in [SUBSET (1..0) -> Acc]
        OBVIOUS
    <2>3. Folds([S \in SUBSET (1..0) |-> base], 0)
        BY <2>1
    <2>4. QED
        BY <2>2, <2>3
<1>2. ASSUME NEW k \in N PROVE k + 1 \in N
    <2>1. k \in Nat
        OBVIOUS
    <2>2. SUFFICES ASSUME k + 1 <= n
                   PROVE  Foldable(k + 1)
        <3> HIDE DEF Foldable
        <3>1. QED
            BY <2>1
    <2>3. PICK f \in [SUBSET (1..k) -> Acc] : Folds(f, k)
        <3>1. k <= n
            BY <2>1, <2>2
        <3>2. Foldable(k)
            <4> HIDE DEF Foldable
            <4>1. QED
                BY <3>1
        <3>3. QED
            BY <3>2
    <2> DEFINE h == [S \in SUBSET (1..(k + 1)) |->
                        IF k + 1 \in S THEN step[<<f[S \ {k + 1}], k + 1>>] ELSE f[S]]
    <2>4. /\ \A S \in SUBSET (1..(k + 1)) : S \ {k + 1} \in SUBSET (1..k)
          /\ \A S \in SUBSET (1..(k + 1)) : k + 1 \notin S => S \in SUBSET (1..k)
          /\ \A S \in SUBSET (1..k) : S \in SUBSET (1..(k + 1)) /\ k + 1 \notin S
          /\ k + 1 \in 1..n
        BY <2>1, <2>2
    <2>5. h \in [SUBSET (1..(k + 1)) -> Acc]
        <3>1. ASSUME NEW S \in SUBSET (1..(k + 1)) PROVE h[S] \in Acc
            <4>1. CASE k + 1 \in S
                <5>1. f[S \ {k + 1}] \in Acc
                    BY <2>3, <2>4
                <5>2. <<f[S \ {k + 1}], k + 1>> \in Acc \X (1..n)
                    BY <5>1, <2>4
                <5>3. QED
                    BY <4>1, <5>2
            <4>2. CASE k + 1 \notin S
                BY <4>2, <2>3, <2>4
            <4>3. QED
                BY <4>1, <4>2
        <3>2. QED
            BY <3>1
    <2>6. ASSUME NEW S \in SUBSET (1..(k + 1))
          PROVE  h[S] = IF S = {} THEN base ELSE step[<<h[S \ {Max(S)}], Max(S)>>]
        <3>1. CASE k + 1 \in S
            <4>1. k + 1 \in Nat /\ S # {}
                BY <3>1, <2>1
            <4>2. Max(S) \in S /\ \A i \in S : i <= Max(S)
                BY <4>1, LastPosition
            <4>3. Max(S) \in 1..(k + 1) /\ k + 1 <= Max(S)
                BY <3>1, <4>2
            <4> HIDE DEF h
            <4>4. Max(S) = k + 1
                BY <4>3, <2>1
            <4> USE DEF h
            <4>5. h[S \ {k + 1}] = f[S \ {k + 1}]
                BY <2>4
            <4>6. h[S] = step[<<f[S \ {k + 1}], k + 1>>]
                BY <3>1
            <4> HIDE DEF h
            <4>7. QED
                BY <4>1, <4>4, <4>5, <4>6
        <3>2. CASE k + 1 \notin S
            <4>1. S \in SUBSET (1..k) /\ S \ {Max(S)} \in SUBSET (1..k)
                BY <2>4, <3>2
            <4>2. h[S] = f[S] /\ h[S \ {Max(S)}] = f[S \ {Max(S)}]
                BY <2>4, <4>1
            <4>3. f[S] = IF S = {} THEN base ELSE step[<<f[S \ {Max(S)}], Max(S)>>]
                BY <2>3, <4>1
            <4> HIDE DEF h
            <4>4. QED
                BY <4>2, <4>3
        <3>3. QED
            BY <3>1, <3>2
    <2>7. QED
        BY <2>5, <2>6
<1>3. N = Nat
    <2>1. N \in SUBSET Nat
        OBVIOUS
    <2> HIDE DEF N
    <2>2. QED
        BY <1>1, <1>2, <2>1, NatSetInduction
<1>4. Foldable(n)
    <2>1. n \in N
        BY <1>3
    <2> HIDE DEF Foldable
    <2>2. QED
        BY <2>1
<1>5. \A f : Folds(f, n) <=> FoldsOver(f, n, base, step)
    BY DEF FoldsOver
<1> HIDE DEF Folds
<1>6. QED
    BY <1>4, <1>5

-----------------------------------------------------------------------------
(* The task guidance, event by event.                                      *)

Events == [kind : {"write", "read", "remove"}, path : Paths]
Guidances == [written : Seq(Paths), verified : Seq(Paths), removed : Seq(Paths)]

\* Keep, element by element: what it gives is made of elements of the sequence.
KeptBy(kept, x, S) == IF x \in S THEN Append(kept, x) ELSE kept

LEMMA KeepFold ==
    ASSUME NEW S, NEW s \in Seq(Paths)
    PROVE  /\ Keep(s, S) \in Seq(Paths)
           /\ Keep(<<>>, S) = <<>>
           /\ \A x \in Paths : Keep(Append(s, x), S) = KeptBy(Keep(s, S), x, S)
<1> DEFINE Folds(f, t) == f = [P \in SUBSET DOMAIN t |->
                                 IF P = {} THEN <<>> ELSE KeptBy(f[P \ {Max(P)}], t[Max(P)], S)]
           F(t) == CHOOSE f : Folds(f, t)
<1>1. \A t : Keep(t, S) = F(t)[DOMAIN t]
    BY DEF Keep, FoldLeft, MapThenFoldSet, KeptBy
<1>2. ASSUME NEW t \in Seq(Paths) PROVE Folds(F(t), t)
    <2> DEFINE n == Len(t)
               step == [x \in Seq(Paths) \X (1..n) |-> KeptBy(x[1], t[x[2]], S)]
    <2>1. n \in Nat /\ DOMAIN t = 1..n /\ <<>> \in Seq(Paths)
        OBVIOUS
    <2>2. step \in [Seq(Paths) \X (1..n) -> Seq(Paths)]
        <3>1. ASSUME NEW kept \in Seq(Paths), NEW i \in 1..n
              PROVE  KeptBy(kept, t[i], S) \in Seq(Paths)
            BY DEF KeptBy
        <3>2. QED
            BY <3>1
    <2> HIDE DEF n, step
    <2>3. PICK f \in [SUBSET (1..n) -> Seq(Paths)] : \A P \in SUBSET (1..n) :
              f[P] = IF P = {} THEN <<>> ELSE step[<<f[P \ {Max(P)}], Max(P)>>]
        <3>1. \E f \in [SUBSET (1..n) -> Seq(Paths)] : FoldsOver(f, n, <<>>, step)
            BY <2>1, <2>2, FoldExists
        <3>2. QED
            BY <3>1 DEF FoldsOver
    <2>4. ASSUME NEW P \in SUBSET (1..n), P # {}
          PROVE  f[P] = KeptBy(f[P \ {Max(P)}], t[Max(P)], S)
        <3>1. Max(P) \in 1..n
            BY <2>1, <2>4, LastPosition
        <3>2. f[P \ {Max(P)}] \in Seq(Paths)
            BY <2>3
        <3>3. step[<<f[P \ {Max(P)}], Max(P)>>] = KeptBy(f[P \ {Max(P)}], t[Max(P)], S)
            BY <3>1, <3>2 DEF step
        <3>4. QED
            BY <2>3, <2>4, <3>3
    <2>5. Folds(f, t)
        <3>1. f = [P \in SUBSET (1..n) |->
                     IF P = {} THEN <<>> ELSE KeptBy(f[P \ {Max(P)}], t[Max(P)], S)]
            BY <2>3, <2>4
        <3>2. QED
            BY <2>1, <3>1
    <2> HIDE DEF Folds
    <2>6. QED
        BY <2>5
<1> HIDE DEF F
<1>3. ASSUME NEW t \in Seq(Paths)
      PROVE  /\ F(t)[{}] = <<>>
             /\ \A k \in 1..Len(t) : F(t)[1..k] = KeptBy(F(t)[1..(k - 1)], t[k], S)
    <2>1. Folds(F(t), t)
        BY <1>2
    <2>2. Len(t) \in Nat /\ DOMAIN t = 1..Len(t)
        OBVIOUS
    <2>3. F(t)[{}] = <<>>
        BY <2>1, <2>2
    <2>4. ASSUME NEW k \in 1..Len(t)
          PROVE  F(t)[1..k] = KeptBy(F(t)[1..(k - 1)], t[k], S)
        <3>1. k \in Nat /\ (1..k) \in SUBSET (1..k) /\ 1..k # {} /\ k \in 1..k
            <4>1. k \in Nat /\ k \in 1..k
                BY <2>2
            <4>2. QED
                BY <4>1
        <3>2. Max(1..k) \in 1..k /\ \A i \in 1..k : i <= Max(1..k)
            BY <3>1, LastPosition
        <3>3. Max(1..k) = k
            BY <3>1, <3>2
        <3>4. (1..k) \in SUBSET DOMAIN t /\ (1..k) \ {k} = 1..(k - 1)
            BY <2>2
        <3>5. QED
            BY <2>1, <3>1, <3>3, <3>4
    <2>5. QED
        BY <2>3, <2>4
<1>4. ASSUME NEW t \in Seq(Paths), NEW k \in 0..Len(t) PROVE F(t)[1..k] \in Seq(Paths)
    <2> DEFINE N == {i \in Nat : i <= Len(t) => F(t)[1..i] \in Seq(Paths)}
    <2>1. 0 \in N
        <3>1. 1..0 = {} /\ <<>> \in Seq(Paths)
            OBVIOUS
        <3>2. F(t)[1..0] = <<>>
            BY <3>1, <1>3
        <3>3. QED
            BY <3>1, <3>2
    <2>2. ASSUME NEW i \in N PROVE i + 1 \in N
        <3>1. ASSUME i + 1 <= Len(t) PROVE F(t)[1..(i + 1)] \in Seq(Paths)
            <4>1. i + 1 \in 1..Len(t) /\ i + 1 - 1 = i /\ F(t)[1..i] \in Seq(Paths)
                BY <3>1
            <4>2. F(t)[1..(i + 1)] = KeptBy(F(t)[1..i], t[i + 1], S)
                BY <4>1, <1>3
            <4>3. t[i + 1] \in Paths
                BY <4>1
            <4>4. QED
                BY <4>1, <4>2, <4>3 DEF KeptBy
        <3>2. QED
            BY <3>1
    <2>3. N = Nat
        <3>1. N \in SUBSET Nat
            OBVIOUS
        <3> HIDE DEF N
        <3>2. QED
            BY <2>1, <2>2, <3>1, NatSetInduction
    <2>4. k \in N /\ k <= Len(t)
        BY <2>3
    <2>5. QED
        BY <2>4
<1>5. ASSUME NEW x \in Paths PROVE Keep(Append(s, x), S) = KeptBy(Keep(s, S), x, S)
    <2> DEFINE t == Append(s, x)
               n == Len(s)
               N == {i \in Nat : i <= n => F(t)[1..i] = F(s)[1..i]}
    <2>1. /\ t \in Seq(Paths) /\ n \in Nat /\ Len(t) = n + 1
          /\ t[n + 1] = x /\ \A i \in 1..n : t[i] = s[i]
          /\ DOMAIN t = 1..(n + 1) /\ DOMAIN s = 1..n
        BY AppendProperties
    <2> HIDE DEF t
    <2>2. 0 \in N
        <3>1. 1..0 = {} /\ F(t)[{}] = F(s)[{}]
            BY <2>1, <1>3
        <3>2. QED
            BY <3>1
    <2>3. ASSUME NEW i \in N PROVE i + 1 \in N
        <3>1. ASSUME i + 1 <= n PROVE F(t)[1..(i + 1)] = F(s)[1..(i + 1)]
            <4>1. /\ i + 1 \in 1..n /\ i + 1 \in 1..Len(t) /\ i + 1 - 1 = i
                  /\ F(t)[1..i] = F(s)[1..i]
                BY <3>1, <2>1
            <4>2. /\ F(t)[1..(i + 1)] = KeptBy(F(t)[1..i], t[i + 1], S)
                  /\ F(s)[1..(i + 1)] = KeptBy(F(s)[1..i], s[i + 1], S)
                BY <4>1, <2>1, <1>3
            <4>3. QED
                BY <4>1, <4>2, <2>1
        <3>2. QED
            BY <3>1
    <2>4. N = Nat
        <3>1. N \in SUBSET Nat
            OBVIOUS
        <3> HIDE DEF N
        <3>2. QED
            BY <2>2, <2>3, <3>1, NatSetInduction
    <2>5. F(t)[1..n] = F(s)[1..n]
        <3>1. n \in N
            BY <2>1, <2>4
        <3>2. QED
            BY <2>1, <3>1
    <2>6. F(t)[1..(n + 1)] = KeptBy(F(t)[1..n], x, S)
        <3>1. n + 1 \in 1..Len(t) /\ n + 1 - 1 = n
            BY <2>1
        <3>2. QED
            BY <3>1, <2>1, <1>3
    <2>7. Keep(t, S) = F(t)[1..(n + 1)] /\ Keep(s, S) = F(s)[1..n]
        BY <1>1, <2>1
    <2>8. QED
        BY <2>5, <2>6, <2>7 DEF t
<1>6. Keep(s, S) \in Seq(Paths)
    <2>1. Len(s) \in 0..Len(s) /\ DOMAIN s = 1..Len(s)
        OBVIOUS
    <2>2. QED
        BY <1>1, <1>4, <2>1
<1>7. Keep(<<>>, S) = <<>>
    <2>1. <<>> \in Seq(Paths) /\ DOMAIN <<>> = {}
        OBVIOUS
    <2>2. QED
        BY <1>1, <1>3, <2>1
<1>8. QED
    BY <1>5, <1>6, <1>7

LEMMA NoteTyped ==
    ASSUME NEW g \in Guidances, NEW e \in Events
    PROVE  Note(g, e) \in Guidances
<1>1. e.path \in Paths /\ e.kind \in {"write", "read", "remove"}
    BY DEF Events
<1>2. /\ g.written \in Seq(Paths) /\ g.verified \in Seq(Paths) /\ g.removed \in Seq(Paths)
    BY DEF Guidances
<1>3. \A s \in Seq(Paths) : AppendUnique(s, e.path) \in Seq(Paths)
    BY <1>1 DEF AppendUnique
<1>4. Keep(g.verified, Paths \ {e.path}) \in Seq(Paths)
    BY <1>2, KeepFold
<1>5. QED
    BY <1>1, <1>2, <1>3, <1>4 DEF Note, Guidances

\* The fold of the events of a chain.
LEMMA NoteFold ==
    ASSUME NEW g \in Guidances, NEW s \in Seq(Events)
    PROVE  /\ FoldLeft(Note, g, s) \in Guidances
           /\ FoldLeft(Note, g, <<>>) = g
           /\ \A x \in Events :
                 FoldLeft(Note, g, Append(s, x)) = Note(FoldLeft(Note, g, s), x)
<1> DEFINE Folds(f, t) == f = [P \in SUBSET DOMAIN t |->
                                 IF P = {} THEN g ELSE Note(f[P \ {Max(P)}], t[Max(P)])]
           F(t) == CHOOSE f : Folds(f, t)
<1>1. \A t : FoldLeft(Note, g, t) = F(t)[DOMAIN t]
    BY DEF FoldLeft, MapThenFoldSet
<1>2. ASSUME NEW t \in Seq(Events) PROVE Folds(F(t), t)
    <2> DEFINE n == Len(t)
               step == [x \in Guidances \X (1..n) |-> Note(x[1], t[x[2]])]
    <2>1. n \in Nat /\ DOMAIN t = 1..n
        OBVIOUS
    <2>2. step \in [Guidances \X (1..n) -> Guidances]
        <3>1. ASSUME NEW kept \in Guidances, NEW i \in 1..n
              PROVE  Note(kept, t[i]) \in Guidances
            BY NoteTyped
        <3>2. QED
            BY <3>1
    <2> HIDE DEF n, step
    <2>3. PICK f \in [SUBSET (1..n) -> Guidances] : \A P \in SUBSET (1..n) :
              f[P] = IF P = {} THEN g ELSE step[<<f[P \ {Max(P)}], Max(P)>>]
        <3>1. \E f \in [SUBSET (1..n) -> Guidances] : FoldsOver(f, n, g, step)
            BY <2>1, <2>2, FoldExists
        <3>2. QED
            BY <3>1 DEF FoldsOver
    <2>4. ASSUME NEW P \in SUBSET (1..n), P # {}
          PROVE  f[P] = Note(f[P \ {Max(P)}], t[Max(P)])
        <3>1. Max(P) \in 1..n
            BY <2>1, <2>4, LastPosition
        <3>2. f[P \ {Max(P)}] \in Guidances
            BY <2>3
        <3>3. step[<<f[P \ {Max(P)}], Max(P)>>] = Note(f[P \ {Max(P)}], t[Max(P)])
            BY <3>1, <3>2 DEF step
        <3>4. QED
            BY <2>3, <2>4, <3>3
    <2>5. Folds(f, t)
        <3>1. f = [P \in SUBSET (1..n) |->
                     IF P = {} THEN g ELSE Note(f[P \ {Max(P)}], t[Max(P)])]
            BY <2>3, <2>4
        <3>2. QED
            BY <2>1, <3>1
    <2> HIDE DEF Folds
    <2>6. QED
        BY <2>5
<1> HIDE DEF F
<1>3. ASSUME NEW t \in Seq(Events)
      PROVE  /\ F(t)[{}] = g
             /\ \A k \in 1..Len(t) : F(t)[1..k] = Note(F(t)[1..(k - 1)], t[k])
    <2>1. Folds(F(t), t)
        BY <1>2
    <2>2. Len(t) \in Nat /\ DOMAIN t = 1..Len(t)
        OBVIOUS
    <2>3. F(t)[{}] = g
        BY <2>1, <2>2
    <2>4. ASSUME NEW k \in 1..Len(t)
          PROVE  F(t)[1..k] = Note(F(t)[1..(k - 1)], t[k])
        <3>1. k \in Nat /\ (1..k) \in SUBSET (1..k) /\ 1..k # {} /\ k \in 1..k
            <4>1. k \in Nat /\ k \in 1..k
                BY <2>2
            <4>2. QED
                BY <4>1
        <3>2. Max(1..k) \in 1..k /\ \A i \in 1..k : i <= Max(1..k)
            BY <3>1, LastPosition
        <3>3. Max(1..k) = k
            BY <3>1, <3>2
        <3>4. (1..k) \in SUBSET DOMAIN t /\ (1..k) \ {k} = 1..(k - 1)
            BY <2>2
        <3>5. QED
            BY <2>1, <3>1, <3>3, <3>4
    <2>5. QED
        BY <2>3, <2>4
<1>4. ASSUME NEW t \in Seq(Events), NEW k \in 0..Len(t) PROVE F(t)[1..k] \in Guidances
    <2> DEFINE N == {i \in Nat : i <= Len(t) => F(t)[1..i] \in Guidances}
    <2>1. 0 \in N
        <3>1. 1..0 = {}
            OBVIOUS
        <3>2. F(t)[1..0] = g
            BY <3>1, <1>3
        <3>3. QED
            BY <3>1, <3>2
    <2>2. ASSUME NEW i \in N PROVE i + 1 \in N
        <3>1. ASSUME i + 1 <= Len(t) PROVE F(t)[1..(i + 1)] \in Guidances
            <4>1. i + 1 \in 1..Len(t) /\ i + 1 - 1 = i /\ F(t)[1..i] \in Guidances
                BY <3>1
            <4>2. F(t)[1..(i + 1)] = Note(F(t)[1..i], t[i + 1])
                BY <4>1, <1>3
            <4>3. t[i + 1] \in Events
                BY <4>1
            <4>4. QED
                BY <4>1, <4>2, <4>3, NoteTyped
        <3>2. QED
            BY <3>1
    <2>3. N = Nat
        <3>1. N \in SUBSET Nat
            OBVIOUS
        <3> HIDE DEF N
        <3>2. QED
            BY <2>1, <2>2, <3>1, NatSetInduction
    <2>4. k \in N /\ k <= Len(t)
        BY <2>3
    <2>5. QED
        BY <2>4
<1>5. ASSUME NEW x \in Events PROVE FoldLeft(Note, g, Append(s, x)) = Note(FoldLeft(Note, g, s), x)
    <2> DEFINE t == Append(s, x)
               n == Len(s)
               N == {i \in Nat : i <= n => F(t)[1..i] = F(s)[1..i]}
    <2>1. /\ t \in Seq(Events) /\ n \in Nat /\ Len(t) = n + 1
          /\ t[n + 1] = x /\ \A i \in 1..n : t[i] = s[i]
          /\ DOMAIN t = 1..(n + 1) /\ DOMAIN s = 1..n
        BY AppendProperties
    <2> HIDE DEF t
    <2>2. 0 \in N
        <3>1. 1..0 = {} /\ F(t)[{}] = F(s)[{}]
            BY <2>1, <1>3
        <3>2. QED
            BY <3>1
    <2>3. ASSUME NEW i \in N PROVE i + 1 \in N
        <3>1. ASSUME i + 1 <= n PROVE F(t)[1..(i + 1)] = F(s)[1..(i + 1)]
            <4>1. /\ i + 1 \in 1..n /\ i + 1 \in 1..Len(t) /\ i + 1 - 1 = i
                  /\ F(t)[1..i] = F(s)[1..i]
                BY <3>1, <2>1
            <4>2. /\ F(t)[1..(i + 1)] = Note(F(t)[1..i], t[i + 1])
                  /\ F(s)[1..(i + 1)] = Note(F(s)[1..i], s[i + 1])
                BY <4>1, <2>1, <1>3
            <4>3. QED
                BY <4>1, <4>2, <2>1
        <3>2. QED
            BY <3>1
    <2>4. N = Nat
        <3>1. N \in SUBSET Nat
            OBVIOUS
        <3> HIDE DEF N
        <3>2. QED
            BY <2>2, <2>3, <3>1, NatSetInduction
    <2>5. F(t)[1..n] = F(s)[1..n]
        <3>1. n \in N
            BY <2>1, <2>4
        <3>2. QED
            BY <2>1, <3>1
    <2>6. F(t)[1..(n + 1)] = Note(F(t)[1..n], x)
        <3>1. n + 1 \in 1..Len(t) /\ n + 1 - 1 = n
            BY <2>1
        <3>2. QED
            BY <3>1, <2>1, <1>3
    <2>7. FoldLeft(Note, g, t) = F(t)[1..(n + 1)] /\ FoldLeft(Note, g, s) = F(s)[1..n]
        BY <1>1, <2>1
    <2>8. QED
        BY <2>5, <2>6, <2>7 DEF t
<1>6. FoldLeft(Note, g, s) \in Guidances
    <2>1. Len(s) \in 0..Len(s) /\ DOMAIN s = 1..Len(s)
        OBVIOUS
    <2>2. QED
        BY <1>1, <1>4, <2>1
<1>7. FoldLeft(Note, g, <<>>) = g
    <2>1. <<>> \in Seq(Events) /\ DOMAIN <<>> = {}
        OBVIOUS
    <2>2. QED
        BY <1>1, <1>3, <2>1
<1>8. QED
    BY <1>5, <1>6, <1>7

-----------------------------------------------------------------------------
(* Types.                                                                  *)

Numbers == 1..MaxCalls
Contents == Absent..MaxCalls
Places == Paths \cup {"root"}
Workspaces == [mode : Modes, cwd : Places, guidance : Guidances, files : [Paths -> Contents]]

\* What a thread is at, and with what.
ChainCalls == [pc : {"check", "lock"}, call : Numbers, chain : Seq(Commands)]
Runs == [pc : {"run", "log"}, call : Numbers, chain : Seq(Commands), mirror : Workspaces,
         cwd : Places, exit : {0, 1}, events : Seq(Events)]
FileWrites == [pc : {"check", "look"}, call : Numbers, path : Paths, overwrite : BOOLEAN]
Puts == [pc : {"put"}, call : Numbers, path : Paths, overwrite : BOOLEAN, found : Contents]
Switches == [pc : {"switch"}, call : Numbers, mode : Modes]
AgentStates == {Idle} \cup ChainCalls \cup Runs
HostStates == {Idle} \cup FileWrites \cup Puts \cup Switches

Histories == [written : SUBSET Paths, unread : SUBSET Paths, exempt : SUBSET Paths,
              answered : SUBSET Numbers, dropped : SUBSET Numbers,
              seen : [Threads -> SUBSET Modes]]

Short(g) ==
    /\ Len(g.written) <= MaxTracked
    /\ Len(g.verified) <= MaxTracked
    /\ Len(g.removed) <= MaxTracked

ThreadsTyped ==
    /\ th = [t \in Threads |-> th[t]]
    /\ \A t \in Agents : th[t] \in AgentStates
    /\ \A t \in Hosts : th[t] \in HostStates
    /\ \A t \in Threads : th[t].pc = "run" <=> lock = t

Typed ==
    /\ runtime \in Runtimes
    /\ ws \in Workspaces
    /\ Short(ws.guidance)
    /\ lock \in Agents \cup {NoOne}
    /\ ThreadsTyped
    /\ calls \in 0..MaxCalls
    /\ logQueue \in Seq(Numbers) /\ Len(logQueue) <= QueueSize
    /\ batch \in Seq(Numbers) /\ Len(batch) <= LogBatch
    /\ log \in Seq(Numbers)
    /\ faults \in Nat
    /\ hist \in Histories

LEMMA StatesApart ==
    ASSUME NEW s
    PROVE  /\ s \in AgentStates \cup HostStates =>
                 s.pc \in {"idle", "check", "lock", "run", "log", "look", "put", "switch"}
           /\ s \in AgentStates /\ s.pc \in {"check", "lock"} => s \in ChainCalls
           /\ s \in AgentStates /\ s.pc \in {"run", "log"} => s \in Runs
           /\ s \in AgentStates => s.pc \notin {"look", "put", "switch"}
           /\ s \in HostStates /\ s.pc \in {"check", "look"} => s \in FileWrites
           /\ s \in HostStates /\ s.pc = "put" => s \in Puts
           /\ s \in HostStates /\ s.pc = "switch" => s \in Switches
           /\ s \in HostStates => s.pc \notin {"lock", "run", "log"}
           /\ Idle \in AgentStates /\ Idle \in HostStates /\ Idle.pc = "idle"
BY DEF AgentStates, HostStates, ChainCalls, Runs, FileWrites, Puts, Switches, Idle

LEMMA TypedIsTypeOK == Typed => TypeOK
<1>1. ASSUME NEW s \in Seq(Paths), Len(s) <= MaxTracked PROVE s \in PathLists
    <2>1. s \in [1..Len(s) -> Paths] /\ Len(s) \in 0..MaxTracked
        BY <1>1, ShellAssumption
    <2>2. QED
        BY <2>1 DEF PathLists
<1>2. SUFFICES ASSUME Typed PROVE TypeOK
    OBVIOUS
<1>3. /\ ws.mode \in Modes /\ ws.files \in [Paths -> Absent..MaxCalls]
      /\ ws.guidance \in Guidances
    BY <1>2 DEF Typed, Workspaces, Contents
<1>4. ws.guidance \in [written : PathLists, verified : PathLists, removed : PathLists]
    BY <1>1, <1>2, <1>3 DEF Typed, Short, Guidances
<1>5. ASSUME NEW t \in Threads
      PROVE  th[t].pc \in {"idle", "check", "lock", "run", "log", "look", "put", "switch"}
    BY <1>2, StatesApart DEF Typed, ThreadsTyped, Threads
<1>6. QED
    BY <1>2, <1>3, <1>4, <1>5 DEF Typed, ThreadsTyped, TypeOK

LEMMA InitTyped == Init => Typed
<1>1. SUFFICES ASSUME Init PROVE Typed
    OBVIOUS
<1>2. NoGuidance \in Guidances /\ Short(NoGuidance)
    BY ShellAssumption DEF NoGuidance, Guidances, Short
<1>3. PICK mode \in Modes :
          /\ ws = [mode |-> mode, cwd |-> "root", guidance |-> NoGuidance,
                   files |-> [p \in Paths |-> IF p \in Seeded THEN 0 ELSE Absent]]
          /\ hist = [written |-> {}, unread |-> {}, exempt |-> {},
                     answered |-> {}, dropped |-> {},
                     seen |-> [t \in Threads |-> {mode}]]
    BY <1>1 DEF Init
<1>4. ws \in Workspaces /\ ws.guidance = NoGuidance
    <2>1. [p \in Paths |-> IF p \in Seeded THEN 0 ELSE Absent] \in [Paths -> Contents]
        BY ShellAssumption DEF Contents, Absent
    <2>2. QED
        BY <1>2, <1>3, <2>1 DEF Workspaces, Places
<1>5. hist \in Histories
    BY <1>3 DEF Histories
<1>6. \A t \in Threads : th[t] = Idle
    BY <1>1 DEF Init
<1>7. QED
    BY <1>1, <1>2, <1>4, <1>5, <1>6, StatesApart, ShellAssumption DEF Init, Typed, ThreadsTyped, Threads, Idle

LEMMA TrimFacts ==
    ASSUME NEW s \in Seq(Paths)
    PROVE  /\ Trim(s) \in Seq(Paths) /\ Len(Trim(s)) <= MaxTracked
           /\ ToSet(Trim(s)) \subseteq ToSet(s)
           /\ Len(s) <= MaxTracked => Trim(s) = s
<1> DEFINE from == Len(s) - MaxTracked + 1
<1>1. MaxTracked \in Nat \ {0} /\ Len(s) \in Nat
    BY ShellAssumption
<1>2. CASE Len(s) <= MaxTracked
    BY <1>1, <1>2 DEF Trim
<1>3. CASE ~(Len(s) <= MaxTracked)
    <2>1. /\ from \in 1..Len(s) /\ from \in Int /\ Len(s) \in Int
          /\ \A i \in from..Len(s) : s[i] \in Paths /\ i \in 1..Len(s)
          /\ Len(s) - from + 1 = MaxTracked
          /\ Trim(s) = SubSeq(s, from, Len(s))
        <3>1. from \in 1..Len(s) /\ Len(s) - from + 1 = MaxTracked
            BY <1>1, <1>3
        <3>2. Trim(s) = SubSeq(s, from, Len(s))
            BY <1>3 DEF Trim
        <3> HIDE DEF from
        <3>3. \A i \in from..Len(s) : i \in 1..Len(s)
            BY <3>1, <1>1
        <3>4. \A i \in 1..Len(s) : s[i] \in Paths
            OBVIOUS
        <3>5. QED
            BY <3>1, <3>2, <3>3, <3>4, <1>1
    <2> HIDE DEF from
    <2>2. /\ Trim(s) \in Seq(Paths)
          /\ Len(Trim(s)) = IF from <= Len(s) THEN Len(s) - from + 1 ELSE 0
          /\ \A i \in 1..(Len(s) - from + 1) : Trim(s)[i] = s[from + i - 1]
        BY <2>1, SubSeqProperties
    <2>3. Len(Trim(s)) = MaxTracked
        BY <2>1, <2>2
    <2>4. ASSUME NEW i \in DOMAIN Trim(s) PROVE Trim(s)[i] \in ToSet(s)
        <3>1. i \in 1..MaxTracked
            BY <2>2, <2>3
        <3>2. Trim(s)[i] = s[from + i - 1]
            BY <2>1, <2>2, <3>1
        <3>3. from + i - 1 \in 1..Len(s)
            BY <2>1, <3>1, <1>1
        <3>4. QED
            BY <3>2, <3>3 DEF ToSet
    <2>5. QED
        BY <1>3, <2>2, <2>3, <2>4, <1>1 DEF ToSet
<1>4. QED
    BY <1>2, <1>3

LEMMA ApplyTyped ==
    ASSUME NEW g \in Guidances, NEW events \in Seq(Events)
    PROVE  Apply(g, events) \in Guidances /\ Short(Apply(g, events))
<1> DEFINE all == FoldLeft(Note, g, events)
<1>1. all \in Guidances
    BY NoteFold
<1>2. Apply(g, events) = [all EXCEPT !.written = Trim(@), !.verified = Trim(@),
                                     !.removed = Trim(@)]
    BY DEF Apply
<1> HIDE DEF all
<1>3. /\ all.written \in Seq(Paths) /\ all.verified \in Seq(Paths)
      /\ all.removed \in Seq(Paths)
    BY <1>1 DEF Guidances
<1>4. QED
    <2>1. /\ Trim(all.written) \in Seq(Paths) /\ Len(Trim(all.written)) <= MaxTracked
          /\ Trim(all.verified) \in Seq(Paths) /\ Len(Trim(all.verified)) <= MaxTracked
          /\ Trim(all.removed) \in Seq(Paths) /\ Len(Trim(all.removed)) <= MaxTracked
        BY <1>3, TrimFacts
    <2>2. QED
        BY <1>1, <1>2, <2>1 DEF Guidances, Short

\* What a command reports: nothing, one event, or paths that it read.
Reports(events) ==
    \/ events = <<>>
    \/ \E e \in Events : events = <<e>>
    \/ \A i \in DOMAIN events : events[i].kind = "read"

LEMMA OutcomesTyped ==
    ASSUME NEW c \in Commands, NEW n \in Numbers, NEW files \in [Paths -> Contents],
           NEW pending \in Seq(Paths), NEW o \in Outcomes(c, n, files, pending)
    PROVE  /\ o.files \in [Paths -> Contents] /\ o.exit \in {0, 1}
           /\ o.events \in Seq(Events) /\ Reports(o.events)
<1>1. /\ c.path \in Paths
      /\ c.op \in {"create", "overwrite", "edit", "cat", "verify", "rm", "xargs touch", "cd"}
    BY DEF Commands
<1>2. \A kind \in {"write", "read", "remove"} : Event(kind, c.path) \in Events
    BY <1>1 DEF Event, Events
<1> DEFINE reads == [i \in DOMAIN pending |-> Event("read", pending[i])]
<1>3. reads \in Seq(Events) /\ \A i \in DOMAIN reads : reads[i].kind = "read"
    <2>1. \A i \in DOMAIN pending : Event("read", pending[i]) \in Events
        BY DEF Event, Events
    <2>2. DOMAIN pending = 1..Len(pending) /\ Len(pending) \in Nat
        OBVIOUS
    <2>3. reads \in [1..Len(pending) -> Events]
        BY <2>1, <2>2
    <2>4. reads \in Seq(Events)
        BY <2>2, <2>3
    <2>5. \A i \in DOMAIN pending : reads[i].kind = "read"
        BY DEF Event
    <2>6. QED
        BY <2>4, <2>5
<1>4. /\ [files EXCEPT ![c.path] = n] \in [Paths -> Contents]
      /\ [files EXCEPT ![c.path] = Absent] \in [Paths -> Contents]
    <2>1. n \in Contents /\ Absent \in Contents
        BY ShellAssumption DEF Contents, Absent, Numbers
    <2>2. QED
        BY <2>1
<1> HIDE DEF reads
<1> DEFINE Stored == [files EXCEPT ![c.path] = n]
           Gone == [files EXCEPT ![c.path] = Absent]
           One(kind) == <<Event(kind, c.path)>>
           Lists == {<<>>, reads, One("write"), One("read"), One("remove")}
<1>5. \E f \in {files, Stored, Gone}, exit \in {0, 1}, events \in Lists :
          o = Outcome(f, exit, events)
    <2> DEFINE there == files[c.path] # Absent
               Fail == Outcome(files, 1, <<>>)
               all == {Fail, Outcome(Stored, 0, One("write")), Outcome(files, 1, One("write")),
                       Outcome(files, 0, One("read")), Outcome(files, 0, reads),
                       Outcome(Gone, 0, One("remove")), Outcome(Stored, 0, <<>>),
                       Outcome(files, 0, <<>>)}
    <2>1. Outcomes(c, n, files, pending) \subseteq all
        BY <1>1, Zenon DEF Outcomes, reads
    <2>2. o \in all
        BY <2>1
    <2> HIDE DEF Stored, Gone, One
    <2>3. QED
        BY <2>2
<1>6. ASSUME NEW events \in Lists PROVE events \in Seq(Events) /\ Reports(events)
    <2>1. CASE events = <<>>
        BY <2>1 DEF Reports
    <2>2. CASE events = reads
        BY <2>2, <1>3 DEF Reports
    <2>3. ASSUME NEW e \in Events, events = <<e>>
          PROVE  events \in Seq(Events) /\ Reports(events)
        BY <2>3 DEF Reports
    <2>4. QED
        BY <1>2, <2>1, <2>2, <2>3
<1>7. \A f, exit, events : /\ Outcome(f, exit, events).files = f
                           /\ Outcome(f, exit, events).exit = exit
                           /\ Outcome(f, exit, events).events = events
    BY DEF Outcome
<1> HIDE DEF Stored, Gone, Lists
<1>8. QED
    BY <1>4, <1>5, <1>6, <1>7 DEF Stored, Gone

\* One thread moves on.
LEMMA ThreadMoves ==
    ASSUME ThreadsTyped, NEW t \in Threads, NEW s,
           th' = [th EXCEPT ![t] = s],
           t \in Agents => s \in AgentStates, t \in Hosts => s \in HostStates,
           s.pc = "run" <=> lock' = t,
           \A u \in Threads \ {t} : lock' = u <=> lock = u
    PROVE  /\ ThreadsTyped'
           /\ th'[t] = s /\ \A u \in Threads \ {t} : th'[u] = th[u]
<1>1. DOMAIN th = Threads
    BY DEF ThreadsTyped
<1>2. th'[t] = s /\ \A u \in Threads \ {t} : th'[u] = th[u]
    BY <1>1
<1>3. th' = [u \in Threads |-> th'[u]]
    BY <1>1
<1>4. (\A u \in Agents : th'[u] \in AgentStates) /\ (\A u \in Hosts : th'[u] \in HostStates)
    BY <1>2 DEF ThreadsTyped, Threads
<1>5. \A u \in Threads : th'[u].pc = "run" <=> lock' = u
    BY <1>2 DEF ThreadsTyped
<1>6. QED
    BY <1>2, <1>3, <1>4, <1>5 DEF ThreadsTyped

LEMMA ThreadFacts ==
    ASSUME Typed, NEW t \in Threads
    PROVE  /\ t \in Agents \/ t \in Hosts
           /\ ~(t \in Agents /\ t \in Hosts)
           /\ t # NoOne
           /\ th[t].pc = "run" <=> lock = t
           /\ th[t].pc \in {"lock", "run", "log"} => t \in Agents
           /\ th[t].pc \in {"look", "put", "switch"} => t \in Hosts
           /\ t \in Agents /\ th[t].pc \in {"check", "lock"} => th[t] \in ChainCalls
           /\ th[t].pc \in {"run", "log"} => th[t] \in Runs
           /\ t \in Hosts /\ th[t].pc \in {"check", "look"} => th[t] \in FileWrites
           /\ th[t].pc = "put" => th[t] \in Puts
           /\ th[t].pc = "switch" => th[t] \in Switches
           /\ Idle.pc = "idle"
BY StatesApart, ShellAssumption DEF Typed, ThreadsTyped, Threads

\* A call that ends, or is handed on.
LEMMA ReturnTyped ==
    ASSUME Typed, NEW t \in Threads, Return(t),
           lock' \in Agents \cup {NoOne}, lock' # t,
           \A u \in Threads \ {t} : lock' = u <=> lock = u
    PROVE  ThreadsTyped'
<1>1. Idle \in AgentStates /\ Idle \in HostStates /\ Idle.pc = "idle"
    BY StatesApart
<1>2. th' = [th EXCEPT ![t] = Idle]
    BY DEF Return
<1>3. ThreadsTyped
    BY DEF Typed
<1>4. QED
    BY <1>1, <1>2, <1>3, ThreadMoves

LEMMA BeginTyped ==
    ASSUME Typed, NEW t \in Threads, NEW s,
           t \in Agents => s \in ChainCalls, t \in Hosts => s \in FileWrites \cup Switches,
           s.pc \in {"check", "switch"}, th[t] = Idle,
           th' = [th EXCEPT ![t] = s], UNCHANGED lock
    PROVE  ThreadsTyped'
<1>1. ThreadsTyped
    BY DEF Typed
<1>2. t \in Agents => s \in AgentStates
    BY DEF AgentStates
<1>3. t \in Hosts => s \in HostStates
    BY DEF HostStates
<1>4. s.pc = "run" <=> lock' = t
    BY ThreadFacts
<1>5. QED
    BY <1>1, <1>2, <1>3, <1>4, ThreadMoves

LEMMA BeginStates ==
    ASSUME NEW n \in Numbers
    PROVE  /\ \A c \in Chains : [pc |-> "check", call |-> n, chain |-> c] \in ChainCalls
           /\ \A p \in HostPaths, o \in BOOLEAN :
                 [pc |-> "check", call |-> n, path |-> p, overwrite |-> o] \in FileWrites
           /\ \A mode \in Modes : [pc |-> "switch", call |-> n, mode |-> mode] \in Switches
BY ShellAssumption DEF ChainCalls, FileWrites, Switches

\* The steps of Proceed, and the others, one by one.
LEMMA BeginKeepsTypes ==
    ASSUME Typed, NEW t \in Threads, NEW call, Begin(t, call),
           \/ t \in Agents /\ \E c \in Chains :
                 call = [pc |-> "check", call |-> calls + 1, chain |-> c]
           \/ t \in Hosts /\ \E p \in HostPaths, o \in BOOLEAN :
                 call = [pc |-> "check", call |-> calls + 1, path |-> p, overwrite |-> o]
    PROVE  Typed'
<1>1. calls + 1 \in Numbers /\ calls' \in 0..MaxCalls
    BY ShellAssumption DEF Typed, Begin, Numbers
<1>2. /\ t \in Agents => call \in ChainCalls
      /\ t \in Hosts => call \in FileWrites \cup Switches
      /\ call.pc = "check"
    BY <1>1, BeginStates, ShellAssumption
<1>3. ThreadsTyped'
    BY <1>2, BeginTyped DEF Begin
<1>4. hist' \in Histories
    BY DEF Begin, Typed, Histories, Workspaces
<1>5. QED
    BY <1>1, <1>3, <1>4 DEF Typed, Begin

LEMMA BeginSwitchKeepsTypes ==
    ASSUME Typed, NEW t \in Hosts, NEW mode \in Modes, BeginSwitch(t, mode)
    PROVE  Typed'
<1>1. calls + 1 \in Numbers /\ calls' \in 0..MaxCalls /\ t \in Threads /\ t \notin Agents
    BY ShellAssumption DEF Typed, BeginSwitch, Numbers, Threads
<1> DEFINE call == [pc |-> "switch", call |-> calls + 1, mode |-> mode]
<1>2. call \in Switches /\ call.pc = "switch"
    BY <1>1, BeginStates
<1>3. th' = [th EXCEPT ![t] = call] /\ th[t] = Idle /\ UNCHANGED lock
    BY DEF BeginSwitch
<1> HIDE DEF call
<1>4. ThreadsTyped'
    BY <1>1, <1>2, <1>3, BeginTyped
<1>5. QED
    BY <1>1, <1>4 DEF Typed, BeginSwitch

LEMMA CheckModeKeepsTypes ==
    ASSUME Typed, NEW t \in Threads, CheckMode(t) PROVE Typed'
<1>1. th[t].pc = "check" /\ lock # t
    BY ThreadFacts DEF CheckMode
<1>2. CASE ws.mode = ModeFor(t)
    <2> DEFINE pc == IF t \in Agents THEN "lock" ELSE "look"
               s == [th[t] EXCEPT !.pc = pc]
    <2>1. th' = [th EXCEPT ![t] = s]
        BY <1>2 DEF CheckMode, Goto
    <2>2. t \in Agents => s \in ChainCalls
        BY <1>1, ThreadFacts DEF ChainCalls
    <2>3. t \in Hosts => s \in FileWrites
        BY <1>1, ThreadFacts DEF FileWrites
    <2>4. s.pc # "run"
        BY <2>2, <2>3, ThreadFacts DEF ChainCalls, FileWrites
    <2>5. ThreadsTyped /\ UNCHANGED lock
        BY DEF Typed, CheckMode
    <2> HIDE DEF s
    <2>6. ThreadsTyped'
        BY <1>1, <2>1, <2>2, <2>3, <2>4, <2>5, ThreadMoves DEF AgentStates, HostStates
    <2>7. QED
        BY <2>6 DEF Typed, CheckMode
<1>3. CASE ws.mode # ModeFor(t)
    <2>1. ThreadsTyped'
        BY <1>1, <1>3, ReturnTyped DEF CheckMode, Typed
    <2>2. QED
        BY <2>1 DEF Typed, CheckMode
<1>4. QED
    BY <1>2, <1>3

LEMMA TimesOutKeepsTypes ==
    ASSUME Typed, NEW t \in Threads, TimesOut(t) PROVE Typed'
<1>1. lock # t
    BY ThreadFacts DEF TimesOut
<1>2. ThreadsTyped'
    BY <1>1, ReturnTyped DEF TimesOut, Typed
<1>3. QED
    BY <1>2 DEF Typed, TimesOut

LEMMA AcquireKeepsTypes ==
    ASSUME Typed, NEW t \in Threads, Acquire(t) PROVE Typed'
<1>1. t \in Agents /\ t \notin Hosts /\ th[t] \in ChainCalls /\ lock = NoOne /\ t # NoOne
    BY ThreadFacts DEF Acquire
<1> DEFINE s == [pc |-> "run", call |-> th[t].call, chain |-> th[t].chain,
                 mirror |-> ws, cwd |-> ws.cwd, exit |-> 0, events |-> <<>>]
<1>2. s \in Runs /\ s.pc = "run"
    BY <1>1 DEF Runs, ChainCalls, Typed, Workspaces
<1>3. th' = [th EXCEPT ![t] = s] /\ lock' = t
    BY DEF Acquire
<1> HIDE DEF s
<1>4. ThreadsTyped
    BY DEF Typed
<1>5. \A u \in Threads \ {t} : lock' = u <=> lock = u
    BY <1>1, <1>3, ThreadFacts
<1>6. ThreadsTyped'
    BY <1>1, <1>2, <1>3, <1>4, <1>5, ThreadMoves DEF AgentStates
<1>7. QED
    BY <1>1, <1>6 DEF Typed, Acquire

LEMMA PendingTyped ==
    ASSUME Typed, NEW t
    PROVE  PendingOf(t) \in Seq(Paths)
<1>1. ws.guidance.written \in Seq(Paths)
    BY DEF Typed, Workspaces, Guidances
<1>2. Required(ws.guidance) \in Seq(Paths)
    BY <1>1, KeepFold DEF Required
<1>3. QED
    BY <1>2 DEF PendingOf

LEMMA PathsOfTyped ==
    ASSUME NEW events \in Seq(Events), NEW kind
    PROVE  PathsOf(events, kind) \subseteq Paths
<1>1. ToSet(events) \subseteq Events
    BY DEF ToSet
<1>2. QED
    BY <1>1 DEF PathsOf, Events

\* A command that is skipped, and one that runs.
Skip(t) ==
    /\ th' = [th EXCEPT ![t].chain = Tail(@)]
    /\ UNCHANGED <<runtime, ws, lock, calls, logQueue, batch, log, faults, hist>>

Obey(t, c, o) ==
    /\ ws' = [ws EXCEPT !.files = o.files,
                        !.cwd = IF c.op = "cd" THEN c.path ELSE @]
    /\ th' = [th EXCEPT ![t].chain = Tail(@), ![t].exit = o.exit,
                        ![t].cwd = IF c.op = "cd" THEN c.path ELSE @,
                        ![t].events = @ \o o.events]
    /\ LET w == PathsOf(o.events, "write")
       IN hist' = [hist EXCEPT
             !.written = @ \cup w,
             !.unread = (@ \cup w) \ PathsOf(o.events, "read"),
             !.exempt = @ \cup PathsOf(o.events, "remove")]
    /\ UNCHANGED <<runtime, lock, calls, logQueue, batch, log, faults>>

\* What a step of a chain is.
LEMMA StepCases ==
    ASSUME Typed, NEW t \in Threads, Step(t)
    PROVE  /\ t \in Agents /\ t \notin Hosts /\ lock = t
           /\ th[t] \in Runs /\ th[t].pc = "run"
           /\ Tail(th[t].chain) \in Seq(Commands)
           /\ \/ Skip(t)
              \/ \E c \in Commands : \E o \in Outcomes(c, th[t].call, ws.files, PendingOf(t)) :
                    /\ Obey(t, c, o)
                    /\ o.files \in [Paths -> Contents] /\ o.exit \in {0, 1}
                    /\ o.events \in Seq(Events) /\ Reports(o.events)
<1>1. t \in Agents /\ t \notin Hosts /\ lock = t /\ th[t] \in Runs /\ th[t].pc = "run"
    BY ThreadFacts DEF Step
<1>2. th[t].chain \in Seq(Commands) /\ th[t].chain # <<>> /\ th[t].call \in Numbers
    BY <1>1 DEF Runs, Step
<1>3. Head(th[t].chain) \in Commands /\ Tail(th[t].chain) \in Seq(Commands)
    BY <1>2
<1>4. ws.files \in [Paths -> Contents] /\ PendingOf(t) \in Seq(Paths)
    BY PendingTyped DEF Typed, Workspaces
<1> DEFINE c == Head(th[t].chain)
<1>5. \A o \in Outcomes(c, th[t].call, ws.files, PendingOf(t)) :
          /\ o.files \in [Paths -> Contents] /\ o.exit \in {0, 1}
          /\ o.events \in Seq(Events) /\ Reports(o.events)
    BY <1>2, <1>3, <1>4, OutcomesTyped
<1>6. \/ Skip(t)
      \/ \E o \in Outcomes(c, th[t].call, ws.files, PendingOf(t)) : Obey(t, c, o)
    BY Zenon DEF Step, Skip, Obey
<1>7. QED
    BY <1>1, <1>3, <1>5, <1>6

LEMMA StepKeepsTypes ==
    ASSUME Typed, NEW t \in Threads, Step(t) PROVE Typed'
<1>1. /\ t \in Agents /\ t \notin Hosts /\ lock = t
      /\ th[t] \in Runs /\ th[t].pc = "run"
      /\ Tail(th[t].chain) \in Seq(Commands)
    BY StepCases
<1>2. ThreadsTyped
    BY DEF Typed
<1>3. CASE Skip(t)
    <2> DEFINE s == [th[t] EXCEPT !.chain = Tail(@)]
    <2>1. th' = [th EXCEPT ![t] = s] /\ lock' = lock
        BY <1>3 DEF Skip
    <2>2. s \in Runs /\ s.pc = "run"
        BY <1>1 DEF Runs
    <2> HIDE DEF s
    <2>3. ThreadsTyped'
        BY <1>1, <1>2, <2>1, <2>2, ThreadMoves DEF AgentStates
    <2>4. QED
        BY <1>3, <2>3 DEF Typed, Skip
<1>4. ASSUME NEW c \in Commands,
             NEW o, o.files \in [Paths -> Contents], o.exit \in {0, 1},
             o.events \in Seq(Events), Obey(t, c, o)
      PROVE  Typed'
    <2> DEFINE cwd == IF c.op = "cd" THEN c.path ELSE th[t].cwd
               s == [th[t] EXCEPT !.chain = Tail(@), !.exit = o.exit, !.cwd = cwd,
                                  !.events = @ \o o.events]
    <2>1. th' = [th EXCEPT ![t] = s] /\ lock' = lock
        BY <1>2, <1>4 DEF Obey, ThreadsTyped
    <2>2. cwd \in Places /\ th[t].events \o o.events \in Seq(Events)
        <3>1. cwd \in Places
            BY <1>1 DEF Runs, Places, Commands
        <3>2. th[t].events \in Seq(Events)
            BY <1>1 DEF Runs
        <3>3. QED
            BY <1>4, <3>1, <3>2
    <2>3. s \in Runs /\ s.pc = "run"
        <3> HIDE DEF cwd
        <3>1. QED
            BY <1>1, <1>4, <2>2 DEF Runs
    <2> HIDE DEF s
    <2>4. ThreadsTyped'
        BY <1>1, <1>2, <2>1, <2>3, ThreadMoves DEF AgentStates
    <2>5. ws' \in Workspaces /\ ws'.guidance = ws.guidance
        <3>1. (IF c.op = "cd" THEN c.path ELSE ws.cwd) \in Places
            BY DEF Typed, Workspaces, Places, Commands
        <3>2. QED
            BY <3>1, <1>4 DEF Typed, Workspaces, Obey
    <2>6. hist' \in Histories
        <3>1. \A kind : PathsOf(o.events, kind) \subseteq Paths
            BY <1>4, PathsOfTyped
        <3>2. QED
            BY <3>1, <1>4 DEF Obey, Typed, Histories
    <2>7. QED
        BY <1>4, <2>4, <2>5, <2>6 DEF Typed, Obey
<1>5. QED
    BY <1>3, <1>4, StepCases

LEMMA RaiseKeepsTypes ==
    ASSUME Typed, NEW t \in Agents, Raise(t) PROVE Typed'
<1>1. t \in Threads /\ th[t].pc = "run"
    BY DEF Threads, Raise
<1>2. lock = t /\ t # NoOne /\ th[t] \in Runs
    BY <1>1, ThreadFacts
<1>3. ThreadsTyped'
    <2>1. lock' \in Agents \cup {NoOne} /\ lock' # t
        BY <1>2 DEF Raise
    <2>2. \A u \in Threads \ {t} : lock' = u <=> lock = u
        BY <1>2, ThreadFacts DEF Raise
    <2>3. QED
        BY <1>1, <2>1, <2>2, ReturnTyped DEF Raise, Return
<1>4. hist' \in Histories
    <2>1. PathsOf(th[t].events, "write") \subseteq Paths
        BY <1>2, PathsOfTyped DEF Runs
    <2>2. QED
        BY <2>1 DEF Raise, Typed, Histories
<1>5. faults' \in Nat
    BY DEF Raise, Typed
<1>6. QED
    BY <1>3, <1>4, <1>5 DEF Typed, Raise

LEMMA FinishKeepsTypes ==
    ASSUME Typed, NEW t \in Threads, Finish(t) PROVE Typed'
<1>1. lock = t /\ t # NoOne /\ th[t] \in Runs /\ t \in Agents /\ t \notin Hosts
    BY ThreadFacts DEF Finish
<1> DEFINE s == [th[t] EXCEPT !.pc = "log"]
<1>2. s \in Runs /\ s.pc = "log"
    BY <1>1 DEF Runs
<1>3. th' = [th EXCEPT ![t] = s] /\ lock' = NoOne
    BY DEF Finish, Goto
<1> HIDE DEF s
<1>4. ThreadsTyped'
    <2>1. ThreadsTyped
        BY DEF Typed
    <2>2. \A u \in Threads \ {t} : lock' = u <=> lock = u
        BY <1>1, <1>3, ThreadFacts
    <2>3. QED
        BY <1>1, <1>2, <1>3, <2>1, <2>2, ThreadMoves DEF AgentStates
<1>5. ws' \in Workspaces /\ Short(ws'.guidance)
    <2>1. Mirror(t) \in Workspaces
        BY <1>1 DEF Mirror, Typed, Runs
    <2> DEFINE g == Apply(Mirror(t).guidance, th[t].events)
    <2>2. g \in Guidances /\ Short(g)
        BY <1>1, <2>1, ApplyTyped DEF Workspaces, Runs
    <2>3. th[t].cwd \in Places
        BY <1>1 DEF Runs
    <2>4. ws' = [ws EXCEPT !.cwd = th[t].cwd,
                           !.guidance = IF runtime = "redis" THEN @ ELSE g]
        BY DEF Finish
    <2> HIDE DEF g
    <2>5. QED
        BY <2>2, <2>3, <2>4 DEF Typed, Workspaces
<1>6. QED
    BY <1>3, <1>4, <1>5 DEF Typed, Finish

LEMMA LogKeepsTypes ==
    ASSUME Typed, NEW t \in Threads, Log(t) PROVE Typed'
<1>1. th[t] \in Runs /\ lock # t /\ t \in Agents
    BY ThreadFacts DEF Log
<1>2. ThreadsTyped'
    BY <1>1, ReturnTyped DEF Log, Return, Typed
<1>3. th[t].call \in Numbers
    BY <1>1 DEF Runs
<1>4. logQueue' \in Seq(Numbers) /\ Len(logQueue') <= QueueSize
    BY <1>3, ShellAssumption DEF Log, Typed
<1>5. hist' \in Histories
    BY <1>3 DEF Log, Typed, Histories
<1>6. QED
    BY <1>2, <1>4, <1>5 DEF Typed, Log

LEMMA LookKeepsTypes ==
    ASSUME Typed, NEW t \in Threads, Look(t) PROVE Typed'
<1>1. t \in Hosts /\ t \notin Agents /\ th[t] \in FileWrites /\ lock # t
    BY ThreadFacts DEF Look
<1> DEFINE s == [pc |-> "put", call |-> th[t].call, path |-> th[t].path,
                 overwrite |-> th[t].overwrite, found |-> ws.files[th[t].path]]
<1>2. s \in Puts /\ s.pc = "put"
    BY <1>1 DEF Puts, FileWrites, Typed, Workspaces
<1>3. th' = [th EXCEPT ![t] = s] /\ lock' = lock
    BY DEF Look
<1> HIDE DEF s
<1>4. ThreadsTyped
    BY DEF Typed
<1>5. ThreadsTyped'
    BY <1>1, <1>2, <1>3, <1>4, ThreadMoves DEF HostStates
<1>6. QED
    BY <1>5 DEF Typed, Look

LEMMA PutKeepsTypes ==
    ASSUME Typed, NEW t \in Threads, Put(t) PROVE Typed'
<1>1. t \in Hosts /\ t \notin Agents /\ th[t] \in Puts /\ lock # t
    BY ThreadFacts DEF Put
<1>2. ThreadsTyped'
    BY <1>1, ReturnTyped DEF Put, Typed
<1>3. ws' \in Workspaces /\ ws'.guidance = ws.guidance
    <2>1. th[t].call \in Contents
        BY <1>1, ShellAssumption DEF Puts, Numbers, Contents, Absent
    <2>2. QED
        BY <2>1 DEF Put, Typed, Workspaces
<1>4. QED
    BY <1>2, <1>3 DEF Typed, Put

LEMMA SwitchKeepsTypes ==
    ASSUME Typed, NEW t \in Threads, Switch(t) \/ SwitchRaises(t) PROVE Typed'
<1>1. t \in Hosts /\ t \notin Agents /\ th[t] \in Switches /\ lock # t
    BY ThreadFacts DEF Switch, SwitchRaises
<1>2. ThreadsTyped'
    BY <1>1, ReturnTyped DEF Switch, SwitchRaises, Return, Typed
<1>3. th[t].mode \in Modes
    BY <1>1 DEF Switches
<1>4. ws' \in Workspaces /\ ws'.guidance = ws.guidance
    BY <1>3 DEF Switch, SwitchRaises, Typed, Workspaces
<1>5. hist' \in Histories
    <2>1. ws'.mode \in Modes
        BY <1>4 DEF Workspaces
    <2>2. ASSUME NEW mode \in Modes, hist' = [hist EXCEPT !.seen = [u \in Threads |-> @[u] \cup {mode}]]
          PROVE  hist' \in Histories
        BY <2>2 DEF Typed, Histories
    <2>3. QED
        BY <1>3, <2>1, <2>2 DEF Switch, SwitchRaises
<1>6. faults' \in Nat
    BY DEF Switch, SwitchRaises, Typed
<1>7. QED
    BY <1>2, <1>4, <1>5, <1>6 DEF Typed, Switch, SwitchRaises

LEMMA WorkerKeepsTypes ==
    ASSUME Typed, Fetch \/ Insert \/ InsertRaises PROVE Typed'
<1>1. ThreadsTyped'
    <2>1. UNCHANGED <<th, lock>>
        BY DEF Fetch, Insert, InsertRaises
    <2>2. QED
        BY <2>1 DEF Typed, ThreadsTyped
<1>2. CASE Fetch
    BY <1>1, <1>2, ShellAssumption DEF Fetch, Typed
<1>3. CASE Insert
    BY <1>1, <1>3, ShellAssumption DEF Insert, Typed
<1>4. CASE InsertRaises
    <2>1. hist' \in Histories
        <3>1. batch \in Seq(Numbers) /\ hist \in Histories
            BY DEF Typed
        <3>2. ToSet(batch) \subseteq Numbers
            BY <3>1 DEF ToSet
        <3>3. hist' = [hist EXCEPT !.dropped = @ \cup ToSet(batch)]
            BY <1>4 DEF InsertRaises
        <3>4. QED
            BY <3>1, <3>2, <3>3 DEF Histories
    <2>2. faults' \in Nat /\ batch' \in Seq(Numbers) /\ Len(batch') <= LogBatch
        BY <1>4, ShellAssumption DEF InsertRaises, Typed
    <2>3. QED
        BY <1>1, <1>4, <2>1, <2>2 DEF InsertRaises, Typed
<1>5. QED
    BY <1>2, <1>3, <1>4

LEMMA StutteringKeepsTypes == Typed /\ UNCHANGED vars => Typed'
BY DEF Typed, ThreadsTyped, vars

LEMMA NextKeepsTypes == Typed /\ [Next]_vars => Typed'
<1>1. SUFFICES ASSUME Typed, [Next]_vars PROVE Typed'
    OBVIOUS
<1>2. CASE UNCHANGED vars
    BY <1>1, <1>2, StutteringKeepsTypes
<1>3. ASSUME NEW t \in Agents, NEW c \in Chains,
             Begin(t, [pc |-> "check", call |-> calls + 1, chain |-> c])
      PROVE  Typed'
    BY <1>1, <1>3, BeginKeepsTypes DEF Threads
<1>4. ASSUME NEW t \in Hosts, NEW p \in HostPaths, NEW o \in BOOLEAN,
             Begin(t, [pc |-> "check", call |-> calls + 1, path |-> p, overwrite |-> o])
      PROVE  Typed'
    BY <1>1, <1>4, BeginKeepsTypes DEF Threads
<1>5. ASSUME NEW t \in Hosts, NEW mode \in Modes, BeginSwitch(t, mode) PROVE Typed'
    BY <1>1, <1>5, BeginSwitchKeepsTypes
<1>6. ASSUME NEW t \in Hosts, SwitchRaises(t) PROVE Typed'
    BY <1>1, <1>6, SwitchKeepsTypes DEF Threads
<1>7. ASSUME NEW t \in Agents, Raise(t) PROVE Typed'
    BY <1>1, <1>7, RaiseKeepsTypes
<1>8. ASSUME NEW t \in Threads, Proceed(t) PROVE Typed'
    BY <1>1, <1>8, CheckModeKeepsTypes, TimesOutKeepsTypes, AcquireKeepsTypes, StepKeepsTypes,
       FinishKeepsTypes, LogKeepsTypes, LookKeepsTypes, PutKeepsTypes, SwitchKeepsTypes DEF Proceed
<1>9. CASE Fetch \/ Insert \/ InsertRaises
    BY <1>1, <1>9, WorkerKeepsTypes
<1>10. QED
    BY <1>1, <1>2, <1>3, <1>4, <1>5, <1>6, <1>7, <1>8, <1>9 DEF Next

\* The types: among them, that at most one chain runs, and only while it holds
\* the lock, and that neither the tracked paths nor the log queue nor the
\* worker's batch outgrow their limits.
THEOREM TypesAreKept == Spec => []TypeOK
<1>1. Spec => []Typed
    BY InitTyped, NextKeepsTypes, PTL DEF Spec
<1>2. QED
    BY <1>1, TypedIsTypeOK, PTL

-----------------------------------------------------------------------------
(* The end of a chain.                                                     *)

\* Only a chain that ends, or that raises, frees the lock.
LEMMA WhoFreesTheLock ==
    ASSUME Typed, [Next]_vars, lock # NoOne, lock' = NoOne
    PROVE  \E t \in Agents : Finish(t) \/ Raise(t)
<1>1. lock' # lock
    OBVIOUS
<1>2. Next /\ ~UNCHANGED lock
    BY <1>1 DEF vars
<1>3. ASSUME NEW t \in Threads, Proceed(t) PROVE t \in Agents /\ Finish(t)
    <2>1. ~Acquire(t)
        BY DEF Acquire
    <2>2. Finish(t)
        BY <1>2, <1>3, <2>1 DEF Proceed, CheckMode, TimesOut, Step, Log, Look, Put, Switch
    <2>3. QED
        BY <2>2, ThreadFacts DEF Finish
<1>4. ~(Fetch \/ Insert \/ InsertRaises)
    BY <1>2 DEF Fetch, Insert, InsertRaises
<1>5. \A t : /\ \A call : ~Begin(t, call)
             /\ \A mode : ~BeginSwitch(t, mode)
             /\ ~SwitchRaises(t)
    BY <1>2 DEF Begin, BeginSwitch, SwitchRaises
<1>6. QED
    BY <1>2, <1>3, <1>4, <1>5 DEF Next

\* A chain that ends saves a whole mirror: it takes nothing back of what its
\* commands, hosts or switches of the mode saved (run_virtual_bash).
THEOREM ChainsTakeNothingBack == Spec => FinishKeepsWork
<1>1. ASSUME Typed, [Next]_vars, lock # NoOne, lock' = NoOne
      PROVE  ws'.files = ws.files /\ ws'.mode = ws.mode
    <2>1. PICK t \in Agents : Finish(t) \/ Raise(t)
        BY <1>1, WhoFreesTheLock
    <2>2. ws \in Workspaces
        BY <1>1 DEF Typed
    <2>3. QED
        BY <2>1, <2>2 DEF Finish, Raise, Workspaces
<1>2. Typed /\ [Next]_vars =>
          [lock # NoOne /\ lock' = NoOne =>
              /\ ws'.files = ws.files /\ ws'.mode = ws.mode]_vars
    BY <1>1
<1>3. QED
    BY <1>2, InitTyped, NextKeepsTypes, PTL DEF Spec, FinishKeepsWork

-----------------------------------------------------------------------------
(* The access mode.                                                        *)

\* The modes that a call has seen: the one of now, and, once it passed the
\* check, its own.
ModesSeen ==
    \A t \in Threads :
        /\ th[t].pc \notin {"idle", "switch"} => ws.mode \in hist.seen[t]
        /\ th[t].pc \in {"lock", "run", "look", "put"} => ModeFor(t) \in hist.seen[t]

LEMMA NextKeepsModesSeen == Typed /\ ModesSeen /\ [Next]_vars => ModesSeen'
<1>1. SUFFICES ASSUME Typed, ModesSeen, [Next]_vars PROVE ModesSeen'
    OBVIOUS
<1>2. /\ DOMAIN th = Threads /\ ws \in Workspaces /\ hist \in Histories
      /\ \A t \in Threads : hist.seen[t] \subseteq Modes
    BY <1>1 DEF Typed, ThreadsTyped, Histories
<1> USE <1>1 DEF ModesSeen
\* Steps that leave the modes, and what calls have seen, alone.
<1>3. ASSUME UNCHANGED <<ws, hist>>,
             NEW t \in Threads, \A u \in Threads \ {t} : th'[u] = th[u],
             th'[t].pc \notin {"idle", "switch"} => th[t].pc \notin {"idle", "switch"},
             th'[t].pc \in {"lock", "run", "look", "put"} =>
                 th[t].pc \in {"lock", "run", "look", "put"} \/ ModeFor(t) \in hist.seen[t]
      PROVE  ModesSeen'
    BY <1>3 DEF ModeFor
<1>4. ASSUME ws'.mode = ws.mode, hist'.seen = hist.seen,
             NEW t \in Threads, \A u \in Threads \ {t} : th'[u] = th[u],
             th'[t].pc = th[t].pc \/ th'[t].pc \in {"idle", "log"},
             th[t].pc = "run"
      PROVE  ModesSeen'
    BY <1>4 DEF ModeFor
<1>5. Idle.pc = "idle"
    BY DEF Idle
<1>6. CASE UNCHANGED vars
    BY <1>6 DEF vars, ModeFor
<1>7. ASSUME NEW t \in Threads, NEW call, Begin(t, call), call.pc = "check" PROVE ModesSeen'
    <2>1. /\ th'[t] = call /\ \A u \in Threads \ {t} : th'[u] = th[u]
          /\ hist'.seen[t] = {ws.mode} /\ \A u \in Threads \ {t} : hist'.seen[u] = hist.seen[u]
          /\ ws' = ws
        BY <1>2, <1>7 DEF Begin, Histories
    <2>2. QED
        BY <1>7, <2>1 DEF ModeFor
<1>8. ASSUME NEW t \in Threads, NEW mode, BeginSwitch(t, mode) PROVE ModesSeen'
    <2>1. th'[t].pc = "switch" /\ \A u \in Threads \ {t} : th'[u] = th[u]
        BY <1>2, <1>8 DEF BeginSwitch
    <2>2. QED
        BY <1>3, <1>8, <2>1 DEF BeginSwitch
<1>9. ASSUME NEW t \in Threads, CheckMode(t) PROVE ModesSeen'
    <2>1. ModeFor(t) = ws.mode => ModeFor(t) \in hist.seen[t]
        BY <1>9 DEF CheckMode
    <2>2. /\ \A u \in Threads \ {t} : th'[u] = th[u]
          /\ th'[t].pc # "idle" => ModeFor(t) = ws.mode
          /\ UNCHANGED <<ws, hist>>
        BY <1>2, <1>5, <1>9 DEF CheckMode, Goto, Return
    <2>3. th'[t].pc \in {"lock", "run", "look", "put"} => ModeFor(t) \in hist.seen[t]
        BY <2>1, <2>2
    <2>4. th[t].pc = "check"
        BY <1>9 DEF CheckMode
    <2>5. QED
        BY <1>3, <2>2, <2>3, <2>4
<1>10. ASSUME NEW t \in Threads, TimesOut(t) PROVE ModesSeen'
    <2>1. /\ th'[t].pc = "idle" /\ \A u \in Threads \ {t} : th'[u] = th[u]
          /\ UNCHANGED <<ws, hist>>
        BY <1>2, <1>5, <1>10 DEF TimesOut, Return
    <2>2. QED
        BY <1>3, <2>1
<1>11. ASSUME NEW t \in Threads, Acquire(t) PROVE ModesSeen'
    <2>1. /\ th'[t].pc = "run" /\ \A u \in Threads \ {t} : th'[u] = th[u]
          /\ th[t].pc = "lock" /\ UNCHANGED <<ws, hist>>
        BY <1>2, <1>11 DEF Acquire
    <2>2. QED
        BY <1>3, <2>1
<1>12. ASSUME NEW t \in Threads, Step(t) PROVE ModesSeen'
    <2>1. th[t] \in Runs /\ th[t].pc = "run"
        BY <1>12, StepCases
    <2>2. /\ th'[t].pc = "run" /\ \A u \in Threads \ {t} : th'[u] = th[u]
        <3>1. CASE Skip(t)
            BY <1>2, <2>1, <3>1 DEF Skip, Runs
        <3>2. ASSUME NEW c, NEW o, Obey(t, c, o)
              PROVE  th'[t].pc = "run" /\ \A u \in Threads \ {t} : th'[u] = th[u]
            BY <1>2, <2>1, <3>2 DEF Obey, Runs
        <3>3. QED
            BY <1>12, <3>1, <3>2, StepCases
    <2>3. ws'.mode = ws.mode /\ hist'.seen = hist.seen
        BY <1>2, <1>12 DEF Step, Workspaces, Histories
    <2>4. QED
        BY <1>4, <2>1, <2>2, <2>3
<1>13. ASSUME NEW t \in Threads, Finish(t) \/ Raise(t) PROVE ModesSeen'
    <2>1. th[t] \in Runs /\ th[t].pc = "run"
        BY <1>13, ThreadFacts DEF Finish, Raise
    <2>2. th'[t].pc \in {"idle", "log"} /\ \A u \in Threads \ {t} : th'[u] = th[u]
        BY <1>2, <1>5, <1>13, <2>1 DEF Finish, Raise, Goto, Runs
    <2>3. ws'.mode = ws.mode /\ hist'.seen = hist.seen
        BY <1>2, <1>13 DEF Finish, Raise, Workspaces, Histories
    <2>4. QED
        BY <1>4, <2>1, <2>2, <2>3
<1>14. ASSUME NEW t \in Threads, Log(t) \/ Put(t) PROVE ModesSeen'
    <2>1. th'[t].pc = "idle" /\ \A u \in Threads \ {t} : th'[u] = th[u]
        BY <1>2, <1>5, <1>14 DEF Log, Put, Return
    <2>2. ws'.mode = ws.mode /\ hist'.seen = hist.seen
        BY <1>2, <1>14 DEF Log, Put, Workspaces, Histories
    <2>3. QED
        BY <2>1, <2>2 DEF ModeFor
<1>15. ASSUME NEW t \in Threads, Look(t) PROVE ModesSeen'
    <2>1. /\ th'[t].pc = "put" /\ \A u \in Threads \ {t} : th'[u] = th[u]
          /\ th[t].pc = "look" /\ UNCHANGED <<ws, hist>>
        BY <1>2, <1>15 DEF Look
    <2>2. QED
        BY <1>3, <2>1
<1>16. ASSUME NEW t \in Threads, Switch(t) \/ SwitchRaises(t) PROVE ModesSeen'
    <2>1. th'[t].pc = "idle" /\ \A u \in Threads \ {t} : th'[u] = th[u]
        BY <1>2, <1>5, <1>16 DEF Switch, SwitchRaises
    <2>2. ws'.mode \in Modes
        BY <1>16, SwitchKeepsTypes DEF Typed, Workspaces
    <2>3. \A u \in Threads : hist'.seen[u] = hist.seen[u] \cup {ws'.mode}
        BY <1>2, <1>16 DEF Switch, SwitchRaises, Workspaces, Histories
    <2>4. QED
        BY <2>1, <2>3 DEF ModeFor
<1>17. ASSUME Fetch \/ Insert \/ InsertRaises PROVE ModesSeen'
    <2>1. th' = th /\ ws' = ws /\ hist'.seen = hist.seen
        BY <1>2, <1>17 DEF Fetch, Insert, InsertRaises, Histories
    <2>2. QED
        BY <2>1 DEF ModeFor
<1>18. Agents \subseteq Threads /\ Hosts \subseteq Threads
    BY DEF Threads
<1>19. CASE Next
    <2>1. ASSUME NEW t \in Agents, NEW c \in Chains,
                 Begin(t, [pc |-> "check", call |-> calls + 1, chain |-> c])
          PROVE  ModesSeen'
        BY <1>7, <1>18, <2>1
    <2>2. ASSUME NEW t \in Hosts, NEW p \in HostPaths, NEW o \in BOOLEAN,
                 Begin(t, [pc |-> "check", call |-> calls + 1, path |-> p, overwrite |-> o])
          PROVE  ModesSeen'
        BY <1>7, <1>18, <2>2
    <2> HIDE DEF ModesSeen
    <2>3. QED
        BY <1>8, <1>9, <1>10, <1>11, <1>12, <1>13, <1>14, <1>15, <1>16, <1>17, <1>18, <1>19,
           <2>1, <2>2 DEF Next, Proceed
<1>20. QED
    BY <1>6, <1>19

\* Who changes a file.
LEMMA WhoChangesFiles ==
    ASSUME Typed, [Next]_vars, ws'.files # ws.files
    PROVE  \E t \in Threads : /\ th[t].pc \in {"run", "put"}
                              /\ \A u \in Threads \ {t} : th'[u] = th[u]
<1>1. ws' # ws
    OBVIOUS
<1>2. ws \in Workspaces /\ DOMAIN th = Threads
    BY DEF Typed, ThreadsTyped
<1>3. ASSUME NEW t \in Threads, Proceed(t) PROVE Step(t) \/ Put(t)
    <2>1. ~Finish(t) /\ ~Switch(t)
        BY <1>2 DEF Finish, Switch, Workspaces
    <2>2. ~(CheckMode(t) \/ TimesOut(t) \/ Acquire(t) \/ Log(t) \/ Look(t))
        BY <1>1 DEF CheckMode, TimesOut, Acquire, Log, Look
    <2>3. QED
        BY <1>3, <2>1, <2>2 DEF Proceed
<1>4. \A t : ~SwitchRaises(t)
    BY <1>2 DEF SwitchRaises, Workspaces
<1>5. \A t : (\A call : ~Begin(t, call)) /\ (\A mode : ~BeginSwitch(t, mode)) /\ ~Raise(t)
    BY <1>1 DEF Begin, BeginSwitch, Raise
<1>6. ~(Fetch \/ Insert \/ InsertRaises)
    BY <1>1 DEF Fetch, Insert, InsertRaises
<1>7. PICK t \in Threads : Step(t) \/ Put(t)
    BY <1>1, <1>3, <1>4, <1>5, <1>6 DEF Next, vars
<1>8. CASE Step(t)
    <2>1. th[t].pc = "run"
        BY <1>8 DEF Step
    <2>2. CASE Skip(t)
        BY <1>1, <2>2 DEF Skip
    <2>3. ASSUME NEW c, NEW o, Obey(t, c, o) PROVE \A u \in Threads \ {t} : th'[u] = th[u]
        BY <1>2, <2>3 DEF Obey
    <2>4. QED
        BY <1>8, <2>1, <2>2, <2>3, StepCases
<1>9. CASE Put(t)
    BY <1>2, <1>9 DEF Put, Return
<1>10. QED
    BY <1>7, <1>8, <1>9

\* The check of the access mode is not atomic with the write that it guards;
\* and yet no call changes a file when the mode was never its own between its
\* beginning and that change (assert_workspace_access_mode).
THEOREM ModesAreRespected == Spec => ModeIsRespected
<1>1. Init => ModesSeen
    BY DEF Init, ModesSeen, Idle
<1>2. ASSUME Typed, ModesSeen, [Next]_vars, ws'.files # ws.files,
             NEW t \in Threads, th'[t] # th[t]
      PROVE  ModeFor(t) \in hist.seen[t]
    BY <1>2, WhoChangesFiles DEF ModesSeen
<1>3. Typed /\ ModesSeen /\ [Next]_vars =>
          [ws'.files # ws.files =>
              \A t \in Threads : th'[t] # th[t] => ModeFor(t) \in hist.seen[t]]_vars
    BY <1>2
<1>4. QED
    BY <1>1, <1>3, InitTyped, NextKeepsTypes, NextKeepsModesSeen, PTL DEF Spec, ModeIsRespected

-----------------------------------------------------------------------------
(* What the task guidance remembers.                                       *)

LEMMA ToSetFacts ==
    ASSUME NEW X, NEW s \in Seq(X)
    PROVE  /\ ToSet(s) \subseteq X
           /\ ToSet(<<>>) = {}
           /\ \A x \in X : ToSet(Append(s, x)) = ToSet(s) \cup {x}
           /\ \A x \in X : ToSet(<<x>>) = {x}
           /\ \A t \in Seq(X) : ToSet(s \o t) = ToSet(s) \cup ToSet(t)
<1>1. ToSet(s) \subseteq X /\ ToSet(<<>>) = {} /\ \A x \in X : ToSet(<<x>>) = {x}
    BY DEF ToSet
<1>2. ASSUME NEW x \in X PROVE ToSet(Append(s, x)) = ToSet(s) \cup {x}
    <2> DEFINE t == Append(s, x)
               n == Len(s)
    <2>1. /\ t \in Seq(X) /\ n \in Nat /\ DOMAIN t = 1..(n + 1) /\ DOMAIN s = 1..n
          /\ t[n + 1] = x /\ \A i \in 1..n : t[i] = s[i]
        BY AppendProperties
    <2> HIDE DEF t, n
    <2>2. 1..(n + 1) = (1..n) \cup {n + 1}
        BY <2>1
    <2>3. QED
        BY <2>1, <2>2 DEF ToSet, t
<1>3. ASSUME NEW t \in Seq(X) PROVE ToSet(s \o t) = ToSet(s) \cup ToSet(t)
    <2> DEFINE n == Len(s)
               m == Len(t)
               u == s \o t
    <2>1. /\ n \in Nat /\ m \in Nat /\ DOMAIN u = 1..(n + m) /\ DOMAIN s = 1..n /\ DOMAIN t = 1..m
          /\ \A i \in 1..(n + m) : u[i] = IF i <= n THEN s[i] ELSE t[i - n]
        BY ConcatProperties
    <2> HIDE DEF n, m, u
    <2>2. ASSUME NEW i \in DOMAIN u PROVE u[i] \in ToSet(s) \cup ToSet(t)
        <3>1. i <= n => i \in DOMAIN s /\ u[i] = s[i]
            BY <2>1
        <3>2. ~(i <= n) => i - n \in DOMAIN t /\ u[i] = t[i - n]
            BY <2>1
        <3>3. QED
            BY <3>1, <3>2 DEF ToSet
    <2>3. ASSUME NEW i \in DOMAIN s PROVE i \in DOMAIN u /\ u[i] = s[i]
        BY <2>1
    <2>4. ASSUME NEW i \in DOMAIN t PROVE i + n \in DOMAIN u /\ u[i + n] = t[i]
        <3>1. i + n \in 1..(n + m) /\ ~(i + n <= n) /\ i + n - n = i
            BY <2>1
        <3>2. QED
            BY <3>1, <2>1
    <2>5. ToSet(u) \subseteq ToSet(s) \cup ToSet(t)
        BY <2>2 DEF ToSet
    <2>6. ToSet(s) \subseteq ToSet(u)
        BY <2>3 DEF ToSet
    <2>7. ToSet(t) \subseteq ToSet(u)
        BY <2>4 DEF ToSet
    <2>8. ToSet(u) = ToSet(s) \cup ToSet(t)
        BY <2>5, <2>6, <2>7
    <2>9. QED
        BY <2>8 DEF u
<1>4. QED
    BY <1>1, <1>2, <1>3

LEMMA KeepMembers ==
    ASSUME NEW S, NEW s \in Seq(Paths)
    PROVE  ToSet(Keep(s, S)) = ToSet(s) \cap S
<1> DEFINE T == {t \in Seq(Paths) : ToSet(Keep(t, S)) = ToSet(t) \cap S}
<1>1. T \in SUBSET Seq(Paths)
    OBVIOUS
<1>2. <<>> \in T
    <2>1. <<>> \in Seq(Paths)
        OBVIOUS
    <2>2. Keep(<<>>, S) = <<>> /\ ToSet(<<>>) = {}
        BY KeepFold, ToSetFacts
    <2>3. ToSet(Keep(<<>>, S)) = ToSet(<<>>) \cap S
        BY <2>2
    <2>4. QED
        BY <2>1, <2>3
<1>3. ASSUME NEW t \in T, NEW x \in Paths PROVE Append(t, x) \in T
    <2>1. t \in Seq(Paths) /\ Append(t, x) \in Seq(Paths) /\ ToSet(Keep(t, S)) = ToSet(t) \cap S
        OBVIOUS
    <2>2. Keep(Append(t, x), S) = KeptBy(Keep(t, S), x, S) /\ Keep(t, S) \in Seq(Paths)
        BY <2>1, KeepFold
    <2>3. /\ ToSet(Append(t, x)) = ToSet(t) \cup {x}
          /\ ToSet(Append(Keep(t, S), x)) = ToSet(Keep(t, S)) \cup {x}
        BY <2>1, <2>2, ToSetFacts
    <2>4. ToSet(Keep(Append(t, x), S)) = ToSet(Append(t, x)) \cap S
        BY <2>1, <2>2, <2>3 DEF KeptBy
    <2>5. QED
        BY <2>1, <2>4
<1> HIDE DEF T
<1>4. T = Seq(Paths)
    BY <1>1, <1>2, <1>3, SeqInduction
<1>5. QED
    BY <1>4 DEF T

\* What a chain that wrote `written`, of which it or a later one has yet to
\* read back those of `open`, leaves in the guidance g; of the paths of exempt
\* it promises nothing.
Distinct(s) == \A i, j \in DOMAIN s : s[i] = s[j] => i = j

Tracked(g, written, open, exempt) ==
    /\ ToSet(g.written) \subseteq written
    /\ Distinct(g.written)
    /\ ToSet(g.removed) \subseteq exempt
    /\ open \ exempt \subseteq ToSet(g.written) \ ToSet(g.verified)

LEMMA AppendUniqueFacts ==
    ASSUME NEW s \in Seq(Paths), NEW x \in Paths
    PROVE  /\ AppendUnique(s, x) \in Seq(Paths)
           /\ ToSet(AppendUnique(s, x)) = ToSet(s) \cup {x}
           /\ Distinct(s) => Distinct(AppendUnique(s, x))
<1>1. CASE Member(s, x)
    BY <1>1 DEF AppendUnique, Member, ToSet
<1>2. CASE ~Member(s, x)
    <2> DEFINE t == Append(s, x)
               n == Len(s)
    <2>1. AppendUnique(s, x) = t
        BY <1>2 DEF AppendUnique
    <2>2. /\ t \in Seq(Paths) /\ n \in Nat /\ DOMAIN t = 1..(n + 1) /\ DOMAIN s = 1..n
          /\ t[n + 1] = x /\ \A i \in 1..n : t[i] = s[i]
        BY AppendProperties
    <2>3. ToSet(t) = ToSet(s) \cup {x}
        BY ToSetFacts
    <2>4. \A i \in 1..n : s[i] # x
        BY <1>2, <2>2 DEF Member
    <2> HIDE DEF t, n
    <2>5. \A i \in 1..(n + 1) : i \in 1..n \/ i = n + 1
        BY <2>2
    <2>6. Distinct(s) => Distinct(t)
        BY <2>2, <2>4, <2>5 DEF Distinct
    <2>7. QED
        BY <2>1, <2>2, <2>3, <2>6
<1>3. QED
    BY <1>1, <1>2

\* One event, of a path: what was written is to be read back, what was read
\* is not, and what was removed is promised no more.
After(e, kind) == IF e.kind = kind THEN {e.path} ELSE {}

LEMMA NoteTracks ==
    ASSUME NEW g \in Guidances, NEW e \in Events, NEW written, NEW open, NEW exempt,
           Tracked(g, written, open, exempt)
    PROVE  Tracked(Note(g, e), written \cup After(e, "write"),
                   (open \cup After(e, "write")) \ After(e, "read"),
                   exempt \cup After(e, "remove"))
<1>1. /\ g.written \in Seq(Paths) /\ g.verified \in Seq(Paths) /\ g.removed \in Seq(Paths)
      /\ e.path \in Paths /\ e.kind \in {"write", "read", "remove"}
    BY DEF Guidances, Events
<1>2. CASE e.kind = "write"
    <2>1. Note(g, e) = [g EXCEPT !.written = AppendUnique(@, e.path),
                                 !.verified = Keep(@, Paths \ {e.path})]
        BY <1>2 DEF Note
    <2>2. /\ Note(g, e).written = AppendUnique(g.written, e.path)
          /\ Note(g, e).verified = Keep(g.verified, Paths \ {e.path})
          /\ Note(g, e).removed = g.removed
        BY <2>1 DEF Guidances
    <2>3. /\ ToSet(AppendUnique(g.written, e.path)) = ToSet(g.written) \cup {e.path}
          /\ Distinct(AppendUnique(g.written, e.path))
        BY <1>1, AppendUniqueFacts DEF Tracked
    <2>4. ToSet(Keep(g.verified, Paths \ {e.path})) = ToSet(g.verified) \cap (Paths \ {e.path})
        BY <1>1, KeepMembers
    <2>5. QED
        BY <1>2, <2>2, <2>3, <2>4 DEF Tracked, After
<1>3. CASE e.kind = "remove"
    <2>1. Note(g, e) = [g EXCEPT !.removed = AppendUnique(@, e.path)]
        BY <1>3 DEF Note
    <2>2. /\ Note(g, e).written = g.written
          /\ Note(g, e).verified = g.verified
          /\ Note(g, e).removed = AppendUnique(g.removed, e.path)
        BY <2>1 DEF Guidances
    <2>3. ToSet(AppendUnique(g.removed, e.path)) = ToSet(g.removed) \cup {e.path}
        BY <1>1, AppendUniqueFacts
    <2>4. QED
        BY <1>3, <2>2, <2>3 DEF Tracked, After
<1>4. CASE e.kind = "read"
    <2>1. \/ Note(g, e) = g
          \/ Note(g, e) = [g EXCEPT !.verified = AppendUnique(@, e.path)]
        BY <1>4 DEF Note
    <2>2. /\ Note(g, e).written = g.written
          /\ Note(g, e).removed = g.removed
          /\ \/ Note(g, e).verified = g.verified
             \/ Note(g, e).verified = AppendUnique(g.verified, e.path)
        BY <2>1 DEF Guidances
    <2>3. ToSet(AppendUnique(g.verified, e.path)) = ToSet(g.verified) \cup {e.path}
        BY <1>1, AppendUniqueFacts
    <2>4. QED
        BY <1>4, <2>2, <2>3 DEF Tracked, After
<1>5. QED
    BY <1>1, <1>2, <1>3, <1>4

LEMMA PathsOfFacts ==
    ASSUME NEW s \in Seq(Events), NEW kind
    PROVE  /\ PathsOf(<<>>, kind) = {}
           /\ \A e \in Events : PathsOf(<<e>>, kind) = After(e, kind)
           /\ \A e \in Events : PathsOf(Append(s, e), kind) = PathsOf(s, kind) \cup After(e, kind)
           /\ \A t \in Seq(Events) :
                 PathsOf(s \o t, kind) = PathsOf(s, kind) \cup PathsOf(t, kind)
BY ToSetFacts DEF PathsOf, After

\* Events one after the other.
LEMMA FoldConcat ==
    ASSUME NEW g \in Guidances, NEW s \in Seq(Events), NEW t \in Seq(Events)
    PROVE  FoldLeft(Note, g, s \o t) = FoldLeft(Note, FoldLeft(Note, g, s), t)
<1> DEFINE h == FoldLeft(Note, g, s)
           T == {u \in Seq(Events) : FoldLeft(Note, g, s \o u) = FoldLeft(Note, h, u)}
<1>1. h \in Guidances
    BY NoteFold
<1>2. <<>> \in T
    <2>1. <<>> \in Seq(Events) /\ s \o <<>> = s
        OBVIOUS
    <2>2. FoldLeft(Note, h, <<>>) = h
        BY <1>1, <2>1, NoteFold
    <2>3. FoldLeft(Note, g, s \o <<>>) = FoldLeft(Note, h, <<>>)
        BY <2>1, <2>2
    <2>4. QED
        BY <2>1, <2>3
<1>3. ASSUME NEW u \in T, NEW x \in Events PROVE Append(u, x) \in T
    <2>1. u \in Seq(Events) /\ FoldLeft(Note, g, s \o u) = FoldLeft(Note, h, u)
        OBVIOUS
    <2>2. s \o u \in Seq(Events) /\ Append(u, x) \in Seq(Events)
        BY <2>1
    <2>3. s \o Append(u, x) = Append(s \o u, x)
        BY <2>1, AppendIsConcat, ConcatAssociative, <2>2
    <2> HIDE DEF h
    <2>4. FoldLeft(Note, g, Append(s \o u, x)) = Note(FoldLeft(Note, g, s \o u), x)
        BY <2>2, NoteFold
    <2>5. FoldLeft(Note, h, Append(u, x)) = Note(FoldLeft(Note, h, u), x)
        BY <1>1, <2>1, NoteFold
    <2>6. FoldLeft(Note, g, s \o Append(u, x)) = FoldLeft(Note, h, Append(u, x))
        BY <2>1, <2>3, <2>4, <2>5
    <2>7. QED
        BY <2>2, <2>6
<1>4. T \in SUBSET Seq(Events)
    OBVIOUS
<1> HIDE DEF T
<1>5. T = Seq(Events)
    BY <1>2, <1>3, <1>4, SeqInduction
<1>6. QED
    BY <1>5 DEF T

\* What `verify` reads back.
LEMMA ReadsTrack ==
    ASSUME NEW g \in Guidances, NEW written, NEW open, NEW exempt,
           Tracked(g, written, open, exempt),
           NEW s \in Seq(Events), \A i \in DOMAIN s : s[i].kind = "read"
    PROVE  Tracked(FoldLeft(Note, g, s), written, open \ PathsOf(s, "read"), exempt)
<1> DEFINE T == {t \in Seq(Events) :
                   (\A i \in DOMAIN t : t[i].kind = "read") =>
                       Tracked(FoldLeft(Note, g, t), written, open \ PathsOf(t, "read"), exempt)}
<1>1. <<>> \in T
    <2>1. <<>> \in Seq(Events)
        OBVIOUS
    <2>2. FoldLeft(Note, g, <<>>) = g /\ PathsOf(<<>>, "read") = {}
        BY <2>1, NoteFold, PathsOfFacts
    <2>3. Tracked(FoldLeft(Note, g, <<>>), written, open \ PathsOf(<<>>, "read"), exempt)
        BY <2>2
    <2>4. QED
        BY <2>1, <2>3
<1>2. ASSUME NEW t \in T, NEW x \in Events PROVE Append(t, x) \in T
    <2> DEFINE u == Append(t, x)
    <2>1. u \in Seq(Events) /\ t \in Seq(Events)
        OBVIOUS
    <2>2. ASSUME \A i \in DOMAIN u : u[i].kind = "read"
          PROVE  Tracked(FoldLeft(Note, g, u), written, open \ PathsOf(u, "read"), exempt)
        <3> DEFINE n == Len(t)
        <3>1. /\ n \in Nat /\ DOMAIN u = 1..(n + 1) /\ DOMAIN t = 1..n
              /\ u[n + 1] = x /\ \A i \in 1..n : u[i] = t[i]
            BY <2>1, AppendProperties
        <3> HIDE DEF u, n
        <3>2. (\A i \in DOMAIN t : t[i].kind = "read") /\ x.kind = "read"
            <4>1. n + 1 \in DOMAIN u /\ \A i \in DOMAIN t : i \in DOMAIN u
                BY <3>1
            <4>2. QED
                BY <4>1, <3>1, <2>2
        <3>3. Tracked(FoldLeft(Note, g, t), written, open \ PathsOf(t, "read"), exempt)
            BY <3>2
        <3>4. /\ FoldLeft(Note, g, t) \in Guidances
              /\ FoldLeft(Note, g, u) = Note(FoldLeft(Note, g, t), x)
            BY <2>1, NoteFold DEF u
        <3>5. PathsOf(u, "read") = PathsOf(t, "read") \cup {x.path}
            BY <2>1, <3>2, PathsOfFacts DEF u, After
        <3> DEFINE part == open \ PathsOf(t, "read")
                   h == FoldLeft(Note, g, t)
        <3>6. Tracked(h, written, part, exempt) /\ h \in Guidances
            BY <3>3, <3>4
        <3> HIDE DEF part, h
        <3>7. Tracked(Note(h, x), written \cup After(x, "write"),
                      (part \cup After(x, "write")) \ After(x, "read"),
                      exempt \cup After(x, "remove"))
            BY <3>6, NoteTracks
        <3>8. /\ After(x, "write") = {} /\ After(x, "remove") = {} /\ After(x, "read") = {x.path}
            BY <3>2 DEF After
        <3>9. Tracked(Note(h, x), written, part \ {x.path}, exempt)
            BY <3>7, <3>8
        <3>10. part \ {x.path} = open \ PathsOf(u, "read")
            BY <3>5 DEF part
        <3>11. QED
            BY <3>4, <3>9, <3>10 DEF h
    <2>3. QED
        BY <2>1, <2>2
<1>3. T \in SUBSET Seq(Events)
    OBVIOUS
<1> HIDE DEF T
<1>4. T = Seq(Events)
    BY <1>1, <1>2, <1>3, SeqInduction
<1>5. QED
    BY <1>4 DEF T

\* Whatever one command reports.
LEMMA ReportsTrack ==
    ASSUME NEW g \in Guidances, NEW written, NEW open, NEW exempt,
           Tracked(g, written, open, exempt),
           NEW s \in Seq(Events), Reports(s)
    PROVE  Tracked(FoldLeft(Note, g, s), written \cup PathsOf(s, "write"),
                   (open \cup PathsOf(s, "write")) \ PathsOf(s, "read"),
                   exempt \cup PathsOf(s, "remove"))
<1>1. ASSUME \A i \in DOMAIN s : s[i].kind = "read"
      PROVE  PathsOf(s, "write") = {} /\ PathsOf(s, "remove") = {}
    BY <1>1 DEF PathsOf, ToSet
<1>2. CASE \A i \in DOMAIN s : s[i].kind = "read"
    BY <1>1, <1>2, ReadsTrack
<1>3. CASE s = <<>>
    BY <1>2, <1>3
<1>4. ASSUME NEW e \in Events, s = <<e>>
      PROVE  Tracked(FoldLeft(Note, g, s), written \cup PathsOf(s, "write"),
                     (open \cup PathsOf(s, "write")) \ PathsOf(s, "read"),
                     exempt \cup PathsOf(s, "remove"))
    <2>1. <<>> \in Seq(Events) /\ s = Append(<<>>, e)
        BY <1>4
    <2>2. FoldLeft(Note, g, s) = Note(g, e)
        <3>1. FoldLeft(Note, g, <<>>) = g
            BY <2>1, NoteFold
        <3>2. FoldLeft(Note, g, Append(<<>>, e)) = Note(FoldLeft(Note, g, <<>>), e)
            BY <2>1, NoteFold
        <3>3. QED
            BY <2>1, <3>1, <3>2
    <2>3. \A kind : PathsOf(s, kind) = After(e, kind)
        BY <1>4, PathsOfFacts
    <2>4. QED
        BY <2>2, <2>3, NoteTracks
<1>5. QED
    BY <1>2, <1>3, <1>4 DEF Reports

\* The events that the guidance is yet to hear of.
Happened == IF lock = NoOne THEN <<>> ELSE th[lock].events

\* Few enough paths were written that none is forgotten.
Few == runtime = "local" /\ Cardinality(hist.written) <= MaxTracked

\* What the guidance remembers if the chain that runs raises, and what it
\* remembers if that chain ends.
Remembered ==
    /\ IsFiniteSet(hist.written)
    /\ Few =>
          /\ Tracked(ws.guidance, hist.written,
                     hist.unread \ PathsOf(Happened, "write"), hist.exempt)
          /\ Tracked(FoldLeft(Note, ws.guidance, Happened),
                     hist.written, hist.unread, hist.exempt)

LEMMA HappenedTyped == Typed => Happened \in Seq(Events) /\ ws.guidance \in Guidances
<1>1. SUFFICES ASSUME Typed PROVE Happened \in Seq(Events) /\ ws.guidance \in Guidances
    OBVIOUS
<1>2. lock # NoOne => th[lock] \in Runs
    <2>1. lock \in Agents => lock \in Threads
        BY DEF Threads
    <2>2. QED
        BY <1>1, <2>1, ThreadFacts DEF Typed
<1>3. QED
    BY <1>1, <1>2 DEF Happened, Typed, Workspaces, Runs

\* When there is nothing that the guidance is yet to hear of, the two parts
\* are one.
AllTold ==
    /\ Happened = <<>>
    /\ IsFiniteSet(hist.written)
    /\ Few => Tracked(ws.guidance, hist.written, hist.unread, hist.exempt)

LEMMA RestRemembered == Typed /\ AllTold => Remembered
<1>1. SUFFICES ASSUME Typed, AllTold PROVE Remembered
    OBVIOUS
<1>2. <<>> \in Seq(Events) /\ ws.guidance \in Guidances
    BY <1>1, HappenedTyped DEF AllTold
<1>3. FoldLeft(Note, ws.guidance, <<>>) = ws.guidance /\ PathsOf(<<>>, "write") = {}
    BY <1>2, NoteFold, PathsOfFacts
<1>4. hist.unread \ {} = hist.unread
    OBVIOUS
<1>5. QED
    BY <1>1, <1>3, <1>4 DEF Remembered, AllTold

LEMMA RestingGuidance ==
    ASSUME Typed, lock = NoOne, Remembered, Few
    PROVE  Tracked(ws.guidance, hist.written, hist.unread, hist.exempt)
<1>1. Happened = <<>> /\ <<>> \in Seq(Events) /\ ws.guidance \in Guidances
    BY HappenedTyped DEF Happened
<1>2. FoldLeft(Note, ws.guidance, <<>>) = ws.guidance
    BY <1>1, NoteFold
<1>3. QED
    BY <1>1, <1>2 DEF Remembered

\* A list without duplicates is no longer than the set that its elements are in.
LEMMA DistinctIsShort ==
    ASSUME NEW s \in Seq(Paths), Distinct(s), NEW S, IsFiniteSet(S), ToSet(s) \subseteq S
    PROVE  Len(s) <= Cardinality(S)
<1> DEFINE n == Len(s)
           f == [i \in 1..n |-> s[i]]
<1>1. n \in Nat /\ DOMAIN s = 1..n
    OBVIOUS
<1>2. IsFiniteSet(1..n) /\ Cardinality(1..n) = n
    BY <1>1, FS_Interval
<1>3. \A i \in 1..n : s[i] \in S
    BY <1>1 DEF ToSet
<1>4. f \in Injection(1..n, S)
    BY <1>1, <1>3 DEF Distinct, Injection, IsInjective
<1> HIDE DEF n, f
<1>5. Cardinality(1..n) <= Cardinality(S)
    BY <1>2, <1>4, FS_Injection
<1>6. QED
    BY <1>2, <1>5 DEF n

\* Trimming forgets nothing that was written, as long as few paths were.
LEMMA ApplyTracks ==
    ASSUME NEW g \in Guidances, NEW s \in Seq(Events), NEW written, NEW open, NEW exempt,
           IsFiniteSet(written), Cardinality(written) <= MaxTracked,
           Tracked(FoldLeft(Note, g, s), written, open, exempt)
    PROVE  Tracked(Apply(g, s), written, open, exempt)
<1> DEFINE all == FoldLeft(Note, g, s)
<1>1. all \in Guidances /\ Tracked(all, written, open, exempt)
    BY NoteFold
<1>2. Apply(g, s) = [all EXCEPT !.written = Trim(@), !.verified = Trim(@),
                                !.removed = Trim(@)]
    BY DEF Apply
<1> HIDE DEF all
<1>3. /\ Apply(g, s).written = Trim(all.written)
      /\ Apply(g, s).verified = Trim(all.verified)
      /\ Apply(g, s).removed = Trim(all.removed)
      /\ all.written \in Seq(Paths) /\ all.verified \in Seq(Paths) /\ all.removed \in Seq(Paths)
    BY <1>1, <1>2 DEF Guidances
<1>4. Trim(all.written) = all.written
    <2>1. Len(all.written) <= Cardinality(written)
        BY <1>1, <1>3, DistinctIsShort DEF Tracked
    <2>2. Cardinality(written) \in Nat /\ Len(all.written) \in Nat /\ MaxTracked \in Nat
        BY <1>3, FS_CardinalityType, ShellAssumption
    <2>3. Len(all.written) <= MaxTracked
        BY <2>1, <2>2
    <2>4. QED
        BY <1>3, <2>3, TrimFacts
<1>5. /\ ToSet(Trim(all.verified)) \subseteq ToSet(all.verified)
      /\ ToSet(Trim(all.removed)) \subseteq ToSet(all.removed)
    BY <1>3, TrimFacts
<1>6. QED
    BY <1>1, <1>3, <1>4, <1>5 DEF Tracked

\* The paths of one report are finitely many.
LEMMA ReportsFinite ==
    ASSUME NEW s \in Seq(Events)
    PROVE  IsFiniteSet(PathsOf(s, "write"))
<1> DEFINE n == Len(s)
           f == [i \in 1..n |-> s[i].path]
<1>1. n \in Nat /\ DOMAIN s = 1..n
    OBVIOUS
<1>2. IsFiniteSet(1..n)
    BY <1>1, FS_Interval
<1>3. IsFiniteSet({s[i].path : i \in 1..n})
    <2>1. f \in Surjection(1..n, {s[i].path : i \in 1..n})
        BY DEF Surjection
    <2>2. QED
        BY <1>2, <2>1, FS_Surjection
<1>4. PathsOf(s, "write") \subseteq {s[i].path : i \in 1..n}
    BY <1>1 DEF PathsOf, ToSet
<1>5. QED
    BY <1>3, <1>4, FS_Subset

\* Steps that the guidance and its history do not notice.
LEMMA UnnoticedKeepsRemembered ==
    ASSUME Remembered, runtime' = runtime, ws'.guidance = ws.guidance, Happened' = Happened,
           hist'.written = hist.written, hist'.unread = hist.unread, hist'.exempt = hist.exempt
    PROVE  Remembered'
<1>1. Few' = Few
    BY DEF Few
<1>2. QED
    BY <1>1 DEF Remembered

LEMMA AcquireKeepsRemembered ==
    ASSUME Typed, Remembered, NEW t \in Threads, Acquire(t)
    PROVE  Remembered'
<1>1. Typed'
    BY AcquireKeepsTypes
<1>2. lock = NoOne /\ lock' = t /\ t # NoOne
    BY ThreadFacts DEF Acquire
<1>3. Happened' = <<>>
    <2>1. th'[t].events = <<>>
        BY DEF Typed, ThreadsTyped, Acquire
    <2>2. QED
        BY <1>2, <2>1 DEF Happened
<1>4. UNCHANGED <<runtime, ws, hist>>
    BY DEF Acquire
<1>5. IsFiniteSet(hist.written)'
    BY <1>4 DEF Remembered
<1>6. (Few => Tracked(ws.guidance, hist.written, hist.unread, hist.exempt))'
    <2>1. Few => Tracked(ws.guidance, hist.written, hist.unread, hist.exempt)
        BY <1>2, RestingGuidance
    <2>2. QED
        BY <1>4, <2>1 DEF Few
<1>7. AllTold'
    BY <1>3, <1>5, <1>6 DEF AllTold
<1>8. QED
    BY <1>1, <1>7, RestRemembered, PTL

LEMMA StepKeepsRemembered ==
    ASSUME Typed, Remembered, NEW t \in Threads, Step(t)
    PROVE  Remembered'
<1>1. /\ t \in Agents /\ lock = t /\ t # NoOne /\ th[t] \in Runs /\ th[t].pc = "run"
      /\ DOMAIN th = Threads /\ ws \in Workspaces /\ hist \in Histories
    BY StepCases, ThreadFacts DEF Typed, ThreadsTyped
<1>2. CASE Skip(t)
    <2>1. th'[t].events = th[t].events
        BY <1>1, <1>2 DEF Skip, Runs
    <2>2. Happened' = Happened
        BY <1>1, <1>2, <2>1 DEF Skip, Happened
    <2>3. QED
        BY <1>2, <2>2, UnnoticedKeepsRemembered DEF Skip
<1>3. ASSUME NEW c, NEW o, Obey(t, c, o), o.events \in Seq(Events), Reports(o.events)
      PROVE  Remembered'
    <2> DEFINE w == PathsOf(o.events, "write")
               old == th[t].events
               new == o.events
               g0 == ws.guidance
               g1 == FoldLeft(Note, g0, old)
    <2>1. old \in Seq(Events) /\ new \in Seq(Events) /\ Reports(new) /\ g0 \in Guidances
        BY <1>1, <1>3 DEF Runs, Workspaces
    <2>2. Happened = old /\ Happened' = old \o new
        <3>1. th'[t].events = old \o new
            BY <1>1, <1>3 DEF Obey, Runs
        <3>2. lock' = lock
            BY <1>3 DEF Obey
        <3>3. QED
            BY <1>1, <3>1, <3>2 DEF Happened
    <2>3. ws'.guidance = g0 /\ runtime' = runtime
        BY <1>1, <1>3 DEF Obey, Workspaces
    <2>4. /\ hist'.written = hist.written \cup w
          /\ hist'.unread = (hist.unread \cup w) \ PathsOf(new, "read")
          /\ hist'.exempt = hist.exempt \cup PathsOf(new, "remove")
        BY <1>1, <1>3 DEF Obey, Histories
    <2> HIDE DEF old, new, g0
    <2>5. IsFiniteSet(hist'.written)
        <3>1. IsFiniteSet(w)
            BY <1>3, ReportsFinite
        <3>2. IsFiniteSet(hist.written)
            BY DEF Remembered
        <3>3. IsFiniteSet(hist.written \cup w)
            BY <3>1, <3>2, FS_Union
        <3>4. QED
            BY <2>4, <3>3
    <2>6. Few' => Few
        <3>1. hist.written \subseteq hist'.written
            BY <2>4
        <3>2. IsFiniteSet(hist.written) /\ Cardinality(hist.written) <= Cardinality(hist'.written)
            BY <2>5, <3>1, FS_Subset
        <3>3. Cardinality(hist.written) \in Nat /\ Cardinality(hist'.written) \in Nat /\ MaxTracked \in Nat
            BY <2>5, <3>2, FS_CardinalityType, ShellAssumption
        <3>4. QED
            BY <2>3, <3>2, <3>3 DEF Few
    <2>7. ASSUME Few'
          PROVE  /\ Tracked(g0, hist'.written, hist'.unread \ PathsOf(old \o new, "write"), hist'.exempt)
                 /\ Tracked(FoldLeft(Note, g0, old \o new), hist'.written, hist'.unread, hist'.exempt)
        <3>1. /\ Tracked(g0, hist.written, hist.unread \ PathsOf(old, "write"), hist.exempt)
              /\ Tracked(g1, hist.written, hist.unread, hist.exempt)
            BY <2>2, <2>6, <2>7 DEF Remembered, g0
        <3>2. PathsOf(old \o new, "write") = PathsOf(old, "write") \cup w
            BY <2>1, PathsOfFacts DEF new
        <3>3. Tracked(g0, hist'.written, hist'.unread \ PathsOf(old \o new, "write"), hist'.exempt)
            BY <2>4, <3>1, <3>2 DEF Tracked
        <3>4. FoldLeft(Note, g0, old \o new) = FoldLeft(Note, g1, new) /\ g1 \in Guidances
            BY <2>1, FoldConcat, NoteFold
        <3>5. Tracked(FoldLeft(Note, g1, new), hist.written \cup PathsOf(new, "write"),
                      (hist.unread \cup PathsOf(new, "write")) \ PathsOf(new, "read"),
                      hist.exempt \cup PathsOf(new, "remove"))
            <4> HIDE DEF g1
            <4>1. QED
                BY <2>1, <3>1, <3>4, ReportsTrack
        <3>6. w = PathsOf(new, "write")
            BY DEF new
        <3>7. QED
            BY <2>4, <3>3, <3>4, <3>5, <3>6
    <2>8. QED
        BY <2>2, <2>3, <2>5, <2>7 DEF Remembered
<1>4. QED
    BY <1>2, <1>3, StepCases

LEMMA RaiseKeepsRemembered ==
    ASSUME Typed, Remembered, NEW t \in Agents, Raise(t)
    PROVE  Remembered'
<1>1. t \in Threads /\ th[t].pc = "run"
    BY DEF Raise, Threads
<1>2. /\ lock = t /\ t # NoOne /\ lock' = NoOne /\ hist \in Histories
      /\ UNCHANGED <<runtime, ws>>
    BY <1>1, ThreadFacts DEF Raise, Typed
<1>3. Happened = th[t].events /\ Happened' = <<>>
    BY <1>2 DEF Happened
<1>4. /\ hist'.written = hist.written /\ hist'.unread = hist.unread
      /\ hist'.exempt = hist.exempt \cup PathsOf(Happened, "write")
    BY <1>2, <1>3 DEF Raise, Histories
<1>5. Typed'
    BY RaiseKeepsTypes
<1>6. IsFiniteSet(hist.written)'
    BY <1>4 DEF Remembered
<1>7. (Few => Tracked(ws.guidance, hist.written, hist.unread, hist.exempt))'
    <2>1. Few' => Few
        BY <1>2, <1>4 DEF Few
    <2>2. Few => Tracked(ws.guidance, hist.written,
                         hist.unread \ PathsOf(Happened, "write"), hist.exempt)
        BY DEF Remembered
    <2>3. QED
        BY <1>2, <1>4, <2>1, <2>2 DEF Tracked
<1>8. AllTold'
    BY <1>3, <1>6, <1>7 DEF AllTold
<1>9. QED
    BY <1>5, <1>8, RestRemembered, PTL

LEMMA FinishKeepsRemembered ==
    ASSUME Typed, Remembered, NEW t \in Threads, Finish(t)
    PROVE  Remembered'
<1>1. /\ lock = t /\ t # NoOne /\ lock' = NoOne /\ th[t] \in Runs /\ ws \in Workspaces
      /\ UNCHANGED <<runtime, hist>>
    BY ThreadFacts DEF Finish, Typed
<1>2. Happened = th[t].events /\ Happened' = <<>>
    BY <1>1 DEF Happened
<1>3. Typed'
    BY FinishKeepsTypes
<1>4. IsFiniteSet(hist.written)'
    BY <1>1 DEF Remembered
<1>5. (Few => Tracked(ws.guidance, hist.written, hist.unread, hist.exempt))'
    <2>1. SUFFICES ASSUME Few'
                   PROVE  Tracked(ws'.guidance, hist.written, hist.unread, hist.exempt)
        BY <1>1
    <2>2. Few /\ runtime = "local" /\ Cardinality(hist.written) <= MaxTracked
        BY <1>1, <2>1 DEF Few
    <2>3. ws'.guidance = Apply(ws.guidance, Happened)
        BY <1>1, <1>2, <2>2 DEF Finish, Mirror, Workspaces
    <2>4. Tracked(FoldLeft(Note, ws.guidance, Happened), hist.written, hist.unread, hist.exempt)
        BY <2>2 DEF Remembered
    <2>5. IsFiniteSet(hist.written) /\ Happened \in Seq(Events) /\ ws.guidance \in Guidances
        BY HappenedTyped DEF Remembered
    <2>6. QED
        BY <2>2, <2>3, <2>4, <2>5, ApplyTracks
<1>6. AllTold'
    BY <1>2, <1>4, <1>5 DEF AllTold
<1>7. QED
    BY <1>3, <1>6, RestRemembered, PTL

LEMMA OthersKeepRemembered ==
    ASSUME Typed, Remembered, NEW t \in Threads,
           \/ \E call : Begin(t, call)
           \/ \E mode : BeginSwitch(t, mode)
           \/ CheckMode(t) \/ TimesOut(t) \/ Log(t) \/ Look(t) \/ Put(t) \/ Switch(t) \/ SwitchRaises(t)
    PROVE  Remembered'
<1>1. /\ DOMAIN th = Threads /\ ws \in Workspaces /\ hist \in Histories
      /\ lock \in Agents \cup {NoOne}
    BY DEF Typed, ThreadsTyped
<1>2. th[t].pc # "run"
    BY DEF Begin, BeginSwitch, CheckMode, TimesOut, Log, Look, Put, Switch, SwitchRaises, Idle
<1>3. lock # t
    BY <1>2, ThreadFacts
<1>4. lock' = lock /\ runtime' = runtime /\ \A u \in Threads \ {t} : th'[u] = th[u]
    BY <1>1 DEF Begin, BeginSwitch, CheckMode, TimesOut, Log, Look, Put, Switch, SwitchRaises,
       Goto, Return
<1>5. Happened' = Happened
    BY <1>1, <1>3, <1>4 DEF Happened, Threads
<1>6. ws'.guidance = ws.guidance
    BY <1>1 DEF Begin, BeginSwitch, CheckMode, TimesOut, Log, Look, Put, Switch, SwitchRaises, Workspaces
<1>7. hist'.written = hist.written /\ hist'.unread = hist.unread /\ hist'.exempt = hist.exempt
    BY <1>1 DEF Begin, BeginSwitch, CheckMode, TimesOut, Log, Look, Put, Switch, SwitchRaises, Histories
<1>8. QED
    BY <1>4, <1>5, <1>6, <1>7, UnnoticedKeepsRemembered

LEMMA NextKeepsRemembered == Typed /\ Remembered /\ [Next]_vars => Remembered'
<1>1. SUFFICES ASSUME Typed, Remembered, [Next]_vars PROVE Remembered'
    OBVIOUS
<1>2. CASE UNCHANGED vars
    <2>1. Happened' = Happened
        BY <1>2 DEF vars, Happened
    <2>2. QED
        BY <1>1, <1>2, <2>1, UnnoticedKeepsRemembered DEF vars
<1>3. CASE Fetch \/ Insert \/ InsertRaises
    <2>1. hist \in Histories
        BY <1>1 DEF Typed
    <2>2. /\ UNCHANGED <<runtime, ws, lock, th>>
          /\ hist'.written = hist.written /\ hist'.unread = hist.unread
          /\ hist'.exempt = hist.exempt
        BY <1>3, <2>1 DEF Fetch, Insert, InsertRaises, Histories
    <2>3. Happened' = Happened
        BY <2>2 DEF Happened
    <2>4. QED
        BY <1>1, <2>2, <2>3, UnnoticedKeepsRemembered
<1>4. ASSUME NEW t \in Threads, Proceed(t) PROVE Remembered'
    <2>1. CASE Acquire(t)
        BY <1>1, <2>1, AcquireKeepsRemembered
    <2>2. CASE Step(t)
        BY <1>1, <2>2, StepKeepsRemembered
    <2>3. CASE Finish(t)
        BY <1>1, <2>3, FinishKeepsRemembered
    <2>4. CASE CheckMode(t) \/ TimesOut(t) \/ Log(t) \/ Look(t) \/ Put(t) \/ Switch(t)
        BY <1>1, <2>4, OthersKeepRemembered
    <2>5. QED
        BY <1>4, <2>1, <2>2, <2>3, <2>4 DEF Proceed
<1>5. ASSUME NEW t \in Threads,
             (\E call : Begin(t, call)) \/ (\E mode : BeginSwitch(t, mode)) \/ SwitchRaises(t)
      PROVE  Remembered'
    BY <1>1, <1>5, OthersKeepRemembered
<1>6. ASSUME NEW t \in Agents, Raise(t) PROVE Remembered'
    BY <1>1, <1>6, RaiseKeepsRemembered
<1>7. Agents \subseteq Threads /\ Hosts \subseteq Threads
    BY DEF Threads
<1> HIDE DEF Remembered
<1>8. QED
    BY <1>1, <1>2, <1>3, <1>4, <1>5, <1>6, <1>7 DEF Next

LEMMA InitRemembered == Init => Remembered
<1>1. SUFFICES ASSUME Init PROVE Remembered
    OBVIOUS
<1>2. /\ hist.written = {} /\ hist.unread = {} /\ hist.exempt = {}
      /\ ws.guidance = NoGuidance /\ lock = NoOne
    BY <1>1 DEF Init
<1>3. Tracked(NoGuidance, {}, {}, {})
    BY DEF Tracked, NoGuidance, ToSet, Distinct
<1>4. Typed /\ Happened = <<>> /\ IsFiniteSet(hist.written)
    BY <1>1, <1>2, InitTyped, FS_EmptySet DEF Happened
<1>5. QED
    BY <1>2, <1>3, <1>4, RestRemembered DEF AllTold

\* With the local-memory store, what chains wrote and did not read back since
\* is asked for (guidance.py), whatever the other threads do in between.
THEOREM UnreadPathsAreAsked == Spec => []UnreadIsAsked
<1>1. Typed /\ Remembered => UnreadIsAsked
    <2>1. SUFFICES ASSUME Typed, Remembered, runtime = "local", lock = NoOne,
                          Cardinality(hist.written) <= MaxTracked
                   PROVE  hist.unread \ hist.exempt \subseteq ToSet(Required(ws.guidance))
        BY DEF UnreadIsAsked, Asked
    <2>2. Tracked(ws.guidance, hist.written, hist.unread, hist.exempt)
        BY <2>1, RestingGuidance DEF Few
    <2>3. ws.guidance.written \in Seq(Paths) /\ hist.unread \subseteq Paths
        BY <2>1 DEF Typed, Workspaces, Guidances, Histories
    <2> DEFINE S == Paths \ (ToSet(ws.guidance.removed) \cup ToSet(ws.guidance.verified))
    <2>4. ToSet(Keep(ws.guidance.written, S)) = ToSet(ws.guidance.written) \cap S
        BY <2>3, KeepMembers
    <2>5. Required(ws.guidance) = Keep(ws.guidance.written, S)
        BY DEF Required
    <2>6. QED
        BY <2>2, <2>3, <2>4, <2>5 DEF Tracked
<1>2. QED
    BY <1>1, InitTyped, NextKeepsTypes, InitRemembered, NextKeepsRemembered, PTL DEF Spec

-----------------------------------------------------------------------------
(* The command log.                                                        *)

\* The entries on their way: stored, fetched, queued.
Entries == log \o batch \o logQueue

\* Every call has its number, and the entries are those of the calls that were
\* answered and not dropped, each once.
Logged ==
    /\ ToSet(Entries) = hist.answered \ hist.dropped
    /\ Distinct(Entries)
    /\ hist.dropped \subseteq hist.answered
    /\ hist.answered \subseteq 1..calls
    /\ \A t \in Threads : th[t] # Idle =>
          /\ th[t].call \in 1..calls
          /\ th[t].call \notin hist.answered
          /\ \A u \in Threads \ {t} : th[u] # Idle => th[u].call # th[t].call

LEMMA DistinctAppend ==
    ASSUME NEW X, NEW s \in Seq(X), Distinct(s), NEW x \in X, x \notin ToSet(s)
    PROVE  Distinct(Append(s, x))
<1> DEFINE t == Append(s, x)
           n == Len(s)
<1>1. /\ t \in Seq(X) /\ n \in Nat /\ DOMAIN t = 1..(n + 1) /\ DOMAIN s = 1..n
      /\ t[n + 1] = x /\ \A i \in 1..n : t[i] = s[i]
    BY AppendProperties
<1>2. \A i \in 1..n : s[i] # x
    BY <1>1 DEF ToSet
<1> HIDE DEF t, n
<1>3. \A i \in 1..(n + 1) : i \in 1..n \/ i = n + 1
    BY <1>1
<1>4. Distinct(t)
    BY <1>1, <1>2, <1>3 DEF Distinct
<1>5. QED
    BY <1>4 DEF t

LEMMA HeadAndTail ==
    ASSUME NEW X, NEW s \in Seq(X), s # <<>>
    PROVE  Head(s) \in X /\ Tail(s) \in Seq(X) /\ s = <<Head(s)>> \o Tail(s)
<1> DEFINE x == Head(s)
           rest == Tail(s)
           n == Len(s)
<1>1. /\ x \in X /\ rest \in Seq(X) /\ n \in Nat \ {0} /\ x = s[1]
      /\ Len(rest) = n - 1 /\ \A i \in 1..(n - 1) : rest[i] = s[i + 1]
    BY HeadTailProperties
<1> HIDE DEF x, rest
<1>2. /\ <<x>> \in Seq(X) /\ Len(<<x>>) = 1 /\ <<x>>[1] = x
    BY <1>1
<1> DEFINE one == <<x>>
           all == one \o rest
<1> HIDE DEF one
<1>3. /\ all \in Seq(X) /\ Len(all) = n
      /\ \A i \in 1..n : all[i] = IF i <= 1 THEN one[i] ELSE rest[i - 1]
    <2>1. one \in Seq(X) /\ Len(one) = 1
        BY <1>2 DEF one
    <2>2. /\ all \in Seq(X) /\ Len(all) = Len(one) + Len(rest)
          /\ \A i \in 1..(Len(one) + Len(rest)) :
                all[i] = IF i <= Len(one) THEN one[i] ELSE rest[i - Len(one)]
        BY <1>1, <2>1, ConcatProperties
    <2> HIDE DEF all, n
    <2>3. QED
        BY <1>1, <2>1, <2>2
<1>4. one[1] = x
    BY <1>2 DEF one
<1> HIDE DEF all
<1>5. ASSUME NEW i \in 1..n PROVE all[i] = s[i]
    <2>1. CASE i = 1
        BY <1>1, <1>3, <1>4, <2>1
    <2>2. CASE i # 1
        <3>1. i - 1 \in 1..(n - 1) /\ ~(i <= 1) /\ i - 1 + 1 = i
            BY <1>1, <2>2
        <3>2. all[i] = rest[i - 1] /\ rest[i - 1] = s[i - 1 + 1]
            BY <1>1, <1>3, <3>1
        <3>3. QED
            BY <3>1, <3>2
    <2>3. QED
        BY <2>1, <2>2
<1>6. all = s
    BY <1>1, <1>3, <1>5, SeqEqual
<1>7. QED
    BY <1>1, <1>6 DEF all, one, x, rest

\* What is left when the middle is lost.
LEMMA DistinctWithout ==
    ASSUME NEW X, NEW s \in Seq(X), NEW t \in Seq(X), NEW u \in Seq(X),
           Distinct(s \o t \o u)
    PROVE  /\ Distinct(s \o u)
           /\ ToSet(s \o u) = ToSet(s \o t \o u) \ ToSet(t)
<1> DEFINE a == Len(s)
           b == Len(t)
           c == Len(u)
           st == s \o t
           all == st \o u
           rest == s \o u
<1>1. /\ a \in Nat /\ b \in Nat /\ c \in Nat
      /\ DOMAIN s = 1..a /\ DOMAIN t = 1..b /\ DOMAIN u = 1..c
    OBVIOUS
<1>2. /\ st \in Seq(X) /\ DOMAIN st = 1..(a + b) /\ Len(st) = a + b
      /\ \A i \in 1..(a + b) : st[i] = IF i <= a THEN s[i] ELSE t[i - a]
    BY ConcatProperties
<1>3. /\ rest \in Seq(X) /\ DOMAIN rest = 1..(a + c)
      /\ \A i \in 1..(a + c) : rest[i] = IF i <= a THEN s[i] ELSE u[i - a]
    BY ConcatProperties
<1> HIDE DEF st
<1>4. /\ DOMAIN all = 1..(a + b + c)
      /\ \A i \in 1..(a + b + c) : all[i] = IF i <= a + b THEN st[i] ELSE u[i - (a + b)]
    <2>1. /\ all \in Seq(X) /\ Len(all) = Len(st) + Len(u)
          /\ \A i \in 1..(Len(st) + Len(u)) :
                all[i] = IF i <= Len(st) THEN st[i] ELSE u[i - Len(st)]
        <3>1. st \in Seq(X)
            BY <1>2
        <3>2. QED
            BY <3>1, ConcatProperties
    <2>2. DOMAIN all = 1..Len(all)
        BY <2>1
    <2>3. Len(st) + Len(u) = a + b + c /\ Len(st) = a + b
        BY <1>2
    <2> HIDE DEF all, a, b, c
    <2>4. QED
        BY <2>1, <2>2, <2>3
<1>5. ToSet(all) = ToSet(s) \cup ToSet(t) \cup ToSet(u) /\ ToSet(rest) = ToSet(s) \cup ToSet(u)
    <2>1. ToSet(st) = ToSet(s) \cup ToSet(t)
        BY ToSetFacts DEF st
    <2>2. ToSet(all) = ToSet(st) \cup ToSet(u)
        BY <1>2, ToSetFacts
    <2>3. ToSet(rest) = ToSet(s) \cup ToSet(u)
        BY ToSetFacts
    <2>4. QED
        BY <2>1, <2>2, <2>3
<1>6. Distinct(all)
    BY DEF st
<1> HIDE DEF a, b, c, all, rest
<1> DEFINE at(i) == IF i <= a THEN i ELSE i + b
<1>7. ASSUME NEW i \in 1..(a + c)
      PROVE  /\ at(i) \in 1..(a + b + c) /\ all[at(i)] = rest[i]
             /\ at(i) \notin (a + 1)..(a + b)
    <2>1. CASE i <= a
        <3>1. i \in 1..(a + b) /\ i \in 1..(a + b + c) /\ i <= a + b
            BY <1>1, <2>1
        <3>2. QED
            BY <1>1, <1>2, <1>3, <1>4, <2>1, <3>1
    <2>2. CASE ~(i <= a)
        <3>1. i + b \in 1..(a + b + c) /\ ~(i + b <= a + b) /\ i + b - (a + b) = i - a
            BY <1>1, <2>2
        <3>2. all[i + b] = u[i - a] /\ rest[i] = u[i - a]
            <4>1. \A k \in 1..(a + b + c) : ~(k <= a + b) => all[k] = u[k - (a + b)]
                BY <1>4
            <4>2. rest[i] = u[i - a]
                BY <1>3, <2>2
            <4> DEFINE k == i + b
            <4>3. k \in 1..(a + b + c) /\ ~(k <= a + b) /\ k - (a + b) = i - a
                BY <1>1, <2>2
            <4> HIDE DEF k
            <4>4. all[k] = u[k - (a + b)]
                BY <4>1, <4>3
            <4>5. all[k] = u[i - a]
                BY <4>3, <4>4
            <4>6. QED
                BY <4>2, <4>5 DEF k
        <3>3. QED
            BY <1>1, <2>2, <3>1, <3>2
    <2>3. QED
        BY <2>1, <2>2
<1>8. Distinct(rest)
    <2>1. ASSUME NEW i \in 1..(a + c), NEW j \in 1..(a + c), rest[i] = rest[j] PROVE i = j
        <3>1. at(i) = at(j)
            <4> HIDE DEF at
            <4>1. QED
                BY <1>4, <1>6, <1>7, <2>1 DEF Distinct
        <3>2. QED
            BY <1>1, <3>1
    <2>2. QED
        BY <1>3, <2>1 DEF Distinct
<1>9. ASSUME NEW i \in 1..(a + c), NEW j \in 1..b PROVE rest[i] # t[j]
    <2>1. a + j \in (a + 1)..(a + b) /\ a + j \in 1..(a + b + c) /\ all[a + j] = t[j]
        <3>1. /\ a + j \in (a + 1)..(a + b) /\ a + j \in 1..(a + b + c) /\ a + j \in 1..(a + b)
              /\ a + j <= a + b /\ ~(a + j <= a) /\ a + j - a = j
            BY <1>1
        <3>2. all[a + j] = st[a + j]
            BY <1>4, <3>1
        <3>3. \A k \in 1..(a + b) : ~(k <= a) => st[k] = t[k - a]
            BY <1>2
        <3> DEFINE k == a + j
        <3>4. k \in 1..(a + b) /\ ~(k <= a) /\ k - a = j
            BY <1>1
        <3> HIDE DEF k
        <3>5. st[k] = t[k - a]
            BY <3>3, <3>4
        <3>6. st[k] = t[j]
            BY <3>4, <3>5
        <3>7. QED
            BY <3>1, <3>2, <3>6 DEF k
    <2>2. at(i) # a + j /\ at(i) \in 1..(a + b + c) /\ all[at(i)] = rest[i]
        BY <1>7, <2>1
    <2> HIDE DEF at
    <2>3. QED
        BY <1>4, <1>6, <2>1, <2>2 DEF Distinct
<1>10. \A x \in ToSet(rest) : x \notin ToSet(t)
    BY <1>1, <1>3, <1>9 DEF ToSet
<1>11. QED
    BY <1>5, <1>8, <1>10 DEF all, rest, st

LEMMA EntriesTyped ==
    ASSUME Typed
    PROVE  /\ log \in Seq(Numbers) /\ batch \in Seq(Numbers) /\ logQueue \in Seq(Numbers)
           /\ log \o batch \in Seq(Numbers) /\ Entries \in Seq(Numbers)
BY DEF Typed, Entries

\* What the worker does to the entries.
LEMMA WorkerKeepsLogged ==
    ASSUME Typed, Logged, Fetch \/ Insert \/ InsertRaises
    PROVE  Logged'
<1>1. /\ log \in Seq(Numbers) /\ batch \in Seq(Numbers) /\ logQueue \in Seq(Numbers)
      /\ hist \in Histories /\ UNCHANGED <<th, calls>>
    BY EntriesTyped DEF Typed, Fetch, Insert, InsertRaises
<1>2. ASSUME Entries' = Entries, hist' = hist PROVE Logged'
    BY <1>1, <1>2 DEF Logged
<1>3. CASE Fetch
    <2>1. logQueue # <<>> /\ batch' = Append(batch, Head(logQueue)) /\ logQueue' = Tail(logQueue)
        BY <1>3 DEF Fetch
    <2> DEFINE x == Head(logQueue)
               rest == Tail(logQueue)
    <2>2. x \in Numbers /\ rest \in Seq(Numbers) /\ logQueue = <<x>> \o rest
        BY <1>1, <2>1, HeadAndTail
    <2> HIDE DEF x, rest
    <2>3. Append(batch, x) = batch \o <<x>> /\ <<x>> \in Seq(Numbers)
        BY <1>1, <2>2, AppendIsConcat
    <2>4. (log \o (batch \o <<x>>)) \o rest = (log \o batch) \o (<<x>> \o rest)
        <3>1. (log \o (batch \o <<x>>)) = (log \o batch) \o <<x>>
            BY <1>1, <2>3, ConcatAssociative
        <3>2. log \o batch \in Seq(Numbers)
            BY <1>1
        <3>3. ((log \o batch) \o <<x>>) \o rest = (log \o batch) \o (<<x>> \o rest)
            BY <2>2, <2>3, <3>2, ConcatAssociative
        <3>4. QED
            BY <3>1, <3>3
    <2>5. Entries' = (log \o Append(batch, x)) \o rest
        BY <1>3, <2>1 DEF Entries, Fetch, x, rest
    <2>6. Entries' = Entries
        BY <2>2, <2>3, <2>4, <2>5 DEF Entries
    <2>7. QED
        BY <1>2, <1>3, <2>6 DEF Fetch
<1>4. CASE Insert
    <2>1. Entries' = ((log \o batch) \o <<>>) \o logQueue
        BY <1>4 DEF Insert, Entries
    <2>2. (log \o batch) \o <<>> = log \o batch
        BY <1>1
    <2>3. QED
        BY <1>2, <1>4, <2>1, <2>2 DEF Insert, Entries
<1>5. CASE InsertRaises
    <2>1. Entries' = (log \o <<>>) \o logQueue
        BY <1>5 DEF InsertRaises, Entries
    <2>2. log \o <<>> = log
        BY <1>1
    <2>3. Entries' = log \o logQueue
        BY <2>1, <2>2
    <2>4. hist'.answered = hist.answered /\ hist'.dropped = hist.dropped \cup ToSet(batch)
        BY <1>1, <1>5 DEF InsertRaises, Histories
    <2>5. Distinct(Entries') /\ ToSet(Entries') = ToSet(Entries) \ ToSet(batch)
        BY <1>1, <2>3, DistinctWithout DEF Logged, Entries
    <2>6. ToSet(batch) \subseteq hist.answered
        <3>1. ToSet(Entries) = ToSet(log) \cup ToSet(batch) \cup ToSet(logQueue)
            <4>1. log \o batch \in Seq(Numbers)
                BY <1>1
            <4>2. ToSet(log \o batch) = ToSet(log) \cup ToSet(batch)
                BY <1>1, ToSetFacts
            <4> DEFINE front == log \o batch
            <4> HIDE DEF front
            <4>3. front \in Seq(Numbers)
                BY <4>1 DEF front
            <4>4. ToSet(front \o logQueue) = ToSet(front) \cup ToSet(logQueue)
                BY <1>1, <4>3, ToSetFacts
            <4>5. QED
                BY <4>2, <4>4 DEF Entries, front
        <3>2. QED
            BY <3>1 DEF Logged
    <2>7. QED
        BY <1>1, <2>4, <2>5, <2>6 DEF Logged
<1>6. QED
    BY <1>3, <1>4, <1>5

\* A call goes on, or ends with an exception.
LEMMA MoveKeepsLogged ==
    ASSUME Typed, Logged, NEW t \in Threads,
           \A u \in Threads \ {t} : th'[u] = th[u],
           th'[t] # Idle => th[t] # Idle /\ th'[t].call = th[t].call,
           UNCHANGED <<calls, logQueue, batch, log>>,
           hist'.answered = hist.answered, hist'.dropped = hist.dropped
    PROVE  Logged'
<1>1. Entries' = Entries
    BY DEF Entries
<1>2. ASSUME NEW u \in Threads, th'[u] # Idle
      PROVE  th[u] # Idle /\ th'[u].call = th[u].call
    BY <1>2
<1>3. QED
    BY <1>1, <1>2 DEF Logged

\* A call begins, with a number of its own.
LEMMA BeginKeepsLogged ==
    ASSUME Typed, Logged, NEW t \in Threads, NEW s, s.call = calls + 1, s # Idle,
           th' = [th EXCEPT ![t] = s], calls' = calls + 1,
           UNCHANGED <<logQueue, batch, log>>,
           hist'.answered = hist.answered, hist'.dropped = hist.dropped
    PROVE  Logged'
<1>1. Entries' = Entries
    BY DEF Entries
<1>2. th'[t] = s /\ \A u \in Threads \ {t} : th'[u] = th[u]
    BY DEF Typed, ThreadsTyped
<1>3. calls \in Nat
    BY ShellAssumption DEF Typed
<1>4. /\ \A n \in 1..calls : n \in 1..(calls + 1) /\ n # calls + 1
      /\ calls + 1 \in 1..(calls + 1)
    BY <1>3
<1>5. calls + 1 \notin hist.answered
    BY <1>4 DEF Logged
<1>6. QED
    BY <1>1, <1>2, <1>4, <1>5 DEF Logged

LEMMA LogKeepsLogged ==
    ASSUME Typed, Logged, NEW t \in Threads, Log(t)
    PROVE  Logged'
<1> DEFINE n == th[t].call
           full == Len(logQueue) >= QueueSize
<1>1. th[t] \in Runs /\ hist \in Histories /\ th[t] # Idle /\ DOMAIN th = Threads
    BY ThreadFacts DEF Log, Typed, ThreadsTyped, Idle
<1>2. n \in Numbers /\ n \in 1..calls /\ n \notin hist.answered
    BY <1>1 DEF Logged, Runs
<1>3. /\ logQueue' = IF full THEN logQueue ELSE Append(logQueue, n)
      /\ hist'.answered = hist.answered \cup {n}
      /\ hist'.dropped = IF full THEN hist.dropped \cup {n} ELSE hist.dropped
      /\ th' = [th EXCEPT ![t] = Idle]
      /\ UNCHANGED <<calls, batch, log>>
    BY <1>1 DEF Log, Histories
<1>4. \A u \in Threads : th'[u] # Idle => u # t /\ th'[u] = th[u] /\ th[u].call # n
    BY <1>1, <1>3 DEF Logged
<1> HIDE DEF full
<1>5. ToSet(Entries)' = hist'.answered \ hist'.dropped /\ Distinct(Entries)'
    <2>1. CASE full
        <3>1. Entries' = Entries
            BY <1>3, <2>1 DEF Entries
        <3>2. QED
            BY <1>2, <1>3, <2>1, <3>1 DEF Logged
    <2>2. CASE ~full
        <3>1. log \o batch \in Seq(Numbers) /\ logQueue \in Seq(Numbers) /\ Entries \in Seq(Numbers)
            BY EntriesTyped
        <3>2. Entries' = (log \o batch) \o Append(logQueue, n)
            BY <1>3, <2>2 DEF Entries
        <3> DEFINE front == log \o batch
                   one == <<n>>
        <3> HIDE DEF front, n
        <3>3. one \in Seq(Numbers) /\ Append(logQueue, n) = logQueue \o one
            BY <1>2, <3>1, AppendIsConcat
        <3>4. front \in Seq(Numbers)
            BY <3>1 DEF front
        <3> HIDE DEF one
        <3>5. front \o (logQueue \o one) = (front \o logQueue) \o one
            <4>1. logQueue \in Seq(Numbers) /\ one \in Seq(Numbers)
                BY <3>1, <3>3
            <4>2. \A a, b, c \in Seq(Numbers) : (a \o b) \o c = a \o (b \o c)
                BY ConcatAssociative
            <4>3. QED
                BY <3>4, <4>1, <4>2, Zenon
        <3>6. Entries = front \o logQueue
            BY DEF Entries, front
        <3>7. Append(Entries, n) = Entries \o one
            BY <1>2, <3>1, AppendIsConcat DEF one
        <3>8. Entries' = Append(Entries, n)
            BY <3>2, <3>3, <3>5, <3>6, <3>7 DEF front
        <3>9. ToSet(Entries) = hist.answered \ hist.dropped /\ Distinct(Entries)
              /\ hist.dropped \subseteq hist.answered
            BY DEF Logged
        <3>10. ToSet(Append(Entries, n)) = ToSet(Entries) \cup {n} /\ Distinct(Append(Entries, n))
            BY <1>2, <3>1, <3>9, ToSetFacts, DistinctAppend
        <3>11. ToSet(Entries') = hist'.answered \ hist'.dropped /\ Distinct(Entries')
            BY <1>2, <1>3, <2>2, <3>8, <3>9, <3>10
        <3>12. QED
            BY <3>11
    <2>3. QED
        BY <2>1, <2>2
<1>6. hist'.dropped \subseteq hist'.answered /\ hist'.answered \subseteq 1..calls'
    BY <1>2, <1>3 DEF Logged
<1> HIDE DEF n
<1>7. QED
    BY <1>3, <1>4, <1>5, <1>6 DEF Logged, n

LEMMA NextKeepsLogged == Typed /\ Logged /\ [Next]_vars => Logged'
<1>1. SUFFICES ASSUME Typed, Logged, [Next]_vars PROVE Logged'
    OBVIOUS
<1>2. DOMAIN th = Threads /\ hist \in Histories /\ Idle.pc = "idle"
    BY <1>1, StatesApart DEF Typed, ThreadsTyped
<1>3. CASE UNCHANGED vars
    BY <1>1, <1>3 DEF vars, Logged, Entries
<1>4. CASE Fetch \/ Insert \/ InsertRaises
    BY <1>1, <1>4, WorkerKeepsLogged
<1>5. ASSUME NEW t \in Threads, NEW s, Begin(t, s), s.call = calls + 1, s.pc = "check"
      PROVE  Logged'
    <2>1. hist'.answered = hist.answered /\ hist'.dropped = hist.dropped /\ s # Idle
        BY <1>2, <1>5 DEF Begin, Histories
    <2>2. QED
        BY <1>1, <1>5, <2>1, BeginKeepsLogged DEF Begin
<1>6. ASSUME NEW t \in Threads, NEW mode, BeginSwitch(t, mode) PROVE Logged'
    <2> DEFINE s == [pc |-> "switch", call |-> calls + 1, mode |-> mode]
    <2>1. s.call = calls + 1 /\ s.pc = "switch" /\ s # Idle
        BY <1>2
    <2>2. /\ th' = [th EXCEPT ![t] = s] /\ calls' = calls + 1
          /\ UNCHANGED <<logQueue, batch, log, hist>>
        BY <1>6 DEF BeginSwitch
    <2> HIDE DEF s
    <2>3. QED
        BY <1>1, <2>1, <2>2, BeginKeepsLogged
<1>7. ASSUME NEW t \in Threads,
             TimesOut(t) \/ Put(t) \/ Switch(t) \/ SwitchRaises(t) \/ Raise(t)
      PROVE  Logged'
    <2>1. th'[t] = Idle /\ \A u \in Threads \ {t} : th'[u] = th[u]
        BY <1>2, <1>7 DEF TimesOut, Put, Switch, SwitchRaises, Raise, Return
    <2>2. /\ UNCHANGED <<calls, logQueue, batch, log>>
          /\ hist'.answered = hist.answered /\ hist'.dropped = hist.dropped
        BY <1>2, <1>7 DEF TimesOut, Put, Switch, SwitchRaises, Raise, Histories
    <2>3. QED
        BY <1>1, <2>1, <2>2, MoveKeepsLogged
<1>8. ASSUME NEW t \in Threads,
             CheckMode(t) \/ Acquire(t) \/ Step(t) \/ Finish(t) \/ Look(t)
      PROVE  Logged'
    <2>1. th[t] # Idle
        BY <1>2, <1>8 DEF CheckMode, Acquire, Step, Finish, Look
    <2>2. /\ UNCHANGED <<calls, logQueue, batch, log>>
          /\ hist'.answered = hist.answered /\ hist'.dropped = hist.dropped
        BY <1>2, <1>8 DEF CheckMode, Acquire, Step, Finish, Look, Histories
    <2>3. /\ \A u \in Threads \ {t} : th'[u] = th[u]
          /\ th'[t] = Idle \/ th'[t].call = th[t].call
        <3>1. CASE Acquire(t) \/ Look(t)
            BY <1>2, <3>1 DEF Acquire, Look
        <3>2. CASE CheckMode(t)
            <4>1. th[t] \in ChainCalls \/ th[t] \in FileWrites
                BY <1>1, <3>2, ThreadFacts DEF CheckMode
            <4>2. QED
                BY <1>2, <3>2, <4>1 DEF CheckMode, Goto, Return, ChainCalls, FileWrites
        <3>3. CASE Finish(t)
            <4>1. th[t] \in Runs
                BY <1>1, <3>3, ThreadFacts DEF Finish
            <4>2. QED
                BY <1>2, <3>3, <4>1 DEF Finish, Goto, Runs
        <3>4. CASE Step(t)
            <4>1. th[t] \in Runs
                BY <1>1, <3>4, StepCases
            <4>2. CASE Skip(t)
                BY <1>2, <4>1, <4>2 DEF Skip, Runs
            <4>3. ASSUME NEW c, NEW o, Obey(t, c, o)
                  PROVE  /\ \A u \in Threads \ {t} : th'[u] = th[u]
                         /\ th'[t].call = th[t].call
                BY <1>2, <4>1, <4>3 DEF Obey, Runs
            <4>4. QED
                BY <1>1, <3>4, <4>2, <4>3, StepCases
        <3>5. QED
            BY <1>8, <3>1, <3>2, <3>3, <3>4
    <2>4. QED
        BY <1>1, <2>1, <2>2, <2>3, MoveKeepsLogged
<1>9. ASSUME NEW t \in Threads, Log(t) PROVE Logged'
    BY <1>1, <1>9, LogKeepsLogged
<1>10. ASSUME NEW t \in Agents, NEW c \in Chains,
              Begin(t, [pc |-> "check", call |-> calls + 1, chain |-> c])
       PROVE  Logged'
    BY <1>5, <1>10 DEF Threads
<1>11. ASSUME NEW t \in Hosts, NEW p \in HostPaths, NEW o \in BOOLEAN,
              Begin(t, [pc |-> "check", call |-> calls + 1, path |-> p, overwrite |-> o])
       PROVE  Logged'
    BY <1>5, <1>11 DEF Threads
<1>12. Agents \subseteq Threads /\ Hosts \subseteq Threads
    BY DEF Threads
<1> HIDE DEF Logged
<1>13. QED
    BY <1>1, <1>3, <1>4, <1>6, <1>7, <1>8, <1>9, <1>10, <1>11, <1>12 DEF Next, Proceed

\* The log has no entry twice and none of a call that was not answered; the
\* entry of a call that was answered is in the table, in the worker's batch or
\* in the queue, unless the queue was full or the insert of its batch raised
\* (enqueue_virtual_command_log, _log_writer_loop).
EntriesOfAnswered ==
    /\ ToSet(log \o batch \o logQueue) = hist.answered \ hist.dropped
    /\ Distinct(log \o batch \o logQueue)

THEOREM EntriesAreOfAnswered == Spec => []EntriesOfAnswered
<1>1. Init => Logged
    <2>1. SUFFICES ASSUME Init PROVE Logged
        OBVIOUS
    <2>2. log = <<>> /\ batch = <<>> /\ logQueue = <<>>
        BY <2>1 DEF Init
    <2>3. Entries = <<>>
        BY <2>2 DEF Entries
    <2>4. \A t \in Threads : th[t] = Idle
        BY <2>1 DEF Init
    <2>5. hist.answered = {} /\ hist.dropped = {}
        BY <2>1 DEF Init
    <2>6. QED
        BY <2>3, <2>4, <2>5 DEF Logged, ToSet, Distinct
<1>2. Logged => EntriesOfAnswered
    BY DEF Logged, EntriesOfAnswered, Entries
<1>3. QED
    BY <1>1, <1>2, InitTyped, NextKeepsTypes, NextKeepsLogged, PTL DEF Spec
=============================================================================
