------------------------- MODULE TreeCommands_proofs -------------------------
(* Proofs about TreeCommands, for all trees, all paths as they are typed,    *)
(* all commands and any number of them.                                      *)
EXTENDS TreeCommands, SequenceTheorems, FiniteSetTheorems, WellFoundedInduction, TLAPS

-----------------------------------------------------------------------------
(* Induction, on sets.                                                     *)

\* A set of numbers has a smallest one.
LEMMA SmallestNumber ==
    ASSUME NEW N \in SUBSET Nat, N # {}
    PROVE  \E n \in N : \A m \in N : n <= m
<1>1. \A m, n \in Nat : m < n => <<m, n>> \in OpToRel(<, Nat)
    BY DEF OpToRel
<1>2. N \subseteq Nat
    OBVIOUS
<1>3. \E n \in N : \A m \in N : <<m, n>> \notin OpToRel(<, Nat)
    BY <1>2, NatLessThanWellFounded, WFMin, Zenon
<1>4. \E n \in N : \A m \in N : ~(m < n)
    BY <1>1, <1>2, <1>3, Zenon
<1>5. QED
    BY <1>4

\* A set of numbers with 0 and the next of each has them all.
LEMMA NatSetInduction ==
    ASSUME NEW N \in SUBSET Nat, 0 \in N, \A n \in N : n + 1 \in N
    PROVE  N = Nat
<1>1. ASSUME Nat \ N # {} PROVE FALSE
    <2>1. PICK n \in Nat \ N : \A m \in Nat \ N : n <= m
        BY <1>1, SmallestNumber
    <2>2. n - 1 \in N
        BY <2>1
    <2>3. QED
        BY <2>1, <2>2
<1>2. QED
    BY <1>1

\* What holds of the empty sequence, and of a sequence with one more element
\* when it holds without, holds of all sequences.
LEMMA SeqInduction ==
    ASSUME NEW X, NEW T \in SUBSET Seq(X), <<>> \in T,
           \A s \in T : \A x \in X : Append(s, x) \in T
    PROVE  T = Seq(X)
<1> DEFINE N == {n \in Nat : \A s \in Seq(X) : Len(s) = n => s \in T}
<1>1. 0 \in N
    OBVIOUS
<1>2. ASSUME NEW n \in N PROVE n + 1 \in N
    <2>1. ASSUME NEW s \in Seq(X), Len(s) = n + 1 PROVE s \in T
        <3> DEFINE front == SubSeq(s, 1, n)
        <3>1. /\ n \in Nat /\ n + 1 \in 1..Len(s)
              /\ \A i \in 1..n : s[i] \in X
              /\ s[n + 1] \in X
            BY <2>1
        <3>2. front \in Seq(X) /\ Len(front) = n /\ \A i \in 1..n : front[i] = s[i]
            <4>1. n \in Int /\ 1 \in Int
                BY <3>1
            <4>2. /\ front \in Seq(X)
                  /\ Len(front) = IF 1 <= n THEN n - 1 + 1 ELSE 0
                  /\ \A i \in 1..(n - 1 + 1) : front[i] = s[1 + i - 1]
                BY <3>1, <4>1, SubSeqProperties
            <4> HIDE DEF front
            <4>3. QED
                BY <3>1, <4>2
        <3>3. front \in T
            BY <3>2
        <3> HIDE DEF front
        <3>4. Append(front, s[n + 1]) \in T
            BY <3>1, <3>3
        <3>5. Append(front, s[n + 1]) = s
            <4> DEFINE x == s[n + 1]
            <4>1. x \in X /\ n \in Nat /\ Len(front) = n /\ front \in Seq(X)
                BY <3>1, <3>2
            <4>2. \A i \in 1..n : front[i] = s[i]
                BY <3>2
            <4>3. s[n + 1] = x
                OBVIOUS
            <4> HIDE DEF x
            <4>4. /\ Append(front, x) \in Seq(X)
                  /\ Len(Append(front, x)) = n + 1
                  /\ \A i \in 1..n : Append(front, x)[i] = front[i]
                  /\ Append(front, x)[n + 1] = x
                BY <4>1, AppendProperties
            <4>5. ASSUME NEW i \in 1..(n + 1) PROVE Append(front, x)[i] = s[i]
                <5>1. i \in 1..n \/ i = n + 1
                    BY <4>1
                <5>2. CASE i \in 1..n
                    BY <4>2, <4>4, <5>2
                <5>3. CASE i = n + 1
                    BY <4>3, <4>4, <5>3
                <5>4. QED
                    BY <5>1, <5>2, <5>3
            <4>6. QED
                BY <4>3, <4>4, <4>5, <2>1, SeqEqual
        <3>6. QED
            BY <3>4, <3>5
    <2>2. QED
        BY <2>1
<1>3. N = Nat
    BY <1>1, <1>2, NatSetInduction
<1>4. ASSUME NEW s \in Seq(X) PROVE s \in T
    <2>1. Len(s) \in N
        BY <1>3
    <2>2. QED
        BY <2>1
<1>5. QED
    BY <1>4

-----------------------------------------------------------------------------
(* Folds. FoldLeft is a recursion over sets of positions, of which it takes *)
(* the last one first.                                                     *)

\* The last of some positions is one of them.
LEMMA LastPosition ==
    ASSUME NEW n \in Nat, NEW S \in SUBSET (1..n), S # {}
    PROVE  Max(S) \in S /\ \A i \in S : i <= Max(S)
<1> DEFINE N == {n - i : i \in S}
<1>1. N \in SUBSET Nat /\ N # {}
    <2>1. ASSUME NEW i \in S PROVE n - i \in Nat
        <3>1. i \in 1..n
            OBVIOUS
        <3>2. QED
            BY <3>1
    <2>2. QED
        BY <2>1
<1>2. PICK m \in N : \A k \in N : m <= k
    <2> HIDE DEF N
    <2>1. QED
        BY <1>1, SmallestNumber
<1>3. PICK i \in S : m = n - i
    BY <1>2
<1>4. \A j \in S : i >= j
    <2>1. ASSUME NEW j \in S PROVE i >= j
        <3>1. n - j \in N
            OBVIOUS
        <3>2. n - i <= n - j
            BY <1>2, <1>3, <3>1
        <3>3. QED
            BY <3>2
    <2>2. QED
        BY <2>1
<1>5. Max(S) \in S /\ \A j \in S : Max(S) >= j
    BY <1>4, Zenon DEF Max
<1>6. QED
    BY <1>5

\* A fold over n positions, by a step that is a function.
FoldsOver(f, n, base, step) ==
    \A S \in SUBSET (1..n) :
        f[S] = IF S = {} THEN base ELSE step[<<f[S \ {Max(S)}], Max(S)>>]

\* The fold is a function, of sets of positions.
LEMMA FoldExists ==
    ASSUME NEW Acc, NEW base \in Acc, NEW n \in Nat, NEW step \in [Acc \X (1..n) -> Acc]
    PROVE  \E f \in [SUBSET (1..n) -> Acc] : FoldsOver(f, n, base, step)
<1> DEFINE Folds(f, k) ==
              \A S \in SUBSET (1..k) :
                  f[S] = IF S = {} THEN base ELSE step[<<f[S \ {Max(S)}], Max(S)>>]
           Foldable(k) == \E f \in [SUBSET (1..k) -> Acc] : Folds(f, k)
           N == {k \in Nat : k <= n => Foldable(k)}
<1>1. 0 \in N
    <2>1. SUBSET (1..0) = {{}}
        OBVIOUS
    <2>2. [S \in SUBSET (1..0) |-> base] \in [SUBSET (1..0) -> Acc]
        OBVIOUS
    <2>3. Folds([S \in SUBSET (1..0) |-> base], 0)
        BY <2>1
    <2>4. QED
        BY <2>2, <2>3
<1>2. ASSUME NEW k \in N PROVE k + 1 \in N
    <2>1. k \in Nat
        OBVIOUS
    <2>2. SUFFICES ASSUME k + 1 <= n
                   PROVE  Foldable(k + 1)
        <3> HIDE DEF Foldable
        <3>1. QED
            BY <2>1
    <2>3. PICK f \in [SUBSET (1..k) -> Acc] : Folds(f, k)
        <3>1. k <= n
            BY <2>1, <2>2
        <3>2. Foldable(k)
            <4> HIDE DEF Foldable
            <4>1. QED
                BY <3>1
        <3>3. QED
            BY <3>2
    <2> DEFINE h == [S \in SUBSET (1..(k + 1)) |->
                        IF k + 1 \in S THEN step[<<f[S \ {k + 1}], k + 1>>] ELSE f[S]]
    <2>4. /\ \A S \in SUBSET (1..(k + 1)) : S \ {k + 1} \in SUBSET (1..k)
          /\ \A S \in SUBSET (1..(k + 1)) : k + 1 \notin S => S \in SUBSET (1..k)
          /\ \A S \in SUBSET (1..k) : S \in SUBSET (1..(k + 1)) /\ k + 1 \notin S
          /\ k + 1 \in 1..n
        BY <2>1, <2>2
    <2>5. h \in [SUBSET (1..(k + 1)) -> Acc]
        <3>1. ASSUME NEW S \in SUBSET (1..(k + 1)) PROVE h[S] \in Acc
            <4>1. CASE k + 1 \in S
                <5>1. f[S \ {k + 1}] \in Acc
                    BY <2>3, <2>4
                <5>2. <<f[S \ {k + 1}], k + 1>> \in Acc \X (1..n)
                    BY <5>1, <2>4
                <5>3. QED
                    BY <4>1, <5>2
            <4>2. CASE k + 1 \notin S
                BY <4>2, <2>3, <2>4
            <4>3. QED
                BY <4>1, <4>2
        <3>2. QED
            BY <3>1
    <2>6. ASSUME NEW S \in SUBSET (1..(k + 1))
          PROVE  h[S] = IF S = {} THEN base ELSE step[<<h[S \ {Max(S)}], Max(S)>>]
        <3>1. CASE k + 1 \in S
            <4>1. k + 1 \in Nat /\ S # {}
                BY <3>1, <2>1
            <4>2. Max(S) \in S /\ \A i \in S : i <= Max(S)
                BY <4>1, LastPosition
            <4>3. Max(S) \in 1..(k + 1) /\ k + 1 <= Max(S)
                BY <3>1, <4>2
            <4> HIDE DEF h
            <4>4. Max(S) = k + 1
                BY <4>3, <2>1
            <4> USE DEF h
            <4>5. h[S \ {k + 1}] = f[S \ {k + 1}]
                BY <2>4
            <4>6. h[S] = step[<<f[S \ {k + 1}], k + 1>>]
                BY <3>1
            <4> HIDE DEF h
            <4>7. QED
                BY <4>1, <4>4, <4>5, <4>6
        <3>2. CASE k + 1 \notin S
            <4>1. S \in SUBSET (1..k) /\ S \ {Max(S)} \in SUBSET (1..k)
                BY <2>4, <3>2
            <4>2. h[S] = f[S] /\ h[S \ {Max(S)}] = f[S \ {Max(S)}]
                BY <2>4, <4>1
            <4>3. f[S] = IF S = {} THEN base ELSE step[<<f[S \ {Max(S)}], Max(S)>>]
                BY <2>3, <4>1
            <4> HIDE DEF h
            <4>4. QED
                BY <4>2, <4>3
        <3>3. QED
            BY <3>1, <3>2
    <2>7. QED
        BY <2>5, <2>6
<1>3. N = Nat
    <2>1. N \in SUBSET Nat
        OBVIOUS
    <2> HIDE DEF N
    <2>2. QED
        BY <1>1, <1>2, <2>1, NatSetInduction
<1>4. Foldable(n)
    <2>1. n \in N
        BY <1>3
    <2> HIDE DEF Foldable
    <2>2. QED
        BY <2>1
<1>5. \A f : Folds(f, n) <=> FoldsOver(f, n, base, step)
    BY DEF FoldsOver
<1> HIDE DEF Folds
<1>6. QED
    BY <1>4, <1>5

\* f is a fold of t, as long as it stays in Acc.
FoldedBy(f, t, g, step, Acc, X) ==
    /\ g \in Acc /\ step \in [Acc \X X -> Acc] /\ t \in Seq(X)
    /\ f[{}] = g
    /\ \A S \in SUBSET DOMAIN t :
          (S # {} /\ f[S \ {Max(S)}] \in Acc) => f[S] = step[<<f[S \ {Max(S)}], t[Max(S)]>>]

\* A fold position by position.
LEMMA FoldUnrolled ==
    ASSUME NEW X, NEW Acc, NEW g, NEW step, NEW t, NEW f, FoldedBy(f, t, g, step, Acc, X)
    PROVE  /\ f[1..0] = g
           /\ \A k \in 0..Len(t) : f[1..k] \in Acc
           /\ \A k \in 1..Len(t) : f[1..k] = step[<<f[1..(k - 1)], t[k]>>]
<1>. /\ g \in Acc /\ step \in [Acc \X X -> Acc] /\ t \in Seq(X)
    BY DEF FoldedBy
<1>1. Len(t) \in Nat /\ DOMAIN t = 1..Len(t)
    OBVIOUS
<1>2. f[1..0] = g
    <2>1. 1..0 = {}
        OBVIOUS
    <2>2. QED
        BY <2>1 DEF FoldedBy
<1>3. ASSUME NEW k \in 1..Len(t), f[1..(k - 1)] \in Acc
      PROVE  f[1..k] = step[<<f[1..(k - 1)], t[k]>>]
    <2>1. k \in Nat /\ (1..k) \in SUBSET (1..k) /\ k \in 1..k
        BY <1>1
    <2>2. 1..k # {}
        BY <2>1
    <2>3. Max(1..k) \in 1..k /\ \A i \in 1..k : i <= Max(1..k)
        BY <2>1, <2>2, LastPosition
    <2>4. Max(1..k) = k
        BY <2>1, <2>3
    <2>5. (1..k) \in SUBSET DOMAIN t /\ (1..k) \ {k} = 1..(k - 1)
        BY <1>1
    <2>6. QED
        BY <1>3, <2>2, <2>4, <2>5 DEF FoldedBy
<1>4. ASSUME NEW k \in 0..Len(t) PROVE f[1..k] \in Acc
    <2> DEFINE N == {i \in Nat : i <= Len(t) => f[1..i] \in Acc}
    <2>1. 0 \in N
        BY <1>2
    <2>2. ASSUME NEW i \in N PROVE i + 1 \in N
        <3>1. ASSUME i + 1 <= Len(t) PROVE f[1..(i + 1)] \in Acc
            <4>1. i + 1 \in 1..Len(t) /\ i + 1 - 1 = i /\ f[1..i] \in Acc
                BY <3>1
            <4>2. f[1..(i + 1)] = step[<<f[1..i], t[i + 1]>>]
                BY <4>1, <1>3
            <4>3. <<f[1..i], t[i + 1]>> \in Acc \X X
                BY <4>1
            <4>4. QED
                BY <4>2, <4>3
        <3>2. QED
            BY <3>1
    <2>3. N = Nat
        <3>1. N \in SUBSET Nat
            OBVIOUS
        <3> HIDE DEF N
        <3>2. QED
            BY <2>1, <2>2, <3>1, NatSetInduction
    <2>4. k \in N /\ k <= Len(t)
        BY <2>3
    <2>5. QED
        BY <2>4
<1>5. ASSUME NEW k \in 1..Len(t) PROVE f[1..k] = step[<<f[1..(k - 1)], t[k]>>]
    <2>1. k - 1 \in 0..Len(t)
        OBVIOUS
    <2>2. QED
        BY <1>3, <1>4, <2>1
<1>6. QED
    BY <1>2, <1>4, <1>5

\* The fold of a sequence with one more element.
Longer(t, s, x, X) == t = Append(s, x) /\ x \in X

\* A fold over one element more is one step more.
LEMMA FoldAppended ==
    ASSUME NEW X, NEW Acc, NEW g, NEW step, NEW s, NEW x, NEW t, Longer(t, s, x, X),
           NEW f, FoldedBy(f, s, g, step, Acc, X),
           NEW h, FoldedBy(h, t, g, step, Acc, X)
    PROVE  f[DOMAIN s] \in Acc /\ h[DOMAIN t] = step[<<f[DOMAIN s], x>>]
<1> DEFINE n == Len(s)
           N == {i \in Nat : i <= n => h[1..i] = f[1..i]}
<1>1. /\ t \in Seq(X) /\ n \in Nat /\ Len(t) = n + 1
      /\ t[n + 1] = x /\ \A i \in 1..n : t[i] = s[i]
      /\ DOMAIN t = 1..(n + 1) /\ DOMAIN s = 1..n
    BY AppendProperties DEF FoldedBy, Longer
<1>3. /\ f[1..0] = g
      /\ \A k \in 0..n : f[1..k] \in Acc
      /\ \A k \in 1..n : f[1..k] = step[<<f[1..(k - 1)], s[k]>>]
    BY FoldUnrolled
<1>4. /\ h[1..0] = g
      /\ \A k \in 1..Len(t) : h[1..k] = step[<<h[1..(k - 1)], t[k]>>]
    BY FoldUnrolled
<1>5. 0 \in N
    BY <1>3, <1>4
<1>6. ASSUME NEW i \in N PROVE i + 1 \in N
    <2>1. ASSUME i + 1 <= n PROVE h[1..(i + 1)] = f[1..(i + 1)]
        <3>1. /\ i + 1 \in 1..n /\ i + 1 \in 1..Len(t) /\ i + 1 - 1 = i
              /\ h[1..i] = f[1..i]
            BY <2>1, <1>1
        <3>2. h[1..(i + 1)] = step[<<h[1..i], t[i + 1]>>]
            BY <3>1, <1>4
        <3>3. f[1..(i + 1)] = step[<<f[1..i], s[i + 1]>>]
            BY <3>1, <1>3
        <3>4. t[i + 1] = s[i + 1]
            BY <3>1, <1>1
        <3>5. QED
            BY <3>1, <3>2, <3>3, <3>4
    <2>2. QED
        BY <2>1
<1>7. N = Nat
    <2>1. N \in SUBSET Nat
        OBVIOUS
    <2> HIDE DEF N
    <2>2. QED
        BY <1>5, <1>6, <2>1, NatSetInduction
<1>8. h[1..n] = f[1..n]
    <2>1. n \in N
        BY <1>1, <1>7
    <2>2. QED
        BY <1>1, <2>1
<1>9. h[1..(n + 1)] = step[<<h[1..n], x>>]
    <2>1. n + 1 \in 1..Len(t) /\ n + 1 - 1 = n
        BY <1>1
    <2>2. QED
        BY <2>1, <1>1, <1>4
<1>10. f[1..n] \in Acc
    <2>1. n \in 0..n
        BY <1>1
    <2>2. QED
        BY <1>3, <2>1
<1>11. QED
    BY <1>1, <1>8, <1>9, <1>10

\* There is a fold whose steps stay in Acc.
CanFold(t, g, step, Acc, X) == g \in Acc /\ step \in [Acc \X X -> Acc] /\ t \in Seq(X)
IsFold(f, t, g, step, Acc) ==
    /\ f \in [SUBSET DOMAIN t -> Acc]
    /\ \A S \in SUBSET DOMAIN t :
          f[S] = IF S = {} THEN g ELSE step[<<f[S \ {Max(S)}], t[Max(S)]>>]

\* What FoldLeft chooses exists, for a step that is a function.
LEMMA FoldOfSteps ==
    ASSUME NEW X, NEW Acc, NEW g, NEW step, NEW t, CanFold(t, g, step, Acc, X)
    PROVE  \E f : IsFold(f, t, g, step, Acc)
<1>. g \in Acc /\ step \in [Acc \X X -> Acc] /\ t \in Seq(X)
    BY DEF CanFold
<1> DEFINE n == Len(t)
           at == [x \in Acc \X (1..n) |-> step[<<x[1], t[x[2]]>>]]
<1>1. n \in Nat /\ DOMAIN t = 1..n /\ \A i \in 1..n : t[i] \in X
    OBVIOUS
<1>2. at \in [Acc \X (1..n) -> Acc]
    OBVIOUS
<1> HIDE DEF n
<1>3. \A a \in Acc, i \in 1..n : at[<<a, i>>] = step[<<a, t[i]>>]
    OBVIOUS
<1> HIDE DEF at
<1>4. PICK f \in [SUBSET (1..n) -> Acc] : FoldsOver(f, n, g, at)
    BY <1>1, <1>2, FoldExists
<1>5. ASSUME NEW S \in SUBSET (1..n)
      PROVE  f[S] = IF S = {} THEN g ELSE step[<<f[S \ {Max(S)}], t[Max(S)]>>]
    <2>1. CASE S = {}
        BY <1>4, <2>1 DEF FoldsOver
    <2>2. CASE S # {}
        <3>1. Max(S) \in 1..n
            BY <1>1, <2>2, LastPosition
        <3>2. f[S \ {Max(S)}] \in Acc
            BY <1>4
        <3>3. f[S] = at[<<f[S \ {Max(S)}], Max(S)>>]
            BY <1>4, <2>2 DEF FoldsOver
        <3>4. QED
            BY <1>3, <2>2, <3>1, <3>2, <3>3
    <2>3. QED
        BY <2>1, <2>2
<1>6. QED
    BY <1>1, <1>5 DEF IsFold

-----------------------------------------------------------------------------
(* Paths.                                                                  *)

\* The parts of a path.
LEMMA PathParts ==
    ASSUME NEW p \in Paths, p # <<>>
    PROVE  /\ Front(p) \in Paths /\ Len(Front(p)) = Len(p) - 1
           /\ Last(p) \in Names
           /\ p = Append(Front(p), Last(p))
           /\ \A i \in 1..(Len(p) - 1) : Front(p)[i] = p[i]
<1> DEFINE n == Len(p)
           x == p[n]
           f == SubSeq(p, 1, n - 1)
<1>1. n \in Nat \ {0} /\ p \in Seq(Names) /\ \A i \in 1..n : p[i] \in Names
    BY DEF Paths
<1>2. 1 \in Int /\ n - 1 \in Int /\ n \in 1..n
    BY <1>1
<1>3. /\ f \in Seq(Names)
      /\ Len(f) = IF 1 <= n - 1 THEN n - 1 - 1 + 1 ELSE 0
      /\ \A i \in 1..(n - 1 - 1 + 1) : f[i] = p[1 + i - 1]
    <2>1. \A i \in 1..(n - 1) : p[i] \in Names
        BY <1>1
    <2>2. QED
        BY <1>1, <1>2, <2>1, SubSeqProperties
<1>4. f = Front(p) /\ x = Last(p) /\ x \in Names
    BY <1>1, <1>2 DEF Front, Last
<1>5. f \in Seq(Names) /\ Len(f) = n - 1 /\ \A i \in 1..(n - 1) : f[i] = p[i]
    <2> DEFINE m == n - 1
    <2>1. n - 1 - 1 + 1 = m /\ m \in Nat /\ (1 <= m \/ m = 0)
        <3>1. n \in Nat /\ n # 0
            BY <1>1
        <3> HIDE DEF n
        <3>2. QED
            BY <3>1
    <2>2. f \in Seq(Names) /\ Len(f) = m /\ \A i \in 1..m : f[i] = p[1 + i - 1]
        <3> HIDE DEF f, m
        <3>1. QED
            BY <1>3, <2>1
    <2> HIDE DEF f, m
    <2>3. \A i \in 1..m : 1 + i - 1 = i
        BY <2>1
    <2>4. f \in Seq(Names) /\ Len(f) = m /\ \A i \in 1..m : f[i] = p[i]
        BY <2>2, <2>3
    <2>5. QED
        BY <2>4 DEF m
<1> HIDE DEF f
<1>6. x = p[n]
    OBVIOUS
<1> HIDE DEF x
<1>7. /\ Append(f, x) \in Seq(Names) /\ Len(Append(f, x)) = n
      /\ \A i \in 1..(n - 1) : Append(f, x)[i] = f[i]
      /\ Append(f, x)[n] = x
    <2>1. Len(f) + 1 = n
        BY <1>1, <1>5
    <2>2. QED
        BY <1>4, <1>5, <2>1, AppendProperties
<1>8. ASSUME NEW i \in 1..n PROVE Append(f, x)[i] = p[i]
    <2>1. i \in 1..(n - 1) \/ i = n
        BY <1>1
    <2>2. QED
        BY <1>5, <1>6, <1>7, <2>1
<1>9. p = Append(f, x)
    BY <1>1, <1>7, <1>8, SeqEqual
<1>10. QED
    BY <1>4, <1>5, <1>9 DEF Paths

\* A path with one more name.
LEMMA LongerPath ==
    ASSUME NEW p \in Paths, NEW x \in Names
    PROVE  /\ Append(p, x) \in Paths /\ Append(p, x) # <<>>
           /\ Len(Append(p, x)) = Len(p) + 1
           /\ Front(Append(p, x)) = p /\ Last(Append(p, x)) = x
           /\ Append(p, x) # Nowhere
<1> DEFINE q == Append(p, x)
           n == Len(p)
<1>1. /\ q \in Seq(Names) /\ Len(q) = n + 1 /\ n \in Nat /\ p \in Seq(Names)
      /\ \A i \in 1..n : q[i] = p[i]
      /\ q[n + 1] = x
    BY AppendProperties DEF Paths
<1> HIDE DEF q
<1>2. q \in Paths /\ q # <<>> /\ Last(q) = x
    BY <1>1 DEF Paths, Last
<1>3. /\ Front(q) \in Seq(Names) /\ Len(Front(q)) = n
      /\ \A i \in 1..n : Front(q)[i] = q[i]
    <2>1. Len(q) - 1 = n
        BY <1>1
    <2>2. QED
        BY <1>2, <2>1, PathParts DEF Paths
<1>4. Front(q) = p
    BY <1>1, <1>3, SeqEqual
<1>5. q # Nowhere
    <2>1. ASSUME q = Nowhere PROVE FALSE
        <3>1. <<"/">>[1] = "/" /\ Len(<<"/">>) = 1
            OBVIOUS
        <3>2. Last(q) = "/"
            BY <2>1, <3>1 DEF Nowhere, Last
        <3>3. QED
            BY <1>2, <3>2, TreeAssumption
    <2>2. QED
        BY <2>1
<1>6. QED
    BY <1>1, <1>2, <1>4, <1>5 DEF q

\* Below a path is what has it as a prefix.
LEMMA UnderIsPrefix ==
    ASSUME NEW p \in Paths, NEW q \in Paths
    PROVE  IsUnder(q, p) <=> /\ Len(p) <= Len(q)
                             /\ \A i \in 1..Len(p) : q[i] = p[i]
<1>1. /\ p \in Seq(Names) /\ q \in Seq(Names) /\ Len(p) \in Nat /\ Len(q) \in Nat
      /\ \A i \in 1..Len(p) : p[i] \in Names
      /\ \A i \in 1..Len(q) : q[i] \in Names
    BY DEF Paths
<1> DEFINE n == Len(p)
           f == SubSeq(p, 1, n)
           h == SubSeq(q, 1, n)
<1>2. f \in Seq(Names) /\ Len(f) = n /\ \A i \in 1..n : f[i] = p[i]
    <2>1. n \in Int /\ 1 \in Int
        BY <1>1
    <2>2. /\ f \in Seq(Names)
          /\ Len(f) = IF 1 <= n THEN n - 1 + 1 ELSE 0
          /\ \A i \in 1..(n - 1 + 1) : f[i] = p[1 + i - 1]
        BY <1>1, <2>1, SubSeqProperties
    <2> HIDE DEF f
    <2>3. QED
        BY <1>1, <2>2
<1>3. ASSUME n <= Len(q)
      PROVE  h \in Seq(Names) /\ Len(h) = n /\ \A i \in 1..n : h[i] = q[i]
    <2>1. n \in Int /\ 1 \in Int /\ \A i \in 1..n : q[i] \in Names
        BY <1>1, <1>3
    <2>2. /\ h \in Seq(Names)
          /\ Len(h) = IF 1 <= n THEN n - 1 + 1 ELSE 0
          /\ \A i \in 1..(n - 1 + 1) : h[i] = q[1 + i - 1]
        BY <1>1, <2>1, SubSeqProperties
    <2> HIDE DEF h
    <2>3. QED
        BY <1>1, <2>2
<1>4. IsUnder(q, p) <=> n <= Len(q) /\ f = h
    BY DEF IsUnder, IsPrefix
<1> HIDE DEF f, h
<1>5. ASSUME n <= Len(q), \A i \in 1..n : q[i] = p[i] PROVE f = h
    BY <1>2, <1>3, <1>5, SeqEqual
<1>6. QED
    BY <1>2, <1>3, <1>4, <1>5

\* The root and the workspace.
LEMMA FixedPaths ==
    /\ Root \in Paths /\ Workspace \in Paths /\ Workspace # Root
    /\ Len(Root) = 0 /\ Len(Workspace) = 1 /\ Workspace[1] = "ws" /\ Nowhere \notin Paths
    /\ Nowhere # Root
<1>1. "ws" \in Names /\ "/" \notin Names
    BY TreeAssumption
<1>2. ASSUME NEW x PROVE <<x>> # <<>> /\ Len(<<x>>) = 1 /\ <<x>>[1] = x
    OBVIOUS
<1>3. ASSUME NEW x PROVE <<x>> \in Seq(Names) <=> x \in Names
    OBVIOUS
<1>4. <<>> \in Seq(Names) /\ Len(<<>>) = 0
    OBVIOUS
<1>5. QED
    BY <1>1, <1>2, <1>3, <1>4 DEF Root, Workspace, Paths, Nowhere

\* What is made in the workspace, or in a directory below it.
LEMMA UnderWorkspace ==
    ASSUME NEW p \in Paths, NEW x \in Names
    PROVE  /\ IsUnder(p, Workspace) <=> p # Root /\ p[1] = "ws"
           /\ IsUnder(p, Workspace) => IsUnder(Append(p, x), Workspace)
           /\ IsUnder(Append(Root, x), Workspace) <=> x = "ws"
<1>1. ASSUME NEW q \in Paths PROVE IsUnder(q, Workspace) <=> q # Root /\ q[1] = "ws"
    <2>1. IsUnder(q, Workspace) <=> 1 <= Len(q) /\ \A i \in 1..1 : q[i] = Workspace[i]
        BY FixedPaths, UnderIsPrefix
    <2>2. 1 <= Len(q) <=> q # Root
        BY DEF Paths, Root
    <2>3. QED
        BY <2>1, <2>2, FixedPaths
<1>2. Append(p, x) \in Paths /\ Append(p, x) # Root /\ p # Root => Append(p, x)[1] = p[1]
    <2>1. p \in Seq(Names) /\ Len(p) \in Nat /\ (p # Root => 1 \in 1..Len(p))
        BY DEF Paths, Root
    <2>2. QED
        BY <2>1, LongerPath, AppendProperties DEF Root
<1>3. Append(Root, x) \in Paths /\ Append(Root, x) # Root /\ Append(Root, x)[1] = x
    <2>1. Append(Root, x) = <<x>>
        BY DEF Root
    <2>2. QED
        BY <2>1 DEF Root, Paths
<1>4. Append(p, x) \in Paths /\ Append(p, x) # Root
    BY LongerPath DEF Root
<1>5. QED
    BY <1>1, <1>2, <1>3, <1>4

-----------------------------------------------------------------------------
(* Trees.                                                                  *)

\* What a tree has.
LEMMA TreeNodes ==
    ASSUME NEW t, IsTree(t), NEW p \in DOMAIN t
    PROVE  /\ p \in Paths /\ p # Nowhere
           /\ t[p] \in Nodes /\ TypeOf(t, p) = t[p].type /\ TypeOf(t, p) \in {"dir", "file"}
           /\ p # Root =>
                 Front(p) \in DOMAIN t /\ TypeOf(t, Front(p)) = "dir" /\ Last(p) \notin Dots
BY FixedPaths DEF IsTree, TypeOf, Nodes

\* What has a type is there.
LEMMA TypedIsThere ==
    ASSUME NEW t, NEW p, TypeOf(t, p) # "none"
    PROVE  p \in DOMAIN t
BY DEF TypeOf

\* What is made in a directory leaves a tree, and so does a file that replaces a file.
LEMMA WithTree ==
    ASSUME NEW t, IsTree(t), NEW p \in Paths, p # Root, NEW node \in Nodes,
           \/ p \notin DOMAIN t /\ TypeOf(t, Front(p)) = "dir" /\ Last(p) \notin Dots
           \/ TypeOf(t, p) = "file" /\ node.type = "file"
    PROVE  /\ IsTree(With(t, p, node))
           /\ DOMAIN With(t, p, node) = DOMAIN t \cup {p}
           /\ \A q \in DOMAIN t : q # p => With(t, p, node)[q] = t[q]
           /\ With(t, p, node)[p] = node
<1> DEFINE w == With(t, p, node)
<1>1. /\ DOMAIN w = DOMAIN t \cup {p}
      /\ \A q \in DOMAIN t : q # p => w[q] = t[q]
      /\ w[p] = node
      /\ w = [q \in DOMAIN t \cup {p} |-> w[q]]
    BY DEF With
<1> HIDE DEF w
<1>2. IsFiniteSet(DOMAIN w) /\ DOMAIN w \subseteq Paths
    <2>1. IsFiniteSet(DOMAIN t \cup {p})
        BY FS_AddElement DEF IsTree
    <2>2. QED
        BY <1>1, <2>1 DEF IsTree
<1>3. w \in [DOMAIN w -> Nodes]
    BY <1>1 DEF IsTree
<1>4. \A q \in DOMAIN t : TypeOf(t, q) = "dir" => TypeOf(w, q) = "dir"
    BY <1>1 DEF TypeOf
<1>5. TypeOf(w, Root) = "dir" /\ TypeOf(w, Workspace) = "dir"
    BY <1>4, TypedIsThere DEF IsTree
<1>6. ASSUME NEW q \in DOMAIN w \ {Root}
      PROVE  TypeOf(w, Front(q)) = "dir" /\ Last(q) \notin Dots
    <2>1. CASE q \in DOMAIN t
        BY <1>4, <2>1, <1>6, TreeNodes
    <2>2. CASE q \notin DOMAIN t
        <3>1. q = p
            BY <1>1, <2>2
        <3>2. TypeOf(t, Front(p)) = "dir" /\ Last(p) \notin Dots
            BY <2>2, <3>1 DEF TypeOf
        <3>3. QED
            BY <1>4, <3>1, <3>2, TypedIsThere
    <2>3. QED
        BY <2>1, <2>2
<1>7. IsTree(w)
    BY <1>2, <1>3, <1>5, <1>6 DEF IsTree
<1>8. QED
    BY <1>1, <1>7 DEF w

\* A file has nothing below it: it can go.
LEMMA WithoutFile ==
    ASSUME NEW t, IsTree(t), NEW p, TypeOf(t, p) = "file"
    PROVE  /\ IsTree([q \in DOMAIN t \ {p} |-> t[q]])
           /\ \A q \in DOMAIN t : TypeOf(t, q) = "dir" =>
                 TypeOf([r \in DOMAIN t \ {p} |-> t[r]], q) = "dir"
<1> DEFINE w == [q \in DOMAIN t \ {p} |-> t[q]]
<1>1. /\ DOMAIN w = DOMAIN t \ {p}
      /\ \A q \in DOMAIN w : w[q] = t[q]
      /\ w = [q \in DOMAIN w |-> w[q]]
    OBVIOUS
<1>2. \A q \in DOMAIN t : TypeOf(t, q) = "dir" => TypeOf(w, q) = "dir"
    <2> HIDE DEF w
    <2>1. QED
        BY <1>1 DEF TypeOf
<1> HIDE DEF w
<1>3. IsFiniteSet(DOMAIN w) /\ DOMAIN w \subseteq Paths
    BY <1>1, FS_Subset DEF IsTree
<1>4. w \in [DOMAIN w -> Nodes]
    BY <1>1 DEF IsTree
<1>5. TypeOf(w, Root) = "dir" /\ TypeOf(w, Workspace) = "dir"
    BY <1>2, TypedIsThere DEF IsTree
<1>6. \A q \in DOMAIN w \ {Root} : TypeOf(w, Front(q)) = "dir" /\ Last(q) \notin Dots
    BY <1>1, <1>2, TreeNodes
<1>7. IsTree(w)
    BY <1>3, <1>4, <1>5, <1>6 DEF IsTree
<1>8. QED
    BY <1>2, <1>7 DEF w

-----------------------------------------------------------------------------
(* Where a typed path leads.                                               *)

Places(t) == DOMAIN t \cup {Nowhere}
Walked(t, at, parts) == FoldLeft(LAMBDA a, part : Walk(t, a, part), at, parts)
Start(wd, raw) == IF raw.abs THEN Root ELSE wd

\* One part of a path leads to a node or nowhere.
LEMMA WalkTyped ==
    ASSUME NEW t, IsTree(t), NEW at \in Places(t), NEW part
    PROVE  Walk(t, at, part) \in Places(t)
<1>1. CASE at = Nowhere
    BY <1>1 DEF Walk, Places
<1>2. CASE at # Nowhere
    <2>1. at \in DOMAIN t
        BY <1>2 DEF Places
    <2>2. Root \in DOMAIN t
        BY TypedIsThere DEF IsTree
    <2>3. at # Root => Front(at) \in DOMAIN t
        BY <2>1, TreeNodes
    <2>4. CASE part = "."
        BY <1>2, <2>1, <2>4 DEF Walk, Places
    <2>5. CASE part = ".."
        BY <1>2, <2>2, <2>3, <2>5 DEF Walk, Places
    <2>6. CASE part # "." /\ part # ".."
        BY <1>2, <2>6 DEF Walk, Places
    <2>7. QED
        BY <2>4, <2>5, <2>6
<1>3. QED
    BY <1>1, <1>2

\* The walk, part by part.
LEMMA WalkFold ==
    ASSUME NEW t, IsTree(t), NEW at \in Places(t), NEW s \in Seq(Names)
    PROVE  /\ Walked(t, at, s) \in Places(t)
           /\ Walked(t, at, <<>>) = at
           /\ \A x \in Names : Walked(t, at, Append(s, x)) = Walk(t, Walked(t, at, s), x)
<1> DEFINE Folds(f, u) == f = [P \in SUBSET DOMAIN u |->
                                 IF P = {} THEN at ELSE Walk(t, f[P \ {Max(P)}], u[Max(P)])]
           F(u) == CHOOSE f : Folds(f, u)
           Acc == Places(t)
           step == [x \in Acc \X Names |-> Walk(t, x[1], x[2])]
<1>1. \A u : Walked(t, at, u) = F(u)[DOMAIN u]
    BY DEF FoldLeft, MapThenFoldSet, Walked
<1>2. step \in [Acc \X Names -> Acc] /\ at \in Acc
    BY WalkTyped
<1>3. \A a \in Acc, x \in Names : step[<<a, x>>] = Walk(t, a, x)
    OBVIOUS
<1> HIDE DEF step, Acc
<1>4. ASSUME NEW u \in Seq(Names) PROVE Folds(F(u), u)
    <2>1. PICK f \in [SUBSET DOMAIN u -> Acc] : \A P \in SUBSET DOMAIN u :
              f[P] = IF P = {} THEN at ELSE step[<<f[P \ {Max(P)}], u[Max(P)]>>]
        <3>1. CanFold(u, at, step, Acc, Names)
            BY <1>2 DEF CanFold
        <3>2. PICK f : IsFold(f, u, at, step, Acc)
            BY <3>1, FoldOfSteps
        <3>3. QED
            BY <3>2 DEF IsFold
    <2>2. ASSUME NEW P \in SUBSET DOMAIN u, P # {}
          PROVE  f[P] = Walk(t, f[P \ {Max(P)}], u[Max(P)])
        <3>1. Len(u) \in Nat /\ DOMAIN u = 1..Len(u)
            OBVIOUS
        <3>2. Max(P) \in 1..Len(u)
            BY <2>2, <3>1, LastPosition
        <3>3. u[Max(P)] \in Names /\ f[P \ {Max(P)}] \in Acc
            BY <2>1, <3>1, <3>2
        <3>4. QED
            BY <1>3, <2>1, <2>2, <3>3
    <2>3. f = [P \in SUBSET DOMAIN u |->
                 IF P = {} THEN at ELSE Walk(t, f[P \ {Max(P)}], u[Max(P)])]
        BY <2>1, <2>2
    <2>4. Folds(f, u)
        BY <2>3
    <2> HIDE DEF Folds
    <2>5. QED
        BY <2>4
<1>5. ASSUME NEW u \in Seq(Names) PROVE FoldedBy(F(u), u, at, step, Acc, Names)
    <2>1. Folds(F(u), u)
        BY <1>4
    <2> HIDE DEF F
    <2>2. F(u)[{}] = at
        BY <2>1
    <2>3. ASSUME NEW P \in SUBSET DOMAIN u, P # {}, F(u)[P \ {Max(P)}] \in Acc
          PROVE  F(u)[P] = step[<<F(u)[P \ {Max(P)}], u[Max(P)]>>]
        <3>1. Len(u) \in Nat /\ DOMAIN u = 1..Len(u)
            OBVIOUS
        <3>2. Max(P) \in 1..Len(u)
            BY <2>3, <3>1, LastPosition
        <3>3. u[Max(P)] \in Names
            BY <3>1, <3>2
        <3>4. F(u)[P] = Walk(t, F(u)[P \ {Max(P)}], u[Max(P)])
            BY <2>1, <2>3
        <3>5. QED
            BY <1>3, <2>3, <3>3, <3>4
    <2>4. QED
        BY <1>2, <2>2, <2>3 DEF FoldedBy
<1> HIDE DEF F
<1>6. Walked(t, at, <<>>) = at
    <2>1. <<>> \in Seq(Names) /\ DOMAIN <<>> = {}
        OBVIOUS
    <2>2. F(<<>>)[{}] = at
        BY <1>5, <2>1 DEF FoldedBy
    <2>3. QED
        BY <1>1, <2>1, <2>2
<1>7. F(s)[DOMAIN s] \in Acc
    <2>1. Len(s) \in 0..Len(s) /\ DOMAIN s = 1..Len(s)
        OBVIOUS
    <2>2. QED
        BY <1>5, <2>1, FoldUnrolled
<1>8. ASSUME NEW x \in Names PROVE Walked(t, at, Append(s, x)) = Walk(t, Walked(t, at, s), x)
    <2> DEFINE u == Append(s, x)
               f == F(s)
               h == F(u)
    <2>1. u \in Seq(Names)
        OBVIOUS
    <2>2. FoldedBy(f, s, at, step, Acc, Names)
        BY <1>5
    <2>3. FoldedBy(h, u, at, step, Acc, Names)
        BY <1>5, <2>1
    <2>4. Longer(u, s, x, Names)
        BY DEF Longer
    <2>5. Walked(t, at, u) = h[DOMAIN u] /\ Walked(t, at, s) = f[DOMAIN s]
        BY <1>1
    <2>6. f[DOMAIN s] \in Acc
        BY <1>7
    <2> HIDE DEF u, f, h
    <2>7. h[DOMAIN u] = step[<<f[DOMAIN s], x>>]
        BY <2>2, <2>3, <2>4, FoldAppended
    <2>8. Walked(t, at, u) = Walk(t, Walked(t, at, s), x)
        BY <1>3, <2>5, <2>6, <2>7
    <2>9. QED
        BY <2>8 DEF u
<1>9. QED
    BY <1>1, <1>6, <1>7, <1>8 DEF Acc

\* A typed path leads to a node of the tree, or nowhere.
LEMMA Resolves ==
    ASSUME NEW t, IsTree(t), NEW wd \in DOMAIN t, NEW raw \in TypedPaths
    PROVE  /\ Start(wd, raw) \in DOMAIN t
           /\ Resolve(t, wd, raw) \in Places(t)
           /\ raw.parts # <<>> => Resolve(t, wd, raw) = Walked(t, Start(wd, raw), raw.parts)
           /\ raw.parts = <<>> /\ raw.abs => Resolve(t, wd, raw) = Root
           /\ raw.parts = <<>> /\ ~raw.abs => Resolve(t, wd, raw) = Nowhere
<1>1. raw.parts \in Seq(Names) /\ raw.abs \in BOOLEAN
    BY DEF TypedPaths
<1>2. Root \in DOMAIN t /\ Start(wd, raw) \in DOMAIN t
    BY TypedIsThere DEF Start, IsTree
<1>3. Start(wd, raw) \in Places(t)
    BY <1>2 DEF Places
<1>4. Resolve(t, wd, raw) = IF ~raw.abs /\ raw.parts = <<>> THEN Nowhere
                            ELSE Walked(t, Start(wd, raw), raw.parts)
    BY DEF Resolve, Walked, Start
<1>5. /\ Walked(t, Start(wd, raw), raw.parts) \in Places(t)
      /\ Walked(t, Start(wd, raw), <<>>) = Start(wd, raw)
    BY <1>1, <1>3, WalkFold
<1>6. raw.abs => Start(wd, raw) = Root
    BY DEF Start
<1>7. Nowhere \in Places(t)
    BY DEF Places
<1>8. QED
    BY <1>1, <1>2, <1>4, <1>5, <1>6, <1>7

\* The parts of a path at which there is a place for something new.
LEMMA NewTargetParts ==
    ASSUME NEW t, IsTree(t), NEW wd, TypeOf(t, wd) = "dir", NEW raw \in TypedPaths,
           NewTarget(t, wd, raw) # Nowhere
    PROVE  LET base == Start(wd, raw)
               parent == ParentFor(t, wd, raw)
               front == Front(raw.parts)
               x == Last(raw.parts)
           IN /\ raw.parts # <<>> /\ NewTarget(t, wd, raw) = Append(parent, x)
              /\ front \in Paths /\ x \in Names /\ raw.parts = Append(front, x)
              /\ base \in DOMAIN t /\ TypeOf(t, base) = "dir"
              /\ parent = Walked(t, base, front) /\ TypeOf(t, parent) = "dir"
<1> DEFINE parts == raw.parts
           base == Start(wd, raw)
           parent == ParentFor(t, wd, raw)
           front == Front(parts)
           x == Last(parts)
<1>1. wd \in DOMAIN t /\ parts \in Paths /\ raw.abs \in BOOLEAN
    BY TypedIsThere DEF TypedPaths, Paths
<1>2. parts # <<>> /\ parent # Nowhere /\ NewTarget(t, wd, raw) = Append(parent, x)
    BY DEF NewTarget, ParentFor
<1>3. /\ front \in Paths /\ x \in Names /\ parts = Append(front, x)
      /\ Len(front) = Len(parts) - 1
    BY <1>1, <1>2, PathParts
<1>4. base \in DOMAIN t /\ TypeOf(t, base) = "dir"
    BY <1>1, Resolves DEF Start, IsTree
<1>5. parent = Walked(t, base, front) /\ TypeOf(t, parent) = "dir"
    <2>1. CASE Len(parts) = 1
        <3>1. front = <<>>
            BY <1>3, <2>1 DEF Paths
        <3>2. parent = base
            BY <1>2, <2>1 DEF ParentFor, Start
        <3>3. base \in Places(t) /\ <<>> \in Seq(Names)
            BY <1>4 DEF Places
        <3>4. Walked(t, base, <<>>) = base
            BY <3>3, WalkFold
        <3>5. QED
            BY <1>4, <3>1, <3>2, <3>4
    <2>2. CASE Len(parts) # 1
        <3> DEFINE up == [raw EXCEPT !.parts = Front(@)]
        <3>1. up \in TypedPaths /\ up.parts = front /\ up.abs = raw.abs
            BY <1>3 DEF TypedPaths, Paths
        <3>2. front # <<>>
            <4>1. Len(parts) \in Nat /\ Len(<<>>) = 0
                BY <1>1 DEF Paths
            <4>2. Len(front) # 0
                BY <1>3, <2>2, <4>1
            <4>3. QED
                BY <4>1, <4>2
        <3>3. Start(wd, up) = base
            BY <3>1 DEF Start
        <3>4. Resolve(t, wd, up) = Walked(t, base, front)
            <4> HIDE DEF up, base, front
            <4>1. Resolve(t, wd, up) = Walked(t, Start(wd, up), up.parts)
                BY <1>1, <3>1, <3>2, Resolves
            <4>2. QED
                BY <3>1, <3>3, <4>1
        <3>5. parent = Resolve(t, wd, up) /\ TypeOf(t, parent) = "dir"
            BY <1>2, <2>2 DEF ParentFor
        <3>6. QED
            BY <3>4, <3>5
    <2>3. QED
        BY <2>1, <2>2
<1>6. QED
    BY <1>2, <1>3, <1>4, <1>5

\* A place for something new is in a directory, and nothing is there.
LEMMA NewTargetFits ==
    ASSUME NEW t, IsTree(t), NEW wd, TypeOf(t, wd) = "dir", NEW raw \in TypedPaths,
           Resolve(t, wd, raw) = Nowhere, NewTarget(t, wd, raw) # Nowhere
    PROVE  LET path == NewTarget(t, wd, raw)
           IN path \in Paths /\ path # Root /\ path \notin DOMAIN t
              /\ TypeOf(t, Front(path)) = "dir" /\ Last(path) \notin Dots
<1> DEFINE base == Start(wd, raw)
           parent == ParentFor(t, wd, raw)
           front == Front(raw.parts)
           x == Last(raw.parts)
<1>1. /\ raw.parts # <<>> /\ NewTarget(t, wd, raw) = Append(parent, x)
      /\ front \in Paths /\ x \in Names /\ raw.parts = Append(front, x)
      /\ base \in DOMAIN t
      /\ parent = Walked(t, base, front) /\ TypeOf(t, parent) = "dir"
    BY NewTargetParts
<1>2. wd \in DOMAIN t
    BY TypedIsThere
<1>3. parent \in DOMAIN t
    BY <1>1, TypedIsThere
<1>4. Walk(t, parent, x) = Nowhere
    <2>1. Resolve(t, wd, raw) = Walked(t, base, raw.parts)
        BY <1>1, <1>2, Resolves
    <2>2. base \in Places(t) /\ front \in Seq(Names)
        BY <1>1 DEF Places, Paths
    <2>3. Walked(t, base, Append(front, x)) = Walk(t, Walked(t, base, front), x)
        BY <1>1, <2>2, WalkFold
    <2>4. QED
        BY <1>1, <2>1, <2>3
<1> HIDE DEF base, parent, front, x
<1>5. parent \in Paths /\ (parent # Root => Front(parent) \in DOMAIN t) /\ Root \in DOMAIN t
    BY <1>3, TreeNodes, TypedIsThere DEF IsTree
<1>6. x # "." /\ x # ".." /\ Append(parent, x) \notin DOMAIN t
    <2>1. Nowhere \notin DOMAIN t /\ parent # Nowhere
        BY <1>3, TreeNodes
    <2>2. x # "." /\ x # ".."
        BY <1>3, <1>4, <1>5, <2>1 DEF Walk
    <2>3. Append(parent, x) # Nowhere
        BY <1>1, <1>5, LongerPath
    <2>4. QED
        BY <1>4, <2>1, <2>2, <2>3 DEF Walk
<1>7. /\ Append(parent, x) \in Paths /\ Append(parent, x) # Root
      /\ Front(Append(parent, x)) = parent /\ Last(Append(parent, x)) = x
    BY <1>1, <1>5, LongerPath DEF Root
<1>8. x \notin Dots
    BY <1>6 DEF Dots
<1>9. QED
    BY <1>1, <1>6, <1>7, <1>8

\* Where a command writes.
LEMMA WriteTargetFits ==
    ASSUME NEW t, IsTree(t), NEW wd, TypeOf(t, wd) = "dir", NEW raw \in TypedPaths,
           NEW path, path = WriteTarget(t, wd, raw), path # Nowhere
    PROVE  \/ path \in DOMAIN t /\ path = Resolve(t, wd, raw)
           \/ /\ path \in Paths /\ path # Root /\ path \notin DOMAIN t
              /\ TypeOf(t, Front(path)) = "dir" /\ Last(path) \notin Dots
<1>1. CASE Resolve(t, wd, raw) # Nowhere
    BY <1>1, Resolves, TypedIsThere DEF WriteTarget, Places
<1>2. CASE Resolve(t, wd, raw) = Nowhere
    BY <1>2, NewTargetFits DEF WriteTarget
<1>3. QED
    BY <1>1, <1>2

-----------------------------------------------------------------------------
(* One operand.                                                            *)

\* What OnlyAsAsked says of a step from the tree t to the tree r, that r is a
\* tree and that no directory has gone.
AsAsked(t, r, cmd, named, raw) ==
    /\ IsTree(r)
    /\ \A p \in DOMAIN t : TypeOf(t, p) = "dir" => TypeOf(r, p) = "dir"
    /\ \A p \in DOMAIN t \ DOMAIN r : cmd.name = "rm" /\ p = named
    /\ \A p \in DOMAIN t \cap DOMAIN r :
          r[p] # t[p] =>
              /\ cmd.name = "echo" /\ p = named /\ t[p].type = "file"
              /\ cmd.op # ">"
              /\ cmd.op = ">>" => IsPrefix(t[p].text, r[p].text)
    /\ \A p \in DOMAIN r \ DOMAIN t :
          \/ IsUnder(p, Workspace)
          \/ cmd.name = "mkdir_p" /\ Climbs(raw)

\* A command that leaves the tree as it is has done nothing unasked.
LEMMA Unchanged ==
    ASSUME NEW t, IsTree(t), NEW cmd, NEW named, NEW raw
    PROVE  AsAsked(t, t, cmd, named, raw)
<1>1. \A p \in DOMAIN t \cap DOMAIN t : t[p] = t[p]
    OBVIOUS
<1>2. QED
    BY <1>1, Zenon DEF AsAsked

\* Something new in a directory of the workspace.
LEMMA NewIsAsked ==
    ASSUME NEW t, IsTree(t), NEW cmd, NEW named, NEW raw, NEW path \in Paths, path # Root,
           path \notin DOMAIN t, TypeOf(t, Front(path)) = "dir", Last(path) \notin Dots,
           IsUnder(path, Workspace),
           NEW node \in Nodes
    PROVE  AsAsked(t, With(t, path, node), cmd, named, raw)
<1> DEFINE r == With(t, path, node)
<1>1. /\ IsTree(r) /\ DOMAIN r = DOMAIN t \cup {path}
      /\ \A p \in DOMAIN t : p # path => r[p] = t[p]
    BY WithTree
<1> HIDE DEF r
<1>2. \A p \in DOMAIN t : r[p] = t[p] /\ p \in DOMAIN r
    BY <1>1
<1>3. \A p \in DOMAIN t : TypeOf(t, p) = "dir" => TypeOf(r, p) = "dir"
    BY <1>2 DEF TypeOf
<1>4. \A p \in DOMAIN t \cap DOMAIN r : r[p] = t[p]
    BY <1>2
<1>5. DOMAIN t \ DOMAIN r = {} /\ \A p \in DOMAIN r \ DOMAIN t : IsUnder(p, Workspace)
    BY <1>1
<1>6. AsAsked(t, r, cmd, named, raw)
    BY <1>1, <1>3, <1>4, <1>5, Zenon DEF AsAsked
<1>7. QED
    BY <1>6 DEF r

\* get_or_create_child_file, where a target may be written.
LEMMA CreateFileAsked ==
    ASSUME NEW t, IsTree(t), NEW wd, TypeOf(t, wd) = "dir", NEW target \in TypedPaths,
           NEW cmd, NEW named, NEW raw, NEW text \in Seq(Words),
           MayWrite(WriteTarget(t, wd, target))
    PROVE  AsAsked(t, CreateFile(t, WriteTarget(t, wd, target), text), cmd, named, raw)
<1> DEFINE path == WriteTarget(t, wd, target)
<1>1. path # Nowhere /\ IsUnder(path, Workspace)
    BY DEF MayWrite
<1>2. \/ path \in DOMAIN t
      \/ /\ path \in Paths /\ path # Root /\ path \notin DOMAIN t
         /\ TypeOf(t, Front(path)) = "dir" /\ Last(path) \notin Dots
    BY <1>1, WriteTargetFits
<1>3. File(text) \in Nodes
    BY DEF File, Nodes
<1> HIDE DEF path
<1>4. AsAsked(t, CreateFile(t, path, text), cmd, named, raw)
    BY <1>1, <1>2, <1>3, NewIsAsked, Unchanged DEF CreateFile
<1>5. QED
    BY <1>4 DEF path

\* touch.
LEMMA TouchAsked ==
    ASSUME NEW t, IsTree(t), NEW wd, TypeOf(t, wd) = "dir", NEW raw \in TypedPaths,
           NEW cmd, NEW named
    PROVE  AsAsked(t, Touch(t, wd, raw).tree, cmd, named, raw)
<1>1. <<>> \in Seq(Words)
    OBVIOUS
<1>2. QED
    BY <1>1, CreateFileAsked, Unchanged DEF Touch, Refuse, Says

\* mkdir, of something that is not there.
LEMMA MkdirAsked ==
    ASSUME NEW t, IsTree(t), NEW wd, TypeOf(t, wd) = "dir", NEW raw \in TypedPaths,
           NEW cmd, NEW named
    PROVE  AsAsked(t, Mkdir(t, wd, raw).tree, cmd, named, raw)
<1> DEFINE path == NewTarget(t, wd, raw)
<1>1. CASE ~MayWrite(path) \/ Resolve(t, wd, raw) # Nowhere
    BY <1>1, Unchanged DEF Mkdir, Refuse
<1>2. CASE MayWrite(path) /\ Resolve(t, wd, raw) = Nowhere
    <2>1. path # Nowhere /\ IsUnder(path, Workspace)
        BY <1>2 DEF MayWrite
    <2>2. /\ path \in Paths /\ path # Root /\ path \notin DOMAIN t
          /\ TypeOf(t, Front(path)) = "dir" /\ Last(path) \notin Dots
        BY <1>2, <2>1, NewTargetFits
    <2>3. Dir \in Nodes
        BY DEF Dir, Nodes
    <2>4. Mkdir(t, wd, raw).tree = With(t, path, Dir)
        BY <1>2 DEF Mkdir, Says
    <2> HIDE DEF path
    <2>5. AsAsked(t, With(t, path, Dir), cmd, named, raw)
        BY <2>1, <2>2, <2>3, NewIsAsked
    <2>6. QED
        BY <2>4, <2>5
<1>3. QED
    BY <1>1, <1>2

\* cp: its target is in the tree, or a new name in a directory of it.
LEMMA CopyAsked ==
    ASSUME NEW t, IsTree(t), NEW wd, TypeOf(t, wd) = "dir",
           NEW source \in TypedPaths, NEW target \in TypedPaths, NEW cmd, NEW named
    PROVE  AsAsked(t, Copy(t, wd, source, target).tree, cmd, named, source)
<1> DEFINE from == Resolve(t, wd, source)
           to == Resolve(t, wd, target)
           into == IF TypeOf(t, to) = "dir" THEN Typed(Append(to, Last(from))) ELSE target
           path == WriteTarget(t, wd, into)
           refused == TypeOf(t, from) # "file" \/ TypeOf(t, to) = "file" \/ ~MayWrite(path)
                      \/ Ambiguous(t, wd, into)
<1>1. Copy(t, wd, source, target).tree =
          IF refused THEN t ELSE CreateFile(t, path, t[from].text)
    BY DEF Copy, Refuse, Says
<1>2. CASE refused
    BY <1>1, <1>2, Unchanged
<1>3. CASE ~refused
    <2>1. from \in DOMAIN t /\ TypeOf(t, from) = "file" /\ MayWrite(path)
        BY <1>3, TypedIsThere
    <2>2. from \in Paths /\ from # Root /\ t[from].text \in Seq(Words)
        BY <2>1, TreeNodes DEF IsTree, Nodes
    <2>3. Last(from) \in Names
        BY <2>2, PathParts DEF Root
    <2>4. into \in TypedPaths
        <3>1. CASE TypeOf(t, to) = "dir"
            <4>1. to \in Paths
                BY <3>1, TypedIsThere, TreeNodes
            <4> HIDE DEF to, from
            <4>2. Append(to, Last(from)) \in Paths
                BY <2>3, <4>1, LongerPath
            <4>3. QED
                BY <3>1, <4>2 DEF Typed, TypedPaths, Paths
        <3>2. CASE TypeOf(t, to) # "dir"
            BY <3>2
        <3>3. QED
            BY <3>1, <3>2
    <2> HIDE DEF from, into
    <2>5. AsAsked(t, CreateFile(t, path, t[from].text), cmd, named, source)
        BY <2>1, <2>2, <2>4, CreateFileAsked
    <2>6. QED
        BY <1>1, <1>3, <2>5
<1>4. QED
    BY <1>2, <1>3

\* rm takes the file that it names.
LEMMA RemoveAsked ==
    ASSUME NEW t, IsTree(t), NEW wd, TypeOf(t, wd) = "dir", NEW raw \in TypedPaths,
           NEW cmd, cmd.name = "rm"
    PROVE  AsAsked(t, RemoveFile(t, wd, raw).tree, cmd, Resolve(t, wd, raw), raw)
<1> DEFINE node == Resolve(t, wd, raw)
           r == [p \in DOMAIN t \ {node} |-> t[p]]
<1>1. CASE TypeOf(t, node) # "file" \/ ~MayWrite(node)
    BY <1>1, Unchanged DEF RemoveFile, Refuse
<1>2. CASE TypeOf(t, node) = "file" /\ MayWrite(node)
    <2>1. RemoveFile(t, wd, raw).tree = r
        BY <1>2 DEF RemoveFile, Says
    <2> HIDE DEF node
    <2>2. IsTree(r) /\ \A p \in DOMAIN t : TypeOf(t, p) = "dir" => TypeOf(r, p) = "dir"
        BY <1>2, WithoutFile
    <2>3. DOMAIN r = DOMAIN t \ {node} /\ \A p \in DOMAIN r : r[p] = t[p]
        OBVIOUS
    <2> HIDE DEF r
    <2>4. AsAsked(t, r, cmd, node, raw)
        BY <2>2, <2>3 DEF AsAsked
    <2>5. QED
        BY <2>1, <2>4 DEF node
<1>3. QED
    BY <1>1, <1>2

\* A text with one more word begins as it was.
LEMMA LongerText ==
    ASSUME NEW text \in Seq(Words), NEW word \in Words
    PROVE  Append(text, word) \in Seq(Words) /\ IsPrefix(text, Append(text, word))
<1> DEFINE n == Len(text)
           u == Append(text, word)
           f == SubSeq(text, 1, n)
           h == SubSeq(u, 1, n)
<1>1. /\ u \in Seq(Words) /\ Len(u) = n + 1 /\ n \in Nat
      /\ \A i \in 1..n : u[i] = text[i]
    BY AppendProperties
<1> HIDE DEF u
<1>2. /\ n \in Int /\ 1 \in Int
      /\ (\A i \in 1..n : u[i] \in Words) /\ (\A i \in 1..n : text[i] \in Words)
    BY <1>1
<1>3. /\ f \in Seq(Words)
      /\ Len(f) = IF 1 <= n THEN n - 1 + 1 ELSE 0
      /\ \A i \in 1..(n - 1 + 1) : f[i] = text[1 + i - 1]
    BY <1>1, <1>2, SubSeqProperties
<1>4. /\ h \in Seq(Words)
      /\ Len(h) = IF 1 <= n THEN n - 1 + 1 ELSE 0
      /\ \A i \in 1..(n - 1 + 1) : h[i] = u[1 + i - 1]
    BY <1>1, <1>2, SubSeqProperties
<1>5. IsPrefix(text, u) <=> n <= Len(u) /\ f = h
    BY DEF IsPrefix
<1> HIDE DEF f, h
<1>6. \A i \in 1..n : f[i] = h[i]
    BY <1>1, <1>3, <1>4
<1>7. f = h
    BY <1>1, <1>3, <1>4, <1>6, SeqEqual
<1>8. QED
    BY <1>1, <1>5, <1>7 DEF u

\* A redirect of echo: only >> and >| change a text, and >> keeps it.
LEMMA RedirectAsked ==
    ASSUME NEW t, IsTree(t), NEW wd, TypeOf(t, wd) = "dir", NEW raw \in TypedPaths,
           NEW cmd, cmd.name = "echo", cmd.op \in {">", ">>", ">|"}, cmd.text \in Words
    PROVE  AsAsked(t, Redirect(t, wd, raw, cmd.op, cmd.text).tree, cmd, Resolve(t, wd, raw), raw)
<1> DEFINE named == Resolve(t, wd, raw)
           path == WriteTarget(t, wd, raw)
           old == IF path \in DOMAIN t THEN t[path].text ELSE <<>>
           refused == TypeOf(t, named) = "dir" \/ ~MayWrite(path) \/ Ambiguous(t, wd, raw)
                      \/ (cmd.op = ">" /\ path \in DOMAIN t)
           text == IF cmd.op = ">>" THEN Append(old, cmd.text) ELSE <<cmd.text>>
           r == With(t, path, File(text))
<1>1. Redirect(t, wd, raw, cmd.op, cmd.text).tree = IF refused THEN t ELSE r
    BY DEF Redirect, Refuse, Says
<1>2. CASE refused
    BY <1>1, <1>2, Unchanged
<1>3. CASE ~refused
    <2>1. /\ path # Nowhere /\ IsUnder(path, Workspace) /\ TypeOf(t, named) # "dir"
          /\ ~(cmd.op = ">" /\ path \in DOMAIN t)
        BY <1>3 DEF MayWrite
    <2>2. \/ path \in DOMAIN t /\ path = named
          \/ /\ path \in Paths /\ path # Root /\ path \notin DOMAIN t
             /\ TypeOf(t, Front(path)) = "dir" /\ Last(path) \notin Dots
        BY <2>1, WriteTargetFits
    <2>3. old \in Seq(Words)
        BY TreeNodes DEF Nodes
    <2>4. text \in Seq(Words) /\ (cmd.op = ">>" => IsPrefix(old, text))
        <3> DEFINE word == cmd.text
        <3> HIDE DEF old, word
        <3>1. word \in Words
            BY DEF word
        <3>2. Append(old, word) \in Seq(Words) /\ IsPrefix(old, Append(old, word))
            BY <2>3, <3>1, LongerText
        <3>3. <<word>> \in Seq(Words)
            BY <3>1
        <3>4. text = IF cmd.op = ">>" THEN Append(old, word) ELSE <<word>>
            BY DEF word
        <3> HIDE DEF text
        <3>5. CASE cmd.op = ">>"
            BY <3>2, <3>4, <3>5
        <3>6. CASE cmd.op # ">>"
            BY <3>3, <3>4, <3>6
        <3>7. QED
            BY <3>5, <3>6
    <2>5. File(text) \in Nodes /\ File(text).type = "file" /\ File(text).text = text
        BY <2>4 DEF File, Nodes
    <2>6. CASE path \notin DOMAIN t
        <3> HIDE DEF path, text
        <3>1. AsAsked(t, r, cmd, named, raw)
            BY <2>1, <2>2, <2>5, <2>6, NewIsAsked
        <3>2. QED
            BY <1>1, <1>3, <3>1
    <2>7. CASE path \in DOMAIN t
        <3> HIDE DEF named
        <3>1. path = named /\ path \in Paths /\ TypeOf(t, path) = "file" /\ path # Root
            BY <2>1, <2>2, <2>7, TreeNodes DEF IsTree
        <3>2. old = t[path].text /\ t[path].type = "file"
            BY <2>7, <3>1, TreeNodes
        <3> HIDE DEF path, text, old
        <3>3. /\ IsTree(r) /\ DOMAIN r = DOMAIN t \cup {path}
              /\ \A p \in DOMAIN t : p # path => r[p] = t[p]
              /\ r[path] = File(text)
            BY <2>5, <3>1, WithTree
        <3> HIDE DEF r
        <3>4. \A p \in DOMAIN t : TypeOf(t, p) = "dir" => TypeOf(r, p) = "dir"
            BY <3>1, <3>3 DEF TypeOf
        <3>5. cmd.op # ">" /\ (cmd.op = ">>" => IsPrefix(t[path].text, r[path].text))
            BY <2>1, <2>4, <2>5, <2>7, <3>2, <3>3
        <3>6. DOMAIN r = DOMAIN t
            BY <2>7, <3>3
        <3>7. AsAsked(t, r, cmd, named, raw)
            BY <3>1, <3>2, <3>3, <3>4, <3>5, <3>6 DEF AsAsked
        <3>8. QED
            BY <1>1, <1>3, <3>7 DEF named
    <2>8. QED
        BY <2>6, <2>7
<1>4. QED
    BY <1>2, <1>3

-----------------------------------------------------------------------------
(* mkdir -p.                                                               *)

\* What was there is there as it was.
Grown(t, r) == \A p \in DOMAIN t : p \in DOMAIN r /\ r[p] = t[p]
TreeSet == {r \in UNION {[S -> Nodes] : S \in SUBSET Paths} : IsTree(r)}
Makings(t) ==
    {m \in [ok : BOOLEAN, at : Paths, tree : TreeSet] :
        Grown(t, m.tree) /\ (m.ok => TypeOf(m.tree, m.at) = "dir")}
Made(g, parts) == FoldLeft(MakePart, g, parts)

\* The set of all trees.
LEMMA TreesAreTrees ==
    ASSUME NEW r
    PROVE  r \in TreeSet <=> IsTree(r)
<1>1. ASSUME IsTree(r) PROVE r \in [DOMAIN r -> Nodes] /\ DOMAIN r \in SUBSET Paths
    BY <1>1 DEF IsTree
<1>2. QED
    BY <1>1 DEF TreeSet

\* One part of mkdir -p leaves a tree, and stands in a directory of it.
LEMMA MakePartTyped ==
    ASSUME NEW t, NEW m \in Makings(t), NEW part \in Names
    PROVE  MakePart(m, part) \in Makings(t)
<1> DEFINE next == Append(m.at, part)
<1>1. /\ m = [ok |-> m.ok, at |-> m.at, tree |-> m.tree] /\ m.ok \in BOOLEAN /\ m.at \in Paths
      /\ IsTree(m.tree) /\ Grown(t, m.tree) /\ (m.ok => TypeOf(m.tree, m.at) = "dir")
    BY TreesAreTrees DEF Makings
<1>2. next \in Paths /\ next # Root /\ Front(next) = m.at /\ Last(next) = part
    BY <1>1, LongerPath DEF Root
<1>3. ASSUME NEW ok \in BOOLEAN, NEW at \in Paths, NEW r, IsTree(r), Grown(t, r),
             ok => TypeOf(r, at) = "dir"
      PROVE  [ok |-> ok, at |-> at, tree |-> r] \in Makings(t)
    BY <1>3, TreesAreTrees DEF Makings
<1>4. CASE ~m.ok \/ part = "."
    BY <1>4 DEF MakePart
<1>5. CASE m.ok /\ part = ".."
    <2> DEFINE up == IF m.at = Root THEN Root ELSE Front(m.at)
    <2>1. MakePart(m, part) = [ok |-> m.ok, at |-> up, tree |-> m.tree]
        BY <1>1, <1>5 DEF MakePart
    <2>2. up \in Paths /\ TypeOf(m.tree, up) = "dir"
        <3>1. m.at \in DOMAIN m.tree
            BY <1>1, <1>5, TypedIsThere
        <3>2. TypeOf(m.tree, Root) = "dir" /\ Root \in Paths
            BY <1>1, FixedPaths DEF IsTree
        <3>3. m.at # Root => Front(m.at) \in DOMAIN m.tree /\ TypeOf(m.tree, Front(m.at)) = "dir"
            BY <1>1, <3>1, TreeNodes
        <3>4. QED
            BY <1>1, <3>2, <3>3, TreeNodes
    <2> HIDE DEF up
    <2>3. QED
        BY <1>1, <1>3, <2>1, <2>2
<1>6. CASE m.ok /\ part # "." /\ part # ".."
    <2> DEFINE type == TypeOf(m.tree, next)
               r == IF type = "none" THEN With(m.tree, next, Dir) ELSE m.tree
    <2>1. MakePart(m, part) = [ok |-> type # "file", at |-> next, tree |-> r]
        BY <1>6 DEF MakePart
    <2> HIDE DEF next
    <2>2. IsTree(r) /\ Grown(t, r) /\ (type # "file" => TypeOf(r, next) = "dir")
        <3>1. CASE type = "none"
            <4> DEFINE w == With(m.tree, next, Dir)
            <4>1. next \notin DOMAIN m.tree
                BY <1>1, <3>1, TreeNodes
            <4>2. Dir \in Nodes /\ Dir.type = "dir"
                BY DEF Dir, Nodes
            <4>3. part \notin Dots
                BY <1>6 DEF Dots
            <4>4. /\ IsTree(m.tree) /\ TypeOf(m.tree, Front(next)) = "dir"
                  /\ Last(next) \notin Dots
                BY <1>1, <1>2, <1>6, <4>3
            <4>5. /\ IsTree(w) /\ DOMAIN w = DOMAIN m.tree \cup {next}
                  /\ \A q \in DOMAIN m.tree : q # next => w[q] = m.tree[q]
                  /\ w[next] = Dir
                BY <1>2, <4>1, <4>2, <4>4, WithTree
            <4> HIDE DEF w
            <4>6. Grown(t, w) /\ TypeOf(w, next) = "dir"
                BY <1>1, <4>1, <4>2, <4>5 DEF Grown, TypeOf
            <4>7. r = w
                BY <3>1 DEF w
            <4>8. QED
                BY <4>5, <4>6, <4>7
        <3>2. CASE type # "none"
            <4>1. r = m.tree /\ next \in DOMAIN m.tree
                BY <3>2, TypedIsThere
            <4>2. type \in {"dir", "file"}
                BY <1>1, <4>1, TreeNodes
            <4>3. QED
                BY <1>1, <4>1, <4>2
        <3>3. QED
            BY <3>1, <3>2
    <2>3. (type # "file") \in BOOLEAN
        OBVIOUS
    <2> HIDE DEF type, r
    <2>4. QED
        BY <1>2, <1>3, <2>1, <2>2, <2>3 DEF next
<1>7. QED
    BY <1>4, <1>5, <1>6

\* The directories of mkdir -p, part by part.
LEMMA MakeFold ==
    ASSUME NEW t, NEW g \in Makings(t), NEW s \in Seq(Names)
    PROVE  /\ Made(g, s) \in Makings(t)
           /\ Made(g, <<>>) = g
           /\ \A x \in Names : Made(g, Append(s, x)) = MakePart(Made(g, s), x)
<1> DEFINE Folds(f, u) == f = [P \in SUBSET DOMAIN u |->
                                 IF P = {} THEN g ELSE MakePart(f[P \ {Max(P)}], u[Max(P)])]
           F(u) == CHOOSE f : Folds(f, u)
           Acc == Makings(t)
           step == [x \in Acc \X Names |-> MakePart(x[1], x[2])]
<1>1. \A u : Made(g, u) = F(u)[DOMAIN u]
    BY DEF FoldLeft, MapThenFoldSet, Made
<1>2. step \in [Acc \X Names -> Acc] /\ g \in Acc
    BY MakePartTyped
<1>3. \A a \in Acc, x \in Names : step[<<a, x>>] = MakePart(a, x)
    OBVIOUS
<1> HIDE DEF step, Acc
<1>4. ASSUME NEW u \in Seq(Names) PROVE Folds(F(u), u)
    <2>1. PICK f \in [SUBSET DOMAIN u -> Acc] : \A P \in SUBSET DOMAIN u :
              f[P] = IF P = {} THEN g ELSE step[<<f[P \ {Max(P)}], u[Max(P)]>>]
        <3>1. CanFold(u, g, step, Acc, Names)
            BY <1>2 DEF CanFold
        <3>2. PICK f : IsFold(f, u, g, step, Acc)
            BY <3>1, FoldOfSteps
        <3>3. QED
            BY <3>2 DEF IsFold
    <2>2. ASSUME NEW P \in SUBSET DOMAIN u, P # {}
          PROVE  f[P] = MakePart(f[P \ {Max(P)}], u[Max(P)])
        <3>1. Len(u) \in Nat /\ DOMAIN u = 1..Len(u)
            OBVIOUS
        <3>2. Max(P) \in 1..Len(u)
            BY <2>2, <3>1, LastPosition
        <3>3. u[Max(P)] \in Names /\ f[P \ {Max(P)}] \in Acc
            BY <2>1, <3>1, <3>2
        <3>4. QED
            BY <1>3, <2>1, <2>2, <3>3
    <2>3. f = [P \in SUBSET DOMAIN u |->
                 IF P = {} THEN g ELSE MakePart(f[P \ {Max(P)}], u[Max(P)])]
        BY <2>1, <2>2
    <2>4. Folds(f, u)
        BY <2>3
    <2> HIDE DEF Folds
    <2>5. QED
        BY <2>4
<1>5. ASSUME NEW u \in Seq(Names) PROVE FoldedBy(F(u), u, g, step, Acc, Names)
    <2>1. Folds(F(u), u)
        BY <1>4
    <2> HIDE DEF F
    <2>2. F(u)[{}] = g
        BY <2>1
    <2>3. ASSUME NEW P \in SUBSET DOMAIN u, P # {}, F(u)[P \ {Max(P)}] \in Acc
          PROVE  F(u)[P] = step[<<F(u)[P \ {Max(P)}], u[Max(P)]>>]
        <3>1. Len(u) \in Nat /\ DOMAIN u = 1..Len(u)
            OBVIOUS
        <3>2. Max(P) \in 1..Len(u)
            BY <2>3, <3>1, LastPosition
        <3>3. u[Max(P)] \in Names
            BY <3>1, <3>2
        <3>4. F(u)[P] = MakePart(F(u)[P \ {Max(P)}], u[Max(P)])
            BY <2>1, <2>3
        <3>5. QED
            BY <1>3, <2>3, <3>3, <3>4
    <2>4. QED
        BY <1>2, <2>2, <2>3 DEF FoldedBy
<1> HIDE DEF F
<1>6. Made(g, <<>>) = g
    <2>1. <<>> \in Seq(Names) /\ DOMAIN <<>> = {}
        OBVIOUS
    <2>2. F(<<>>)[{}] = g
        BY <1>5, <2>1 DEF FoldedBy
    <2>3. QED
        BY <1>1, <2>1, <2>2
<1>7. F(s)[DOMAIN s] \in Acc
    <2>1. Len(s) \in 0..Len(s) /\ DOMAIN s = 1..Len(s)
        OBVIOUS
    <2>2. QED
        BY <1>5, <2>1, FoldUnrolled
<1>8. ASSUME NEW x \in Names PROVE Made(g, Append(s, x)) = MakePart(Made(g, s), x)
    <2> DEFINE u == Append(s, x)
               f == F(s)
               h == F(u)
    <2>1. u \in Seq(Names)
        OBVIOUS
    <2>2. FoldedBy(f, s, g, step, Acc, Names)
        BY <1>5
    <2>3. FoldedBy(h, u, g, step, Acc, Names)
        BY <1>5, <2>1
    <2>4. Longer(u, s, x, Names)
        BY DEF Longer
    <2>5. Made(g, u) = h[DOMAIN u] /\ Made(g, s) = f[DOMAIN s]
        BY <1>1
    <2>6. f[DOMAIN s] \in Acc
        BY <1>7
    <2> HIDE DEF u, f, h
    <2>7. h[DOMAIN u] = step[<<f[DOMAIN s], x>>]
        BY <2>2, <2>3, <2>4, FoldAppended
    <2>8. Made(g, u) = MakePart(Made(g, s), x)
        BY <1>3, <2>5, <2>6, <2>7
    <2>9. QED
        BY <2>8 DEF u
<1>9. QED
    BY <1>1, <1>6, <1>7, <1>8 DEF Acc

\* Where the parts of a path lead that does not climb, from a directory of the
\* workspace or from the root into it: what is made on the way is in the workspace.
StaysIn(t, m) ==
    /\ \A p \in DOMAIN m.tree \ DOMAIN t : IsUnder(p, Workspace)
    /\ m.ok => IsUnder(m.at, Workspace)

\* One part more stays in the workspace, or enters it.
LEMMA MakePartStays ==
    ASSUME NEW t, NEW m \in Makings(t), NEW part \in Names, part # "..",
           \A p \in DOMAIN m.tree \ DOMAIN t : IsUnder(p, Workspace),
           m.ok => IsUnder(m.at, Workspace) \/ (m.at = Root /\ part = "ws")
    PROVE  StaysIn(t, MakePart(m, part))
<1> DEFINE next == Append(m.at, part)
<1>1. m.at \in Paths
    BY DEF Makings
<1>2. CASE ~m.ok
    BY <1>2 DEF MakePart, StaysIn
<1>3. CASE m.ok /\ part = "."
    <2>1. MakePart(m, part) = m
        BY <1>3 DEF MakePart
    <2>2. part # "ws"
        BY <1>3
    <2>3. QED
        BY <1>3, <2>1, <2>2 DEF StaysIn
<1>4. CASE m.ok /\ part # "."
    <2>1. IsUnder(next, Workspace)
        BY <1>1, <1>4, UnderWorkspace
    <2>2. MakePart(m, part) =
              [ok |-> TypeOf(m.tree, next) # "file", at |-> next,
               tree |-> IF TypeOf(m.tree, next) = "none" THEN With(m.tree, next, Dir) ELSE m.tree]
        BY <1>4 DEF MakePart
    <2> HIDE DEF next
    <2>3. DOMAIN With(m.tree, next, Dir) = DOMAIN m.tree \cup {next}
        BY DEF With
    <2>4. /\ DOMAIN MakePart(m, part).tree \subseteq DOMAIN m.tree \cup {next}
          /\ MakePart(m, part).at = next
        BY <2>2, <2>3
    <2>5. QED
        BY <2>1, <2>4 DEF StaysIn
<1>5. QED
    BY <1>2, <1>3, <1>4

\* All parts of a path that does not climb.
LEMMA MadeStays ==
    ASSUME NEW t, IsTree(t), NEW base, TypeOf(t, base) = "dir", NEW s \in Seq(Names),
           ".." \notin ToSet(s), s # <<>>,
           IsUnder(base, Workspace) \/ (base = Root /\ s[1] = "ws")
    PROVE  LET g == [ok |-> TRUE, at |-> base, tree |-> t]
           IN g \in Makings(t) /\ StaysIn(t, Made(g, s))
<1> DEFINE g == [ok |-> TRUE, at |-> base, tree |-> t]
           Good(u) == /\ ".." \notin ToSet(u)
                      /\ u # <<>>
                      /\ IsUnder(base, Workspace) \/ (base = Root /\ u[1] = "ws")
           T == {u \in Seq(Names) : Good(u) => StaysIn(t, Made(g, u))}
<1>1. g \in Makings(t)
    <2>1. base \in Paths
        BY TypedIsThere, TreeNodes
    <2>2. QED
        BY <2>1, TreesAreTrees DEF Makings, Grown
<1>2. \A u \in Seq(Names) : Made(g, u) \in Makings(t) /\ Made(g, <<>>) = g
    BY <1>1, MakeFold
<1> HIDE DEF T, Good
<1>3. <<>> \in T
    BY DEF T, Good
<1>4. ASSUME NEW u \in T, NEW x \in Names PROVE Append(u, x) \in T
    <2>1. u \in Seq(Names) /\ Append(u, x) \in Seq(Names)
        BY DEF T
    <2>2. SUFFICES ASSUME Good(Append(u, x)) PROVE StaysIn(t, Made(g, Append(u, x)))
        BY <2>1 DEF T
    <2>3. /\ Len(u) \in Nat /\ Len(Append(u, x)) = Len(u) + 1
          /\ \A i \in 1..Len(u) : Append(u, x)[i] = u[i]
          /\ Append(u, x)[Len(u) + 1] = x
          /\ DOMAIN u = 1..Len(u) /\ DOMAIN Append(u, x) = 1..(Len(u) + 1)
        BY <2>1, AppendProperties
    <2>4. x # ".." /\ ".." \notin ToSet(u)
        <3>1. \A i \in 1..(Len(u) + 1) : Append(u, x)[i] # ".."
            BY <2>2, <2>3 DEF Good, ToSet
        <3>2. \A i \in 1..Len(u) : u[i] # ".."
            BY <2>3, <3>1
        <3>3. x # ".."
            BY <2>3, <3>1
        <3>4. QED
            BY <2>3, <3>2, <3>3 DEF ToSet
    <2>5. Made(g, u) \in Makings(t) /\ Made(g, Append(u, x)) = MakePart(Made(g, u), x)
        BY <1>1, <2>1, MakeFold
    <2>6. CASE u = <<>>
        <3>1. Made(g, u) = g /\ g.tree = t /\ g.ok /\ g.at = base
            BY <1>2, <2>1, <2>6
        <3>2. Append(u, x)[1] = x
            BY <2>3, <2>6
        <3>3. IsUnder(base, Workspace) \/ (base = Root /\ x = "ws")
            BY <2>2, <3>2 DEF Good
        <3> HIDE DEF g
        <3>4. StaysIn(t, MakePart(g, x))
            BY <1>1, <2>4, <3>1, <3>3, MakePartStays
        <3>5. QED
            BY <2>5, <3>1, <3>4
    <2>7. CASE u # <<>>
        <3>1. 1 \in 1..Len(u)
            BY <2>1, <2>7
        <3>2. Append(u, x)[1] = u[1]
            BY <2>3, <3>1
        <3>3. Good(u)
            BY <2>2, <2>4, <2>7, <3>2 DEF Good
        <3>4. StaysIn(t, Made(g, u))
            BY <3>3 DEF T
        <3> HIDE DEF g
        <3>5. StaysIn(t, MakePart(Made(g, u), x))
            BY <2>4, <2>5, <3>4, MakePartStays DEF StaysIn
        <3>6. QED
            BY <2>5, <3>5
    <2>8. QED
        BY <2>6, <2>7
<1>5. T = Seq(Names)
    <2>1. T \in SUBSET Seq(Names)
        BY DEF T
    <2>2. QED
        BY <1>3, <1>4, <2>1, SeqInduction
<1>6. StaysIn(t, Made(g, s))
    BY <1>5 DEF T, Good
<1>7. QED
    BY <1>1, <1>6

\* mkdir -p: the text that is checked begins in the workspace, so its parts do.
LEMMA MkdirParentsAsked ==
    ASSUME NEW t, IsTree(t), NEW wd, TypeOf(t, wd) = "dir", NEW raw \in TypedPaths,
           NEW cmd, cmd.name = "mkdir_p", NEW named
    PROVE  AsAsked(t, MkdirParents(t, wd, raw).tree, cmd, named, raw)
<1> DEFINE base == Start(wd, raw)
           g == [ok |-> TRUE, at |-> base, tree |-> t]
           m == Made(g, raw.parts)
<1>1. /\ wd \in DOMAIN t /\ wd \in Paths /\ raw.parts \in Seq(Names) /\ raw.abs \in BOOLEAN
      /\ TypeOf(t, base) = "dir" /\ base \in Paths
    BY TypedIsThere, TreeNodes, FixedPaths DEF TypedPaths, Start, IsTree
<1>2. g \in Makings(t)
    BY <1>1, TreesAreTrees DEF Makings, Grown
<1>3. MakeParents(t, wd, raw) = m
    BY DEF MakeParents, Made, Start
<1>4. m \in Makings(t)
    BY <1>1, <1>2, MakeFold
<1>5. IsTree(m.tree) /\ Grown(t, m.tree)
    BY <1>4, TreesAreTrees DEF Makings
<1>6. \/ MkdirParents(t, wd, raw).tree = t
      \/ /\ MkdirParents(t, wd, raw).tree = m.tree
         /\ MayWrite(Normalized(wd, raw))
    BY <1>3 DEF MkdirParents, Refuse, Says
<1>7. CASE MkdirParents(t, wd, raw).tree = t
    BY <1>7, Unchanged
<1>8. CASE MkdirParents(t, wd, raw).tree = m.tree /\ MayWrite(Normalized(wd, raw))
    <2>1. ASSUME ~Climbs(raw)
          PROVE  \A p \in DOMAIN m.tree \ DOMAIN t : IsUnder(p, Workspace)
        <3>1. raw.parts \in Paths /\ ".." \notin ToSet(raw.parts)
            BY <1>1, <2>1 DEF Climbs, Paths
        <3>2. Normalized(wd, raw) = IF raw.abs THEN raw.parts ELSE wd \o raw.parts
            BY <1>8 DEF Normalized, MayWrite
        <3>3. CASE raw.parts = <<>>
            <4>1. m = g
                BY <1>1, <1>2, <3>3, MakeFold
            <4>2. m.tree = t
                BY <4>1
            <4>3. QED
                BY <4>2
        <3>4. CASE raw.parts # <<>>
            <4>1. IsUnder(base, Workspace) \/ (base = Root /\ raw.parts[1] = "ws")
                <5>1. CASE raw.abs
                    <6>1. IsUnder(raw.parts, Workspace) /\ base = Root
                        BY <1>8, <3>2, <5>1 DEF MayWrite, Start
                    <6>2. raw.parts[1] = "ws"
                        BY <3>1, <6>1, UnderWorkspace, TreeAssumption
                    <6>3. QED
                        BY <6>1, <6>2
                <5>2. CASE ~raw.abs
                    <6> DEFINE q == wd \o raw.parts
                    <6>1. IsUnder(q, Workspace) /\ base = wd
                        BY <1>8, <3>2, <5>2 DEF MayWrite, Start
                    <6>2. /\ wd \in Seq(Names) /\ raw.parts \in Seq(Names)
                          /\ Len(wd) \in Nat /\ Len(raw.parts) \in Nat \ {0}
                        BY <1>1, <3>4 DEF Paths
                    <6>3. /\ q \in Paths
                          /\ \A i \in 1..(Len(wd) + Len(raw.parts)) :
                                q[i] = IF i <= Len(wd) THEN wd[i] ELSE raw.parts[i - Len(wd)]
                        BY <6>2, ConcatProperties DEF Paths
                    <6> HIDE DEF q
                    <6>4. q[1] = "ws"
                        BY <6>1, <6>3, UnderWorkspace, TreeAssumption
                    <6>5. CASE wd = Root
                        <7>1. Len(wd) = 0 /\ 1 \in 1..(Len(wd) + Len(raw.parts))
                            BY <6>2, <6>5, FixedPaths
                        <7>2. q[1] = raw.parts[1]
                            BY <6>3, <7>1
                        <7>3. QED
                            BY <6>1, <6>4, <6>5, <7>2
                    <6>6. CASE wd # Root
                        <7>1. 1 <= Len(wd)
                            BY <6>2, <6>6 DEF Root
                        <7>2. 1 \in 1..(Len(wd) + Len(raw.parts))
                            BY <6>2, <7>1
                        <7>3. q[1] = wd[1]
                            BY <6>3, <7>1, <7>2
                        <7>4. QED
                            BY <1>1, <6>1, <6>4, <6>6, <7>3, UnderWorkspace, TreeAssumption
                    <6>7. QED
                        BY <6>5, <6>6
                <5>3. QED
                    BY <5>1, <5>2
            <4>2. StaysIn(t, m)
                <5> HIDE DEF base
                <5>1. QED
                    BY <1>1, <3>1, <3>4, <4>1, MadeStays
            <4>3. QED
                BY <4>2 DEF StaysIn
        <3>5. QED
            BY <3>3, <3>4
    <2> HIDE DEF m
    <2>2. \A p \in DOMAIN t : TypeOf(t, p) = "dir" => TypeOf(m.tree, p) = "dir"
        BY <1>5 DEF Grown, TypeOf
    <2>3. \A p \in DOMAIN t \cap DOMAIN m.tree : m.tree[p] = t[p]
        BY <1>5 DEF Grown
    <2>4. DOMAIN t \ DOMAIN m.tree = {}
        BY <1>5 DEF Grown
    <2>5. AsAsked(t, m.tree, cmd, named, raw)
        BY <1>5, <2>1, <2>2, <2>3, <2>4, Zenon DEF AsAsked
    <2>6. QED
        BY <1>8, <2>5
<1>9. QED
    BY <1>6, <1>7, <1>8

-----------------------------------------------------------------------------
(* Where a typed path leads when the tree has changed.                     *)

\* Where a path leads, it leads when there is more.
LEMMA GrownWalks ==
    ASSUME NEW t, IsTree(t), NEW r, IsTree(r), Grown(t, r), NEW at \in DOMAIN t,
           NEW s \in Seq(Names), Walked(t, at, s) # Nowhere
    PROVE  Walked(r, at, s) = Walked(t, at, s)
<1> DEFINE T == {u \in Seq(Names) : Walked(t, at, u) # Nowhere => Walked(r, at, u) = Walked(t, at, u)}
<1>1. at \in Places(t) /\ at \in Places(r)
    BY DEF Places, Grown
<1>2. <<>> \in T
    BY <1>1, WalkFold
<1>3. ASSUME NEW u \in T, NEW x \in Names PROVE Append(u, x) \in T
    <2> DEFINE a == Walked(t, at, u)
    <2>1. u \in Seq(Names) /\ (a # Nowhere => Walked(r, at, u) = a)
        OBVIOUS
    <2>2. Append(u, x) \in Seq(Names)
        BY <2>1
    <2>3. /\ a \in Places(t) /\ Walked(t, at, Append(u, x)) = Walk(t, a, x)
          /\ Walked(r, at, Append(u, x)) = Walk(r, Walked(r, at, u), x)
        BY <1>1, <2>1, WalkFold
    <2> HIDE DEF a
    <2>4. ASSUME Walk(t, a, x) # Nowhere PROVE Walk(r, a, x) = Walk(t, a, x)
        <3>1. CASE x = "." \/ x = ".."
            BY <3>1 DEF Walk
        <3>2. CASE x # "." /\ x # ".."
            <4>1. Append(a, x) \in DOMAIN t
                BY <2>4, <3>2 DEF Walk
            <4>2. Append(a, x) \in DOMAIN r
                BY <4>1 DEF Grown
            <4>3. QED
                BY <3>2, <4>1, <4>2 DEF Walk
        <3>3. QED
            BY <3>1, <3>2
    <2>5. Walk(t, a, x) # Nowhere => a # Nowhere
        BY DEF Walk
    <2>6. Walk(t, a, x) # Nowhere => Walked(r, at, Append(u, x)) = Walked(t, at, Append(u, x))
        BY <2>1, <2>3, <2>4, <2>5 DEF a
    <2>7. QED
        BY <2>2, <2>3, <2>6
<1>4. T = Seq(Names)
    <2>1. T \in SUBSET Seq(Names)
        OBVIOUS
    <2> HIDE DEF T
    <2>2. QED
        BY <1>2, <1>3, <2>1, SeqInduction
<1>5. s \in T
    BY <1>4
<1>6. QED
    BY <1>5

\* With less, a path leads where it led, or nowhere.
LEMMA ShrunkWalks ==
    ASSUME NEW t, IsTree(t), NEW r, IsTree(r), DOMAIN r \subseteq DOMAIN t, NEW at \in DOMAIN r,
           NEW s \in Seq(Names)
    PROVE  Walked(r, at, s) = Nowhere \/ Walked(r, at, s) = Walked(t, at, s)
<1> DEFINE T == {u \in Seq(Names) : Walked(r, at, u) = Nowhere \/ Walked(r, at, u) = Walked(t, at, u)}
<1>1. at \in Places(t) /\ at \in Places(r)
    BY DEF Places
<1>2. <<>> \in T
    BY <1>1, WalkFold
<1>3. ASSUME NEW u \in T, NEW x \in Names PROVE Append(u, x) \in T
    <2> DEFINE a == Walked(r, at, u)
    <2>1. u \in Seq(Names) /\ (a = Nowhere \/ a = Walked(t, at, u))
        OBVIOUS
    <2>2. Append(u, x) \in Seq(Names)
        BY <2>1
    <2>3. /\ Walked(r, at, Append(u, x)) = Walk(r, a, x)
          /\ Walked(t, at, Append(u, x)) = Walk(t, Walked(t, at, u), x)
        BY <1>1, <2>1, WalkFold
    <2> HIDE DEF a
    <2>4. CASE a = Nowhere
        <3>1. Walk(r, a, x) = Nowhere
            BY <2>4 DEF Walk
        <3>2. QED
            BY <2>2, <2>3, <3>1
    <2>5. CASE a # Nowhere
        <3>1. Walk(r, a, x) = Nowhere \/ Walk(r, a, x) = Walk(t, a, x)
            BY DEF Walk
        <3>2. QED
            BY <2>1, <2>2, <2>3, <2>5, <3>1
    <2>6. QED
        BY <2>4, <2>5
<1>4. T = Seq(Names)
    <2>1. T \in SUBSET Seq(Names)
        OBVIOUS
    <2> HIDE DEF T
    <2>2. QED
        BY <1>2, <1>3, <2>1, SeqInduction
<1>5. s \in T
    BY <1>4
<1>6. QED
    BY <1>5

\* The same of paths as they are typed.
LEMMA GrownResolves ==
    ASSUME NEW t, IsTree(t), NEW r, IsTree(r), Grown(t, r), NEW wd \in DOMAIN t,
           NEW raw \in TypedPaths, Resolve(t, wd, raw) # Nowhere
    PROVE  Resolve(r, wd, raw) = Resolve(t, wd, raw)
<1>1. raw.parts \in Seq(Names) /\ raw.abs \in BOOLEAN /\ wd \in DOMAIN r
    BY DEF TypedPaths, Grown
<1>2. CASE raw.parts = <<>>
    BY <1>1, <1>2, Resolves
<1>3. CASE raw.parts # <<>>
    BY <1>1, <1>3, Resolves, GrownWalks
<1>4. QED
    BY <1>2, <1>3

LEMMA ShrunkResolves ==
    ASSUME NEW t, IsTree(t), NEW r, IsTree(r), DOMAIN r \subseteq DOMAIN t, NEW wd \in DOMAIN r,
           NEW raw \in TypedPaths
    PROVE  Resolve(r, wd, raw) = Nowhere \/ Resolve(r, wd, raw) = Resolve(t, wd, raw)
<1>1. raw.parts \in Seq(Names) /\ raw.abs \in BOOLEAN /\ wd \in DOMAIN t
    BY DEF TypedPaths
<1>2. CASE raw.parts = <<>>
    BY <1>1, <1>2, Resolves
<1>3. CASE raw.parts # <<>>
    <2>1. Start(wd, raw) \in DOMAIN r
        BY Resolves
    <2>2. \/ Walked(r, Start(wd, raw), raw.parts) = Nowhere
          \/ Walked(r, Start(wd, raw), raw.parts) = Walked(t, Start(wd, raw), raw.parts)
        BY <1>1, <2>1, ShrunkWalks
    <2>3. QED
        BY <1>1, <1>3, <2>2, Resolves
<1>4. QED
    BY <1>2, <1>3

\* From the root, the names of a node lead to it.
LEMMA OwnWalk ==
    ASSUME NEW t, IsTree(t), NEW p \in DOMAIN t
    PROVE  Walked(t, Root, p) = p
<1> DEFINE T == {u \in Seq(Names) : u \in DOMAIN t => Walked(t, Root, u) = u}
<1>1. Root \in DOMAIN t /\ Root = <<>>
    BY TypedIsThere DEF IsTree, Root
<1>2. Root \in Places(t)
    BY <1>1 DEF Places
<1>3. <<>> \in T
    <2>1. <<>> \in Seq(Names)
        OBVIOUS
    <2>2. Walked(t, Root, <<>>) = Root
        BY <1>2, <2>1, WalkFold
    <2>3. QED
        BY <1>1, <2>1, <2>2
<1>4. ASSUME NEW u \in T, NEW x \in Names PROVE Append(u, x) \in T
    <2> DEFINE v == Append(u, x)
    <2>1. u \in Seq(Names) /\ u \in Paths /\ (u \in DOMAIN t => Walked(t, Root, u) = u)
        BY DEF Paths
    <2>2. v \in Seq(Names) /\ Walked(t, Root, v) = Walk(t, Walked(t, Root, u), x)
        BY <1>2, <2>1, WalkFold
    <2>3. Front(v) = u /\ Last(v) = x /\ v # Root /\ v # Nowhere
        BY <2>1, LongerPath DEF Root
    <2> HIDE DEF v
    <2>4. ASSUME v \in DOMAIN t PROVE Walked(t, Root, v) = v
        <3>1. u \in DOMAIN t /\ x \notin Dots
            BY <2>3, <2>4, TreeNodes
        <3>2. Walked(t, Root, u) = u /\ u # Nowhere
            BY <2>1, <3>1, TreeNodes
        <3>3. x # "." /\ x # ".."
            BY <3>1 DEF Dots
        <3>4. Walk(t, u, x) = v
            BY <2>4, <3>2, <3>3 DEF Walk, v
        <3>5. QED
            BY <2>2, <3>2, <3>4
    <2>5. v \in T
        BY <2>2, <2>4
    <2>6. QED
        BY <2>5 DEF v
<1>5. T = Seq(Names)
    <2>1. T \in SUBSET Seq(Names)
        OBVIOUS
    <2> HIDE DEF T
    <2>2. QED
        BY <1>3, <1>4, <2>1, SeqInduction
<1>6. p \in Seq(Names)
    BY TreeNodes DEF Paths
<1>7. p \in T
    BY <1>5, <1>6
<1>8. QED
    BY <1>7

\* The path of a node, typed from the root, leads to it.
LEMMA OwnPath ==
    ASSUME NEW t, IsTree(t), NEW wd \in DOMAIN t, NEW p \in DOMAIN t
    PROVE  Typed(p) \in TypedPaths /\ Resolve(t, wd, Typed(p)) = p
<1>1. p \in Seq(Names) /\ Walked(t, Root, p) = p
    BY TreeNodes, OwnWalk DEF Paths
<1>2. Typed(p) \in TypedPaths /\ Typed(p).abs /\ Typed(p).parts = p
    BY <1>1 DEF Typed, TypedPaths
<1>3. Start(wd, Typed(p)) = Root
    BY <1>2 DEF Start
<1>4. CASE p = <<>>
    BY <1>2, <1>4, Resolves DEF Root
<1>5. CASE p # <<>>
    BY <1>1, <1>2, <1>3, <1>5, Resolves
<1>6. QED
    BY <1>2, <1>4, <1>5

\* When there is a node at the place for something new, the path leads to it.
LEMMA NewResolves ==
    ASSUME NEW t, IsTree(t), NEW wd, TypeOf(t, wd) = "dir", NEW raw \in TypedPaths,
           Resolve(t, wd, raw) = Nowhere, NEW path, path = NewTarget(t, wd, raw),
           path # Nowhere, NEW r, IsTree(r), Grown(t, r), path \in DOMAIN r
    PROVE  Resolve(r, wd, raw) = path
<1> DEFINE base == Start(wd, raw)
           parent == ParentFor(t, wd, raw)
           front == Front(raw.parts)
           x == Last(raw.parts)
<1>1. /\ raw.parts # <<>> /\ path = Append(parent, x)
      /\ front \in Paths /\ x \in Names /\ raw.parts = Append(front, x)
      /\ base \in DOMAIN t /\ parent = Walked(t, base, front)
      /\ parent \in DOMAIN t
    BY NewTargetParts, TypedIsThere
<1>2. wd \in DOMAIN r
    BY TypedIsThere DEF Grown
<1> HIDE DEF base, parent, front, x
<1>3. front \in Seq(Names) /\ parent # Nowhere /\ base \in DOMAIN r /\ parent \in Paths
    BY <1>1, TreeNodes DEF Paths, Grown
<1>4. Walked(r, base, front) = parent
    BY <1>1, <1>3, GrownWalks
<1>5. Walked(r, base, raw.parts) = Walk(r, parent, x)
    <2>1. base \in Places(r)
        BY <1>3 DEF Places
    <2>2. Walked(r, base, Append(front, x)) = Walk(r, Walked(r, base, front), x)
        BY <1>1, <1>3, <2>1, WalkFold
    <2>3. QED
        BY <1>1, <1>4, <2>2
<1>6. x # "." /\ x # ".."
    <2>1. Last(path) \notin Dots
        BY NewTargetFits
    <2>2. Last(path) = x
        BY <1>1, <1>3, LongerPath
    <2>3. QED
        BY <2>1, <2>2 DEF Dots
<1>7. Walk(r, parent, x) = path
    BY <1>1, <1>3, <1>6 DEF Walk
<1>8. QED
    BY <1>1, <1>2, <1>5, <1>7, Resolves DEF base

\* Where mkdir -p stands when it has made all parts is where the path leads.
LEMMA MadeWalks ==
    ASSUME NEW t, IsTree(t), NEW base, TypeOf(t, base) = "dir", NEW s \in Seq(Names),
           NEW m, m = Made([ok |-> TRUE, at |-> base, tree |-> t], s), m.ok
    PROVE  Walked(m.tree, base, s) = m.at
<1> DEFINE g == [ok |-> TRUE, at |-> base, tree |-> t]
           T == {u \in Seq(Names) :
                    Made(g, u).ok => Walked(Made(g, u).tree, base, u) = Made(g, u).at}
<1>1. base \in DOMAIN t /\ base \in Paths
    BY TypedIsThere, TreeNodes
<1>2. g \in Makings(t) /\ g.at = base /\ g.tree = t
    BY <1>1, TreesAreTrees DEF Makings, Grown
<1>3. m = Made(g, s)
    OBVIOUS
<1> HIDE DEF g
<1>4. \A a : a \in Makings(t) =>
         /\ a = [ok |-> a.ok, at |-> a.at, tree |-> a.tree] /\ a.ok \in BOOLEAN /\ a.at \in Paths
         /\ IsTree(a.tree) /\ Grown(t, a.tree) /\ (a.ok => TypeOf(a.tree, a.at) = "dir")
    BY TreesAreTrees DEF Makings
<1>5. <<>> \in T
    <2>1. <<>> \in Seq(Names) /\ Made(g, <<>>) = g
        BY <1>2, MakeFold
    <2>2. base \in Places(t)
        BY <1>1 DEF Places
    <2>3. Walked(t, base, <<>>) = base
        BY <2>1, <2>2, WalkFold
    <2>4. QED
        BY <1>2, <2>1, <2>3
<1>6. ASSUME NEW u \in T, NEW x \in Names PROVE Append(u, x) \in T
    <2> DEFINE a == Made(g, u)
               b == MakePart(a, x)
    <2>1. u \in Seq(Names) /\ (a.ok => Walked(a.tree, base, u) = a.at)
        OBVIOUS
    <2>2. a \in Makings(t) /\ Made(g, Append(u, x)) = b /\ Append(u, x) \in Seq(Names)
        BY <1>2, <2>1, MakeFold
    <2> HIDE DEF a, T
    <2>3. b \in Makings(t)
        BY <2>2, MakePartTyped
    <2>4. a \in Makings(a.tree)
        BY <1>4, <2>2, TreesAreTrees DEF Makings, Grown
    <2>5. b \in Makings(a.tree)
        BY <2>4, MakePartTyped
    <2>6. Grown(a.tree, b.tree)
        BY <2>5 DEF Makings
    <2>7. b.ok => a.ok
        BY DEF MakePart
    <2> HIDE DEF b
    <2>8. ASSUME b.ok PROVE Walked(b.tree, base, Append(u, x)) = b.at
        <3>1. /\ Walked(a.tree, base, u) = a.at /\ a.at \in Paths /\ a.at # Nowhere
              /\ IsTree(a.tree) /\ IsTree(b.tree) /\ base \in DOMAIN a.tree
              /\ TypeOf(b.tree, b.at) = "dir" /\ b.at # Nowhere
            BY <1>1, <1>4, <2>1, <2>2, <2>3, <2>7, <2>8, FixedPaths DEF Grown
        <3>2. base \in DOMAIN b.tree
            BY <2>6, <3>1 DEF Grown
        <3>3. Walked(b.tree, base, u) = a.at
            BY <2>1, <2>6, <3>1, GrownWalks
        <3>4. Walked(b.tree, base, Append(u, x)) = Walk(b.tree, a.at, x)
            <4>1. base \in Places(b.tree)
                BY <3>2 DEF Places
            <4>2. Walked(b.tree, base, Append(u, x)) = Walk(b.tree, Walked(b.tree, base, u), x)
                BY <2>1, <3>1, <4>1, WalkFold
            <4>3. QED
                BY <3>3, <4>2
        <3>5. Walk(b.tree, a.at, x) = b.at
            <4>1. CASE x = "."
                <5>1. b = a
                    BY <4>1 DEF b, MakePart
                <5>2. QED
                    BY <3>1, <4>1, <5>1 DEF Walk
            <4>2. CASE x = ".."
                <5>1. b.at = IF a.at = Root THEN Root ELSE Front(a.at)
                    <6>1. b = [a EXCEPT !.at = IF @ = Root THEN Root ELSE Front(@)]
                        BY <2>7, <2>8, <4>2 DEF b, MakePart
                    <6>2. a = [ok |-> a.ok, at |-> a.at, tree |-> a.tree]
                        BY <1>4, <2>2
                    <6>3. QED
                        BY <6>1, <6>2
                <5>2. QED
                    BY <3>1, <4>2, <5>1 DEF Walk
            <4>3. CASE x # "." /\ x # ".."
                <5>1. b.at = Append(a.at, x)
                    BY <2>7, <2>8, <4>3 DEF b, MakePart
                <5>2. b.at \in DOMAIN b.tree
                    BY <3>1, TypedIsThere
                <5>3. QED
                    BY <3>1, <4>3, <5>1, <5>2 DEF Walk
            <4>4. QED
                BY <4>1, <4>2, <4>3
        <3>6. QED
            BY <3>4, <3>5
    <2>9. QED
        BY <2>2, <2>8 DEF T
<1>7. T = Seq(Names)
    <2>1. T \in SUBSET Seq(Names)
        OBVIOUS
    <2> HIDE DEF T
    <2>2. QED
        BY <1>5, <1>6, <2>1, SeqInduction
<1>8. s \in T
    BY <1>7
<1>9. QED
    BY <1>3, <1>8

-----------------------------------------------------------------------------
(* Walks.                                                                  *)

\* Defined from one number to the next.
Counted(f, n, base, step) == f[0] = base /\ \A i \in 1..n : f[i] = step[<<f[i - 1], i>>]

\* What is defined so is a function.
LEMMA NumberRecursion ==
    ASSUME NEW Acc, NEW base \in Acc, NEW n \in Nat, NEW step \in [Acc \X (1..n) -> Acc]
    PROVE  \E f \in [0..n -> Acc] : Counted(f, n, base, step)
<1>1. PICK F \in [SUBSET (1..n) -> Acc] : FoldsOver(F, n, base, step)
    BY FoldExists
<1> DEFINE f == [i \in 0..n |-> F[1..i]]
<1>2. f \in [0..n -> Acc]
    <2>1. \A i \in 0..n : 1..i \in SUBSET (1..n)
        OBVIOUS
    <2>2. QED
        BY <2>1
<1>3. f[0] = base
    <2>1. 1..0 = {} /\ {} \in SUBSET (1..n)
        OBVIOUS
    <2>2. F[1..0] = base
        BY <1>1, <2>1 DEF FoldsOver
    <2>3. QED
        BY <2>2
<1>4. ASSUME NEW i \in 1..n PROVE f[i] = step[<<f[i - 1], i>>]
    <2>1. i \in Nat /\ 1..i \in SUBSET (1..n) /\ 1..i # {} /\ i - 1 \in 0..n /\ i \in 0..n
        OBVIOUS
    <2>2. Max(1..i) \in 1..i /\ \A k \in 1..i : k <= Max(1..i)
        BY <2>1, LastPosition
    <2>3. Max(1..i) = i
        BY <2>1, <2>2
    <2>4. (1..i) \ {i} = 1..(i - 1)
        BY <2>1
    <2>5. F[1..i] = step[<<F[(1..i) \ {Max(1..i)}], Max(1..i)>>]
        BY <1>1, <2>1 DEF FoldsOver
    <2>6. F[1..i] = step[<<F[1..(i - 1)], i>>]
        BY <2>3, <2>4, <2>5
    <2>7. QED
        BY <2>1, <2>6
<1>5. Counted(f, n, base, step)
    <2> HIDE DEF f
    <2>1. QED
        BY <1>3, <1>4 DEF Counted
<1>6. QED
    BY <1>2, <1>5

\* One element more.
LEMMA AppendedSet ==
    ASSUME NEW X, NEW S, NEW s \in Seq(X \cap S), NEW x \in X, x \in S
    PROVE  /\ ToSet(Append(s, x)) = ToSet(s) \cup {x}
           /\ x \notin ToSet(s) /\ IsInjective(s) => IsInjective(Append(s, x))
<1> DEFINE u == Append(s, x)
           m == Len(s)
<1>1. /\ m \in Nat /\ DOMAIN s = 1..m /\ DOMAIN u = 1..(m + 1)
      /\ \A i \in 1..m : u[i] = s[i]
      /\ u[m + 1] = x
    BY AppendProperties
<1>2. 1..(m + 1) = (1..m) \cup {m + 1} /\ m + 1 \notin 1..m
    BY <1>1
<1> HIDE DEF u, m
<1>3. ToSet(u) = ToSet(s) \cup {x}
    BY <1>1, <1>2 DEF ToSet
<1>4. ASSUME x \notin ToSet(s), IsInjective(s) PROVE IsInjective(u)
    <2>1. \A i \in 1..m : s[i] # x
        BY <1>1, <1>4 DEF ToSet
    <2>2. \A i, j \in 1..m : s[i] = s[j] => i = j
        BY <1>1, <1>4 DEF IsInjective
    <2>3. ASSUME NEW i \in 1..(m + 1), NEW j \in 1..(m + 1), u[i] = u[j] PROVE i = j
        <3>1. CASE i \in 1..m /\ j \in 1..m
            BY <1>1, <2>2, <2>3, <3>1
        <3>2. CASE i = m + 1 /\ j \in 1..m
            BY <1>1, <2>1, <2>3, <3>2
        <3>3. CASE j = m + 1 /\ i \in 1..m
            BY <1>1, <2>1, <2>3, <3>3
        <3>4. QED
            BY <1>2, <3>1, <3>2, <3>3
    <2>4. QED
        BY <1>1, <2>3 DEF IsInjective
<1>5. QED
    BY <1>3, <1>4 DEF u

\* What Only keeps of the first elements.
Keeps(f, s, S) ==
    /\ f[0] = <<>> /\ Only(s, S) = f[Len(s)]
    /\ \A i \in 1..Len(s) : f[i] = IF s[i] \in S THEN Append(f[i - 1], s[i]) ELSE f[i - 1]

LEMMA OnlyUnrolled ==
    ASSUME NEW X, NEW s \in Seq(X), NEW S
    PROVE  \E f \in [0..Len(s) -> Seq(X \cap S)] : Keeps(f, s, S)
<1> DEFINE Y == Seq(X \cap S)
           n == Len(s)
           Rec(f) == f = [i \in 0..n |-> IF i = 0 THEN <<>>
                                         ELSE IF s[i] \in S THEN Append(f[i - 1], s[i])
                                         ELSE f[i - 1]]
           step == [a \in Y \X (1..n) |-> IF s[a[2]] \in S THEN Append(a[1], s[a[2]]) ELSE a[1]]
<1>1. n \in Nat /\ \A i \in 1..n : s[i] \in X
    OBVIOUS
<1>2. <<>> \in Y
    OBVIOUS
<1>3. step \in [Y \X (1..n) -> Y]
    <2>1. ASSUME NEW q \in Y, NEW i \in 1..n
          PROVE  (IF s[i] \in S THEN Append(q, s[i]) ELSE q) \in Y
        BY <1>1
    <2> HIDE DEF Y, n
    <2>2. QED
        BY <2>1
<1>4. \A q \in Y, i \in 1..n :
          step[<<q, i>>] = IF s[i] \in S THEN Append(q, s[i]) ELSE q
    <2> HIDE DEF Y, n
    <2>1. QED
        OBVIOUS
<1> HIDE DEF Y, step, n
<1>5. PICK f \in [0..n -> Y] : f[0] = <<>> /\ \A i \in 1..n : f[i] = step[<<f[i - 1], i>>]
    <2>1. \E f \in [0..n -> Y] : Counted(f, n, <<>>, step)
        BY <1>1, <1>2, <1>3, NumberRecursion
    <2>2. QED
        BY <2>1 DEF Counted
<1>6. ASSUME NEW i \in 1..n
      PROVE  f[i] = IF s[i] \in S THEN Append(f[i - 1], s[i]) ELSE f[i - 1]
    <2>1. i - 1 \in 0..n
        BY <1>1
    <2>2. QED
        BY <1>4, <1>5, <2>1
<1>7. Rec(f)
    <2>1. \A i \in 0..n : i = 0 \/ i \in 1..n
        BY <1>1
    <2>2. QED
        BY <1>5, <1>6, <2>1
<1> DEFINE only == CHOOSE g : Rec(g)
<1>8. Rec(only)
    <2> HIDE DEF Rec
    <2>1. QED
        BY <1>7
<1>9. Only(s, S) = only[n]
    BY DEF Only, n
<1> HIDE DEF only
<1>10. \A k \in Nat : k <= n => only[k] \in Y
    <2> DEFINE N == {k \in Nat : k <= n => only[k] \in Y}
    <2>1. 0 \in N
        BY <1>1, <1>2, <1>8
    <2>2. ASSUME NEW k \in N PROVE k + 1 \in N
        <3>1. k \in Nat /\ k + 1 # 0 /\ k + 1 - 1 = k
            OBVIOUS
        <3>2. SUFFICES ASSUME k + 1 <= n PROVE only[k + 1] \in Y
            BY <3>1
        <3>3. k \in 0..n /\ k + 1 \in 0..n /\ k + 1 \in 1..n
            BY <1>1, <3>1, <3>2
        <3>4. only[k] \in Y
            BY <1>1, <3>1, <3>2
        <3>5. only[k + 1] = IF s[k + 1] \in S THEN Append(only[k], s[k + 1]) ELSE only[k]
            <4>1. \A i \in 1..n : i \in 0..n /\ i # 0
                BY <1>1
            <4>2. \A i \in 1..n :
                      only[i] = IF s[i] \in S THEN Append(only[i - 1], s[i]) ELSE only[i - 1]
                BY <1>8, <4>1
            <4>3. QED
                BY <3>1, <3>3, <4>2
        <3>6. s[k + 1] \in X
            BY <1>1, <3>3
        <3>7. QED
            BY <3>4, <3>5, <3>6 DEF Y
    <2>3. N \in SUBSET Nat
        OBVIOUS
    <2>4. N = Nat
        <3> HIDE DEF N
        <3>1. QED
            BY <2>1, <2>2, <2>3, NatSetInduction
    <2>5. QED
        BY <2>4
<1>11. only \in [0..n -> Y] /\ only[0] = <<>>
    <2>1. \A i \in 0..n : i \in Nat /\ i <= n
        BY <1>1
    <2>2. \A i \in 0..n : only[i] \in Y
        BY <1>10, <2>1
    <2>3. 0 \in 0..n
        BY <1>1
    <2>4. only = [i \in 0..n |-> only[i]] /\ only[0] = <<>>
        BY <1>8, <2>3
    <2>5. QED
        BY <2>2, <2>4
<1>12. \A i \in 1..n : only[i] = IF s[i] \in S THEN Append(only[i - 1], s[i]) ELSE only[i - 1]
    <2>1. \A i \in 1..n : i \in 0..n /\ i # 0
        BY <1>1
    <2>2. QED
        BY <1>8, <2>1
<1> HIDE DEF Rec
<1>13. Keeps(only, s, S)
    BY <1>9, <1>11, <1>12 DEF n, Keeps
<1>14. QED
    BY <1>11, <1>13 DEF Y, n

\* What Only keeps is in both, and as often.
LEMMA OnlyTyped ==
    ASSUME NEW X, NEW s \in Seq(X), NEW S
    PROVE  /\ Only(s, S) \in Seq(X \cap S)
           /\ ToSet(Only(s, S)) = ToSet(s) \cap S
           /\ IsInjective(s) => IsInjective(Only(s, S))
<1> DEFINE n == Len(s)
           Y == Seq(X \cap S)
           First(k) == {s[i] : i \in 1..k}
<1>1. /\ n \in Nat /\ DOMAIN s = 1..n /\ (\A i \in 1..n : s[i] \in X)
      /\ ToSet(s) = First(n)
    BY DEF ToSet
<1> HIDE DEF n
<1>2. PICK f \in [0..n -> Y] :
         /\ f[0] = <<>> /\ Only(s, S) = f[n]
         /\ \A i \in 1..n : f[i] = IF s[i] \in S THEN Append(f[i - 1], s[i]) ELSE f[i - 1]
    <2>1. PICK f \in [0..n -> Y] : Keeps(f, s, S)
        BY OnlyUnrolled DEF n
    <2>2. QED
        BY <2>1 DEF Keeps, n
<1> DEFINE N == {k \in Nat : k <= n => /\ ToSet(f[k]) = First(k) \cap S
                                       /\ IsInjective(s) => IsInjective(f[k])}
<1>3. 0 \in N
    <2>1. DOMAIN <<>> = {} /\ First(0) = {}
        OBVIOUS
    <2>2. ToSet(f[0]) = {} /\ IsInjective(f[0])
        BY <1>2, <2>1 DEF ToSet, IsInjective
    <2>3. QED
        BY <2>1, <2>2
<1>4. ASSUME NEW k \in N PROVE k + 1 \in N
    <2>1. k \in Nat
        OBVIOUS
    <2>2. SUFFICES ASSUME k + 1 <= n
                   PROVE  /\ ToSet(f[k + 1]) = First(k + 1) \cap S
                          /\ IsInjective(s) => IsInjective(f[k + 1])
        BY <2>1
    <2> DEFINE j == k + 1
               x == s[j]
    <2>3. k <= n /\ k \in 0..n /\ j \in 1..n /\ j - 1 = k /\ j \in 0..n
        BY <1>1, <2>1, <2>2
    <2>4. ToSet(f[k]) = First(k) \cap S /\ (IsInjective(s) => IsInjective(f[k]))
        BY <2>3
    <2>5. First(j) = First(k) \cup {x}
        <3>1. 1..j = (1..k) \cup {j}
            BY <2>1
        <3>2. QED
            BY <3>1
    <2>6. IsInjective(s) => x \notin First(k)
        <3>1. \A i \in 1..k : i \in 1..n /\ i # j
            BY <1>1, <2>1, <2>3
        <3>2. QED
            BY <1>1, <2>3, <3>1 DEF IsInjective
    <2> HIDE DEF First, N, j
    <2>7. f[j] = IF x \in S THEN Append(f[k], x) ELSE f[k]
        BY <1>2, <2>3
    <2>8. f[k] \in Y /\ x \in X
        BY <1>1, <1>2, <2>3
    <2> HIDE DEF x
    <2>9. CASE x \notin S
        BY <2>4, <2>5, <2>6, <2>7, <2>9 DEF j
    <2>10. CASE x \in S
        <3>1. ToSet(Append(f[k], x)) = ToSet(f[k]) \cup {x}
            BY <2>8, <2>10, AppendedSet
        <3>2. x \notin ToSet(f[k]) /\ IsInjective(f[k]) => IsInjective(Append(f[k], x))
            BY <2>8, <2>10, AppendedSet
        <3>3. QED
            BY <2>4, <2>5, <2>6, <2>7, <2>10, <3>1, <3>2 DEF j
    <2>11. QED
        BY <2>9, <2>10
<1>5. N \in SUBSET Nat
    OBVIOUS
<1>6. N = Nat
    <2> HIDE DEF N
    <2>1. QED
        BY <1>3, <1>4, <1>5, NatSetInduction
<1>7. n \in N
    BY <1>1, <1>6
<1>8. ToSet(f[n]) = First(n) \cap S /\ (IsInjective(s) => IsInjective(f[n]))
    BY <1>1, <1>7
<1>9. f[n] \in Y
    BY <1>1, <1>2
<1> HIDE DEF First
<1>10. QED
    BY <1>1, <1>2, <1>8, <1>9

\* The first of some sequences, put together.
Flattens(f, s) ==
    /\ f[0] = <<>> /\ FlattenSeq(s) = f[Len(s)]
    /\ \A i \in 1..Len(s) : f[i] = f[i - 1] \o s[i]

LEMMA FlattenUnrolled ==
    ASSUME NEW X, NEW s \in Seq(Seq(X))
    PROVE  \E f \in [0..Len(s) -> Seq(X)] : Flattens(f, s)
<1> DEFINE Y == Seq(X)
           n == Len(s)
           Rec(f) == f = [i \in 1..n |-> IF i = 1 THEN s[i] ELSE f[i - 1] \o s[i]]
           step == [a \in Y \X (1..n) |-> a[1] \o s[a[2]]]
<1>1. n \in Nat /\ \A i \in 1..n : s[i] \in Y
    OBVIOUS
<1>2. <<>> \in Y /\ \A q, r \in Y : q \o r \in Y /\ <<>> \o r = r
    BY ConcatProperties, ConcatEmptySeq
<1>3. CASE n = 0
    <2>1. s = <<>>
        BY <1>3
    <2>2. FlattenSeq(s) = s
        BY <1>3 DEF FlattenSeq
    <2> DEFINE h == [i \in 0..n |-> <<>>]
    <2>3. \A i \in 1..n : FALSE
        BY <1>3
    <2>4. 0 \in 0..n
        BY <1>1
    <2>5. h[0] = <<>> /\ h[n] = <<>> /\ h \in [0..n -> Y]
        BY <1>2, <1>3, <2>4
    <2> HIDE DEF h
    <2>6. Flattens(h, s)
        BY <2>1, <2>2, <2>3, <2>5 DEF Flattens
    <2>7. QED
        BY <2>5, <2>6
<1>4. CASE n # 0
    <2>1. FlattenSeq(s) = (CHOOSE g : Rec(g))[n]
        BY <1>4 DEF FlattenSeq
    <2> HIDE DEF Y, n
    <2>2. step \in [Y \X (1..n) -> Y]
        BY <1>1, <1>2
    <2>3. \A q \in Y, i \in 1..n : step[<<q, i>>] = q \o s[i]
        OBVIOUS
    <2> HIDE DEF step
    <2>4. PICK f \in [0..n -> Y] : f[0] = <<>> /\ \A i \in 1..n : f[i] = step[<<f[i - 1], i>>]
        <3>1. \E f \in [0..n -> Y] : Counted(f, n, <<>>, step)
            BY <1>1, <1>2, <2>2, NumberRecursion
        <3>2. QED
            BY <3>1 DEF Counted
    <2>5. ASSUME NEW i \in 1..n
          PROVE  f[i] = IF i = 1 THEN s[i] ELSE f[i - 1] \o s[i]
        <3>1. i - 1 \in 0..n
            BY <1>1
        <3>2. f[i] = f[i - 1] \o s[i]
            BY <2>3, <2>4, <3>1
        <3>3. i = 1 => f[i - 1] = <<>>
            BY <2>4
        <3>4. s[i] \in Y
            BY <1>1
        <3>5. QED
            BY <1>2, <3>2, <3>3, <3>4
    <2> DEFINE h == [i \in 1..n |-> f[i]]
    <2>6. Rec(h)
        <3>1. ASSUME NEW i \in 1..n
              PROVE  h[i] = IF i = 1 THEN s[i] ELSE h[i - 1] \o s[i]
            <4>1. i # 1 => i - 1 \in 1..n
                BY <1>1
            <4>2. QED
                BY <2>5, <4>1
        <3>2. h = [i \in 1..n |-> h[i]]
            OBVIOUS
        <3> HIDE DEF h
        <3>3. QED
            BY <3>1, <3>2
    <2> DEFINE flat == CHOOSE g : Rec(g)
    <2>7. Rec(flat)
        <3> HIDE DEF Rec, h
        <3>1. QED
            BY <2>6
    <2> HIDE DEF flat
    <2>8. \A k \in Nat : k + 1 <= n => flat[k + 1] \in Y
        <3> DEFINE N == {k \in Nat : k + 1 <= n => flat[k + 1] \in Y}
        <3>1. 0 \in N
            <4>1. SUFFICES ASSUME 1 <= n PROVE flat[1] \in Y
                OBVIOUS
            <4>2. 1 \in 1..n
                BY <1>1, <4>1
            <4>3. flat[1] = s[1]
                BY <2>7, <4>2
            <4>4. QED
                BY <1>1, <4>2, <4>3
        <3>2. ASSUME NEW k \in N PROVE k + 1 \in N
            <4>1. k \in Nat /\ k + 1 + 1 # 1 /\ k + 1 + 1 - 1 = k + 1
                OBVIOUS
            <4>2. SUFFICES ASSUME k + 1 + 1 <= n PROVE flat[k + 1 + 1] \in Y
                BY <4>1
            <4>3. k + 1 + 1 \in 1..n
                BY <1>1, <4>1, <4>2
            <4>4. flat[k + 1] \in Y
                BY <1>1, <4>1, <4>2
            <4>5. flat[k + 1 + 1] = flat[k + 1] \o s[k + 1 + 1]
                <5>1. \A i \in 1..n : i # 1 => flat[i] = flat[i - 1] \o s[i]
                    BY <2>7
                <5> DEFINE j == k + 1 + 1
                <5>2. j \in 1..n /\ j # 1 /\ j - 1 = k + 1
                    BY <4>1, <4>3
                <5> HIDE DEF j
                <5>3. flat[j] = flat[j - 1] \o s[j]
                    BY <5>1, <5>2
                <5>4. flat[j] = flat[k + 1] \o s[j]
                    BY <5>2, <5>3, Zenon
                <5>5. QED
                    BY <5>4 DEF j
            <4>6. s[k + 1 + 1] \in Y
                BY <1>1, <4>3
            <4>7. QED
                BY <1>2, <4>4, <4>5, <4>6
        <3>3. N \in SUBSET Nat
            OBVIOUS
        <3>4. N = Nat
            <4> HIDE DEF N
            <4>1. QED
                BY <3>1, <3>2, <3>3, NatSetInduction
        <3>5. QED
            BY <3>4
    <2> DEFINE g == [i \in 0..n |-> IF i = 0 THEN <<>> ELSE flat[i]]
    <2>9. ASSUME NEW i \in 1..n
          PROVE  flat[i] \in Y /\ flat[i] = (IF i = 1 THEN <<>> ELSE flat[i - 1]) \o s[i]
        <3>1. i - 1 \in Nat /\ i - 1 + 1 = i /\ i - 1 + 1 <= n
            BY <1>1
        <3>2. flat[i - 1 + 1] \in Y
            BY <2>8, <3>1
        <3>3. flat[i] = IF i = 1 THEN s[i] ELSE flat[i - 1] \o s[i]
            BY <2>7
        <3>4. QED
            BY <1>1, <1>2, <3>1, <3>2, <3>3
    <2>10. g \in [0..n -> Y] /\ g[0] = <<>> /\ \A i \in 1..n : g[i] = flat[i]
        <3>1. \A i \in 0..n : i = 0 \/ i \in 1..n
            BY <1>1
        <3>2. \A i \in 1..n : i \in 0..n /\ i # 0
            BY <1>1
        <3>3. 0 \in 0..n
            BY <1>1
        <3>4. \A i \in 0..n : (IF i = 0 THEN <<>> ELSE flat[i]) \in Y
            BY <1>2, <2>9, <3>1
        <3>5. QED
            BY <3>2, <3>3, <3>4
    <2> HIDE DEF g
    <2>11. ASSUME NEW i \in 1..n PROVE g[i] = g[i - 1] \o s[i]
        <3>1. i = 1 \/ i - 1 \in 1..n
            BY <1>1
        <3>2. i = 1 => i - 1 = 0
            OBVIOUS
        <3>3. g[i - 1] = IF i = 1 THEN <<>> ELSE flat[i - 1]
            <4>1. CASE i = 1
                BY <2>10, <3>2, <4>1
            <4>2. CASE i # 1
                BY <2>10, <3>1, <4>2
            <4>3. QED
                BY <4>1, <4>2
        <3>4. QED
            BY <2>9, <2>10, <3>3
    <2>12. g[n] = flat[n]
        BY <1>1, <1>4, <2>10
    <2>13. FlattenSeq(s) = g[n]
        BY <2>1, <2>12 DEF flat
    <2>14. Flattens(g, s)
        BY <2>10, <2>11, <2>13 DEF Flattens, n
    <2>15. QED
        BY <2>10, <2>14 DEF Y, n
<1>5. QED
    BY <1>3, <1>4

\* A sequence of sequences, put together.
LEMMA FlattenTyped ==
    ASSUME NEW X, NEW s \in Seq(Seq(X))
    PROVE  FlattenSeq(s) \in Seq(X)
<1>1. PICK f \in [0..Len(s) -> Seq(X)] : Flattens(f, s)
    BY FlattenUnrolled
<1>2. Len(s) \in 0..Len(s)
    OBVIOUS
<1>3. QED
    BY <1>1, <1>2 DEF Flattens

\* No path is behind one that is below it, and none is there twice.
TopDown(s) == \A i, j \in DOMAIN s : IsUnder(s[j], s[i]) => i <= j
\* Nothing in A is below anything in B.
NoneBelow(A, B) == \A q \in A, r \in B : ~IsUnder(q, r)

LEMMA ConcatTopDown ==
    ASSUME NEW s \in Seq(Paths), NEW u \in Seq(Paths)
    PROVE  /\ s \o u \in Seq(Paths) /\ ToSet(s \o u) = ToSet(s) \cup ToSet(u)
           /\ (TopDown(s) /\ TopDown(u) /\ NoneBelow(ToSet(s), ToSet(u))) => TopDown(s \o u)
<1> DEFINE m == Len(s)
           n == Len(u)
           w == s \o u
<1>1. m \in Nat /\ n \in Nat /\ DOMAIN s = 1..m /\ DOMAIN u = 1..n
    OBVIOUS
<1>2. /\ w \in Seq(Paths) /\ Len(w) = m + n
      /\ \A i \in 1..(m + n) : w[i] = IF i <= m THEN s[i] ELSE u[i - m]
    BY ConcatProperties
<1> HIDE DEF w, m, n
<1>3. DOMAIN w = 1..(m + n)
    BY <1>1, <1>2
<1>4. /\ \A i \in 1..m : i \in 1..(m + n) /\ w[i] = s[i]
      /\ \A i \in 1..n : i + m \in 1..(m + n) /\ w[i + m] = u[i]
    <2>1. ASSUME NEW i \in 1..m PROVE i \in 1..(m + n) /\ w[i] = s[i]
        <3>1. i \in 1..(m + n) /\ i <= m
            BY <1>1
        <3>2. QED
            BY <1>2, <3>1
    <2>2. ASSUME NEW i \in 1..n PROVE i + m \in 1..(m + n) /\ w[i + m] = u[i]
        <3> DEFINE k == i + m
        <3>1. k \in 1..(m + n) /\ ~(k <= m) /\ k - m = i
            BY <1>1
        <3> HIDE DEF k
        <3>2. w[k] = u[k - m]
            BY <1>2, <3>1
        <3>3. k \in 1..(m + n) /\ w[k] = u[i]
            BY <3>1, <3>2, Zenon
        <3>4. QED
            BY <3>3 DEF k
    <2>3. QED
        BY <2>1, <2>2
<1>5. \A i \in 1..(m + n) : i \in 1..m \/ \E k \in 1..n : i = k + m
    <2>1. ASSUME NEW i \in 1..(m + n), i \notin 1..m PROVE i - m \in 1..n /\ i = i - m + m
        BY <1>1, <2>1
    <2>2. QED
        BY <2>1
<1>6. ToSet(w) = ToSet(s) \cup ToSet(u)
    <2>1. ASSUME NEW i \in 1..(m + n) PROVE w[i] \in ToSet(s) \cup ToSet(u)
        <3>1. CASE i \in 1..m
            BY <1>1, <1>4, <3>1 DEF ToSet
        <3>2. CASE i \notin 1..m
            <4>1. PICK k \in 1..n : i = k + m
                BY <1>5, <3>2
            <4>2. w[i] = u[k]
                BY <1>4, <4>1
            <4>3. QED
                BY <1>1, <4>2 DEF ToSet
        <3>3. QED
            BY <3>1, <3>2
    <2>2. ToSet(s) \subseteq ToSet(w) /\ ToSet(u) \subseteq ToSet(w)
        BY <1>1, <1>3, <1>4 DEF ToSet
    <2>3. QED
        BY <1>3, <2>1, <2>2 DEF ToSet
<1>7. ASSUME TopDown(s), TopDown(u), NoneBelow(ToSet(s), ToSet(u)) PROVE TopDown(w)
    <2>1. SUFFICES ASSUME NEW i \in 1..(m + n), NEW j \in 1..(m + n), IsUnder(w[j], w[i])
                   PROVE  i <= j
        BY <1>3 DEF TopDown
    <2>2. CASE i \in 1..m /\ j \in 1..m
        BY <1>1, <1>4, <1>7, <2>1, <2>2 DEF TopDown
    <2>3. CASE i \in 1..m /\ j \notin 1..m
        BY <1>1, <2>3
    <2>4. CASE i \notin 1..m
        <3>1. PICK k \in 1..n : i = k + m /\ w[i] = u[k]
            BY <1>4, <1>5, <2>4
        <3>2. CASE j \in 1..m
            <4>1. w[j] = s[j] /\ s[j] \in ToSet(s) /\ u[k] \in ToSet(u)
                BY <1>1, <1>4, <3>2 DEF ToSet
            <4>2. QED
                BY <1>7, <2>1, <3>1, <4>1 DEF NoneBelow
        <3>3. CASE j \notin 1..m
            <4>1. PICK l \in 1..n : j = l + m /\ w[j] = u[l]
                BY <1>4, <1>5, <3>3
            <4>2. k <= l
                BY <1>1, <1>7, <2>1, <3>1, <4>1 DEF TopDown
            <4>3. QED
                BY <1>1, <3>1, <4>1, <4>2
        <3>4. QED
            BY <3>2, <3>3
    <2>5. QED
        BY <2>2, <2>3, <2>4
<1>8. QED
    BY <1>2, <1>6, <1>7 DEF w

\* Put together, the parts are top down when no part has anything below a later one.
LEMMA FlattenTopDown ==
    ASSUME NEW s \in Seq(Seq(Paths)), \A i \in DOMAIN s : TopDown(s[i]),
           \A i, j \in DOMAIN s : i < j => NoneBelow(ToSet(s[i]), ToSet(s[j]))
    PROVE  /\ FlattenSeq(s) \in Seq(Paths) /\ TopDown(FlattenSeq(s))
           /\ ToSet(FlattenSeq(s)) = UNION {ToSet(s[i]) : i \in DOMAIN s}
<1> DEFINE n == Len(s)
           First(k) == UNION {ToSet(s[i]) : i \in 1..k}
<1>1. n \in Nat /\ DOMAIN s = 1..n
    OBVIOUS
<1>2. PICK f \in [0..n -> Seq(Paths)] :
         /\ f[0] = <<>> /\ FlattenSeq(s) = f[n]
         /\ \A i \in 1..n : f[i] = f[i - 1] \o s[i]
    <2>1. PICK f \in [0..n -> Seq(Paths)] : Flattens(f, s)
        BY FlattenUnrolled
    <2>2. QED
        BY <2>1 DEF Flattens
<1> HIDE DEF n
<1> DEFINE N == {k \in Nat : k <= n => TopDown(f[k]) /\ ToSet(f[k]) = First(k)}
<1>3. 0 \in N
    <2>1. DOMAIN <<>> = {} /\ First(0) = {}
        OBVIOUS
    <2>2. ToSet(f[0]) = {} /\ TopDown(f[0])
        BY <1>2, <2>1 DEF ToSet, TopDown
    <2>3. QED
        BY <2>1, <2>2
<1>4. ASSUME NEW k \in N PROVE k + 1 \in N
    <2>1. k \in Nat
        OBVIOUS
    <2>2. SUFFICES ASSUME k + 1 <= n
                   PROVE  TopDown(f[k + 1]) /\ ToSet(f[k + 1]) = First(k + 1)
        BY <2>1
    <2> DEFINE j == k + 1
    <2>3. k <= n /\ k \in 0..n /\ j \in 1..n /\ j - 1 = k
        <3> HIDE DEF N, First
        <3>1. QED
            BY <1>1, <2>1, <2>2
    <2>4. TopDown(f[k]) /\ ToSet(f[k]) = First(k)
        BY <2>3
    <2>5. First(j) = First(k) \cup ToSet(s[j])
        <3>1. 1..j = (1..k) \cup {j}
            BY <2>1
        <3>2. QED
            BY <3>1
    <2>6. NoneBelow(First(k), ToSet(s[j]))
        <3>1. ASSUME NEW i \in 1..k PROVE NoneBelow(ToSet(s[i]), ToSet(s[j]))
            <4>1. i \in DOMAIN s /\ j \in DOMAIN s /\ i < j
                <5> HIDE DEF N, First
                <5>1. QED
                    BY <1>1, <2>1, <2>3
            <4>2. QED
                BY <4>1
        <3>2. QED
            BY <3>1 DEF NoneBelow
    <2> HIDE DEF First, N, j
    <2>7. f[j] = f[k] \o s[j]
        BY <1>2, <2>3
    <2>8. f[k] \in Seq(Paths) /\ s[j] \in Seq(Paths) /\ TopDown(s[j])
        <3>1. j \in DOMAIN s
            BY <1>1, <2>3
        <3>2. s[j] \in Seq(Paths) /\ TopDown(s[j])
            BY <3>1
        <3>3. QED
            BY <1>2, <2>3, <3>2
    <2>9. TopDown(f[j]) /\ ToSet(f[j]) = First(j)
        BY <2>4, <2>5, <2>6, <2>7, <2>8, ConcatTopDown
    <2>10. QED
        BY <2>9 DEF j
<1>5. N \in SUBSET Nat
    OBVIOUS
<1>6. N = Nat
    <2> HIDE DEF N
    <2>1. QED
        BY <1>3, <1>4, <1>5, NatSetInduction
<1>7. n \in N
    BY <1>1, <1>6
<1>8. TopDown(f[n]) /\ ToSet(f[n]) = First(n)
    BY <1>1, <1>7
<1>9. f[n] \in Seq(Paths)
    BY <1>1, <1>2
<1>10. QED
    BY <1>1, <1>2, <1>8, <1>9

\* The children of a node are all there are, each once.
ChildrenOf(t, p) == {c \in DOMAIN t : \E x \in Names : c = Append(p, x)}

LEMMA ChildrenTyped ==
    ASSUME NEW t, IsTree(t), NEW p \in DOMAIN t
    PROVE  /\ Children(t, p) \in Seq(ChildrenOf(t, p))
           /\ ToSet(Children(t, p)) = ChildrenOf(t, p) /\ IsInjective(Children(t, p))
<1> DEFINE X == {x \in Names : Append(p, x) \in DOMAIN t}
           names == Only(NameOrder, X)
           C == ChildrenOf(t, p)
<1>1. /\ names \in Seq(Names \cap X) /\ ToSet(names) = ToSet(NameOrder) \cap X
      /\ IsInjective(names)
    BY OnlyTyped, TreeAssumption
<1>2. Children(t, p) = [i \in DOMAIN names |-> Append(p, names[i])]
    BY DEF Children
<1> HIDE DEF names
<1>3. /\ Len(names) \in Nat /\ DOMAIN names = 1..Len(names)
      /\ \A i \in 1..Len(names) : names[i] \in X
    BY <1>1
<1>4. \A x \in X : Append(p, x) \in C
    BY DEF ChildrenOf
<1>5. p \in Paths /\ X \subseteq Names
    BY TreeNodes
<1>6. X \subseteq ToSet(NameOrder)
    <2>1. ASSUME NEW x \in X PROVE x \notin Dots
        <3>1. x \in Names /\ Append(p, x) \in DOMAIN t
            OBVIOUS
        <3> DEFINE c == Append(p, x)
        <3> HIDE DEF X, C
        <3>2. c # <<>> /\ Last(c) = x
            BY <1>5, <3>1, LongerPath
        <3>3. c \in DOMAIN t /\ c # Root
            BY <3>1, <3>2 DEF Root
        <3> HIDE DEF c
        <3>4. Last(c) \notin Dots
            BY <3>3, TreeNodes
        <3>5. QED
            BY <3>2, <3>4
    <2>2. QED
        BY <1>5, <2>1, TreeAssumption
<1>7. C = {Append(p, x) : x \in X}
    <2>1. C \subseteq {Append(p, x) : x \in X}
        BY DEF ChildrenOf
    <2> HIDE DEF X, C
    <2>2. QED
        BY <1>4, <2>1
<1>8. ToSet(names) = X
    BY <1>1, <1>6
<1> HIDE DEF X, C
<1> DEFINE below == [i \in DOMAIN names |-> Append(p, names[i])]
<1>9. below \in Seq(C)
    <2>1. \A i \in 1..Len(names) : Append(p, names[i]) \in C
        BY <1>3, <1>4
    <2>2. QED
        BY <1>3, <2>1
<1>10. ToSet(below) = C
    <2>1. ToSet(below) = {Append(p, names[i]) : i \in DOMAIN names}
        BY DEF ToSet
    <2>2. X = {names[i] : i \in DOMAIN names}
        BY <1>8 DEF ToSet
    <2> HIDE DEF below
    <2>3. QED
        BY <1>7, <2>1, <2>2
<1>11. IsInjective(below)
    <2>1. SUFFICES ASSUME NEW i \in DOMAIN names, NEW j \in DOMAIN names,
                          Append(p, names[i]) = Append(p, names[j])
                   PROVE  i = j
        BY DEF IsInjective
    <2>2. names[i] \in Names /\ names[j] \in Names
        BY <1>3, <1>5
    <2>3. names[i] = names[j]
        BY <1>5, <2>1, <2>2, LongerPath
    <2>4. QED
        BY <1>1, <2>3 DEF IsInjective
<1>12. QED
    BY <1>2, <1>9, <1>10, <1>11 DEF C

\* Below what is below a path.
LEMMA BelowBelow ==
    ASSUME NEW p \in Paths, NEW q \in Paths, NEW r \in Paths, IsUnder(q, p), IsUnder(r, q)
    PROVE  IsUnder(r, p)
<1>1. Len(p) \in Nat /\ Len(q) \in Nat /\ Len(r) \in Nat
    BY DEF Paths
<1>2. /\ Len(p) <= Len(q) /\ \A i \in 1..Len(p) : q[i] = p[i]
      /\ Len(q) <= Len(r) /\ \A i \in 1..Len(q) : r[i] = q[i]
    BY UnderIsPrefix
<1>3. Len(p) <= Len(r) /\ \A i \in 1..Len(p) : r[i] = p[i]
    BY <1>1, <1>2
<1>4. QED
    BY <1>3, UnderIsPrefix

\* Nothing is below two siblings.
LEMMA SiblingsApart ==
    ASSUME NEW p \in Paths, NEW x \in Names, NEW y \in Names, NEW q \in Paths,
           IsUnder(q, Append(p, x)), IsUnder(q, Append(p, y))
    PROVE  x = y
<1>1. ASSUME NEW z \in Names, IsUnder(q, Append(p, z)) PROVE q[Len(p) + 1] = z
    <2> DEFINE c == Append(p, z)
    <2>1. Len(p) \in Nat /\ c \in Paths /\ Len(c) = Len(p) + 1 /\ c[Len(p) + 1] = z
        BY LongerPath, AppendProperties DEF Paths
    <2> HIDE DEF c
    <2>2. \A i \in 1..Len(c) : q[i] = c[i]
        BY <1>1, <2>1, UnderIsPrefix DEF c
    <2>3. QED
        BY <2>1, <2>2
<1>2. QED
    BY <1>1

\* A path and its parent.
LEMMA UnderFront ==
    ASSUME NEW p \in Paths, NEW q \in Paths, IsUnder(q, p), q # p
    PROVE  /\ q # Root /\ Front(q) \in Paths /\ Len(Front(q)) = Len(q) - 1
           /\ IsUnder(Front(q), p) /\ IsUnder(q, Front(q))
<1>1. Len(p) \in Nat /\ Len(q) \in Nat /\ p \in Seq(Names) /\ q \in Seq(Names)
    BY DEF Paths
<1>2. Len(p) <= Len(q) /\ \A i \in 1..Len(p) : q[i] = p[i]
    BY UnderIsPrefix
<1>3. Len(p) < Len(q)
    <2>1. Len(p) = Len(q) => p = q
        BY <1>1, <1>2, SeqEqual
    <2>2. QED
        BY <1>1, <1>2, <2>1
<1>4. q # <<>>
    BY <1>1, <1>3
<1> DEFINE f == Front(q)
<1>5. f \in Paths /\ Len(f) = Len(q) - 1 /\ \A i \in 1..(Len(q) - 1) : f[i] = q[i]
    BY <1>4, PathParts
<1> HIDE DEF f
<1>6. IsUnder(f, p)
    <2>1. Len(p) <= Len(f) /\ \A i \in 1..Len(p) : i \in 1..(Len(q) - 1)
        BY <1>1, <1>3, <1>5
    <2>2. \A i \in 1..Len(p) : f[i] = p[i]
        BY <1>2, <1>5, <2>1
    <2>3. QED
        BY <1>5, <2>1, <2>2, UnderIsPrefix
<1>7. IsUnder(q, f)
    <2>1. Len(f) <= Len(q) /\ \A i \in 1..Len(f) : q[i] = f[i]
        BY <1>1, <1>5
    <2>2. QED
        BY <1>5, <2>1, UnderIsPrefix
<1>8. QED
    BY <1>4, <1>5, <1>6, <1>7 DEF f, Root

\* What is below a node, and not the node, is below one of its children; the node
\* is a directory.
LEMMA ChildTowards ==
    ASSUME NEW t, IsTree(t), NEW p \in DOMAIN t, NEW q \in Under(t, p), q # p
    PROVE  /\ TypeOf(t, p) = "dir"
           /\ \E c \in ChildrenOf(t, p) : IsUnder(q, c)
<1> DEFINE Towards(r) == TypeOf(t, p) = "dir" /\ \E c \in ChildrenOf(t, p) : IsUnder(r, c)
           N == {k \in Nat : \A r \in Under(t, p) : (Len(r) <= k /\ r # p) => Towards(r)}
<1>1. p \in Paths /\ \A r \in Under(t, p) : r \in DOMAIN t /\ r \in Paths /\ Len(r) \in Nat /\ IsUnder(r, p)
    BY TreeNodes DEF Under, Paths
<1>2. ASSUME NEW k \in Nat, NEW r \in Under(t, p), Len(r) <= k + 1, r # p,
             \A f \in Under(t, p) : (Len(f) <= k /\ f # p) => Towards(f)
      PROVE  Towards(r)
    <2> DEFINE f == Front(r)
    <2>1. /\ r # Root /\ f \in Paths /\ Len(f) = Len(r) - 1 /\ IsUnder(f, p) /\ IsUnder(r, f)
          /\ r \in Paths /\ r \in DOMAIN t /\ Len(r) \in Nat
        BY <1>1, <1>2, UnderFront
    <2>2. f \in DOMAIN t /\ TypeOf(t, f) = "dir"
        BY <2>1, TreeNodes
    <2>3. Len(f) <= k /\ f \in Under(t, p)
        BY <2>1, <2>2, <1>2 DEF Under
    <2>4. CASE f = p
        <3>1. Last(r) \in Names /\ r = Append(p, Last(r))
            BY <2>1, <2>4, PathParts DEF Root
        <3>2. r \in ChildrenOf(t, p)
            BY <2>1, <3>1 DEF ChildrenOf
        <3>3. IsUnder(r, r)
            BY <2>1, UnderIsPrefix
        <3>4. QED
            BY <2>2, <2>4, <3>2, <3>3
    <2>5. CASE f # p
        <3>1. Towards(f)
            BY <1>2, <2>3, <2>5
        <3>2. PICK c \in ChildrenOf(t, p) : IsUnder(f, c)
            BY <3>1
        <3>3. c \in Paths
            BY TreeNodes DEF ChildrenOf
        <3>4. IsUnder(r, c)
            BY <2>1, <3>2, <3>3, BelowBelow
        <3>5. QED
            BY <3>1, <3>4
    <2>6. QED
        BY <2>4, <2>5
<1> HIDE DEF Towards
<1>3. 0 \in N
    <2>1. ASSUME NEW r \in Under(t, p), Len(r) <= 0, r # p PROVE FALSE
        <3>1. r # Root /\ Len(r) = 0 /\ r \in Seq(Names)
            BY <1>1, <2>1, UnderFront DEF Paths
        <3>2. QED
            BY <3>1 DEF Root
    <2>2. QED
        BY <2>1
<1>4. \A k \in N : k + 1 \in N
    BY <1>2
<1>5. N \in SUBSET Nat
    OBVIOUS
<1>6. N = Nat
    <2> HIDE DEF N
    <2>1. QED
        BY <1>3, <1>4, <1>5, NatSetInduction
<1>7. Len(q) \in N /\ Len(q) <= Len(q)
    BY <1>1, <1>6
<1>8. Towards(q)
    BY <1>7
<1>9. QED
    BY <1>8 DEF Towards

\* A child and its directory.
LEMMA ChildUnder ==
    ASSUME NEW t, IsTree(t), NEW p \in DOMAIN t, NEW c \in ChildrenOf(t, p)
    PROVE  /\ c \in DOMAIN t /\ c \in Paths /\ c # p
           /\ IsUnder(c, p) /\ ~IsUnder(p, c)
           /\ \A d \in ChildrenOf(t, p), q \in Under(t, c) : IsUnder(q, d) => d = c
<1>1. p \in Paths /\ c \in DOMAIN t /\ c \in Paths
    BY TreeNodes DEF ChildrenOf
<1>2. PICK x \in Names : c = Append(p, x)
    BY DEF ChildrenOf
<1>3. Len(p) \in Nat /\ Len(c) = Len(p) + 1 /\ Front(c) = p
    BY <1>1, <1>2, LongerPath DEF Paths
<1>4. ~IsUnder(p, c)
    BY <1>1, <1>3, UnderIsPrefix
<1>5. \A i \in 1..Len(p) : c[i] = p[i]
    BY <1>1, <1>2, AppendProperties DEF Paths
<1>6. IsUnder(c, p)
    <2>1. Len(p) <= Len(c)
        BY <1>3
    <2>2. QED
        BY <1>1, <1>5, <2>1, UnderIsPrefix
<1>7. ASSUME NEW d \in ChildrenOf(t, p), NEW q \in Under(t, c), IsUnder(q, d) PROVE d = c
    <2>1. PICK y \in Names : d = Append(p, y)
        BY DEF ChildrenOf
    <2>2. q \in Paths /\ IsUnder(q, c)
        BY TreeNodes DEF Under
    <2>3. x = y
        BY <1>1, <1>2, <1>7, <2>1, <2>2, SiblingsApart
    <2>4. QED
        BY <1>2, <2>1, <2>3
<1>8. c # p
    BY <1>3
<1>9. QED
    BY <1>1, <1>4, <1>6, <1>7, <1>8

\* Below a child there is less than below its directory.
LEMMA LessBelow ==
    ASSUME NEW t, IsTree(t), NEW p \in DOMAIN t, NEW x \in Names, Append(p, x) \in DOMAIN t
    PROVE  LET c == Append(p, x)
           IN /\ Under(t, c) \subseteq Under(t, p) /\ c \in Under(t, p)
              /\ Cardinality(Under(t, c)) \in Nat /\ Cardinality(Under(t, p)) \in Nat
              /\ Cardinality(Under(t, c)) < Cardinality(Under(t, p))
<1> DEFINE c == Append(p, x)
<1>1. p \in Paths /\ DOMAIN t \subseteq Paths /\ IsFiniteSet(DOMAIN t)
    BY TreeNodes DEF IsTree
<1>2. /\ Len(p) \in Nat /\ c \in Paths /\ Len(c) = Len(p) + 1
      /\ \A i \in 1..Len(p) : c[i] = p[i]
    BY <1>1, LongerPath, AppendProperties DEF Paths
<1> HIDE DEF c
<1>3. ASSUME NEW q \in DOMAIN t, IsUnder(q, c) PROVE IsUnder(q, p)
    <2>1. q \in Paths /\ Len(q) \in Nat /\ Len(c) <= Len(q) /\ \A i \in 1..Len(c) : q[i] = c[i]
        BY <1>1, <1>2, <1>3, UnderIsPrefix DEF Paths
    <2>2. Len(p) <= Len(q) /\ \A i \in 1..Len(p) : q[i] = p[i]
        BY <1>2, <2>1
    <2>3. QED
        BY <1>1, <2>1, <2>2, UnderIsPrefix
<1>4. IsUnder(c, p) /\ IsUnder(p, p) /\ ~IsUnder(p, c)
    BY <1>1, <1>2, UnderIsPrefix
<1>5. /\ Under(t, c) \subseteq Under(t, p) /\ p \in Under(t, p) /\ p \notin Under(t, c)
      /\ Under(t, p) \subseteq DOMAIN t
    BY <1>3, <1>4 DEF Under
<1>6. IsFiniteSet(Under(t, p))
    BY <1>1, <1>5, FS_Subset
<1>7. /\ IsFiniteSet(Under(t, c)) /\ Cardinality(Under(t, c)) <= Cardinality(Under(t, p))
      /\ Cardinality(Under(t, c)) # Cardinality(Under(t, p))
    BY <1>5, <1>6, FS_Subset
<1>8. Cardinality(Under(t, c)) \in Nat /\ Cardinality(Under(t, p)) \in Nat
    BY <1>6, <1>7, FS_CardinalityType
<1>9. c \in DOMAIN t
    BY DEF c
<1>10. QED
    BY <1>4, <1>5, <1>7, <1>8, <1>9 DEF Under, c

\* A walk of p: what it meets there, then the walks f of those it goes down to.
Down(head, subs, f, p) == head[p] \o FlattenSeq([i \in DOMAIN subs[p] |-> f[subs[p][i]]])
IsWalk(f, U, head, subs) == f = [p \in U |-> Down(head, subs, f, p)]

\* The walks of the places U go down in size.
GoesDown(U, M, size, head, subs) ==
    /\ M \in Nat /\ size \in [U -> Nat] /\ \A p \in U : size[p] < M
    /\ head \in [U -> Seq(Paths)] /\ subs \in [U -> Seq(U)]
    /\ \A p \in U : \A i \in DOMAIN subs[p] : size[subs[p][i]] < size[p]

\* The parts of a walk.
LEMMA SubWalks ==
    ASSUME NEW U, NEW M, NEW size, NEW head, NEW subs, GoesDown(U, M, size, head, subs),
           NEW p \in U
    PROVE  /\ head[p] \in Seq(Paths) /\ Len(subs[p]) \in Nat /\ DOMAIN subs[p] = 1..Len(subs[p])
           /\ size[p] \in Nat /\ size[p] < M
           /\ \A i \in DOMAIN subs[p] : /\ subs[p][i] \in U /\ size[subs[p][i]] \in Nat
                                        /\ size[subs[p][i]] < size[p]
<1>1. head[p] \in Seq(Paths) /\ subs[p] \in Seq(U) /\ size[p] \in Nat /\ size[p] < M
    BY DEF GoesDown
<1> DEFINE below == subs[p]
<1>2. \A i \in DOMAIN below : size[below[i]] < size[p]
    BY DEF GoesDown
<1> HIDE DEF below
<1>3. below \in Seq(U)
    BY <1>1 DEF below
<1>4. Len(below) \in Nat /\ DOMAIN below = 1..Len(below) /\ \A i \in DOMAIN below : below[i] \in U
    BY <1>3
<1>5. \A i \in DOMAIN below : size[below[i]] \in Nat
    BY <1>4 DEF GoesDown
<1>6. QED
    BY <1>1, <1>2, <1>4, <1>5 DEF below

LEMMA DownTyped ==
    ASSUME NEW U, NEW M, NEW size, NEW head, NEW subs, GoesDown(U, M, size, head, subs),
           NEW p \in U, NEW f, \A i \in DOMAIN subs[p] : f[subs[p][i]] \in Seq(Paths)
    PROVE  /\ [i \in DOMAIN subs[p] |-> f[subs[p][i]]] \in Seq(Seq(Paths))
           /\ Down(head, subs, f, p) \in Seq(Paths)
<1> DEFINE below == subs[p]
           parts == [i \in DOMAIN below |-> f[below[i]]]
<1>1. head[p] \in Seq(Paths) /\ Len(below) \in Nat /\ DOMAIN below = 1..Len(below)
    BY SubWalks
<1>2. \A i \in DOMAIN below : f[below[i]] \in Seq(Paths)
    OBVIOUS
<1>3. Down(head, subs, f, p) = head[p] \o FlattenSeq(parts)
    BY DEF Down
<1> HIDE DEF below
<1>4. parts \in Seq(Seq(Paths))
    BY <1>1, <1>2
<1> HIDE DEF parts
<1>5. FlattenSeq(parts) \in Seq(Paths)
    BY <1>4, FlattenTyped
<1>6. head[p] \o FlattenSeq(parts) \in Seq(Paths)
    BY <1>1, <1>5, ConcatProperties
<1>7. QED
    BY <1>3, <1>4, <1>6 DEF parts, below

\* A walk depends on nothing else.
LEMMA DownSame ==
    ASSUME NEW head, NEW subs, NEW p, NEW f, NEW g,
           \A i \in DOMAIN subs[p] : f[subs[p][i]] = g[subs[p][i]]
    PROVE  Down(head, subs, f, p) = Down(head, subs, g, p)
<1>1. [i \in DOMAIN subs[p] |-> f[subs[p][i]]] = [i \in DOMAIN subs[p] |-> g[subs[p][i]]]
    OBVIOUS
<1>2. QED
    BY <1>1 DEF Down

\* So the recursion has a value.
LEMMA WalkExists ==
    ASSUME NEW U, NEW M, NEW size, NEW head, NEW subs, GoesDown(U, M, size, head, subs)
    PROVE  \E f : IsWalk(f, U, head, subs)
<1> DEFINE Acc == [U -> Seq(Paths)]
           base == [p \in U |-> <<>>]
           All(h) == [p \in U |-> Down(head, subs, h, p)]
           step == [a \in Acc \X (1..(M + 1)) |-> All(a[1])]
<1>1. M \in Nat
    BY DEF GoesDown
<1>2. ASSUME NEW h \in Acc PROVE All(h) \in Acc
    <2>1. ASSUME NEW p \in U PROVE Down(head, subs, h, p) \in Seq(Paths)
        <3>1. \A i \in DOMAIN subs[p] : subs[p][i] \in U
            BY SubWalks
        <3>2. \A i \in DOMAIN subs[p] : h[subs[p][i]] \in Seq(Paths)
            BY <3>1
        <3>3. QED
            BY <3>2, DownTyped
    <2>2. QED
        BY <2>1
<1>3. PICK G \in [0..(M + 1) -> Acc] : Counted(G, M + 1, base, step)
    <2>1. base \in Acc /\ M + 1 \in Nat
        BY <1>1
    <2> HIDE DEF All
    <2>2. step \in [Acc \X (1..(M + 1)) -> Acc]
        BY <1>2
    <2> HIDE DEF Acc, base, step
    <2>3. QED
        BY <2>1, <2>2, NumberRecursion
<1>4. \A h \in Acc, i \in 1..(M + 1) : step[<<h, i>>] = All(h)
    <2> HIDE DEF Acc, All
    <2>1. QED
        OBVIOUS
<1> HIDE DEF step, base
<1>5. ASSUME NEW i \in 1..(M + 1) PROVE G[i] = [p \in U |-> Down(head, subs, G[i - 1], p)]
    <2>1. i - 1 \in 0..(M + 1)
        BY <1>1
    <2>2. G[i - 1] \in Acc
        BY <2>1
    <2>3. G[i] = step[<<G[i - 1], i>>]
        BY <1>3 DEF Counted
    <2> HIDE DEF Acc
    <2>4. QED
        BY <1>4, <2>2, <2>3
<1> DEFINE N == {k \in Nat : k <= M => \A p \in U : size[p] < k => G[k][p] = G[k + 1][p]}
<1>6. 0 \in N
    BY SubWalks
<1>7. ASSUME NEW k \in N PROVE k + 1 \in N
    <2>1. k \in Nat /\ k + 1 \in Nat
        OBVIOUS
    <2>2. SUFFICES ASSUME k + 1 <= M, NEW p \in U, size[p] < k + 1
                   PROVE  G[k + 1][p] = G[k + 1 + 1][p]
        BY <2>1
    <2>3. /\ k + 1 \in 1..(M + 1) /\ k + 1 - 1 = k
          /\ k + 1 + 1 \in 1..(M + 1) /\ k + 1 + 1 - 1 = k + 1
        BY <1>1, <2>1, <2>2
    <2>4. ASSUME NEW i \in DOMAIN subs[p] PROVE G[k][subs[p][i]] = G[k + 1][subs[p][i]]
        <3>1. \A q \in U : size[q] < k => G[k][q] = G[k + 1][q]
            <4>1. k <= M
                BY <1>1, <2>1, <2>2
            <4>2. QED
                BY <4>1
        <3>2. /\ subs[p][i] \in U /\ size[subs[p][i]] \in Nat /\ size[p] \in Nat
              /\ size[subs[p][i]] < size[p]
            BY SubWalks
        <3>3. size[subs[p][i]] < k
            BY <2>1, <2>2, <3>2
        <3>4. QED
            BY <3>1, <3>2, <3>3
    <2>5. G[k + 1][p] = Down(head, subs, G[k], p) /\ G[k + 1 + 1][p] = Down(head, subs, G[k + 1], p)
        <3> DEFINE j == k + 1
                   l == k + 1 + 1
        <3>1. j \in 1..(M + 1) /\ j - 1 = k /\ l \in 1..(M + 1) /\ l - 1 = j
            BY <2>3
        <3> HIDE DEF j, l
        <3>2. /\ G[j] = [q \in U |-> Down(head, subs, G[j - 1], q)]
              /\ G[l] = [q \in U |-> Down(head, subs, G[l - 1], q)]
            BY <1>5, <3>1
        <3>3. G[j][p] = Down(head, subs, G[j - 1], p) /\ G[l][p] = Down(head, subs, G[l - 1], p)
            BY <3>2
        <3>4. G[j][p] = Down(head, subs, G[k], p) /\ G[l][p] = Down(head, subs, G[j], p)
            BY <3>1, <3>3, Zenon
        <3>5. QED
            BY <3>4 DEF j, l
    <2>6. Down(head, subs, G[k], p) = Down(head, subs, G[k + 1], p)
        BY <2>4, DownSame
    <2>7. QED
        BY <2>5, <2>6
<1>8. \A p \in U : G[M][p] = G[M + 1][p]
    <2>1. N \in SUBSET Nat
        OBVIOUS
    <2>2. N = Nat
        <3> HIDE DEF N
        <3>1. QED
            BY <1>6, <1>7, <2>1, NatSetInduction
    <2>3. M \in N
        BY <1>1, <2>2
    <2>4. QED
        BY <1>1, <2>3, SubWalks
<1>9. IsWalk(G[M], U, head, subs)
    <2>1. M \in 0..(M + 1) /\ M + 1 \in 1..(M + 1) /\ M + 1 \in 0..(M + 1) /\ M + 1 - 1 = M
        BY <1>1
    <2>2. G[M] \in Acc /\ G[M + 1] \in Acc
        BY <2>1
    <2>3. G[M] = G[M + 1]
        BY <1>8, <2>2
    <2> DEFINE j == M + 1
    <2>4. j \in 1..(M + 1) /\ j - 1 = M
        BY <2>1
    <2> HIDE DEF j
    <2>5. G[j] = [p \in U |-> Down(head, subs, G[j - 1], p)]
        BY <1>5, <2>4
    <2>6. G[j] = [p \in U |-> Down(head, subs, G[M], p)]
        BY <2>4, <2>5, Zenon
    <2>7. QED
        BY <2>3, <2>6 DEF j, IsWalk
<1>10. QED
    BY <1>9

\* The walks meet the sets W, each path once and top down.
Meets(U, head, subs, W) ==
    \A p \in U :
        /\ TopDown(head[p])
        /\ W[p] = ToSet(head[p]) \cup UNION {W[subs[p][i]] : i \in DOMAIN subs[p]}
        /\ \A i \in DOMAIN subs[p] : NoneBelow(ToSet(head[p]), W[subs[p][i]])
        /\ \A i, j \in DOMAIN subs[p] : i # j => NoneBelow(W[subs[p][i]], W[subs[p][j]])

LEMMA DownMeets ==
    ASSUME NEW U, NEW M, NEW size, NEW head, NEW subs, GoesDown(U, M, size, head, subs),
           NEW W, Meets(U, head, subs, W), NEW p \in U, NEW f,
           \A i \in DOMAIN subs[p] : /\ f[subs[p][i]] \in Seq(Paths) /\ TopDown(f[subs[p][i]])
                                     /\ ToSet(f[subs[p][i]]) = W[subs[p][i]]
    PROVE  /\ Down(head, subs, f, p) \in Seq(Paths) /\ TopDown(Down(head, subs, f, p))
           /\ ToSet(Down(head, subs, f, p)) = W[p]
<1> DEFINE below == subs[p]
           parts == [i \in DOMAIN below |-> f[below[i]]]
<1>1. /\ parts \in Seq(Seq(Paths)) /\ head[p] \in Seq(Paths)
      /\ DOMAIN below = 1..Len(below) /\ Len(below) \in Nat
    <2>1. \A i \in DOMAIN subs[p] : f[subs[p][i]] \in Seq(Paths)
        OBVIOUS
    <2>2. parts \in Seq(Seq(Paths))
        BY <2>1, DownTyped
    <2> HIDE DEF parts
    <2>3. QED
        BY <2>2, SubWalks
<1>2. /\ TopDown(head[p])
      /\ W[p] = ToSet(head[p]) \cup UNION {W[below[i]] : i \in DOMAIN below}
      /\ \A i \in DOMAIN below : NoneBelow(ToSet(head[p]), W[below[i]])
      /\ \A i, j \in DOMAIN below : i # j => NoneBelow(W[below[i]], W[below[j]])
    BY DEF Meets
<1>3. \A i \in DOMAIN below : TopDown(f[below[i]]) /\ ToSet(f[below[i]]) = W[below[i]]
    OBVIOUS
<1>4. Down(head, subs, f, p) = head[p] \o FlattenSeq(parts)
    BY DEF Down
<1> HIDE DEF below
<1>5. DOMAIN parts = DOMAIN below /\ \A i \in DOMAIN below : parts[i] = f[below[i]]
    OBVIOUS
<1> HIDE DEF parts
<1>6. \A i \in DOMAIN parts : TopDown(parts[i]) /\ ToSet(parts[i]) = W[below[i]]
    BY <1>3, <1>5
<1>7. \A i, j \in DOMAIN parts : i < j => NoneBelow(ToSet(parts[i]), ToSet(parts[j]))
    <2>1. ASSUME NEW i \in DOMAIN parts, NEW j \in DOMAIN parts, i < j
          PROVE  NoneBelow(ToSet(parts[i]), ToSet(parts[j]))
        <3>1. i # j
            BY <1>1, <1>5, <2>1
        <3>2. NoneBelow(W[below[i]], W[below[j]])
            BY <1>2, <1>5, <3>1
        <3>3. QED
            BY <1>6, <3>2
    <2>2. QED
        BY <2>1
<1> DEFINE flat == FlattenSeq(parts)
<1>8. /\ flat \in Seq(Paths) /\ TopDown(flat)
      /\ ToSet(flat) = UNION {ToSet(parts[i]) : i \in DOMAIN parts}
    BY <1>1, <1>6, <1>7, FlattenTopDown
<1> HIDE DEF flat
<1>9. ToSet(flat) = UNION {W[below[i]] : i \in DOMAIN below}
    BY <1>5, <1>6, <1>8
<1>10. NoneBelow(ToSet(head[p]), ToSet(flat))
    BY <1>2, <1>9 DEF NoneBelow
<1>11. /\ head[p] \o flat \in Seq(Paths) /\ TopDown(head[p] \o flat)
       /\ ToSet(head[p] \o flat) = ToSet(head[p]) \cup ToSet(flat)
    BY <1>1, <1>2, <1>8, <1>10, ConcatTopDown
<1>12. QED
    BY <1>2, <1>4, <1>9, <1>11 DEF flat

LEMMA WalkMeets ==
    ASSUME NEW U, NEW M, NEW size, NEW head, NEW subs, GoesDown(U, M, size, head, subs),
           NEW W, Meets(U, head, subs, W), NEW f, IsWalk(f, U, head, subs), NEW p \in U
    PROVE  f[p] \in Seq(Paths) /\ TopDown(f[p]) /\ ToSet(f[p]) = W[p]
<1> DEFINE Met(q) == f[q] \in Seq(Paths) /\ TopDown(f[q]) /\ ToSet(f[q]) = W[q]
           N == {k \in Nat : \A q \in U : size[q] < k => Met(q)}
<1>1. ASSUME NEW k \in Nat, \A q \in U : size[q] < k => Met(q), NEW q \in U, size[q] < k + 1
      PROVE  Met(q)
    <2>1. ASSUME NEW i \in DOMAIN subs[q] PROVE Met(subs[q][i])
        <3>1. /\ subs[q][i] \in U /\ size[subs[q][i]] \in Nat /\ size[q] \in Nat
              /\ size[subs[q][i]] < size[q]
            BY SubWalks
        <3>2. size[subs[q][i]] < k
            BY <1>1, <3>1
        <3>3. QED
            BY <1>1, <3>1, <3>2
    <2>2. f[q] = Down(head, subs, f, q)
        BY DEF IsWalk
    <2>3. QED
        BY <2>1, <2>2, DownMeets
<1> HIDE DEF Met
<1>2. 0 \in N
    BY SubWalks
<1>3. \A k \in N : k + 1 \in N
    BY <1>1
<1>4. N \in SUBSET Nat
    OBVIOUS
<1>5. N = Nat
    <2> HIDE DEF N
    <2>1. QED
        BY <1>2, <1>3, <1>4, NatSetInduction
<1>6. M \in N /\ size[p] < M
    BY <1>5, SubWalks DEF GoesDown
<1>7. Met(p)
    BY <1>6
<1>8. QED
    BY <1>7 DEF Met

Size(t, p) == Cardinality(Under(t, p))

\* From a node to its children the size goes down.
LEMMA TreeGoesDown ==
    ASSUME NEW t, IsTree(t), NEW node \in DOMAIN t, NEW head, NEW subs,
           head \in [Under(t, node) -> Seq(Paths)],
           DOMAIN subs = Under(t, node), subs = [p \in Under(t, node) |-> subs[p]],
           \A p \in Under(t, node) : subs[p] \in Seq(ChildrenOf(t, p))
    PROVE  \E M, size : GoesDown(Under(t, node), M, size, head, subs)
<1> DEFINE U == Under(t, node)
           size == [p \in U |-> Size(t, p)]
           M == Cardinality(U) + 1
<1>1. IsFiniteSet(U) /\ U \subseteq DOMAIN t /\ Cardinality(U) \in Nat
    <2>1. IsFiniteSet(DOMAIN t) /\ U \subseteq DOMAIN t
        BY DEF IsTree, Under
    <2>2. QED
        BY <2>1, FS_Subset, FS_CardinalityType
<1>2. ASSUME NEW p \in U PROVE Size(t, p) \in Nat /\ Size(t, p) <= Cardinality(U)
    <2>1. Under(t, p) \subseteq U
        <3>1. SUFFICES ASSUME NEW q \in Under(t, p) PROVE IsUnder(q, node)
            BY DEF Under
        <3>2. q \in Paths /\ p \in Paths /\ node \in Paths /\ IsUnder(q, p) /\ IsUnder(p, node)
            BY TreeNodes DEF Under
        <3>3. QED
            BY <3>2, BelowBelow
    <2>2. QED
        BY <1>1, <2>1, FS_Subset, FS_CardinalityType DEF Size
<1>3. ASSUME NEW p \in U, NEW c \in ChildrenOf(t, p)
      PROVE  c \in U /\ Size(t, c) \in Nat /\ Size(t, c) < Size(t, p)
    <2>1. p \in DOMAIN t /\ p \in Paths /\ node \in Paths /\ IsUnder(p, node)
        BY TreeNodes DEF Under
    <2>2. PICK x \in Names : c = Append(p, x) /\ c \in DOMAIN t
        BY DEF ChildrenOf
    <2>3. Size(t, c) < Size(t, p) /\ Size(t, c) \in Nat
        BY <2>1, <2>2, LessBelow, Zenon DEF Size
    <2>4. c \in Paths /\ IsUnder(c, p)
        BY <2>1, ChildUnder
    <2>5. IsUnder(c, node)
        BY <2>1, <2>4, BelowBelow
    <2>6. QED
        BY <2>2, <2>3, <2>5 DEF Under
<1> HIDE DEF U
<1>4. size \in [U -> Nat] /\ (\A p \in U : size[p] < M) /\ M \in Nat
    BY <1>1, <1>2
<1>5. ASSUME NEW p \in U
      PROVE  subs[p] \in Seq(U) /\ \A i \in DOMAIN subs[p] : size[subs[p][i]] < size[p]
    <2>1. subs[p] \in Seq(ChildrenOf(t, p))
        BY DEF U
    <2> DEFINE below == subs[p]
    <2> HIDE DEF below
    <2>2. below \in Seq(ChildrenOf(t, p))
        BY <2>1 DEF below
    <2>3. Len(below) \in Nat /\ DOMAIN below = 1..Len(below) /\ \A i \in DOMAIN below : below[i] \in ChildrenOf(t, p)
        BY <2>2
    <2>4. \A i \in DOMAIN below : below[i] \in U /\ Size(t, below[i]) < Size(t, p)
        BY <1>3, <2>3
    <2>5. below \in Seq(U)
        BY <2>2, <2>3, <2>4
    <2>6. \A i \in DOMAIN below : size[below[i]] < size[p]
        BY <2>4
    <2>7. QED
        BY <2>5, <2>6 DEF below
<1>6. head \in [U -> Seq(Paths)] /\ subs = [p \in U |-> subs[p]]
    BY DEF U
<1>7. subs \in [U -> Seq(U)]
    BY <1>5, <1>6
<1> HIDE DEF size, M
<1>8. GoesDown(U, M, size, head, subs)
    BY <1>4, <1>5, <1>6, <1>7 DEF GoesDown
<1>9. QED
    BY <1>8 DEF U

\* Children are not below one another, nor what is below them.
LEMMA PartsApart ==
    ASSUME NEW t, IsTree(t), NEW p \in DOMAIN t, NEW c \in ChildrenOf(t, p)
    PROVE  /\ NoneBelow({p}, Under(t, c))
           /\ \A d \in ChildrenOf(t, p) : d # c => NoneBelow(Under(t, d), Under(t, c))
<1>1. p \in Paths /\ c \in Paths /\ ~IsUnder(p, c)
    BY TreeNodes, ChildUnder
<1>2. ASSUME NEW r \in Under(t, c), IsUnder(p, r) PROVE FALSE
    <2>1. r \in Paths /\ IsUnder(r, c)
        BY TreeNodes DEF Under
    <2>2. IsUnder(p, c)
        BY <1>1, <1>2, <2>1, BelowBelow
    <2>3. QED
        BY <1>1, <2>2
<1>3. ASSUME NEW d \in ChildrenOf(t, p), d # c, NEW q \in Under(t, d), NEW r \in Under(t, c),
             IsUnder(q, r)
      PROVE  FALSE
    <2>1. q \in Paths /\ r \in Paths /\ IsUnder(r, c)
        BY TreeNodes DEF Under
    <2>2. IsUnder(q, c)
        BY <1>1, <1>3, <2>1, BelowBelow
    <2>3. c = d
        BY <1>3, <2>2, ChildUnder
    <2>4. QED
        BY <1>3, <2>3
<1>4. QED
    BY <1>2, <1>3 DEF NoneBelow

\* A list of children is top down when it has none twice.
LEMMA ChildrenTopDown ==
    ASSUME NEW t, IsTree(t), NEW p \in DOMAIN t, NEW s \in Seq(ChildrenOf(t, p)), IsInjective(s)
    PROVE  s \in Seq(Paths) /\ TopDown(s)
<1>1. ChildrenOf(t, p) \subseteq Paths
    BY ChildUnder
<1> DEFINE C == ChildrenOf(t, p)
<1>2. DOMAIN s = 1..Len(s) /\ \A i \in DOMAIN s : s[i] \in C
    OBVIOUS
<1>3. ASSUME NEW i \in DOMAIN s, NEW j \in DOMAIN s, IsUnder(s[j], s[i]) PROVE i <= j
    <2>1. s[j] \in C /\ s[i] \in C
        BY <1>2
    <2>2. s[j] \in Under(t, s[j])
        <3>1. s[j] \in Paths /\ s[j] \in DOMAIN t
            BY <2>1, ChildUnder
        <3>2. QED
            BY <3>1, UnderIsPrefix DEF Under
    <2>3. s[i] = s[j]
        BY <1>3, <2>1, <2>2, ChildUnder
    <2>4. i = j
        BY <2>3 DEF IsInjective
    <2>5. QED
        BY <1>2, <2>4
<1>4. QED
    BY <1>1, <1>3 DEF TopDown

\* What is below a node is the node and what is below its children.
LEMMA UnderChildren ==
    ASSUME NEW t, IsTree(t), NEW p \in DOMAIN t
    PROVE  Under(t, p) = {p} \cup UNION {Under(t, c) : c \in ChildrenOf(t, p)}
<1>1. p \in Paths /\ IsUnder(p, p)
    BY TreeNodes, UnderIsPrefix
<1>2. ASSUME NEW c \in ChildrenOf(t, p), NEW q \in Under(t, c) PROVE q \in Under(t, p)
    <2>1. q \in Paths /\ q \in DOMAIN t /\ IsUnder(q, c) /\ c \in Paths /\ IsUnder(c, p)
        BY TreeNodes, ChildUnder DEF Under
    <2>2. QED
        BY <1>1, <2>1, BelowBelow DEF Under
<1>3. ASSUME NEW q \in Under(t, p), q # p PROVE \E c \in ChildrenOf(t, p) : q \in Under(t, c)
    <2>1. \E c \in ChildrenOf(t, p) : IsUnder(q, c)
        BY <1>3, ChildTowards
    <2>2. q \in DOMAIN t
        BY DEF Under
    <2>3. QED
        BY <2>1, <2>2 DEF Under
<1>4. p \in Under(t, p)
    BY <1>1 DEF Under
<1>5. QED
    BY <1>2, <1>3, <1>4

\* find adds one directory to what it finds of those below.
FoundAt(t, found, p) ==
    LET below == Children(t, p)
    IN <<p>> \o FlattenSeq([i \in DOMAIN below |-> found[below[i]]])

\* find meets all that is below its root, each once and parents first.
LEMMA FindPathsMeets ==
    ASSUME NEW t, IsTree(t), NEW node \in DOMAIN t
    PROVE  /\ FindPaths(t, node) \in Seq(Paths) /\ TopDown(FindPaths(t, node))
           /\ ToSet(FindPaths(t, node)) = Under(t, node)
<1> DEFINE U == Under(t, node)
           head == [p \in U |-> <<p>>]
           subs == [p \in U |-> Children(t, p)]
           W == [p \in U |-> Under(t, p)]
           Rec(f) == f = [p \in U |-> FoundAt(t, f, p)]
           found == CHOOSE f : Rec(f)
<1>1. FindPaths(t, node) = found[node]
    BY DEF FindPaths, FoundAt
<1>2. ASSUME NEW p \in U
      PROVE  /\ p \in DOMAIN t /\ p \in Paths
             /\ subs[p] = Children(t, p) /\ head[p] = <<p>> /\ W[p] = Under(t, p)
             /\ subs[p] \in Seq(ChildrenOf(t, p)) /\ ToSet(subs[p]) = ChildrenOf(t, p)
             /\ IsInjective(subs[p])
             /\ ChildrenOf(t, p) \subseteq U
    <2>1. p \in DOMAIN t /\ p \in Paths /\ IsUnder(p, node) /\ node \in Paths
        BY TreeNodes DEF Under
    <2>2. ASSUME NEW c \in ChildrenOf(t, p) PROVE c \in U
        <3>1. c \in DOMAIN t /\ c \in Paths /\ IsUnder(c, p)
            BY <2>1, ChildUnder
        <3>2. QED
            BY <2>1, <3>1, BelowBelow DEF Under
    <2>3. /\ Children(t, p) \in Seq(ChildrenOf(t, p)) /\ ToSet(Children(t, p)) = ChildrenOf(t, p)
          /\ IsInjective(Children(t, p))
        BY <2>1, ChildrenTyped
    <2> HIDE DEF U
    <2>4. subs[p] = Children(t, p) /\ head[p] = <<p>> /\ W[p] = Under(t, p)
        OBVIOUS
    <2> HIDE DEF subs, head, W
    <2>5. ChildrenOf(t, p) \subseteq U
        BY <2>2
    <2>6. QED
        BY <2>1, <2>3, <2>4, <2>5
<1>3. head \in [U -> Seq(Paths)] /\ DOMAIN subs = U /\ subs = [p \in U |-> subs[p]]
    <2>1. ASSUME NEW p \in U PROVE <<p>> \in Seq(Paths)
        <3> HIDE DEF U, head, subs, W
        <3>1. p \in Paths
            BY <1>2
        <3>2. QED
            BY <3>1
    <2> HIDE DEF U
    <2>2. QED
        BY <2>1
<1>4. node \in U
    BY TreeNodes, UnderIsPrefix DEF Under
<1> HIDE DEF head, subs, W
<1>5. PICK M, size : GoesDown(U, M, size, head, subs)
    BY <1>2, <1>3, TreeGoesDown
<1> HIDE DEF U
<1>6. ASSUME NEW p \in U
      PROVE  /\ TopDown(head[p])
             /\ W[p] = ToSet(head[p]) \cup UNION {W[subs[p][i]] : i \in DOMAIN subs[p]}
             /\ \A i \in DOMAIN subs[p] : NoneBelow(ToSet(head[p]), W[subs[p][i]])
             /\ \A i, j \in DOMAIN subs[p] : i # j => NoneBelow(W[subs[p][i]], W[subs[p][j]])
    <2> DEFINE below == subs[p]
               C == ChildrenOf(t, p)
    <2>1. head[p] = <<p>> /\ W[p] = Under(t, p) /\ p \in DOMAIN t
        BY <1>2
    <2>2. DOMAIN <<p>> = {1} /\ <<p>>[1] = p
        OBVIOUS
    <2>3. TopDown(head[p]) /\ ToSet(head[p]) = {p}
        BY <2>1, <2>2 DEF TopDown, ToSet
    <2>4. C = {below[i] : i \in DOMAIN below} /\ IsInjective(below)
        BY <1>2 DEF ToSet
    <2>5. \A i \in DOMAIN below : below[i] \in C /\ W[below[i]] = Under(t, below[i])
        BY <1>2, <2>4
    <2>6. Under(t, p) = {p} \cup UNION {Under(t, c) : c \in C}
        BY <2>1, UnderChildren
    <2> HIDE DEF C, below
    <2>7. UNION {Under(t, c) : c \in C} = UNION {W[below[i]] : i \in DOMAIN below}
        BY <2>4, <2>5
    <2>8. \A c \in C : NoneBelow({p}, Under(t, c)) /\ \A d \in C : d # c => NoneBelow(Under(t, d), Under(t, c))
        BY <2>1, PartsApart DEF C
    <2>9. \A i, j \in DOMAIN below : i # j => below[i] # below[j]
        BY <2>4 DEF IsInjective
    <2>10. \A i, j \in DOMAIN below : i # j => NoneBelow(W[below[i]], W[below[j]])
        BY <2>5, <2>8, <2>9
    <2>11. \A i \in DOMAIN below : NoneBelow(ToSet(head[p]), W[below[i]])
        BY <2>3, <2>5, <2>8
    <2>12. QED
        BY <2>1, <2>3, <2>6, <2>7, <2>10, <2>11 DEF below
<1>7. Meets(U, head, subs, W)
    BY <1>6 DEF Meets
<1>8. ASSUME NEW f PROVE Rec(f) <=> IsWalk(f, U, head, subs)
    <2>1. \A p \in U : Down(head, subs, f, p) = FoundAt(t, f, p)
        BY <1>2 DEF Down, FoundAt
    <2>2. [p \in U |-> Down(head, subs, f, p)] = [p \in U |-> FoundAt(t, f, p)]
        BY <2>1
    <2>3. QED
        BY <2>2 DEF IsWalk
<1>9. PICK f : IsWalk(f, U, head, subs)
    BY <1>5, WalkExists
<1>10. Rec(found)
    <2>1. Rec(f)
        BY <1>8, <1>9
    <2> HIDE DEF Rec
    <2>2. QED
        BY <2>1
<1>11. IsWalk(found, U, head, subs)
    BY <1>8, <1>10
<1> HIDE DEF found
<1>12. found[node] \in Seq(Paths) /\ TopDown(found[node]) /\ ToSet(found[node]) = W[node]
    BY <1>4, <1>5, <1>7, <1>11, WalkMeets
<1>13. W[node] = U
    BY <1>2, <1>4 DEF U
<1>14. QED
    BY <1>1, <1>12, <1>13 DEF found, U

\* A sequence read from its end.
LEMMA ReverseTyped ==
    ASSUME NEW X, NEW s \in Seq(X)
    PROVE  /\ Reverse(s) \in Seq(X) /\ ToSet(Reverse(s)) = ToSet(s)
           /\ IsInjective(s) => IsInjective(Reverse(s))
<1> DEFINE n == Len(s)
           u == [i \in 1..n |-> s[(n - i) + 1]]
<1>1. n \in Nat /\ DOMAIN s = 1..n /\ \A i \in 1..n : s[i] \in X
    OBVIOUS
<1>2. Reverse(s) = u
    BY DEF Reverse
<1> HIDE DEF n
<1>3. \A i \in 1..n : (n - i) + 1 \in 1..n /\ (n - ((n - i) + 1)) + 1 = i
    BY <1>1
<1>4. u \in Seq(X) /\ DOMAIN u = 1..n /\ \A i \in 1..n : u[i] = s[(n - i) + 1]
    <2>1. \A i \in 1..n : s[(n - i) + 1] \in X
        BY <1>1, <1>3
    <2>2. QED
        BY <1>1, <2>1
<1> HIDE DEF u
<1>5. ToSet(u) = ToSet(s)
    <2>1. ASSUME NEW i \in 1..n PROVE \E j \in 1..n : s[i] = u[j]
        <3> DEFINE j == (n - i) + 1
        <3>1. j \in 1..n /\ (n - j) + 1 = i
            BY <1>3
        <3> HIDE DEF j
        <3>2. u[j] = s[(n - j) + 1]
            BY <1>4, <3>1
        <3>3. u[j] = s[i]
            BY <3>1, <3>2, Zenon
        <3>4. QED
            BY <3>1, <3>3
    <2>2. ToSet(s) \subseteq ToSet(u)
        <3>1. ASSUME NEW i \in 1..n PROVE s[i] \in ToSet(u)
            <4>1. PICK j \in 1..n : s[i] = u[j]
                BY <2>1
            <4>2. j \in DOMAIN u
                BY <1>4, <4>1
            <4>3. QED
                BY <4>1, <4>2, Zenon DEF ToSet
        <3>2. QED
            BY <1>1, <3>1 DEF ToSet
    <2>3. ASSUME NEW i \in 1..n PROVE u[i] \in ToSet(s)
        <3>1. (n - i) + 1 \in 1..n /\ u[i] = s[(n - i) + 1]
            BY <1>3, <1>4
        <3>2. QED
            BY <1>1, <3>1 DEF ToSet
    <2>4. ToSet(u) \subseteq ToSet(s)
        BY <1>4, <2>3 DEF ToSet
    <2>5. QED
        BY <2>2, <2>4
<1>6. ASSUME IsInjective(s) PROVE IsInjective(u)
    <2>1. ASSUME NEW i \in 1..n, NEW j \in 1..n, u[i] = u[j] PROVE i = j
        <3>1. s[(n - i) + 1] = s[(n - j) + 1] /\ (n - i) + 1 \in 1..n /\ (n - j) + 1 \in 1..n
            BY <1>3, <1>4, <2>1
        <3>2. (n - i) + 1 = (n - j) + 1
            BY <1>1, <1>6, <3>1 DEF IsInjective
        <3>3. QED
            BY <1>1, <3>2
    <2>2. QED
        BY <1>4, <2>1 DEF IsInjective
<1>7. QED
    BY <1>2, <1>4, <1>5, <1>6

\* The children of a type.
LEMMA ChildrenOfType ==
    ASSUME NEW t, IsTree(t), NEW p \in DOMAIN t, NEW type
    PROVE  LET s == OfType(t, Children(t, p), type)
           IN /\ s \in Seq(ChildrenOf(t, p)) /\ IsInjective(s)
              /\ ToSet(s) = {c \in ChildrenOf(t, p) : t[c].type = type}
<1> DEFINE C == ChildrenOf(t, p)
           S == {q \in DOMAIN t : t[q].type = type}
           s == Only(Children(t, p), S)
<1>1. Children(t, p) \in Seq(C) /\ ToSet(Children(t, p)) = C /\ IsInjective(Children(t, p))
    BY ChildrenTyped
<1>2. OfType(t, Children(t, p), type) = s
    BY DEF OfType
<1>3. C \cap S = {c \in C : t[c].type = type}
    BY DEF ChildrenOf
<1> HIDE DEF C, S
<1>4. s \in Seq(C \cap S) /\ ToSet(s) = C \cap S /\ IsInjective(s)
    BY <1>1, OnlyTyped
<1> HIDE DEF s
<1>5. s \in Seq(C)
    BY <1>4
<1>6. QED
    BY <1>2, <1>3, <1>4, <1>5 DEF C

\* grep adds the files of a directory to those that it collects of its directories.
FilesAt(t, files, p) ==
    LET dirs == Reverse(OfType(t, Children(t, p), "dir"))
    IN OfType(t, Children(t, p), "file") \o FlattenSeq([i \in DOMAIN dirs |-> files[dirs[i]]])
\* The files below a directory.
FilesBelow(t, p) == {q \in Under(t, p) : q # p /\ t[q].type = "file"}

\* They are its own files and those below its directories, apart from one another.
LEMMA FilesOfChildren ==
    ASSUME NEW t, IsTree(t), NEW p \in DOMAIN t
    PROVE  LET F == {c \in ChildrenOf(t, p) : t[c].type = "file"}
               D == {c \in ChildrenOf(t, p) : t[c].type = "dir"}
           IN /\ FilesBelow(t, p) = F \cup UNION {FilesBelow(t, c) : c \in D}
              /\ \A c \in D : NoneBelow(F, FilesBelow(t, c))
              /\ \A c, d \in D : c # d => NoneBelow(FilesBelow(t, c), FilesBelow(t, d))
<1> DEFINE C == ChildrenOf(t, p)
           F == {c \in C : t[c].type = "file"}
           D == {c \in C : t[c].type = "dir"}
<1>1. \A c \in C : c \in DOMAIN t /\ c \in Paths /\ c # p /\ IsUnder(c, p) /\ ~IsUnder(p, c)
    BY ChildUnder
<1>2. Under(t, p) = {p} \cup UNION {Under(t, c) : c \in C}
    BY UnderChildren
<1>3. \A c \in C : c \in Under(t, c) /\ p \notin Under(t, c)
    BY <1>1, UnderIsPrefix DEF Under
<1>4. \A c, d \in C : c # d => NoneBelow(Under(t, c), Under(t, d))
    BY PartsApart
<1>5. ASSUME NEW c \in C, NEW q \in Under(t, c), q # c PROVE t[c].type = "dir"
    BY <1>1, <1>5, ChildTowards, TreeNodes
<1> HIDE DEF C
<1>6. \A c \in C : FilesBelow(t, c) \subseteq Under(t, c)
    BY DEF FilesBelow
<1>7. ASSUME NEW q \in FilesBelow(t, p) PROVE q \in F \/ \E c \in D : q \in FilesBelow(t, c)
    <2>1. q \in Under(t, p) /\ q # p /\ t[q].type = "file"
        BY DEF FilesBelow
    <2>2. PICK c \in C : q \in Under(t, c)
        BY <1>2, <2>1
    <2>3. CASE q = c
        BY <2>1, <2>3
    <2>4. CASE q # c
        <3>1. c \in D
            BY <1>5, <2>2, <2>4
        <3>2. q \in FilesBelow(t, c)
            BY <2>1, <2>2, <2>4 DEF FilesBelow
        <3>3. QED
            BY <3>1, <3>2
    <2>5. QED
        BY <2>3, <2>4
<1>8. ASSUME NEW q \in F PROVE q \in FilesBelow(t, p)
    BY <1>1, <1>2, <1>3 DEF FilesBelow
<1>9. ASSUME NEW c \in D, NEW q \in FilesBelow(t, c) PROVE q \in FilesBelow(t, p)
    <2>1. q \in Under(t, c) /\ t[q].type = "file" /\ c \in C
        BY DEF FilesBelow
    <2>2. q # p /\ q \in Under(t, p)
        BY <1>2, <1>3, <2>1
    <2>3. QED
        BY <2>1, <2>2 DEF FilesBelow
<1>10. FilesBelow(t, p) = F \cup UNION {FilesBelow(t, c) : c \in D}
    <2> HIDE DEF F, D
    <2>1. QED
        BY <1>7, <1>8, <1>9
<1>11. ASSUME NEW c \in D, NEW d \in F PROVE d # c
    OBVIOUS
<1>12. \A c \in D : NoneBelow(F, FilesBelow(t, c))
    <2>1. SUFFICES ASSUME NEW c \in D, NEW d \in F, NEW r \in FilesBelow(t, c) PROVE ~IsUnder(d, r)
        BY DEF NoneBelow
    <2>2. c \in C /\ d \in C /\ d # c /\ r \in Under(t, c) /\ d \in Under(t, d)
        BY <1>3, <1>6, <1>11
    <2>3. QED
        BY <1>4, <2>2 DEF NoneBelow
<1>13. \A c, d \in D : c # d => NoneBelow(FilesBelow(t, c), FilesBelow(t, d))
    <2>1. \A c \in D : c \in C
        OBVIOUS
    <2>2. QED
        BY <1>4, <1>6, <2>1 DEF NoneBelow
<1>14. QED
    BY <1>10, <1>12, <1>13 DEF C

\* The stack of grep meets all files below its root, each once.
LEMMA CollectFilesMeets ==
    ASSUME NEW t, IsTree(t), NEW node \in DOMAIN t
    PROVE  /\ CollectFiles(t, node) \in Seq(Paths) /\ TopDown(CollectFiles(t, node))
           /\ ToSet(CollectFiles(t, node)) = {q \in Under(t, node) : t[q].type = "file"}
<1> DEFINE U == Under(t, node)
           head == [p \in U |-> OfType(t, Children(t, p), "file")]
           subs == [p \in U |-> Reverse(OfType(t, Children(t, p), "dir"))]
           W == [p \in U |-> FilesBelow(t, p)]
           Rec(f) == f = [p \in U |-> FilesAt(t, f, p)]
           files == CHOOSE f : Rec(f)
<1>1. CollectFiles(t, node) = IF t[node].type = "file" THEN <<node>> ELSE files[node]
    BY DEF CollectFiles, FilesAt
<1>2. node \in Paths /\ IsUnder(node, node) /\ node \in U
    BY TreeNodes, UnderIsPrefix DEF Under
<1>3. ASSUME NEW p \in U PROVE p \in DOMAIN t /\ ChildrenOf(t, p) \subseteq U
    <2>1. p \in DOMAIN t /\ p \in Paths /\ IsUnder(p, node)
        BY TreeNodes DEF Under
    <2>2. ASSUME NEW c \in ChildrenOf(t, p) PROVE c \in U
        <3>1. c \in DOMAIN t /\ c \in Paths /\ IsUnder(c, p)
            BY <2>1, ChildUnder
        <3>2. QED
            BY <1>2, <2>1, <3>1, BelowBelow DEF Under
    <2>3. QED
        BY <2>1, <2>2
<1>4. ASSUME NEW p \in U
      PROVE  /\ head[p] = OfType(t, Children(t, p), "file")
             /\ subs[p] = Reverse(OfType(t, Children(t, p), "dir"))
             /\ W[p] = FilesBelow(t, p)
    <2> HIDE DEF U
    <2>1. QED
        OBVIOUS
<1>5. DOMAIN head = U /\ head = [p \in U |-> head[p]] /\ DOMAIN subs = U /\ subs = [p \in U |-> subs[p]]
    <2> HIDE DEF U
    <2>1. QED
        OBVIOUS
<1> HIDE DEF head, subs, W
<1>6. ASSUME NEW p \in U
      PROVE  /\ head[p] \in Seq(Paths) /\ TopDown(head[p])
             /\ ToSet(head[p]) = {c \in ChildrenOf(t, p) : t[c].type = "file"}
             /\ subs[p] \in Seq(ChildrenOf(t, p)) /\ IsInjective(subs[p])
             /\ ToSet(subs[p]) = {c \in ChildrenOf(t, p) : t[c].type = "dir"}
    <2>1. p \in DOMAIN t
        BY <1>3
    <2> HIDE DEF U
    <2>2. /\ head[p] \in Seq(ChildrenOf(t, p)) /\ IsInjective(head[p])
          /\ ToSet(head[p]) = {c \in ChildrenOf(t, p) : t[c].type = "file"}
        BY <1>4, <2>1, ChildrenOfType
    <2> DEFINE dirs == OfType(t, Children(t, p), "dir")
    <2>3. /\ dirs \in Seq(ChildrenOf(t, p)) /\ IsInjective(dirs)
          /\ ToSet(dirs) = {c \in ChildrenOf(t, p) : t[c].type = "dir"}
        BY <2>1, ChildrenOfType
    <2> HIDE DEF dirs
    <2>4. subs[p] = Reverse(dirs)
        BY <1>4 DEF dirs
    <2>5. /\ subs[p] \in Seq(ChildrenOf(t, p)) /\ IsInjective(subs[p])
          /\ ToSet(subs[p]) = {c \in ChildrenOf(t, p) : t[c].type = "dir"}
        BY <2>3, <2>4, ReverseTyped
    <2>6. head[p] \in Seq(Paths) /\ TopDown(head[p])
        BY <2>1, <2>2, ChildrenTopDown
    <2>7. QED
        BY <2>2, <2>5, <2>6
<1>7. head \in [U -> Seq(Paths)]
    BY <1>5, <1>6
<1>8. PICK M, size : GoesDown(U, M, size, head, subs)
    BY <1>5, <1>6, <1>7, TreeGoesDown
<1> HIDE DEF U
<1>9. ASSUME NEW p \in U
      PROVE  /\ TopDown(head[p])
             /\ W[p] = ToSet(head[p]) \cup UNION {W[subs[p][i]] : i \in DOMAIN subs[p]}
             /\ \A i \in DOMAIN subs[p] : NoneBelow(ToSet(head[p]), W[subs[p][i]])
             /\ \A i, j \in DOMAIN subs[p] : i # j => NoneBelow(W[subs[p][i]], W[subs[p][j]])
    <2> DEFINE below == subs[p]
               F == {c \in ChildrenOf(t, p) : t[c].type = "file"}
               D == {c \in ChildrenOf(t, p) : t[c].type = "dir"}
    <2>1. W[p] = FilesBelow(t, p) /\ p \in DOMAIN t /\ ToSet(head[p]) = F /\ TopDown(head[p])
        BY <1>3, <1>4, <1>6
    <2>2. D = {below[i] : i \in DOMAIN below} /\ IsInjective(below)
        BY <1>6 DEF ToSet
    <2>3. \A c \in D : c \in U
        BY <1>3
    <2>4. /\ FilesBelow(t, p) = F \cup UNION {FilesBelow(t, c) : c \in D}
          /\ \A c \in D : NoneBelow(F, FilesBelow(t, c))
          /\ \A c, d \in D : c # d => NoneBelow(FilesBelow(t, c), FilesBelow(t, d))
        BY <2>1, FilesOfChildren
    <2> HIDE DEF D, F, below
    <2>5. \A i \in DOMAIN below : below[i] \in D /\ W[below[i]] = FilesBelow(t, below[i])
        BY <1>4, <2>2, <2>3
    <2>6. UNION {FilesBelow(t, c) : c \in D} = UNION {W[below[i]] : i \in DOMAIN below}
        BY <2>2, <2>5
    <2>7. \A i, j \in DOMAIN below : i # j => below[i] # below[j]
        BY <2>2 DEF IsInjective
    <2>8. \A i, j \in DOMAIN below : i # j => NoneBelow(W[below[i]], W[below[j]])
        BY <2>4, <2>5, <2>7
    <2>9. \A i \in DOMAIN below : NoneBelow(ToSet(head[p]), W[below[i]])
        BY <2>1, <2>4, <2>5
    <2>10. QED
        BY <2>1, <2>4, <2>6, <2>8, <2>9 DEF below
<1>10. Meets(U, head, subs, W)
    BY <1>9 DEF Meets
<1>11. ASSUME NEW f PROVE Rec(f) <=> IsWalk(f, U, head, subs)
    <2>1. \A p \in U : Down(head, subs, f, p) = FilesAt(t, f, p)
        BY <1>4 DEF Down, FilesAt
    <2>2. [p \in U |-> Down(head, subs, f, p)] = [p \in U |-> FilesAt(t, f, p)]
        BY <2>1
    <2>3. QED
        BY <2>2 DEF IsWalk
<1>12. PICK f : IsWalk(f, U, head, subs)
    BY <1>8, WalkExists
<1>13. Rec(files)
    <2>1. Rec(f)
        BY <1>11, <1>12
    <2> HIDE DEF Rec
    <2>2. QED
        BY <2>1
<1>14. IsWalk(files, U, head, subs)
    BY <1>11, <1>13
<1> HIDE DEF files
<1>15. files[node] \in Seq(Paths) /\ TopDown(files[node]) /\ ToSet(files[node]) = W[node]
    BY <1>2, <1>8, <1>10, <1>14, WalkMeets
<1>16. W[node] = FilesBelow(t, node)
    BY <1>2, <1>4
<1>17. CASE t[node].type = "file"
    <2>1. \A q \in U : q = node
        <3>1. ASSUME NEW q \in Under(t, node), q # node PROVE FALSE
            <4>1. TypeOf(t, node) = "dir"
                BY <3>1, ChildTowards
            <4>2. QED
                BY <1>17, <4>1 DEF TypeOf
        <3>2. QED
            BY <3>1 DEF U
    <2>2. {q \in U : t[q].type = "file"} = {node}
        BY <1>2, <1>17, <2>1
    <2>3. DOMAIN <<node>> = {1} /\ <<node>>[1] = node /\ <<node>> \in Seq(Paths)
        BY <1>2
    <2>4. TopDown(<<node>>) /\ ToSet(<<node>>) = {node}
        BY <2>3 DEF TopDown, ToSet
    <2>5. QED
        BY <1>1, <1>17, <2>2, <2>3, <2>4 DEF U
<1>18. CASE t[node].type # "file"
    <2>1. FilesBelow(t, node) = {q \in Under(t, node) : t[q].type = "file"}
        BY <1>18 DEF FilesBelow
    <2>2. QED
        BY <1>1, <1>15, <1>16, <1>18, <2>1 DEF files
<1>19. QED
    BY <1>17, <1>18

-----------------------------------------------------------------------------
(* The walks agree.                                                        *)

\* What is top down has nothing twice.
LEMMA TopDownOnce ==
    ASSUME NEW s \in Seq(Paths), TopDown(s)
    PROVE  IsInjective(s) /\ Len(s) = Cardinality(ToSet(s))
<1> DEFINE n == Len(s)
<1>1. n \in Nat /\ DOMAIN s = 1..n /\ \A i \in 1..n : s[i] \in Paths
    OBVIOUS
<1> HIDE DEF n
<1>2. ASSUME NEW i \in 1..n, NEW j \in 1..n, s[i] = s[j] PROVE i = j
    <2>1. IsUnder(s[i], s[i])
        <3>1. s[i] \in Paths
            BY <1>1
        <3>2. QED
            BY <3>1, UnderIsPrefix
    <2>2. i <= j /\ j <= i
        BY <1>1, <1>2, <2>1 DEF TopDown
    <2>3. QED
        BY <1>1, <2>2
<1>3. IsInjective(s)
    BY <1>1, <1>2 DEF IsInjective
<1>4. s \in [1..n -> ToSet(s)] /\ \A q \in ToSet(s) : \E i \in 1..n : s[i] = q
    <2>1. s = [i \in 1..n |-> s[i]]
        BY <1>1
    <2>2. \A i \in 1..n : s[i] \in ToSet(s)
        BY <1>1 DEF ToSet
    <2>3. \A q \in ToSet(s) : \E i \in 1..n : s[i] = q
        BY <1>1 DEF ToSet
    <2>4. QED
        BY <2>1, <2>2, <2>3
<1>5. s \in Surjection(1..n, ToSet(s)) /\ s \in Injection(1..n, ToSet(s))
    BY <1>3, <1>4 DEF Surjection, Injection
<1>6. IsFiniteSet(1..n) /\ Cardinality(1..n) = n
    BY <1>1, FS_Interval
<1>7. Cardinality(ToSet(s)) = Cardinality(1..n)
    BY <1>5, <1>6, FS_Surjection
<1>8. QED
    BY <1>3, <1>6, <1>7 DEF n

\* find and grep walk the same, below any node of any tree.
LEMMA TreeWalks ==
    ASSUME NEW t, IsTree(t), NEW wd \in DOMAIN t, NEW node \in DOMAIN t
    PROVE  LET found == FindPaths(t, node)
               files == CollectFiles(t, node)
           IN /\ ToSet(found) = Under(t, node) /\ Len(found) = Cardinality(ToSet(found))
              /\ \A i, j \in DOMAIN found : (IsPrefix(found[i], found[j]) /\ i # j) => i < j
              /\ ToSet(files) = ToSet(OfType(t, found, "file"))
              /\ Len(files) = Cardinality(ToSet(files))
              /\ Resolve(t, wd, Typed(node)) = node
<1> DEFINE found == FindPaths(t, node)
           files == CollectFiles(t, node)
           S == {q \in DOMAIN t : t[q].type = "file"}
<1>1. found \in Seq(Paths) /\ TopDown(found) /\ ToSet(found) = Under(t, node)
    BY FindPathsMeets
<1>2. /\ files \in Seq(Paths) /\ TopDown(files)
      /\ ToSet(files) = {q \in Under(t, node) : t[q].type = "file"}
    BY CollectFilesMeets
<1>3. Under(t, node) \cap S = {q \in Under(t, node) : t[q].type = "file"}
    BY DEF Under
<1>4. OfType(t, found, "file") = Only(found, S)
    BY DEF OfType
<1> HIDE DEF found, files, S
<1>5. ToSet(Only(found, S)) = ToSet(found) \cap S
    BY <1>1, OnlyTyped
<1>6. ToSet(files) = ToSet(OfType(t, found, "file"))
    BY <1>1, <1>2, <1>3, <1>4, <1>5
<1>7. Len(found) = Cardinality(ToSet(found)) /\ Len(files) = Cardinality(ToSet(files))
    BY <1>1, <1>2, TopDownOnce
<1>8. ASSUME NEW i \in DOMAIN found, NEW j \in DOMAIN found, IsPrefix(found[i], found[j]), i # j
      PROVE  i < j
    <2>1. i \in Nat /\ j \in Nat
        BY <1>1
    <2>2. i <= j
        BY <1>1, <1>8 DEF TopDown, IsUnder
    <2>3. QED
        BY <1>8, <2>1, <2>2
<1>9. Resolve(t, wd, Typed(node)) = node
    BY OwnPath
<1>10. QED
    BY <1>1, <1>6, <1>7, <1>8, <1>9 DEF found, files

\* grep prints the files below its root that have the word.
Hits(t, node, pattern) == {q \in Under(t, node) : t[q].type = "file" /\ Hit(t[q].text, pattern)}

LEMMA MatchingHits ==
    ASSUME NEW t, IsTree(t), NEW node \in DOMAIN t, NEW pattern
    PROVE  /\ Matching(t, node, pattern) \in Seq(Paths)
           /\ ToSet(Matching(t, node, pattern)) = Hits(t, node, pattern)
<1> DEFINE files == CollectFiles(t, node)
           S == {q \in DOMAIN t : Hit(t[q].text, pattern)}
<1>1. files \in Seq(Paths) /\ ToSet(files) = {q \in Under(t, node) : t[q].type = "file"}
    BY CollectFilesMeets
<1>2. Matching(t, node, pattern) = Only(files, S)
    BY DEF Matching
<1>3. {q \in Under(t, node) : t[q].type = "file"} \cap S = Hits(t, node, pattern)
    BY DEF Hits, Under
<1> HIDE DEF files, S
<1>4. Only(files, S) \in Seq(Paths \cap S) /\ ToSet(Only(files, S)) = ToSet(files) \cap S
    BY <1>1, OnlyTyped
<1>5. Only(files, S) \in Seq(Paths)
    BY <1>4
<1>6. QED
    BY <1>1, <1>2, <1>3, <1>4, <1>5

-----------------------------------------------------------------------------
(* A command.                                                              *)

\* What a command does to one operand: cp has two paths there.
OperandsOf(cmd) == {o \in Seq(TypedPaths) : Len(o) = IF cmd.name = "cp" THEN 2 ELSE 1}

\* Every command does to an operand only what it asks for.
LEMMA DoAsked ==
    ASSUME NEW t, IsTree(t), NEW wd, TypeOf(t, wd) = "dir", NEW cmd, IsCommand(cmd),
           cmd.name # "cd", NEW operand \in OperandsOf(cmd)
    PROVE  AsAsked(t, Do(t, wd, cmd, operand).tree, cmd, Resolve(t, wd, operand[1]), operand[1])
<1> DEFINE named == Resolve(t, wd, operand[1])
<1>1. operand[1] \in TypedPaths /\ (cmd.name = "cp" => operand[2] \in TypedPaths)
    BY DEF OperandsOf
<1>2. CASE cmd.name = "touch"
    <2>1. Do(t, wd, cmd, operand) = Touch(t, wd, operand[1])
        BY <1>2 DEF Do
    <2>2. QED
        BY <1>1, <2>1, TouchAsked
<1>3. CASE cmd.name = "mkdir"
    <2>1. Do(t, wd, cmd, operand) = Mkdir(t, wd, operand[1])
        BY <1>3 DEF Do
    <2>2. QED
        BY <1>1, <2>1, MkdirAsked
<1>4. CASE cmd.name = "mkdir_p"
    <2>1. Do(t, wd, cmd, operand) = MkdirParents(t, wd, operand[1])
        BY <1>4 DEF Do
    <2>2. QED
        BY <1>1, <1>4, <2>1, MkdirParentsAsked
<1>5. CASE cmd.name = "cp"
    <2>1. Do(t, wd, cmd, operand) = Copy(t, wd, operand[1], operand[2])
        BY <1>5 DEF Do
    <2>2. QED
        BY <1>1, <1>5, <2>1, CopyAsked
<1>6. CASE cmd.name = "rm"
    <2>1. Do(t, wd, cmd, operand) = RemoveFile(t, wd, operand[1])
        BY <1>6 DEF Do
    <2>2. QED
        BY <1>1, <1>6, <2>1, RemoveAsked
<1>7. CASE cmd.name = "cat"
    <2>1. Do(t, wd, cmd, operand) = Cat(t, wd, operand[1])
        BY <1>7 DEF Do
    <2>2. Cat(t, wd, operand[1]).tree = t
        BY DEF Cat, Refuse, Says
    <2>3. QED
        BY <2>1, <2>2, Unchanged
<1>8. CASE cmd.name = "grep_l"
    <2>1. Do(t, wd, cmd, operand) = GrepList(t, wd, operand[1], cmd.text)
        BY <1>8 DEF Do
    <2>2. GrepList(t, wd, operand[1], cmd.text).tree = t
        BY DEF GrepList, Refuse, Says
    <2>3. QED
        BY <2>1, <2>2, Unchanged
<1>9. CASE cmd.name = "echo"
    <2>1. Do(t, wd, cmd, operand) = Redirect(t, wd, operand[1], cmd.op, cmd.text)
        BY <1>9 DEF Do
    <2>2. cmd.op \in {">", ">>", ">|"} /\ cmd.text \in Words
        BY <1>9 DEF IsCommand
    <2>3. QED
        BY <1>1, <1>9, <2>1, <2>2, RedirectAsked
<1>10. QED
    BY <1>2, <1>3, <1>4, <1>5, <1>6, <1>7, <1>8, <1>9 DEF IsCommand

\* What find finds is in the tree.
LEMMA MatchesAreThere ==
    ASSUME NEW t, IsTree(t), NEW wd \in DOMAIN t, NEW find, find.root \in TypedPaths,
           Resolve(t, wd, find.root) # Nowhere
    PROVE  FindMatches(t, Resolve(t, wd, find.root), find) \in Seq(DOMAIN t)
<1> DEFINE node == Resolve(t, wd, find.root)
           S == {p \in DOMAIN t :
                    /\ find.names # {} => p # Root /\ Last(p) \in find.names
                    /\ find.type # "any" => t[p].type = find.type}
<1>1. node \in DOMAIN t
    BY Resolves DEF Places
<1>2. FindMatches(t, node, find) = Only(FindPaths(t, node), S)
    BY DEF FindMatches
<1>3. S \subseteq DOMAIN t
    OBVIOUS
<1> HIDE DEF S, node
<1>4. FindPaths(t, node) \in Seq(Paths)
    BY <1>1, FindPathsMeets
<1>5. Only(FindPaths(t, node), S) \in Seq(Paths \cap S)
    BY <1>4, OnlyTyped
<1>6. Paths \cap S \subseteq DOMAIN t
    BY <1>3
<1>7. FindMatches(t, node, find) \in Seq(DOMAIN t)
    BY <1>2, <1>5, <1>6
<1>8. QED
    BY <1>7 DEF node

\* What find passes on are typed paths.
LEMMA FoundTyped ==
    ASSUME TypeOK, NEW cmd, IsCommand(cmd), cmd.find # NoFind
    PROVE  Found(cmd) \in Seq(TypedPaths)
<1> DEFINE node == Resolve(tree, cwd, cmd.find.root)
           paths == FindMatches(tree, node, cmd.find)
<1>1. cmd.find.root \in TypedPaths
    BY DEF IsCommand
<1>2. IsTree(tree) /\ cwd \in DOMAIN tree
    BY TypedIsThere DEF TypeOK
<1>3. CASE node = Nowhere
    BY <1>3 DEF Found
<1>4. CASE node # Nowhere
    <2>1. Found(cmd) = [i \in DOMAIN paths |-> Typed(paths[i])]
        BY <1>4 DEF Found
    <2>2. paths \in Seq(DOMAIN tree)
        BY <1>1, <1>2, <1>4, MatchesAreThere
    <2> HIDE DEF paths
    <2>3. DOMAIN paths = 1..Len(paths) /\ Len(paths) \in Nat
        BY <2>2
    <2>4. \A i \in DOMAIN paths : Typed(paths[i]) \in TypedPaths
        BY <1>2, <2>2, OwnPath
    <2>5. QED
        BY <2>1, <2>3, <2>4
<1>5. QED
    BY <1>3, <1>4

\* The operands are as the command takes them.
LEMMA OperandsTyped ==
    ASSUME NEW cmd, NEW args \in Seq(TypedPaths), cmd.name = "cp" => Len(args) = 2
    PROVE  Operands(cmd, args) \in Seq(OperandsOf(cmd))
<1>1. CASE cmd.name = "cp"
    <2>1. args \in OperandsOf(cmd)
        BY <1>1 DEF OperandsOf
    <2>2. QED
        BY <1>1, <2>1 DEF Operands
<1>2. CASE cmd.name # "cp"
    <2>1. /\ Len(args) \in Nat /\ DOMAIN args = 1..Len(args)
          /\ \A i \in DOMAIN args : args[i] \in TypedPaths
        OBVIOUS
    <2>2. \A raw \in TypedPaths : <<raw>> \in OperandsOf(cmd)
        BY <1>2 DEF OperandsOf
    <2>3. \A i \in DOMAIN args : <<args[i]>> \in OperandsOf(cmd)
        BY <2>1, <2>2
    <2>4. [i \in DOMAIN args |-> <<args[i]>>] \in Seq(OperandsOf(cmd))
        BY <2>1, <2>3
    <2>5. QED
        BY <1>2, <2>4 DEF Operands
<1>3. QED
    BY <1>1, <1>2

-----------------------------------------------------------------------------
(* What a command has done to an operand.                                  *)

\* What AnswersAreTrue says of one operand, of a command that began in the tree
\* before and has come to the tree t.
CopyIn(t, wd, before, o) ==
    LET to == Resolve(before, wd, o[2])
    IN IF TypeOf(before, to) = "dir" THEN Append(to, Last(Resolve(before, wd, o[1])))
       ELSE Resolve(t, wd, o[2])
Copied(t, wd, before, o) ==
    LET copy == CopyIn(t, wd, before, o)
    IN \/ copy \in DOMAIN before
       \/ /\ TypeOf(t, copy) = "file"
          /\ t[copy].text = before[Resolve(before, wd, o[1])].text
Did(t, wd, cmd, before, o) ==
    /\ cmd.name = "touch" => TypeOf(t, Resolve(t, wd, o[1])) = "file"
    /\ cmd.name \in {"mkdir", "mkdir_p"} => TypeOf(t, Resolve(t, wd, o[1])) = "dir"
    /\ cmd.name = "rm" => Resolve(t, wd, o[1]) = Nowhere
    /\ cmd.name = "cp" => Copied(t, wd, before, o)

\* Something new in the tree leaves what was there.
LEMMA WithGrows ==
    ASSUME NEW t, IsTree(t), NEW path \in Paths, path # Root, path \notin DOMAIN t,
           TypeOf(t, Front(path)) = "dir", Last(path) \notin Dots, NEW node \in Nodes
    PROVE  LET r == With(t, path, node)
           IN IsTree(r) /\ Grown(t, r) /\ path \in DOMAIN r /\ r[path] = node
<1> DEFINE r == With(t, path, node)
<1>1. /\ IsTree(r) /\ DOMAIN r = DOMAIN t \cup {path} /\ r[path] = node
      /\ \A q \in DOMAIN t : q # path => r[q] = t[q]
    BY WithTree
<1> HIDE DEF r
<1>2. Grown(t, r) /\ path \in DOMAIN r
    BY <1>1 DEF Grown
<1>3. QED
    BY <1>1, <1>2 DEF r

\* What was there is of the type that it was.
LEMMA GrownTypes ==
    ASSUME NEW t, NEW r, Grown(t, r), NEW p, TypeOf(t, p) # "none"
    PROVE  TypeOf(r, p) = TypeOf(t, p)
BY TypedIsThere DEF Grown, TypeOf

\* A file where a command may write: the one that is there, or a new one, to which
\* the path leads from then on.
LEMMA CreateFileDid ==
    ASSUME NEW t, IsTree(t), NEW wd, TypeOf(t, wd) = "dir", NEW raw \in TypedPaths,
           NEW text \in Seq(Words), NEW path, path = WriteTarget(t, wd, raw), path # Nowhere,
           NEW r, r = CreateFile(t, path, text)
    PROVE  /\ IsTree(r) /\ Grown(t, r) /\ path \in DOMAIN r /\ Resolve(r, wd, raw) = path
           /\ path \notin DOMAIN t => r[path] = File(text)
<1>1. CASE Resolve(t, wd, raw) # Nowhere
    <2>1. path = Resolve(t, wd, raw) /\ path \in DOMAIN t
        BY <1>1, TypedIsThere, Resolves DEF WriteTarget, Places
    <2>2. r = t
        BY <2>1 DEF CreateFile
    <2>3. QED
        BY <2>1, <2>2 DEF Grown
<1>2. CASE Resolve(t, wd, raw) = Nowhere
    <2>1. path = NewTarget(t, wd, raw)
        BY <1>2 DEF WriteTarget
    <2>2. /\ path \in Paths /\ path # Root /\ path \notin DOMAIN t
          /\ TypeOf(t, Front(path)) = "dir" /\ Last(path) \notin Dots
        BY <1>2, <2>1, NewTargetFits
    <2>3. File(text) \in Nodes
        BY DEF File, Nodes
    <2>4. r = With(t, path, File(text))
        BY <2>2 DEF CreateFile
    <2>5. IsTree(r) /\ Grown(t, r) /\ path \in DOMAIN r /\ r[path] = File(text)
        BY <2>2, <2>3, <2>4, WithGrows
    <2>6. Resolve(r, wd, raw) = path
        BY <1>2, <2>1, <2>5, NewResolves
    <2>7. QED
        BY <2>5, <2>6
<1>3. QED
    BY <1>1, <1>2

\* touch: a file is there.
LEMMA TouchDid ==
    ASSUME NEW t, IsTree(t), NEW wd, TypeOf(t, wd) = "dir", NEW raw \in TypedPaths,
           NEW result, result = Touch(t, wd, raw)
    PROVE  /\ IsTree(result.tree) /\ Grown(t, result.tree)
           /\ result.ok => /\ result.out # <<>>
                           /\ TypeOf(result.tree, Resolve(result.tree, wd, raw)) = "file"
<1> DEFINE path == WriteTarget(t, wd, raw)
           r == CreateFile(t, path, <<>>)
           refused == ~MayWrite(path) \/ Ambiguous(t, wd, raw) \/ TypeOf(t, path) = "dir"
<1>1. result = IF refused THEN [ok |-> FALSE, out |-> <<>>, tree |-> t]
               ELSE [ok |-> TRUE, out |-> <<path>>, tree |-> r]
    BY DEF Touch, Refuse, Says
<1>2. CASE refused
    BY <1>1, <1>2 DEF Grown
<1>3. CASE ~refused
    <2>1. path # Nowhere /\ TypeOf(t, path) # "dir" /\ <<>> \in Seq(Words)
        BY <1>3 DEF MayWrite
    <2>2. /\ IsTree(r) /\ Grown(t, r) /\ path \in DOMAIN r /\ Resolve(r, wd, raw) = path
          /\ path \notin DOMAIN t => r[path] = File(<<>>)
        <3> DEFINE text == <<>>
        <3>1. text \in Seq(Words)
            OBVIOUS
        <3>2. path = WriteTarget(t, wd, raw)
            OBVIOUS
        <3> HIDE DEF path, text
        <3>3. r = CreateFile(t, path, text)
            BY DEF text
        <3> HIDE DEF r
        <3>4. /\ IsTree(r) /\ Grown(t, r) /\ path \in DOMAIN r /\ Resolve(r, wd, raw) = path
              /\ path \notin DOMAIN t => r[path] = File(text)
            BY <2>1, <3>1, <3>2, <3>3, CreateFileDid
        <3>5. QED
            BY <3>4 DEF text
    <2>3. TypeOf(r, path) = "file"
        <3> HIDE DEF path, r
        <3>1. CASE path \in DOMAIN t
            <4>1. TypeOf(t, path) = "file"
                BY <2>1, <3>1, TreeNodes
            <4>2. QED
                BY <2>2, <4>1, GrownTypes
        <3>2. CASE path \notin DOMAIN t
            BY <2>2, <3>2 DEF TypeOf, File
        <3>3. QED
            BY <3>1, <3>2
    <2>4. result.ok /\ result.tree = r /\ result.out = <<path>> /\ <<path>> # <<>>
        BY <1>1, <1>3
    <2> HIDE DEF path, r, refused
    <2>5. QED
        BY <2>2, <2>3, <2>4
<1>4. QED
    BY <1>2, <1>3

\* mkdir: a directory is there, that was not.
LEMMA MkdirDid ==
    ASSUME NEW t, IsTree(t), NEW wd, TypeOf(t, wd) = "dir", NEW raw \in TypedPaths,
           NEW result, result = Mkdir(t, wd, raw)
    PROVE  /\ IsTree(result.tree) /\ Grown(t, result.tree)
           /\ result.ok => /\ result.out # <<>>
                           /\ TypeOf(result.tree, Resolve(result.tree, wd, raw)) = "dir"
<1> DEFINE path == NewTarget(t, wd, raw)
           r == With(t, path, Dir)
           refused == ~MayWrite(path) \/ Resolve(t, wd, raw) # Nowhere
<1>1. result = IF refused THEN [ok |-> FALSE, out |-> <<>>, tree |-> t]
               ELSE [ok |-> TRUE, out |-> <<path>>, tree |-> r]
    BY DEF Mkdir, Refuse, Says
<1>2. CASE refused
    BY <1>1, <1>2 DEF Grown
<1>3. CASE ~refused
    <2>1. path # Nowhere /\ Resolve(t, wd, raw) = Nowhere
        BY <1>3 DEF MayWrite
    <2>2. /\ path \in Paths /\ path # Root /\ path \notin DOMAIN t
          /\ TypeOf(t, Front(path)) = "dir" /\ Last(path) \notin Dots
        BY <2>1, NewTargetFits
    <2>3. Dir \in Nodes /\ Dir.type = "dir"
        BY DEF Dir, Nodes
    <2>4. IsTree(r) /\ Grown(t, r) /\ path \in DOMAIN r /\ r[path] = Dir
        <3> HIDE DEF path
        <3>1. QED
            BY <2>2, <2>3, WithGrows
    <2>5. result.ok /\ result.tree = r /\ result.out = <<path>> /\ <<path>> # <<>>
        BY <1>1, <1>3
    <2> HIDE DEF r, refused
    <2>6. Resolve(r, wd, raw) = path
        BY <2>1, <2>4, NewResolves
    <2>7. TypeOf(r, path) = "dir"
        BY <2>3, <2>4 DEF TypeOf
    <2>8. QED
        BY <2>4, <2>5, <2>6, <2>7
<1>4. QED
    BY <1>2, <1>3

\* mkdir -p: a directory is there, and what was there still is, also when it fails.
LEMMA MkdirParentsDid ==
    ASSUME NEW t, IsTree(t), NEW wd, TypeOf(t, wd) = "dir", NEW raw \in TypedPaths,
           NEW result, result = MkdirParents(t, wd, raw)
    PROVE  /\ IsTree(result.tree) /\ Grown(t, result.tree)
           /\ result.ok => /\ result.out # <<>>
                           /\ TypeOf(result.tree, Resolve(result.tree, wd, raw)) = "dir"
<1> DEFINE node == Resolve(t, wd, raw)
           base == Start(wd, raw)
           g == [ok |-> TRUE, at |-> base, tree |-> t]
           m == Made(g, raw.parts)
           refused == ~MayWrite(Normalized(wd, raw)) \/ TypeOf(t, node) = "file"
<1>1. /\ wd \in DOMAIN t /\ raw.parts \in Seq(Names) /\ raw.abs \in BOOLEAN
      /\ TypeOf(t, base) = "dir" /\ base \in Paths
    BY TypedIsThere, TreeNodes, FixedPaths DEF TypedPaths, Start, IsTree
<1>2. g \in Makings(t)
    BY <1>1, TreesAreTrees DEF Makings, Grown
<1>3. MakeParents(t, wd, raw) = m
    BY DEF MakeParents, Made, Start
<1>4. m \in Makings(t)
    BY <1>1, <1>2, MakeFold
<1>5. /\ IsTree(m.tree) /\ Grown(t, m.tree) /\ m.ok \in BOOLEAN
      /\ m.ok => TypeOf(m.tree, m.at) = "dir"
    BY <1>4, TreesAreTrees DEF Makings
<1>6. m.ok => Walked(m.tree, base, raw.parts) = m.at
    <2> HIDE DEF base
    <2>1. QED
        BY <1>1, MadeWalks
<1> HIDE DEF m
<1>7. result = IF refused THEN [ok |-> FALSE, out |-> <<>>, tree |-> t]
               ELSE IF node # Nowhere THEN [ok |-> TRUE, out |-> <<node>>, tree |-> t]
               ELSE IF m.ok THEN [ok |-> TRUE, out |-> <<m.at>>, tree |-> m.tree]
               ELSE [ok |-> FALSE, out |-> <<>>, tree |-> m.tree]
    BY <1>3 DEF MkdirParents, Refuse, Says
<1>8. CASE refused
    BY <1>7, <1>8 DEF Grown
<1>9. CASE ~refused /\ node # Nowhere
    <2>1. result.ok /\ result.tree = t /\ result.out = <<node>> /\ <<node>> # <<>>
        BY <1>7, <1>9
    <2>2. TypeOf(t, node) \in {"dir", "file"} /\ TypeOf(t, node) # "file"
        <3>1. node \in DOMAIN t
            BY <1>1, <1>9, Resolves DEF Places
        <3>2. TypeOf(t, node) # "file"
            BY <1>9
        <3> HIDE DEF node
        <3>3. QED
            BY <3>1, <3>2, TreeNodes
    <2> HIDE DEF refused
    <2>3. QED
        BY <2>1, <2>2 DEF Grown
<1>10. CASE ~refused /\ node = Nowhere /\ m.ok
    <2>1. result.ok /\ result.tree = m.tree /\ result.out = <<m.at>> /\ <<m.at>> # <<>>
        BY <1>7, <1>10
    <2>2. raw.parts # <<>>
        <3>1. MayWrite(Normalized(wd, raw)) /\ node = Nowhere
            BY <1>10
        <3>2. ASSUME raw.parts = <<>> PROVE FALSE
            <4>1. CASE raw.abs
                BY <1>1, <3>1, <3>2, <4>1, Resolves, FixedPaths
            <4>2. CASE ~raw.abs
                BY <3>1, <3>2, <4>2 DEF Normalized, MayWrite
            <4>3. QED
                BY <4>1, <4>2
        <3>3. QED
            BY <3>2
    <2>3. wd \in DOMAIN m.tree
        BY <1>1, <1>5 DEF Grown
    <2>4. Resolve(m.tree, wd, raw) = m.at
        BY <1>5, <1>6, <1>10, <2>2, <2>3, Resolves
    <2> HIDE DEF refused, node
    <2>5. QED
        BY <1>5, <1>10, <2>1, <2>4
<1>11. CASE ~refused /\ node = Nowhere /\ ~m.ok
    <2>1. ~result.ok /\ result.tree = m.tree
        BY <1>7, <1>11
    <2>2. QED
        BY <1>5, <2>1
<1>12. QED
    BY <1>8, <1>9, <1>10, <1>11

\* rm: the path leads nowhere.
LEMMA RemoveDid ==
    ASSUME NEW t, IsTree(t), NEW wd, TypeOf(t, wd) = "dir", NEW raw \in TypedPaths,
           NEW result, result = RemoveFile(t, wd, raw)
    PROVE  /\ IsTree(result.tree) /\ DOMAIN result.tree \subseteq DOMAIN t
           /\ wd \in DOMAIN result.tree
           /\ result.ok => result.out # <<>> /\ Resolve(result.tree, wd, raw) = Nowhere
<1> DEFINE node == Resolve(t, wd, raw)
           r == [p \in DOMAIN t \ {node} |-> t[p]]
           refused == TypeOf(t, node) # "file" \/ ~MayWrite(node)
<1>1. result = IF refused THEN [ok |-> FALSE, out |-> <<>>, tree |-> t]
               ELSE [ok |-> TRUE, out |-> <<node>>, tree |-> r]
    BY DEF RemoveFile, Refuse, Says
<1>2. wd \in DOMAIN t
    BY TypedIsThere
<1>3. CASE refused
    BY <1>1, <1>2, <1>3
<1>4. CASE ~refused
    <2>1. result.ok /\ result.tree = r /\ result.out = <<node>> /\ <<node>> # <<>>
        BY <1>1, <1>4
    <2>2. TypeOf(t, node) = "file" /\ node # Nowhere
        BY <1>4 DEF MayWrite
    <2>3. DOMAIN r = DOMAIN t \ {node} /\ wd # node
        BY <2>2
    <2>4. IsTree(r)
        <3> HIDE DEF node
        <3>1. QED
            BY <2>2, WithoutFile
    <2> HIDE DEF r, refused
    <2>5. wd \in DOMAIN r /\ DOMAIN r \subseteq DOMAIN t
        BY <1>2, <2>3
    <2>6. Resolve(r, wd, raw) = Nowhere \/ Resolve(r, wd, raw) = node
        BY <2>4, <2>5, ShrunkResolves
    <2>7. Resolve(r, wd, raw) \in DOMAIN r \cup {Nowhere}
        BY <2>4, <2>5, Resolves DEF Places
    <2>8. Resolve(r, wd, raw) = Nowhere
        BY <2>3, <2>6, <2>7
    <2>9. QED
        BY <2>1, <2>4, <2>5, <2>8
<1>5. QED
    BY <1>3, <1>4

\* cp: the copy is there, with the text, unless something had its name.
LEMMA CopyDid ==
    ASSUME NEW t, IsTree(t), NEW wd, TypeOf(t, wd) = "dir", NEW o \in Seq(TypedPaths), Len(o) = 2,
           NEW result, result = Copy(t, wd, o[1], o[2])
    PROVE  result.ok => Copied(result.tree, wd, t, o)
<1> DEFINE from == Resolve(t, wd, o[1])
           to == Resolve(t, wd, o[2])
           into == IF TypeOf(t, to) = "dir" THEN Typed(Append(to, Last(from))) ELSE o[2]
           path == WriteTarget(t, wd, into)
           r == CreateFile(t, path, t[from].text)
           refused == TypeOf(t, from) # "file" \/ TypeOf(t, to) = "file" \/ ~MayWrite(path)
                      \/ Ambiguous(t, wd, into)
<1>1. result = IF refused THEN [ok |-> FALSE, out |-> <<>>, tree |-> t]
               ELSE [ok |-> TRUE, out |-> <<path>>, tree |-> r]
    BY DEF Copy, Refuse, Says
<1>2. CASE refused
    BY <1>1, <1>2
<1>3. CASE ~refused
    <2>1. /\ TypeOf(t, from) = "file" /\ TypeOf(t, to) # "file" /\ path # Nowhere
          /\ result.tree = r
        BY <1>1, <1>3 DEF MayWrite
    <2>2. o[1] \in TypedPaths /\ o[2] \in TypedPaths /\ wd \in DOMAIN t
        BY TypedIsThere
    <2>3. /\ from \in DOMAIN t /\ from \in Paths /\ from # Root /\ t[from].text \in Seq(Words)
          /\ Last(from) \notin Dots
        BY <2>1, TypedIsThere, TreeNodes DEF IsTree, Nodes
    <2>4. Last(from) \in Names
        BY <2>3, PathParts DEF Root
    <2>5. CASE TypeOf(t, to) = "dir"
        <3> DEFINE copy == Append(to, Last(from))
        <3>1. to \in DOMAIN t /\ to \in Paths
            BY <2>5, TypedIsThere, TreeNodes
        <3>2. into = Typed(copy) /\ CopyIn(result.tree, wd, t, o) = copy
            BY <2>5 DEF CopyIn
        <3> HIDE DEF r, into, refused
        <3>3. copy \in Paths /\ copy # Root /\ Front(copy) = to /\ Last(copy) = Last(from)
            BY <2>4, <3>1, LongerPath DEF Root
        <3> HIDE DEF to, from
        <3>4. ASSUME copy \notin DOMAIN t PROVE path = copy
            <4> HIDE DEF copy
            <4>1. into \in TypedPaths /\ into.abs /\ into.parts = copy
                BY <3>2, <3>3 DEF Typed, TypedPaths, Paths
            <4>2. CASE Resolve(t, wd, into) # Nowhere
                <5> DEFINE front == Typed(to)
                <5>1. path = Resolve(t, wd, into) /\ Resolve(t, wd, into) = Walked(t, Root, copy)
                    BY <2>2, <3>3, <4>1, <4>2, Resolves DEF WriteTarget, Start, Root
                <5>2. copy = Append(to, Last(from)) /\ to \in Seq(Names) /\ Root \in Places(t)
                    BY <3>1, TypedIsThere DEF copy, Paths, Places, IsTree
                <5>3. Walked(t, Root, copy) = Walk(t, Walked(t, Root, to), Last(from))
                    BY <2>4, <5>2, WalkFold
                <5>4. Walked(t, Root, to) = to
                    BY <2>2, <3>1, OwnWalk
                <5>5. Walk(t, to, Last(from)) = Nowhere
                    <6>1. to # Nowhere /\ Last(from) # "." /\ Last(from) # ".."
                        BY <2>3, <3>1, TreeNodes DEF Dots
                    <6>2. QED
                        BY <3>4, <5>2, <6>1 DEF Walk
                <5>6. QED
                    BY <4>2, <5>1, <5>3, <5>4, <5>5
            <4>3. CASE Resolve(t, wd, into) = Nowhere
                <5>1. path = NewTarget(t, wd, into) /\ NewTarget(t, wd, into) # Nowhere
                    BY <2>1, <4>3 DEF WriteTarget
                <5>2. /\ path = Append(ParentFor(t, wd, into), Last(copy))
                      /\ ParentFor(t, wd, into) = Walked(t, Start(wd, into), Front(copy))
                    BY <4>1, <5>1, NewTargetParts
                <5>3. Start(wd, into) = Root
                    BY <4>1 DEF Start
                <5>4. Walked(t, Root, to) = to
                    BY <2>2, <3>1, OwnWalk
                <5>5. QED
                    BY <3>3, <5>2, <5>3, <5>4 DEF copy
            <4>4. QED
                BY <4>2, <4>3
        <3>5. into \in TypedPaths
            <4> HIDE DEF copy
            <4>1. QED
                BY <3>2, <3>3 DEF Typed, TypedPaths, Paths
        <3>6. ASSUME copy \notin DOMAIN t
              PROVE  TypeOf(r, copy) = "file" /\ r[copy].text = t[from].text
            <4>1. path = copy
                BY <3>4, <3>6
            <4> HIDE DEF copy
            <4>2. path \in DOMAIN r /\ r[path] = File(t[from].text)
                BY <2>1, <2>3, <3>5, <3>6, <4>1, CreateFileDid DEF r
            <4>3. QED
                BY <4>1, <4>2 DEF TypeOf, File
        <3> HIDE DEF copy
        <3>7. QED
            BY <2>1, <3>2, <3>6 DEF Copied, from
    <2>6. CASE TypeOf(t, to) # "dir"
        <3>1. to = Nowhere /\ into = o[2]
            <4>1. to \in DOMAIN t => TypeOf(t, to) \in {"dir", "file"}
                BY TreeNodes
            <4>2. QED
                BY <2>1, <2>2, <2>6, <4>1, Resolves DEF Places
        <3>2. path = NewTarget(t, wd, o[2])
            BY <3>1 DEF WriteTarget
        <3>3. path \notin DOMAIN t
            BY <2>1, <2>2, <3>1, <3>2, NewTargetFits
        <3> DEFINE text == t[from].text
        <3>4. path = WriteTarget(t, wd, o[2]) /\ r = CreateFile(t, path, text) /\ text \in Seq(Words)
            BY <2>3, <3>1
        <3> HIDE DEF path, r, text
        <3>5. /\ path \in DOMAIN r /\ Resolve(r, wd, o[2]) = path
              /\ r[path] = File(text)
            BY <2>1, <2>2, <3>3, <3>4, CreateFileDid
        <3>6. CopyIn(r, wd, t, o) = path
            BY <2>6, <3>5 DEF CopyIn
        <3>7. TypeOf(r, path) = "file" /\ r[path].text = text
            BY <3>5 DEF TypeOf, File
        <3>8. Copied(r, wd, t, o)
            BY <3>6, <3>7 DEF Copied, text
        <3>9. QED
            BY <2>1, <3>8
    <2>7. QED
        BY <2>5, <2>6
<1>4. QED
    BY <1>2, <1>3

\* An operand that a command answers for has what the command says.
LEMMA DoDid ==
    ASSUME NEW t, IsTree(t), NEW wd, TypeOf(t, wd) = "dir", NEW cmd, IsCommand(cmd),
           cmd.name # "cd", NEW o \in OperandsOf(cmd), NEW result, result = Do(t, wd, cmd, o),
           result.ok
    PROVE  /\ Did(result.tree, wd, cmd, t, o)
           /\ cmd.name \in {"touch", "mkdir", "mkdir_p", "rm"} => result.out # <<>>
<1>1. /\ o \in Seq(TypedPaths) /\ Len(o) \in {1, 2} /\ o[1] \in TypedPaths
      /\ cmd.name = "cp" => Len(o) = 2
    BY DEF OperandsOf
<1>2. CASE cmd.name = "touch"
    <2>1. result = Touch(t, wd, o[1])
        BY <1>2 DEF Do
    <2>2. QED
        BY <1>1, <1>2, <2>1, TouchDid DEF Did
<1>3. CASE cmd.name = "mkdir"
    <2>1. result = Mkdir(t, wd, o[1])
        BY <1>3 DEF Do
    <2>2. QED
        BY <1>1, <1>3, <2>1, MkdirDid DEF Did
<1>4. CASE cmd.name = "mkdir_p"
    <2>1. result = MkdirParents(t, wd, o[1])
        BY <1>4 DEF Do
    <2>2. QED
        BY <1>1, <1>4, <2>1, MkdirParentsDid DEF Did
<1>5. CASE cmd.name = "rm"
    <2>1. result = RemoveFile(t, wd, o[1])
        BY <1>5 DEF Do
    <2>2. QED
        BY <1>1, <1>5, <2>1, RemoveDid DEF Did
<1>6. CASE cmd.name = "cp"
    <2>1. result = Copy(t, wd, o[1], o[2])
        BY <1>6 DEF Do
    <2>2. QED
        BY <1>1, <1>6, <2>1, CopyDid DEF Did
<1>7. CASE cmd.name \in {"cat", "grep_l", "echo"}
    BY <1>7 DEF Did
<1>8. QED
    BY <1>2, <1>3, <1>4, <1>5, <1>6, <1>7 DEF IsCommand

\* The operands after it leave that as it is: nothing that is made goes, and
\* nothing that has gone comes back.
LEMMA DoLeavesDone ==
    ASSUME NEW t, IsTree(t), NEW wd, TypeOf(t, wd) = "dir", NEW cmd, IsCommand(cmd),
           cmd.name \notin {"cd", "cp"}, NEW o \in OperandsOf(cmd), NEW before,
           NEW result, result = Do(t, wd, cmd, o),
           NEW p \in OperandsOf(cmd), Did(t, wd, cmd, before, p)
    PROVE  Did(result.tree, wd, cmd, before, p)
<1>1. o[1] \in TypedPaths /\ p[1] \in TypedPaths /\ wd \in DOMAIN t
    BY TypedIsThere DEF OperandsOf
<1> DEFINE r == result.tree
           at == Resolve(t, wd, p[1])
<1>2. ASSUME IsTree(r), Grown(t, r), TypeOf(t, at) # "none"
      PROVE  TypeOf(r, Resolve(r, wd, p[1])) = TypeOf(t, at)
    <2>1. Nowhere \notin DOMAIN t
        BY TreeNodes
    <2>2. at # Nowhere
        BY <1>2, <2>1 DEF TypeOf
    <2>3. Resolve(r, wd, p[1]) = at
        BY <1>1, <1>2, <2>2, GrownResolves
    <2>4. QED
        BY <1>2, <2>3, GrownTypes
<1>3. CASE cmd.name = "touch"
    <2>1. result = Touch(t, wd, o[1]) /\ TypeOf(t, at) = "file"
        BY <1>3 DEF Do, Did
    <2>2. IsTree(r) /\ Grown(t, r)
        BY <1>1, <2>1, TouchDid
    <2>3. QED
        BY <1>2, <1>3, <2>1, <2>2 DEF Did
<1>4. CASE cmd.name = "mkdir"
    <2>1. result = Mkdir(t, wd, o[1]) /\ TypeOf(t, at) = "dir"
        BY <1>4 DEF Do, Did
    <2>2. IsTree(r) /\ Grown(t, r)
        BY <1>1, <2>1, MkdirDid
    <2>3. QED
        BY <1>2, <1>4, <2>1, <2>2 DEF Did
<1>5. CASE cmd.name = "mkdir_p"
    <2>1. result = MkdirParents(t, wd, o[1]) /\ TypeOf(t, at) = "dir"
        BY <1>5 DEF Do, Did
    <2>2. IsTree(r) /\ Grown(t, r)
        BY <1>1, <2>1, MkdirParentsDid
    <2>3. QED
        BY <1>2, <1>5, <2>1, <2>2 DEF Did
<1>6. CASE cmd.name = "rm"
    <2>1. result = RemoveFile(t, wd, o[1]) /\ at = Nowhere
        BY <1>6 DEF Do, Did
    <2>2. IsTree(r) /\ DOMAIN r \subseteq DOMAIN t /\ wd \in DOMAIN r
        BY <1>1, <2>1, RemoveDid
    <2>3. Resolve(r, wd, p[1]) = Nowhere
        BY <1>1, <2>1, <2>2, ShrunkResolves
    <2>4. QED
        BY <1>6, <2>3 DEF Did
<1>7. CASE cmd.name \in {"cat", "grep_l", "echo"}
    BY <1>7 DEF Did
<1>8. QED
    BY <1>3, <1>4, <1>5, <1>6, <1>7 DEF IsCommand

-----------------------------------------------------------------------------
(* The steps.                                                              *)

\* A command that runs is one that was considered, and its operands are left as
\* it takes them: TypeOK alone says nothing of what the next step is given.
JobOK ==
    job = Idle \/ (/\ job = [cmd |-> job.cmd, left |-> job.left, out |-> job.out,
                             done |-> job.done, before |-> job.before]
                   /\ job.cmd \in Commands /\ job.cmd.name # "cd"
                   /\ job.left \in Seq(OperandsOf(job.cmd)))
IInv == TypeOK /\ JobOK

\* The session begins in the workspace.
LEMMA InitIsTyped == Init => IInv
<1>1. SUFFICES ASSUME Init PROVE IInv
    OBVIOUS
<1>2. IsTree(tree) /\ cwd = Workspace /\ job = Idle
    BY <1>1, TreeAssumption DEF Init
<1>3. QED
    BY <1>2 DEF IInv, TypeOK, JobOK, IsTree

\* cd goes to directories only.
LEMMA ChangeDirKeeps ==
    ASSUME IInv, ChangeDir
    PROVE  IInv' /\ UNCHANGED tree
<1>1. tree' = tree /\ job' = job
    BY DEF ChangeDir
<1>2. \/ cwd' = cwd
      \/ TypeOf(tree, cwd') = "dir"
    BY Zenon DEF ChangeDir
<1>3. IsTree(tree) /\ TypeOf(tree, cwd') = "dir"
    BY <1>2 DEF IInv, TypeOK
<1>4. TypeOK'
    BY <1>1, <1>3, Zenon DEF TypeOK
<1>5. JobOK'
    BY <1>1, Zenon DEF JobOK, IInv
<1>6. QED
    BY <1>1, <1>4, <1>5 DEF IInv

\* A command begins with operands that it takes, find -exec and xargs included.
LEMMA BeginKeeps ==
    ASSUME IInv, Begin
    PROVE  IInv' /\ UNCHANGED tree
<1>1. tree' = tree /\ cwd' = cwd
    BY DEF Begin
<1>2. TypeOK'
    BY <1>1, Zenon DEF TypeOK, IInv
<1>3. JobOK'
    <2>1. PICK cmd \in Commands :
             /\ cmd.name # "cd"
             /\ LET args == IF cmd.find = NoFind THEN cmd.args ELSE Found(cmd)
                IN \/ UNCHANGED job
                   \/ /\ job' = [cmd |-> cmd, left |-> Operands(cmd, args), out |-> <<>>,
                                 done |-> <<>>, before |-> tree]
                      /\ ~(cmd.find.via # "exec" /\ ~ArityOk(cmd, args))
        BY Zenon DEF Begin
    <2> DEFINE args == IF cmd.find = NoFind THEN cmd.args ELSE Found(cmd)
    <2>2. IsCommand(cmd)
        BY TreeAssumption
    <2>3. args \in Seq(TypedPaths)
        <3>1. cmd.args \in Seq(TypedPaths)
            BY <2>2 DEF IsCommand
        <3>2. cmd.find # NoFind => Found(cmd) \in Seq(TypedPaths)
            BY <2>2, FoundTyped DEF IInv
        <3>3. QED
            BY <3>1, <3>2
    <2>4. cmd.name = "cp" => cmd.find = NoFind
        BY <2>2 DEF IsCommand
    <2> HIDE DEF args
    <2>5. CASE UNCHANGED job
        BY <2>5, Zenon DEF JobOK, IInv
    <2>6. CASE ~UNCHANGED job
        <3>1. /\ job' = [cmd |-> cmd, left |-> Operands(cmd, args), out |-> <<>>,
                         done |-> <<>>, before |-> tree]
              /\ ~(cmd.find.via # "exec" /\ ~ArityOk(cmd, args))
            BY <2>1, <2>6, Zenon DEF args
        <3>2. cmd.name = "cp" => Len(args) = 2
            BY <2>4, <3>1 DEF NoFind, ArityOk
        <3>3. Operands(cmd, args) \in Seq(OperandsOf(cmd))
            BY <2>3, <3>2, OperandsTyped
        <3> DEFINE left == Operands(cmd, args)
        <3> HIDE DEF left
        <3>4. job' = [cmd |-> cmd, left |-> left, out |-> <<>>, done |-> <<>>, before |-> tree]
            BY <3>1 DEF left
        <3>5. /\ job'.cmd = cmd /\ job'.left = left
              /\ job' = [cmd |-> job'.cmd, left |-> job'.left, out |-> job'.out,
                         done |-> job'.done, before |-> job'.before]
            BY <3>4
        <3>6. job'.cmd \in Commands /\ job'.cmd.name # "cd"
              /\ job'.left \in Seq(OperandsOf(job'.cmd))
            BY <2>1, <3>3, <3>5 DEF left
        <3>7. QED
            BY <3>5, <3>6, Zenon DEF JobOK
    <2>7. QED
        BY <2>5, <2>6
<1>4. QED
    BY <1>1, <1>2, <1>3 DEF IInv

\* One operand, and what is left of them.
LEMMA OperandKeeps ==
    ASSUME IInv, Operand
    PROVE  /\ IInv'
           /\ AsAsked(tree, tree', job.cmd, Resolve(tree, cwd, Head(job.left)[1]),
                      Head(job.left)[1])
<1> DEFINE operand == Head(job.left)
           result == Do(tree, cwd, job.cmd, operand)
           done == IF result.ok THEN Append(job.done, operand) ELSE job.done
<1>1. /\ job # Idle /\ job.left # <<>>
      /\ tree' = result.tree /\ cwd' = cwd
      /\ \/ job' = [job EXCEPT !.left = Tail(@), !.out = @ \o result.out, !.done = done]
         \/ job' = Idle
    BY DEF Operand, Running
<1>2. /\ job = [cmd |-> job.cmd, left |-> job.left, out |-> job.out,
                done |-> job.done, before |-> job.before]
      /\ job.cmd \in Commands /\ job.cmd.name # "cd"
      /\ job.left \in Seq(OperandsOf(job.cmd))
    BY <1>1, Zenon DEF IInv, JobOK
<1>3. operand \in OperandsOf(job.cmd) /\ Tail(job.left) \in Seq(OperandsOf(job.cmd))
    BY <1>1, <1>2, HeadTailProperties
<1>4. IsCommand(job.cmd)
    BY <1>2, TreeAssumption
<1>5. AsAsked(tree, tree', job.cmd, Resolve(tree, cwd, operand[1]), operand[1])
    <2> HIDE DEF operand
    <2>1. QED
        BY <1>1, <1>2, <1>3, <1>4, DoAsked DEF IInv, TypeOK
<1>6. TypeOK'
    <2>1. TypeOf(tree, cwd) = "dir" /\ cwd \in DOMAIN tree
        BY TypedIsThere DEF IInv, TypeOK
    <2>2. IsTree(tree') /\ TypeOf(tree', cwd) = "dir"
        BY <1>5, <2>1, Zenon DEF AsAsked
    <2>3. QED
        BY <1>1, <2>2, Zenon DEF TypeOK
<1>7. JobOK'
    <2>1. CASE job' = Idle
        BY <2>1, Zenon DEF JobOK
    <2>2. CASE job' # Idle
        <3> DEFINE out == job.out \o result.out
                   left == Tail(job.left)
        <3> HIDE DEF done, out, left, result, operand
        <3>1. job' = [job EXCEPT !.left = left, !.out = out, !.done = done]
            BY <1>1, <2>2, Zenon DEF left, out
        <3>2. job' = [cmd |-> job.cmd, left |-> left, out |-> out, done |-> done,
                      before |-> job.before]
            BY <1>2, <3>1
        <3>3. /\ job'.cmd = job.cmd /\ job'.left = left
              /\ job' = [cmd |-> job'.cmd, left |-> job'.left, out |-> job'.out,
                         done |-> job'.done, before |-> job'.before]
            BY <3>2
        <3>4. job'.cmd \in Commands /\ job'.cmd.name # "cd"
              /\ job'.left \in Seq(OperandsOf(job'.cmd))
            BY <1>2, <1>3, <3>3 DEF left
        <3>5. QED
            BY <3>3, <3>4, Zenon DEF JobOK
    <2>3. QED
        BY <2>1, <2>2
<1>8. QED
    BY <1>5, <1>6, <1>7 DEF IInv

\* The answer.
LEMMA FinishKeeps ==
    ASSUME IInv, Finish
    PROVE  IInv' /\ UNCHANGED tree
<1>1. tree' = tree /\ cwd' = cwd /\ job' = Idle
    BY Zenon DEF Finish
<1>2. QED
    BY <1>1, Zenon DEF IInv, TypeOK, JobOK

\* Every step.
LEMMA NextKeeps == IInv /\ [Next]_vars => IInv'
<1>1. SUFFICES ASSUME IInv, [Next]_vars PROVE IInv'
    OBVIOUS
<1>2. CASE ChangeDir
    BY <1>1, <1>2, ChangeDirKeeps
<1>3. CASE Begin
    BY <1>1, <1>3, BeginKeeps
<1>4. CASE Operand
    BY <1>1, <1>4, OperandKeeps
<1>5. CASE Finish
    BY <1>1, <1>5, FinishKeeps
<1>6. CASE UNCHANGED vars
    BY <1>1, <1>6, Zenon DEF IInv, TypeOK, JobOK, vars
<1>7. QED
    BY <1>1, <1>2, <1>3, <1>4, <1>5, <1>6 DEF Next

\* What a step does is what its operand asks for.
LEMMA StepAsAsked ==
    ASSUME IInv, Next, tree' # tree
    PROVE  AsAsked(tree, tree', job.cmd, Resolve(tree, cwd, Head(job.left)[1]), Head(job.left)[1])
BY ChangeDirKeeps, BeginKeeps, OperandKeeps, FinishKeeps DEF Next

-----------------------------------------------------------------------------
(* Answers.                                                                *)

\* What the operands that are done have come to, and what is left of those that
\* find has passed on: no answer can be told from a state without it.
DoneOK ==
    job = Idle \/
        (/\ answer = None
         /\ job.done \in Seq(OperandsOf(job.cmd))
         /\ \A i \in DOMAIN job.done : Did(tree, cwd, job.cmd, job.before, job.done[i])
         /\ job.cmd.find = NoFind => job.done \o job.left = Operands(job.cmd, job.cmd.args)
         /\ (job.cmd.name = "cp" /\ job.done = <<>>) => tree = job.before
         /\ LET root == Resolve(job.before, cwd, job.cmd.find.root)
            IN (job.cmd.find # NoFind /\ root # Nowhere) =>
                  Len(job.done) + Len(job.left) = Len(FindMatches(job.before, root, job.cmd.find))
         /\ (job.cmd.find # NoFind /\ job.cmd.name = "grep_l") =>
               \A i \in DOMAIN job.left : Resolve(tree, cwd, job.left[i][1]) # Nowhere)
TInv == IInv /\ DoneOK /\ AnswersAreTrue

\* An answer is true when its operands are done, all of those that find has made.
LEMMA AnswerIsTrue ==
    ASSUME (answer' # None /\ answer'.exit = 0) =>
              \E args :
                 /\ args = IF answer'.cmd.find = NoFind THEN Operands(answer'.cmd, answer'.cmd.args)
                           ELSE answer'.done
                 /\ \A i \in DOMAIN args : Did(tree', cwd', answer'.cmd, answer'.before, args[i])
                 /\ LET root == Resolve(answer'.before, cwd', answer'.cmd.find.root)
                    IN (answer'.cmd.find # NoFind /\ answer'.cmd.name # "cat" /\ root # Nowhere) =>
                          Len(answer'.done) = Len(FindMatches(answer'.before, root, answer'.cmd.find))
    PROVE  AnswersAreTrue'
<1>1. SUFFICES ASSUME Answered' PROVE AnswersAreTrue'
    BY Zenon DEF AnswersAreTrue
<1>2. PICK args :
         /\ args = Args'
         /\ \A i \in DOMAIN args : Did(tree', cwd', answer'.cmd, answer'.before, args[i])
         /\ (answer'.cmd.find # NoFind /\ answer'.cmd.name # "cat" /\ Searched' # Nowhere) =>
               Len(answer'.done) = Len(FindMatches(answer'.before, Searched', answer'.cmd.find))
    BY <1>1, Zenon DEF Answered, Args, Searched
<1>3. ASSUME NEW i \in DOMAIN Args'
      PROVE  LET o == Args'[i]
             IN /\ answer'.cmd.name = "touch" => TypeOf(tree', Resolve(tree', cwd', o[1])) = "file"
                /\ answer'.cmd.name \in {"mkdir", "mkdir_p"} =>
                      TypeOf(tree', Resolve(tree', cwd', o[1])) = "dir"
                /\ answer'.cmd.name = "rm" => Resolve(tree', cwd', o[1]) = Nowhere
                /\ answer'.cmd.name = "cp" => Copied(tree', cwd', answer'.before, o)
    BY <1>2, <1>3, Zenon DEF Did
<1>4. \A o : Copied(tree', cwd', answer'.before, o) =>
                \/ (CopyOf(o))' \in DOMAIN answer'.before
                \/ /\ TypeOf(tree', (CopyOf(o))') = "file"
                   /\ tree'[(CopyOf(o))'].text = answer'.before[Resolve(answer'.before, cwd', o[1])].text
    BY DEF Copied, CopyIn, CopyOf, At
<1>5. QED
    BY <1>2, <1>3, <1>4, Zenon DEF AnswersAreTrue, At

\* The next operand is done, and one less is left.
LEMMA OneMoreDone ==
    ASSUME NEW X, NEW s \in Seq(X), NEW l \in Seq(X), l # <<>>
    PROVE  /\ Head(l) \in X /\ Tail(l) \in Seq(X) /\ Append(s, Head(l)) \in Seq(X)
           /\ Append(s, Head(l)) \o Tail(l) = s \o l
           /\ Len(Append(s, Head(l))) + Len(Tail(l)) = Len(s) + Len(l)
           /\ Len(s \o l) = Len(s) + Len(l)
           /\ \A i \in DOMAIN Tail(l) : i + 1 \in DOMAIN l /\ Tail(l)[i] = l[i + 1]
           /\ \A i \in DOMAIN Append(s, Head(l)) :
                 \/ i \in DOMAIN s /\ Append(s, Head(l))[i] = s[i]
                 \/ Append(s, Head(l))[i] = Head(l)
<1> DEFINE x == Head(l)
           r == Tail(l)
           u == Append(s, x)
           m == Len(s)
           n == Len(l)
<1>1. m \in Nat /\ n \in Nat \ {0} /\ DOMAIN s = 1..m /\ DOMAIN l = 1..n
    OBVIOUS
<1>2. /\ x \in X /\ x = l[1]
      /\ r \in Seq(X) /\ Len(r) = n - 1 /\ \A i \in 1..(n - 1) : r[i] = l[i + 1]
    BY HeadTailProperties
<1>3. DOMAIN r = 1..(n - 1)
    BY <1>2
<1> HIDE DEF x, r
<1>4. /\ u \in Seq(X) /\ Len(u) = m + 1 /\ DOMAIN u = 1..(m + 1)
      /\ \A i \in 1..m : u[i] = s[i]
      /\ u[m + 1] = x
    BY <1>1, <1>2, AppendProperties
<1> HIDE DEF u
<1>5. /\ s \o l \in Seq(X) /\ Len(s \o l) = m + n
      /\ \A i \in 1..(m + n) : (s \o l)[i] = IF i <= m THEN s[i] ELSE l[i - m]
    BY ConcatProperties
<1>6. /\ u \o r \in Seq(X) /\ Len(u \o r) = m + 1 + (n - 1)
      /\ \A i \in 1..(m + 1 + (n - 1)) :
            (u \o r)[i] = IF i <= m + 1 THEN u[i] ELSE r[i - (m + 1)]
    <2>1. /\ u \o r \in Seq(X) /\ Len(u \o r) = Len(u) + Len(r)
          /\ \A i \in 1..(Len(u) + Len(r)) :
                (u \o r)[i] = IF i <= Len(u) THEN u[i] ELSE r[i - Len(u)]
        BY <1>2, <1>4, ConcatProperties
    <2>2. Len(u) = m + 1 /\ Len(r) = n - 1
        BY <1>2, <1>4
    <2>3. QED
        BY <2>1, <2>2, Zenon
<1> HIDE DEF m, n
<1>7. m + 1 + (n - 1) = m + n
    BY <1>1
<1>8. ASSUME NEW i \in 1..(m + n) PROVE (u \o r)[i] = (s \o l)[i]
    <2>1. i \in 1..m \/ i = m + 1 \/ i \in (m + 2)..(m + n)
        BY <1>1
    <2>2. CASE i \in 1..m
        <3>1. i <= m /\ i <= m + 1
            BY <1>1, <2>2
        <3>2. QED
            BY <1>4, <1>5, <1>6, <1>7, <2>2, <3>1
    <2>3. CASE i = m + 1
        <3>1. ~(i <= m) /\ i <= m + 1 /\ i - m = 1
            BY <1>1, <2>3
        <3>2. QED
            BY <1>2, <1>4, <1>5, <1>6, <1>7, <2>3, <3>1
    <2>4. CASE i \in (m + 2)..(m + n)
        <3>1. /\ ~(i <= m) /\ ~(i <= m + 1) /\ i - (m + 1) \in 1..(n - 1)
              /\ i - (m + 1) + 1 = i - m
            BY <1>1, <2>4
        <3>2. r[i - (m + 1)] = l[i - m]
            BY <1>2, <3>1
        <3>3. QED
            BY <1>5, <1>6, <1>7, <3>1, <3>2
    <2>5. QED
        BY <2>1, <2>2, <2>3, <2>4
<1>9. u \o r = s \o l
    BY <1>5, <1>6, <1>7, <1>8, SeqEqual
<1>10. \A i \in DOMAIN r : i + 1 \in DOMAIN l /\ r[i] = l[i + 1]
    BY <1>1, <1>2, <1>3
<1>11. \A i \in DOMAIN u : (i \in DOMAIN s /\ u[i] = s[i]) \/ u[i] = x
    <2>1. \A i \in 1..(m + 1) : i \in 1..m \/ i = m + 1
        BY <1>1
    <2>2. QED
        BY <1>1, <1>4, <2>1
<1>12. Len(u) + Len(r) = m + n
    BY <1>1, <1>2, <1>4
<1>13. QED
    BY <1>2, <1>4, <1>5, <1>9, <1>10, <1>11, <1>12 DEF x, r, u, m, n

\* cd has no operands to be done.
LEMMA ChangeDirAnswers ==
    ASSUME TInv, ChangeDir
    PROVE  DoneOK' /\ AnswersAreTrue'
<1>1. job' = Idle
    BY DEF ChangeDir
<1>2. PICK cmd \in Commands :
         /\ cmd.name = "cd"
         /\ \E exit : answer' = [cmd |-> cmd, exit |-> exit, out |-> <<>>, done |-> <<>>,
                                 before |-> tree]
    BY Zenon DEF ChangeDir, Answer
<1>3. answer'.cmd = cmd
    BY <1>2
<1>4. cmd.find = NoFind
    BY <1>2, TreeAssumption DEF IsCommand
<1>5. \A o : Did(tree', cwd', cmd, answer'.before, o)
    BY <1>2 DEF Did
<1>6. AnswersAreTrue'
    BY <1>3, <1>4, <1>5, AnswerIsTrue, Zenon
<1>7. QED
    BY <1>1, <1>6, Zenon DEF DoneOK

\* find -exec and xargs begin with every match, and each of them is there.
LEMMA BeginAnswers ==
    ASSUME TInv, Begin
    PROVE  DoneOK' /\ AnswersAreTrue'
<1>1. tree' = tree /\ cwd' = cwd /\ job = Idle
    BY DEF Begin
<1>2. PICK cmd \in Commands :
         /\ cmd.name # "cd"
         /\ LET args == IF cmd.find = NoFind THEN cmd.args ELSE Found(cmd)
            IN \/ /\ answer' = [cmd |-> cmd, exit |-> 1, out |-> <<>>, done |-> <<>>, before |-> tree]
                  /\ UNCHANGED job
               \/ /\ job' = [cmd |-> cmd, left |-> Operands(cmd, args), out |-> <<>>,
                             done |-> <<>>, before |-> tree]
                  /\ answer' = None
    BY Zenon DEF Begin, Answer
<1> DEFINE args == IF cmd.find = NoFind THEN cmd.args ELSE Found(cmd)
           left == Operands(cmd, args)
<1>3. IsCommand(cmd) /\ IsTree(tree) /\ cwd \in DOMAIN tree
    BY TreeAssumption, TypedIsThere DEF TInv, IInv, TypeOK
<1>4. CASE /\ answer' = [cmd |-> cmd, exit |-> 1, out |-> <<>>, done |-> <<>>, before |-> tree]
           /\ UNCHANGED job
    <2>1. answer'.exit # 0
        BY <1>4
    <2>2. AnswersAreTrue'
        BY <2>1, AnswerIsTrue, Zenon
    <2>3. QED
        BY <1>1, <1>4, <2>2, Zenon DEF DoneOK
<1>5. CASE /\ job' = [cmd |-> cmd, left |-> left, out |-> <<>>, done |-> <<>>, before |-> tree]
           /\ answer' = None
    <2>1. AnswersAreTrue'
        BY <1>5, AnswerIsTrue, Zenon
    <2>2. job'.done = <<>> /\ job'.left = left /\ job'.cmd = cmd /\ job'.before = tree
        <3> HIDE DEF left
        <3>1. QED
            BY <1>5
    <2>3. /\ Len(args) \in Nat /\ DOMAIN args = 1..Len(args)
          /\ args \in Seq(TypedPaths)
        BY <1>3, FoundTyped DEF TInv, IInv, IsCommand
    <2>4. ASSUME cmd.find = NoFind PROVE left = Operands(cmd, cmd.args) /\ <<>> \o left = left
        <3>1. left = Operands(cmd, cmd.args)
            BY <2>4
        <3>2. \E X : left \in Seq(X)
            <4>1. CASE cmd.name = "cp"
                <5>1. left = <<args>>
                    BY <4>1 DEF Operands
                <5> HIDE DEF args
                <5>2. <<args>> \in Seq({args})
                    OBVIOUS
                <5>3. QED
                    BY <5>1, <5>2
            <4>2. CASE cmd.name # "cp"
                <5>1. left = [i \in 1..Len(args) |-> <<args[i]>>]
                    BY <2>3, <4>2 DEF Operands
                <5> HIDE DEF args, left
                <5>2. left \in Seq({<<args[i]>> : i \in 1..Len(args)})
                    BY <2>3, <5>1
                <5>3. QED
                    BY <5>2
            <4>3. QED
                BY <4>1, <4>2
        <3> HIDE DEF left
        <3>3. <<>> \o left = left
            BY <3>2, ConcatEmptySeq
        <3>4. QED
            BY <3>1, <3>3
    <2>5. ASSUME cmd.find # NoFind
          PROVE  /\ Resolve(tree, cwd, cmd.find.root) # Nowhere =>
                       Len(left) = Len(FindMatches(tree, Resolve(tree, cwd, cmd.find.root), cmd.find))
                 /\ \A i \in DOMAIN left : Resolve(tree, cwd, left[i][1]) # Nowhere
        <3> DEFINE node == Resolve(tree, cwd, cmd.find.root)
                   paths == FindMatches(tree, node, cmd.find)
        <3>1. cmd.name # "cp" /\ args = Found(cmd)
            BY <1>3, <2>5 DEF IsCommand
        <3>2. left = [i \in 1..Len(args) |-> <<args[i]>>]
            BY <2>3, <3>1 DEF Operands
        <3>3. DOMAIN left = 1..Len(args) /\ Len(left) = Len(args)
            <4> HIDE DEF left, args
            <4>1. QED
                BY <2>3, <3>2
        <3>4. CASE node = Nowhere
            <4>1. args = <<>>
                BY <3>1, <3>4 DEF Found
            <4>2. Len(args) = 0
                BY <4>1
            <4> HIDE DEF left, args, node
            <4>3. DOMAIN left = {}
                BY <3>3, <4>2
            <4>4. QED
                BY <3>4, <4>3 DEF node
        <3>5. CASE node # Nowhere
            <4>1. args = [i \in DOMAIN paths |-> Typed(paths[i])]
                BY <3>1, <3>5 DEF Found
            <4>2. paths \in Seq(DOMAIN tree)
                BY <1>3, <2>5, <3>5, MatchesAreThere DEF IsCommand
            <4> HIDE DEF paths, args, left
            <4>3. DOMAIN paths = 1..Len(paths) /\ Len(paths) \in Nat
                BY <4>2
            <4>4. Len(args) = Len(paths)
                BY <2>3, <4>1, <4>3
            <4>5. ASSUME NEW i \in DOMAIN left PROVE Resolve(tree, cwd, left[i][1]) # Nowhere
                <5>1. i \in 1..Len(paths)
                    BY <3>3, <4>4
                <5>2. paths[i] \in DOMAIN tree /\ left[i] = <<Typed(paths[i])>>
                    BY <3>2, <4>1, <4>2, <4>3, <4>4, <5>1
                <5>3. Resolve(tree, cwd, Typed(paths[i])) = paths[i]
                    BY <1>3, <5>2, OwnPath
                <5>4. left[i][1] = Typed(paths[i]) /\ paths[i] # Nowhere
                    BY <1>3, <5>2, TreeNodes
                <5>5. QED
                    BY <5>3, <5>4
            <4>6. QED
                BY <3>3, <4>4, <4>5 DEF paths
        <3>6. QED
            BY <3>4, <3>5
    <2> HIDE DEF left, args
    <2>6. job'.done \in Seq(OperandsOf(job'.cmd)) /\ DOMAIN job'.done = {} /\ Len(job'.done) = 0
        BY <2>2
    <2>7. /\ job'.cmd.find = NoFind => job'.done \o job'.left = Operands(job'.cmd, job'.cmd.args)
          /\ tree' = job'.before
        BY <1>1, <2>2, <2>4
    <2>8. /\ LET root == Resolve(job'.before, cwd', job'.cmd.find.root)
             IN (job'.cmd.find # NoFind /\ root # Nowhere) =>
                   Len(job'.done) + Len(job'.left)
                       = Len(FindMatches(job'.before, root, job'.cmd.find))
          /\ (job'.cmd.find # NoFind /\ job'.cmd.name = "grep_l") =>
                \A i \in DOMAIN job'.left : Resolve(tree', cwd', job'.left[i][1]) # Nowhere
        <3>1. ASSUME cmd.find # NoFind PROVE Len(left) \in Nat
            <4>1. left = [i \in 1..Len(args) |-> <<args[i]>>]
                BY <1>3, <2>3, <3>1 DEF left, Operands, IsCommand
            <4>2. QED
                BY <2>3, <4>1
        <3>2. \A n \in Nat : 0 + n = n
            OBVIOUS
        <3>3. QED
            BY <1>1, <2>2, <2>5, <2>6, <3>1, <3>2, Zenon
    <2>9. DoneOK'
        BY <1>5, <2>6, <2>7, <2>8, Zenon DEF DoneOK
    <2>10. QED
        BY <2>1, <2>9
<1>6. QED
    BY <1>2, <1>4, <1>5

\* A command goes on after an operand only when that was done, and stops after one
\* that was done only when find -exec has printed nothing, as cat of an empty file.
LEMMA GoesOnWhenDone ==
    ASSUME TInv, Running, NEW result, result = Do(tree, cwd, job.cmd, Head(job.left))
    PROVE  /\ GoesOn(job.cmd, result) => result.ok
           /\ ~GoesOn(job.cmd, result) => ~result.ok \/ (job.cmd.find # NoFind /\ job.cmd.name = "cat")
<1> DEFINE cmd == job.cmd
           o == Head(job.left)
<1>1. /\ cmd \in Commands /\ cmd.name # "cd" /\ job.left \in Seq(OperandsOf(cmd))
      /\ IsCommand(cmd) /\ job # Idle /\ job.left # <<>>
      /\ IsTree(tree) /\ TypeOf(tree, cwd) = "dir"
    BY TreeAssumption, Zenon DEF TInv, IInv, TypeOK, JobOK, Running
<1>2. o \in OperandsOf(cmd) /\ 1 \in DOMAIN job.left /\ o = job.left[1]
    BY <1>1, HeadTailProperties
<1>3. CASE cmd.find.via = "exec"
    <2>1. cmd.find # NoFind
        BY <1>3 DEF NoFind
    <2>2. cmd.name \in {"touch", "mkdir", "mkdir_p", "rm", "cat", "grep_l"}
        BY <1>1, <2>1 DEF IsCommand
    <2>3. ASSUME cmd.name = "grep_l" PROVE result.ok
        <3>1. Resolve(tree, cwd, o[1]) # Nowhere
            BY <1>1, <1>2, <2>1, <2>3, Zenon DEF TInv, DoneOK
        <3>2. result = GrepList(tree, cwd, o[1], cmd.text)
            BY <2>3 DEF Do
        <3>3. QED
            BY <3>1, <3>2 DEF GrepList, Says
    <2> HIDE DEF o
    <2>4. result.ok /\ cmd.name \in {"touch", "mkdir", "mkdir_p", "rm"} => result.out # <<>>
        BY <1>1, <1>2, DoDid DEF o
    <2>5. QED
        BY <1>3, <2>1, <2>2, <2>3, <2>4 DEF GoesOn
<1>4. CASE cmd.find.via # "exec"
    BY <1>4 DEF GoesOn
<1>5. QED
    BY <1>3, <1>4

\* One operand more is done, and those before it still are.
LEMMA OperandAnswers ==
    ASSUME TInv, Operand
    PROVE  DoneOK' /\ AnswersAreTrue'
<1> DEFINE cmd == job.cmd
           o == Head(job.left)
           result == Do(tree, cwd, cmd, o)
           done == IF result.ok THEN Append(job.done, o) ELSE job.done
<1>1. /\ Running /\ job # Idle /\ job.left # <<>> /\ tree' = result.tree /\ cwd' = cwd
      /\ \/ /\ GoesOn(cmd, result)
            /\ job' = [job EXCEPT !.left = Tail(@), !.out = @ \o result.out, !.done = done]
            /\ answer' = answer
         \/ /\ ~GoesOn(cmd, result)
            /\ job' = Idle
            /\ answer' = [cmd |-> cmd, exit |-> IF result.ok THEN 0 ELSE 1, out |-> result.out,
                          done |-> done, before |-> job.before]
    BY Zenon DEF Operand, Running, Answer
<1>2. /\ job = [cmd |-> cmd, left |-> job.left, out |-> job.out, done |-> job.done,
                before |-> job.before]
      /\ cmd \in Commands /\ cmd.name # "cd" /\ job.left \in Seq(OperandsOf(cmd))
      /\ IsCommand(cmd) /\ IsTree(tree) /\ TypeOf(tree, cwd) = "dir"
    BY <1>1, TreeAssumption, Zenon DEF TInv, IInv, TypeOK, JobOK
<1>3. /\ answer = None
      /\ job.done \in Seq(OperandsOf(cmd))
      /\ \A i \in DOMAIN job.done : Did(tree, cwd, cmd, job.before, job.done[i])
      /\ cmd.find = NoFind => job.done \o job.left = Operands(cmd, cmd.args)
      /\ (cmd.name = "cp" /\ job.done = <<>>) => tree = job.before
      /\ LET root == Resolve(job.before, cwd, cmd.find.root)
         IN (cmd.find # NoFind /\ root # Nowhere) =>
               Len(job.done) + Len(job.left) = Len(FindMatches(job.before, root, cmd.find))
      /\ (cmd.find # NoFind /\ cmd.name = "grep_l") =>
            \A i \in DOMAIN job.left : Resolve(tree, cwd, job.left[i][1]) # Nowhere
    BY <1>1, Zenon DEF TInv, DoneOK
<1>4. /\ GoesOn(cmd, result) => result.ok
      /\ ~GoesOn(cmd, result) => ~result.ok \/ (cmd.find # NoFind /\ cmd.name = "cat")
    BY <1>1, GoesOnWhenDone
<1> DEFINE left == Tail(job.left)
           d == Append(job.done, o)
<1>5. /\ o \in OperandsOf(cmd) /\ left \in Seq(OperandsOf(cmd)) /\ d \in Seq(OperandsOf(cmd))
      /\ d \o left = job.done \o job.left
      /\ Len(d) + Len(left) = Len(job.done) + Len(job.left)
      /\ Len(job.done \o job.left) = Len(job.done) + Len(job.left)
      /\ \A i \in DOMAIN left : i + 1 \in DOMAIN job.left /\ left[i] = job.left[i + 1]
      /\ \A i \in DOMAIN d : (i \in DOMAIN job.done /\ d[i] = job.done[i]) \/ d[i] = o
    <2> DEFINE X == OperandsOf(cmd)
               s == job.done
               l == job.left
    <2>1. s \in Seq(X) /\ l \in Seq(X) /\ l # <<>>
        BY <1>1, <1>2, <1>3
    <2> HIDE DEF X, s, l, cmd, result, done
    <2>2. /\ Head(l) \in X /\ Tail(l) \in Seq(X) /\ Append(s, Head(l)) \in Seq(X)
          /\ Append(s, Head(l)) \o Tail(l) = s \o l
          /\ Len(Append(s, Head(l))) + Len(Tail(l)) = Len(s) + Len(l)
          /\ Len(s \o l) = Len(s) + Len(l)
          /\ \A i \in DOMAIN Tail(l) : i + 1 \in DOMAIN l /\ Tail(l)[i] = l[i + 1]
          /\ \A i \in DOMAIN Append(s, Head(l)) :
                \/ i \in DOMAIN s /\ Append(s, Head(l))[i] = s[i]
                \/ Append(s, Head(l))[i] = Head(l)
        BY <2>1, OneMoreDone
    <2>3. QED
        BY <2>2, Zenon DEF X, s, l
<1> HIDE DEF cmd, o, left, d
<1>6. CASE GoesOn(cmd, result)
    <2>1. result.ok
        BY <1>4, <1>6
    <2> DEFINE out == job.out \o result.out
    <2>2. /\ job' = [job EXCEPT !.left = left, !.out = out, !.done = d]
          /\ answer' = answer
        BY <1>1, <1>6, <2>1 DEF left, d, o
    <2> HIDE DEF result, out
    <2>3. job'.cmd = cmd /\ job'.left = left /\ job'.done = d /\ job'.before = job.before
        BY <1>2, <2>2
    <2>4. ASSUME cmd.name = "cp" PROVE job.done = <<>> /\ tree = job.before
        <3>1. cmd.find = NoFind
            BY <1>2, <2>4 DEF IsCommand
        <3>2. Operands(cmd, cmd.args) = <<cmd.args>>
            BY <2>4 DEF Operands
        <3> DEFINE args == cmd.args
                   m == Len(job.done)
                   n == Len(job.left)
        <3> HIDE DEF args
        <3>3. m + n = 1
            <4>1. Len(<<args>>) = 1
                OBVIOUS
            <4>2. job.done \o job.left = <<args>>
                BY <1>3, <3>1, <3>2 DEF args
            <4>3. QED
                BY <1>5, <4>1, <4>2
        <3>4. m \in Nat /\ n \in Nat \ {0}
            BY <1>1, <1>2, <1>3
        <3> HIDE DEF m, n
        <3>5. m = 0
            BY <3>3, <3>4
        <3>6. job.done = <<>>
            BY <1>3, <3>5 DEF m
        <3>7. QED
            BY <1>3, <2>4, <3>6
    <2>5. Did(tree', cwd, cmd, job.before, o)
        <3>1. Did(tree', cwd, cmd, tree, o)
            BY <1>1, <1>2, <1>5, <2>1, DoDid DEF result
        <3>2. CASE cmd.name = "cp"
            BY <2>4, <3>1, <3>2
        <3>3. CASE cmd.name # "cp"
            BY <3>1, <3>3, Zenon DEF Did
        <3>4. QED
            BY <3>2, <3>3
    <2>6. ASSUME NEW i \in DOMAIN job.done PROVE Did(tree', cwd, cmd, job.before, job.done[i])
        <3>1. cmd.name # "cp"
            BY <2>4, <2>6
        <3>2. job.done[i] \in OperandsOf(cmd) /\ Did(tree, cwd, cmd, job.before, job.done[i])
            BY <1>3
        <3>3. QED
            BY <1>1, <1>2, <1>5, <3>1, <3>2, DoLeavesDone DEF result
    <2>7. \A i \in DOMAIN d : Did(tree', cwd, cmd, job.before, d[i])
        BY <1>5, <2>5, <2>6, Zenon
    <2>8. d # <<>>
        BY <1>3, <1>5 DEF d
    <2>9. ASSUME cmd.find # NoFind, cmd.name = "grep_l", NEW i \in DOMAIN left
          PROVE  Resolve(tree', cwd, left[i][1]) # Nowhere
        <3>1. i + 1 \in DOMAIN job.left /\ left[i] = job.left[i + 1]
            BY <1>5
        <3>2. Resolve(tree, cwd, left[i][1]) # Nowhere
            BY <1>3, <2>9, <3>1
        <3>3. tree' = tree
            BY <1>1, <2>9 DEF result, Do, GrepList, Refuse, Says
        <3>4. QED
            BY <3>2, <3>3
    <2>10. answer' = None
        BY <1>3, <2>2
    <2>11. AnswersAreTrue'
        BY <2>10, AnswerIsTrue, Zenon
    <2>12. /\ job'.done \in Seq(OperandsOf(job'.cmd))
           /\ \A i \in DOMAIN job'.done : Did(tree', cwd', job'.cmd, job'.before, job'.done[i])
           /\ job'.cmd.find = NoFind => job'.done \o job'.left = Operands(job'.cmd, job'.cmd.args)
           /\ (job'.cmd.name = "cp" /\ job'.done = <<>>) => tree' = job'.before
        BY <1>1, <1>3, <1>5, <2>3, <2>7, <2>8, Zenon
    <2>13. LET root == Resolve(job'.before, cwd', job'.cmd.find.root)
           IN (job'.cmd.find # NoFind /\ root # Nowhere) =>
                 Len(job'.done) + Len(job'.left) = Len(FindMatches(job'.before, root, job'.cmd.find))
        BY <1>1, <1>3, <1>5, <2>3, Zenon
    <2>14. (job'.cmd.find # NoFind /\ job'.cmd.name = "grep_l") =>
                \A i \in DOMAIN job'.left : Resolve(tree', cwd', job'.left[i][1]) # Nowhere
        BY <1>1, <2>3, <2>9, Zenon
    <2>15. DoneOK'
        BY <2>10, <2>12, <2>13, <2>14, Zenon DEF DoneOK
    <2>16. QED
        BY <2>11, <2>15
<1>7. CASE ~GoesOn(cmd, result)
    <2> HIDE DEF result, done
    <2>1. /\ job' = Idle
          /\ answer' = [cmd |-> cmd, exit |-> IF result.ok THEN 0 ELSE 1, out |-> result.out,
                        done |-> done, before |-> job.before]
        BY <1>1, <1>7
    <2>2. answer'.cmd = cmd /\ answer'.exit = IF result.ok THEN 0 ELSE 1
        BY <2>1
    <2>3. CASE ~result.ok
        <3>1. answer'.exit # 0
            BY <2>2, <2>3
        <3>2. AnswersAreTrue'
            BY <3>1, AnswerIsTrue, Zenon
        <3>3. QED
            BY <2>1, <3>2, Zenon DEF DoneOK
    <2>4. CASE result.ok
        <3>1. cmd.find # NoFind /\ cmd.name = "cat"
            BY <1>4, <1>7, <2>4
        <3>2. \A p : Did(tree', cwd', cmd, answer'.before, p)
            BY <3>1 DEF Did
        <3>3. AnswersAreTrue'
            BY <2>2, <3>1, <3>2, AnswerIsTrue, Zenon
        <3>4. QED
            BY <2>1, <3>3, Zenon DEF DoneOK
    <2>5. QED
        BY <2>3, <2>4
<1>8. QED
    BY <1>6, <1>7

\* When nothing is left, all operands are done.
LEMMA FinishAnswers ==
    ASSUME TInv, Finish
    PROVE  DoneOK' /\ AnswersAreTrue'
<1> DEFINE cmd == job.cmd
<1>1. PICK exit, out :
         /\ job # Idle /\ job.left = <<>> /\ job' = Idle /\ tree' = tree /\ cwd' = cwd
         /\ answer' = [cmd |-> cmd, exit |-> exit, out |-> out, done |-> job.done,
                       before |-> job.before]
    BY Zenon DEF Finish, Answer
<1>2. /\ job.done \in Seq(OperandsOf(cmd))
      /\ \A i \in DOMAIN job.done : Did(tree, cwd, cmd, job.before, job.done[i])
      /\ cmd.find = NoFind => job.done \o job.left = Operands(cmd, cmd.args)
      /\ LET root == Resolve(job.before, cwd, cmd.find.root)
         IN (cmd.find # NoFind /\ root # Nowhere) =>
               Len(job.done) + Len(job.left) = Len(FindMatches(job.before, root, cmd.find))
    BY <1>1, Zenon DEF TInv, DoneOK
<1> HIDE DEF cmd
<1>3. answer'.cmd = cmd /\ answer'.done = job.done /\ answer'.before = job.before
    BY <1>1
<1>4. Len(job.left) = 0 /\ Len(job.done) \in Nat /\ job.done \o job.left = job.done
    BY <1>1, <1>2, ConcatEmptySeq
<1>5. Len(job.done) + Len(job.left) = Len(job.done)
    BY <1>4
<1>6. job.done = IF cmd.find = NoFind THEN Operands(cmd, cmd.args) ELSE job.done
    BY <1>2, <1>4
<1>7. AnswersAreTrue'
    BY <1>1, <1>2, <1>3, <1>5, <1>6, AnswerIsTrue, Zenon
<1>8. QED
    BY <1>1, <1>7, Zenon DEF DoneOK

\* Every step.
LEMMA InitAnswers == Init => TInv
<1>1. ASSUME Init PROVE job = Idle /\ answer.exit # 0
    BY <1>1 DEF Init, None
<1>2. QED
    BY <1>1, InitIsTyped, Zenon DEF TInv, DoneOK, AnswersAreTrue, Answered

LEMMA NextAnswers == TInv /\ [Next]_vars => TInv'
<1>1. SUFFICES ASSUME TInv, [Next]_vars PROVE TInv'
    OBVIOUS
<1>2. IInv'
    BY <1>1, NextKeeps DEF TInv
<1>3. DoneOK' /\ AnswersAreTrue'
    <2>1. CASE ChangeDir
        BY <1>1, <2>1, ChangeDirAnswers
    <2>2. CASE Begin
        BY <1>1, <2>2, BeginAnswers
    <2>3. CASE Operand
        BY <1>1, <2>3, OperandAnswers
    <2>4. CASE Finish
        BY <1>1, <2>4, FinishAnswers
    <2>5. CASE UNCHANGED vars
        <3>1. tree' = tree /\ cwd' = cwd /\ job' = job /\ answer' = answer
            BY <2>5 DEF vars
        <3>2. DoneOK'
            BY <1>1, <3>1, Zenon DEF TInv, DoneOK
        <3>3. /\ Args' = Args /\ Searched' = Searched /\ Answered' = Answered
              /\ \A o : (CopyOf(o))' = CopyOf(o)
            BY <3>1, Zenon DEF Args, Searched, Answered, CopyOf, At
        <3>4. AnswersAreTrue'
            BY <1>1, <3>1, <3>3, Zenon DEF TInv, AnswersAreTrue, At
        <3>5. QED
            BY <3>2, <3>4
    <2>6. QED
        BY <1>1, <2>1, <2>2, <2>3, <2>4, <2>5 DEF Next
<1>4. QED
    BY <1>2, <1>3 DEF TInv

-----------------------------------------------------------------------------
(* What find and grep print.                                               *)

\* A line is printed when it is new.
Seen(seen, l) == IF l \in ToSet(seen) THEN seen ELSE Append(seen, l)
SeenOnce(lines) ==
    FoldLeft(LAMBDA seen, l : IF l \in ToSet(seen) THEN seen ELSE Append(seen, l), <<>>, lines)

\* None of the lines is lost.
LEMMA SeenOnceHasAll ==
    ASSUME NEW X, NEW s \in Seq(X)
    PROVE  ToSet(SeenOnce(s)) = ToSet(s)
<1> DEFINE none == <<>>
           Folds(f) == f = [P \in SUBSET DOMAIN s |->
                              IF P = {} THEN none ELSE Seen(f[P \ {Max(P)}], s[Max(P)])]
           F == CHOOSE f : Folds(f)
           Acc == Seq(X)
           step == [x \in Acc \X X |-> Seen(x[1], x[2])]
           n == Len(s)
           First(k) == {s[i] : i \in 1..k}
<1>1. n \in Nat /\ DOMAIN s = 1..n /\ (\A i \in 1..n : s[i] \in X) /\ ToSet(s) = First(n)
    BY DEF ToSet
<1>2. SeenOnce(s) = F[DOMAIN s]
    BY DEF FoldLeft, MapThenFoldSet, SeenOnce, Seen
<1>3. none \in Acc /\ ToSet(none) = {}
    BY DEF ToSet
<1> HIDE DEF none, n, First
<1>4. ASSUME NEW a \in Acc, NEW x \in X
      PROVE  Seen(a, x) \in Acc /\ ToSet(Seen(a, x)) = ToSet(a) \cup {x}
    <2>1. CASE x \in ToSet(a)
        BY <2>1 DEF Seen
    <2>2. CASE x \notin ToSet(a)
        <3>1. Seen(a, x) = Append(a, x)
            BY <2>2 DEF Seen
        <3>2. X \cap X = X
            OBVIOUS
        <3>3. ToSet(Append(a, x)) = ToSet(a) \cup {x}
            BY <3>2, AppendedSet
        <3>4. QED
            BY <3>1, <3>3
    <2>3. QED
        BY <2>1, <2>2
<1>5. step \in [Acc \X X -> Acc]
    BY <1>4
<1>6. \A a \in Acc, x \in X : step[<<a, x>>] = Seen(a, x)
    OBVIOUS
<1> HIDE DEF step, Acc
<1>7. Folds(F)
    <2>1. PICK f \in [SUBSET DOMAIN s -> Acc] : \A P \in SUBSET DOMAIN s :
              f[P] = IF P = {} THEN none ELSE step[<<f[P \ {Max(P)}], s[Max(P)]>>]
        <3>1. CanFold(s, none, step, Acc, X)
            BY <1>3, <1>5 DEF CanFold
        <3>2. PICK f : IsFold(f, s, none, step, Acc)
            BY <3>1, FoldOfSteps
        <3>3. QED
            BY <3>2 DEF IsFold
    <2>2. ASSUME NEW P \in SUBSET DOMAIN s, P # {}
          PROVE  f[P] = Seen(f[P \ {Max(P)}], s[Max(P)])
        <3>1. Max(P) \in 1..n
            BY <1>1, <2>2, LastPosition
        <3>2. s[Max(P)] \in X /\ f[P \ {Max(P)}] \in Acc
            BY <1>1, <2>1, <3>1
        <3>3. QED
            BY <1>6, <2>1, <2>2, <3>2
    <2>3. f = [P \in SUBSET DOMAIN s |-> IF P = {} THEN none ELSE Seen(f[P \ {Max(P)}], s[Max(P)])]
        BY <2>1, <2>2
    <2>4. Folds(f)
        BY <2>3
    <2> HIDE DEF Folds
    <2>5. QED
        BY <2>4
<1>8. FoldedBy(F, s, none, step, Acc, X)
    <2> HIDE DEF F
    <2>1. F[{}] = none
        BY <1>7
    <2>2. ASSUME NEW P \in SUBSET DOMAIN s, P # {}, F[P \ {Max(P)}] \in Acc
          PROVE  F[P] = step[<<F[P \ {Max(P)}], s[Max(P)]>>]
        <3>1. Max(P) \in 1..n
            BY <1>1, <2>2, LastPosition
        <3>2. s[Max(P)] \in X
            BY <1>1, <3>1
        <3>3. F[P] = Seen(F[P \ {Max(P)}], s[Max(P)])
            BY <1>7, <2>2
        <3>4. QED
            BY <1>6, <2>2, <3>2, <3>3
    <2>3. QED
        BY <1>3, <1>5, <2>1, <2>2 DEF FoldedBy
<1> HIDE DEF F, Folds
<1>9. /\ F[1..0] = none
      /\ \A k \in 0..n : F[1..k] \in Acc
      /\ \A k \in 1..n : F[1..k] = step[<<F[1..(k - 1)], s[k]>>]
    BY <1>8, FoldUnrolled DEF n
<1> DEFINE N == {k \in Nat : k <= n => ToSet(F[1..k]) = First(k)}
<1>10. 0 \in N
    <2>1. First(0) = {}
        BY DEF First
    <2>2. ToSet(F[1..0]) = First(0)
        BY <1>3, <1>9, <2>1
    <2>3. QED
        BY <2>2
<1>11. ASSUME NEW k \in N, k + 1 <= n PROVE ToSet(F[1..(k + 1)]) = First(k + 1)
    <2>1. k \in Nat /\ k <= n /\ k \in 0..n /\ k + 1 \in 1..n /\ (k + 1) - 1 = k
        BY <1>1, <1>11
    <2>2. ToSet(F[1..k]) = First(k)
        BY <1>11, <2>1
    <2>3. First(k + 1) = First(k) \cup {s[k + 1]}
        <3>1. 1..(k + 1) = (1..k) \cup {k + 1}
            BY <2>1
        <3>2. QED
            BY <3>1 DEF First
    <2> HIDE DEF N
    <2>4. F[1..k] \in Acc /\ s[k + 1] \in X
        BY <1>1, <1>9, <2>1
    <2>5. F[1..(k + 1)] = step[<<F[1..k], s[k + 1]>>]
        BY <1>9, <2>1
    <2>6. F[1..(k + 1)] = Seen(F[1..k], s[k + 1])
        BY <1>6, <2>4, <2>5
    <2>7. QED
        BY <1>4, <2>2, <2>3, <2>4, <2>6
<1>12. \A k \in N : k + 1 \in N
    BY <1>11
<1>13. N = Nat
    <2>1. N \in SUBSET Nat
        OBVIOUS
    <2> HIDE DEF N
    <2>2. QED
        BY <1>10, <1>12, <2>1, NatSetInduction
<1>14. ToSet(F[1..n]) = First(n)
    <2>1. n \in N /\ n <= n
        BY <1>1, <1>13
    <2>2. QED
        BY <2>1
<1>15. QED
    BY <1>1, <1>2, <1>14

\* What grep prints of a node it prints of what is above it.
LEMMA HitsBelow ==
    ASSUME NEW t, IsTree(t), NEW node \in DOMAIN t, NEW p \in Under(t, node), NEW pattern
    PROVE  p \in DOMAIN t /\ Hits(t, p, pattern) \subseteq Hits(t, node, pattern)
<1>1. p \in DOMAIN t /\ IsUnder(p, node)
    BY DEF Under
<1>2. ASSUME NEW q \in Under(t, p) PROVE q \in Under(t, node)
    <2>1. q \in DOMAIN t /\ IsUnder(q, p)
        BY DEF Under
    <2>2. p \in Paths /\ q \in Paths /\ node \in Paths
        BY <1>1, <2>1, TreeNodes
    <2>3. IsUnder(q, node)
        BY <1>1, <2>1, <2>2, BelowBelow
    <2>4. QED
        BY <2>1, <2>3 DEF Under
<1>3. QED
    BY <1>1, <1>2 DEF Hits

\* What find finds: all below its root that has one of the names, and the type.
Wanted(t, find, p) ==
    /\ find.names # {} => p # Root /\ Last(p) \in find.names
    /\ find.type # "any" => t[p].type = find.type

LEMMA MatchesOfFind ==
    ASSUME NEW t, IsTree(t), NEW node \in DOMAIN t, NEW find
    PROVE  /\ FindMatches(t, node, find) \in Seq(Paths)
           /\ ToSet(FindMatches(t, node, find)) = {p \in Under(t, node) : Wanted(t, find, p)}
<1> DEFINE found == FindPaths(t, node)
           S == {p \in DOMAIN t : /\ find.names # {} => p # Root /\ Last(p) \in find.names
                                  /\ find.type # "any" => t[p].type = find.type}
<1>1. found \in Seq(Paths) /\ ToSet(found) = Under(t, node)
    BY FindPathsMeets
<1>2. FindMatches(t, node, find) = Only(found, S)
    BY DEF FindMatches
<1>3. Under(t, node) \cap S = {p \in Under(t, node) : Wanted(t, find, p)}
    BY DEF Under, Wanted
<1> HIDE DEF found, S
<1>4. Only(found, S) \in Seq(Paths \cap S) /\ ToSet(Only(found, S)) = ToSet(found) \cap S
    BY <1>1, OnlyTyped
<1>5. Only(found, S) \in Seq(Paths)
    BY <1>4
<1>6. QED
    BY <1>1, <1>2, <1>3, <1>4, <1>5

\* How far grep -l has come with the matches of find: those that are left are
\* below the root, what is printed is a hit, and nothing is missing of the matches
\* that are done.
Grepped(t, wd, cmd, left, out) ==
    LET root == Resolve(t, wd, cmd.find.root)
    IN /\ root \in DOMAIN t
       /\ \A i \in DOMAIN left : \E p \in Under(t, root) : left[i] = <<Typed(p)>>
       /\ out \in Seq(Paths) /\ ToSet(out) \subseteq Hits(t, root, cmd.text)
       /\ \A p \in ToSet(FindMatches(t, root, cmd.find)) :
             \/ \E i \in DOMAIN left : left[i] = <<Typed(p)>>
             \/ Hits(t, p, cmd.text) \subseteq ToSet(out)

\* It begins with every match.
LEMMA GrepBegins ==
    ASSUME NEW t, IsTree(t), NEW wd \in DOMAIN t, NEW cmd, cmd.find.root \in TypedPaths,
           NEW node, node = Resolve(t, wd, cmd.find.root), node # Nowhere,
           NEW paths, paths = FindMatches(t, node, cmd.find),
           NEW left, left = [i \in DOMAIN paths |-> <<Typed(paths[i])>>],
           NEW out, out = <<>>
    PROVE  Grepped(t, wd, cmd, left, out)
<1>1. node \in DOMAIN t
    BY Resolves DEF Places
<1>2. paths \in Seq(Paths) /\ ToSet(paths) \subseteq Under(t, node)
    BY <1>1, MatchesOfFind
<1>3. DOMAIN left = DOMAIN paths /\ \A i \in DOMAIN paths : left[i] = <<Typed(paths[i])>>
    OBVIOUS
<1>4. \A i \in DOMAIN paths : paths[i] \in Under(t, node)
    BY <1>2 DEF ToSet
<1>5. \A p \in ToSet(paths) : \E i \in DOMAIN paths : paths[i] = p
    BY DEF ToSet
<1>6. out \in Seq(Paths) /\ ToSet(out) = {}
    BY DEF ToSet
<1>7. \A p \in ToSet(paths) : \E i \in DOMAIN left : left[i] = <<Typed(p)>>
    BY <1>3, <1>5, Zenon
<1>8. \A i \in DOMAIN left : \E p \in Under(t, node) : left[i] = <<Typed(p)>>
    BY <1>3, <1>4, Zenon
<1>9. ToSet(out) \subseteq Hits(t, node, cmd.text)
    BY <1>6
<1>10. QED
    BY <1>1, <1>6, <1>7, <1>8, <1>9, Zenon DEF Grepped

\* It goes on with the next match, which is there.
LEMMA GrepGoesOn ==
    ASSUME NEW t, IsTree(t), NEW wd \in DOMAIN t, NEW cmd, cmd.name = "grep_l",
           NEW X, NEW left \in Seq(X), left # <<>>, NEW out, Grepped(t, wd, cmd, left, out),
           NEW result, result = Do(t, wd, cmd, Head(left))
    PROVE  result.tree = t /\ Grepped(t, wd, cmd, Tail(left), out \o result.out)
<1> DEFINE node == Resolve(t, wd, cmd.find.root)
           text == cmd.text
           M == ToSet(FindMatches(t, node, cmd.find))
           r == Tail(left)
           n == Len(left)
<1>1. /\ node \in DOMAIN t
      /\ \A i \in DOMAIN left : \E p \in Under(t, node) : left[i] = <<Typed(p)>>
      /\ out \in Seq(Paths) /\ ToSet(out) \subseteq Hits(t, node, text)
      /\ \A p \in M : \/ \E i \in DOMAIN left : left[i] = <<Typed(p)>>
                      \/ Hits(t, p, text) \subseteq ToSet(out)
    BY Zenon DEF Grepped
<1>2. n \in Nat \ {0} /\ DOMAIN left = 1..n
    OBVIOUS
<1>3. /\ Head(left) = left[1] /\ Len(r) = n - 1 /\ r \in Seq(X)
      /\ \A i \in 1..(n - 1) : r[i] = left[i + 1]
    BY HeadTailProperties
<1>4. DOMAIN r = 1..(n - 1)
    BY <1>3
<1> HIDE DEF node, text, M, r, n
<1>5. PICK p \in Under(t, node) : Head(left) = <<Typed(p)>>
    <2>1. 1 \in DOMAIN left
        BY <1>2
    <2>2. QED
        BY <1>1, <1>3, <2>1, Zenon
<1>6. p \in DOMAIN t /\ Hits(t, p, text) \subseteq Hits(t, node, text)
    BY <1>1, HitsBelow
<1>7. Resolve(t, wd, Typed(p)) = p /\ p # Nowhere
    <2>1. Resolve(t, wd, Typed(p)) = p
        BY <1>6, OwnPath
    <2>2. p # Nowhere
        BY <1>6, TreeNodes
    <2>3. QED
        BY <2>1, <2>2
<1>8. result.out = Matching(t, p, text) /\ result.tree = t
    <2>1. Head(left)[1] = Typed(p)
        BY <1>5
    <2>2. result = GrepList(t, wd, Head(left)[1], text)
        BY DEF Do, text
    <2>3. result = Says(Matching(t, p, text), t)
        BY <1>7, <2>1, <2>2 DEF GrepList
    <2>4. QED
        BY <2>3 DEF Says
<1>9. result.out \in Seq(Paths) /\ ToSet(result.out) = Hits(t, p, text)
    BY <1>6, <1>8, MatchingHits
<1> DEFINE new == out \o result.out
<1>10. new \in Seq(Paths) /\ ToSet(new) = ToSet(out) \cup Hits(t, p, text)
    BY <1>1, <1>9, ConcatTopDown
<1> HIDE DEF new
<1>11. ASSUME NEW i \in DOMAIN r PROVE \E q \in Under(t, node) : r[i] = <<Typed(q)>>
    <2>1. i + 1 \in DOMAIN left /\ r[i] = left[i + 1]
        BY <1>2, <1>3, <1>4
    <2>2. QED
        BY <1>1, <2>1
<1>12. ASSUME NEW q \in M
       PROVE  \/ \E i \in DOMAIN r : r[i] = <<Typed(q)>>
              \/ Hits(t, q, text) \subseteq ToSet(new)
    <2>1. CASE Hits(t, q, text) \subseteq ToSet(out)
        BY <1>10, <2>1
    <2>2. ASSUME NEW i \in DOMAIN left, left[i] = <<Typed(q)>>
          PROVE  \/ \E j \in DOMAIN r : r[j] = <<Typed(q)>>
                 \/ Hits(t, q, text) \subseteq ToSet(new)
        <3>1. CASE i = 1
            <4>1. <<Typed(q)>> = <<Typed(p)>>
                BY <1>3, <1>5, <2>2, <3>1
            <4>2. Typed(q) = Typed(p)
                BY <4>1
            <4>3. q = p
                BY <4>2 DEF Typed
            <4>4. QED
                BY <1>10, <4>3
        <3>2. CASE i # 1
            <4> DEFINE j == i - 1
            <4>1. j \in 1..(n - 1) /\ j + 1 = i
                BY <1>2, <3>2
            <4> HIDE DEF j
            <4>2. j \in DOMAIN r /\ r[j] = left[i]
                BY <1>3, <1>4, <4>1
            <4>3. QED
                BY <2>2, <4>2
        <3>3. QED
            BY <3>1, <3>2
    <2>3. QED
        BY <1>1, <2>1, <2>2
<1>13. ToSet(new) \subseteq Hits(t, node, text)
    BY <1>1, <1>6, <1>10
<1>14. Grepped(t, wd, cmd, r, new)
    BY <1>1, <1>10, <1>11, <1>12, <1>13, Zenon DEF Grepped, node, text, M
<1>15. QED
    BY <1>8, <1>14 DEF r, new

\* What WalksAgree says of what find and grep -l have printed.
Printed(t, wd, cmd, lines) ==
    LET root == Resolve(t, wd, cmd.find.root)
        all == ToSet(Matching(t, root, cmd.text))
        rootPasses == cmd.find.type = "dir" => TypeOf(t, root) = "dir"
    IN /\ ToSet(lines) \subseteq all
       /\ (cmd.find.names = {} /\ rootPasses) => ToSet(lines) = all

\* When no match is left, it has printed what it should: a file is found itself
\* when its directory is not asked for.
LEMMA GrepEnds ==
    ASSUME NEW t, IsTree(t), NEW wd, NEW cmd, IsCommand(cmd), cmd.find # NoFind,
           NEW left, left = <<>>, NEW out, Grepped(t, wd, cmd, left, out),
           NEW lines, ToSet(lines) = ToSet(out)
    PROVE  Printed(t, wd, cmd, lines)
<1> DEFINE node == Resolve(t, wd, cmd.find.root)
           text == cmd.text
           find == cmd.find
           M == ToSet(FindMatches(t, node, find))
           all == ToSet(Matching(t, node, text))
<1>1. DOMAIN left = {}
    OBVIOUS
<1>2. /\ node \in DOMAIN t /\ ToSet(out) \subseteq Hits(t, node, text)
      /\ \A p \in M : Hits(t, p, text) \subseteq ToSet(out)
    BY <1>1, Zenon DEF Grepped
<1>3. find.type \in {"any", "file", "dir"}
    BY DEF IsCommand
<1> HIDE DEF node, text, find, M, all
<1>4. all = Hits(t, node, text)
    BY <1>2, MatchingHits DEF all
<1>5. M = {p \in Under(t, node) : Wanted(t, find, p)}
    BY <1>2, MatchesOfFind DEF M
<1>6. ASSUME NEW p \in DOMAIN t PROVE p \in Under(t, p)
    <2>1. p \in Paths
        BY TreeNodes
    <2>2. IsUnder(p, p)
        BY <2>1, UnderIsPrefix
    <2>3. QED
        BY <2>2 DEF Under
<1>7. TypeOf(t, node) = t[node].type
    BY <1>2, TreeNodes
<1>8. ASSUME find.names = {}, find.type = "dir" => TypeOf(t, node) = "dir"
      PROVE  Hits(t, node, text) \subseteq ToSet(out)
    <2>1. CASE find.type \in {"any", "dir"}
        <3>1. Wanted(t, find, node)
            BY <1>7, <1>8, <2>1 DEF Wanted
        <3>2. node \in M
            BY <1>2, <1>5, <1>6, <3>1
        <3>3. QED
            BY <1>2, <3>2
    <2>2. CASE find.type = "file"
        <3>1. ASSUME NEW q \in Hits(t, node, text) PROVE q \in ToSet(out)
            <4>1. q \in Under(t, node) /\ q \in DOMAIN t /\ t[q].type = "file" /\ Hit(t[q].text, text)
                BY DEF Hits, Under
            <4>2. q \in M
                BY <1>5, <1>8, <2>2, <4>1 DEF Wanted
            <4>3. q \in Hits(t, q, text)
                BY <1>6, <4>1 DEF Hits
            <4>4. QED
                BY <1>2, <4>2, <4>3
        <3>2. QED
            BY <3>1
    <2>3. QED
        BY <1>3, <2>1, <2>2
<1>9. ToSet(lines) \subseteq all
    BY <1>2, <1>4
<1>10. (find.names = {} /\ (find.type = "dir" => TypeOf(t, node) = "dir")) => ToSet(lines) = all
    BY <1>4, <1>8, <1>9
<1>11. QED
    BY <1>9, <1>10, Zenon DEF Printed, node, text, find, all

\* grep -l of what find passes on, while it runs and when it has answered.
GrepOK ==
    (job # Idle /\ job.cmd.name = "grep_l" /\ job.cmd.find # NoFind) =>
        Grepped(tree, cwd, job.cmd, job.left, job.out)
PrintedOK ==
    (Answered /\ answer.cmd.name = "grep_l" /\ answer.cmd.find # NoFind) =>
        Printed(tree, cwd, answer.cmd, answer.out)
WInv == TInv /\ GrepOK /\ PrintedOK

\* cd prints nothing.
LEMMA ChangeDirPrints ==
    ASSUME WInv, ChangeDir
    PROVE  GrepOK' /\ PrintedOK'
<1>1. job' = Idle
    BY DEF ChangeDir
<1>2. PICK cmd \in Commands :
         /\ cmd.name = "cd"
         /\ \E exit : answer' = [cmd |-> cmd, exit |-> exit, out |-> <<>>, done |-> <<>>,
                                 before |-> tree]
    BY Zenon DEF ChangeDir, Answer
<1>3. answer'.cmd = cmd
    BY <1>2
<1>4. answer'.cmd.name # "grep_l"
    BY <1>2, <1>3
<1>5. QED
    BY <1>1, <1>4, Zenon DEF GrepOK, PrintedOK

\* No answer yet.
LEMMA BeginPrints ==
    ASSUME WInv, Begin
    PROVE  GrepOK' /\ PrintedOK'
<1>1. tree' = tree /\ cwd' = cwd /\ job = Idle
    BY DEF Begin
<1>2. PICK cmd \in Commands :
         LET args == IF cmd.find = NoFind THEN cmd.args ELSE Found(cmd)
             none == /\ cmd.find # NoFind
                     /\ cmd.find.via = "xargs" \/ Resolve(tree, cwd, cmd.find.root) = Nowhere
         IN \/ /\ answer' = [cmd |-> cmd, exit |-> 1, out |-> <<>>, done |-> <<>>, before |-> tree]
               /\ UNCHANGED job
            \/ /\ job' = [cmd |-> cmd, left |-> Operands(cmd, args), out |-> <<>>,
                          done |-> <<>>, before |-> tree]
               /\ answer' = None /\ ~(args = <<>> /\ none)
    BY Zenon DEF Begin, Answer
<1> DEFINE args == IF cmd.find = NoFind THEN cmd.args ELSE Found(cmd)
           left == Operands(cmd, args)
           node == Resolve(tree, cwd, cmd.find.root)
           paths == FindMatches(tree, node, cmd.find)
<1>3. IsCommand(cmd) /\ IsTree(tree) /\ cwd \in DOMAIN tree
    BY TreeAssumption, TypedIsThere DEF WInv, TInv, IInv, TypeOK
<1>4. CASE /\ answer' = [cmd |-> cmd, exit |-> 1, out |-> <<>>, done |-> <<>>, before |-> tree]
           /\ UNCHANGED job
    <2>1. answer'.exit # 0
        BY <1>4
    <2>2. QED
        BY <1>1, <1>4, <2>1, Zenon DEF GrepOK, PrintedOK, Answered
<1>5. CASE /\ job' = [cmd |-> cmd, left |-> left, out |-> <<>>, done |-> <<>>, before |-> tree]
           /\ answer' = None
           /\ ~(args = <<>> /\ cmd.find # NoFind /\ node = Nowhere)
    <2>1. PrintedOK'
        BY <1>5, Zenon DEF PrintedOK, Answered
    <2>2. job'.left = left /\ job'.cmd = cmd /\ job'.out = <<>>
        <3> HIDE DEF left
        <3>1. QED
            BY <1>5
    <2>3. ASSUME cmd.find # NoFind, cmd.name = "grep_l"
          PROVE  Grepped(tree, cwd, cmd, left, job'.out)
        <3>1. args = Found(cmd) /\ cmd.find.root \in TypedPaths
            BY <1>3, <2>3 DEF IsCommand
        <3>2. node # Nowhere
            <4>1. CASE node = Nowhere
                <5>1. args = <<>>
                    BY <3>1, <4>1 DEF Found
                <5>2. QED
                    BY <1>5, <2>3, <4>1, <5>1
            <4>2. QED
                BY <4>1
        <3>3. args = [i \in DOMAIN paths |-> Typed(paths[i])]
            BY <3>1, <3>2 DEF Found
        <3>4. left = [i \in DOMAIN args |-> <<args[i]>>]
            BY <2>3 DEF Operands
        <3> HIDE DEF args, left
        <3>5. left = [i \in DOMAIN paths |-> <<Typed(paths[i])>>]
            <4> HIDE DEF paths
            <4>1. QED
                BY <3>3, <3>4
        <3>6. QED
            BY <1>3, <2>2, <3>1, <3>2, <3>5, GrepBegins
    <2> HIDE DEF left
    <2>4. GrepOK'
        BY <1>1, <2>2, <2>3, Zenon DEF GrepOK
    <2>5. QED
        BY <2>1, <2>4
<1>6. QED
    BY <1>2, <1>4, <1>5

\* A grep that goes on prints hits, and one that stops has failed.
LEMMA OperandPrints ==
    ASSUME WInv, Operand
    PROVE  GrepOK' /\ PrintedOK'
<1> DEFINE cmd == job.cmd
           result == Do(tree, cwd, cmd, Head(job.left))
           done == IF result.ok THEN Append(job.done, Head(job.left)) ELSE job.done
           left == Tail(job.left)
           out == job.out \o result.out
<1>1. /\ Running /\ job # Idle /\ job.left # <<>> /\ tree' = result.tree /\ cwd' = cwd
      /\ \/ /\ GoesOn(cmd, result)
            /\ job' = [job EXCEPT !.left = Tail(@), !.out = @ \o result.out, !.done = done]
            /\ answer' = answer
         \/ /\ ~GoesOn(cmd, result)
            /\ job' = Idle
            /\ answer' = [cmd |-> cmd, exit |-> IF result.ok THEN 0 ELSE 1, out |-> result.out,
                          done |-> done, before |-> job.before]
    BY Zenon DEF Operand, Running, Answer
<1>2. /\ job = [cmd |-> cmd, left |-> job.left, out |-> job.out, done |-> job.done,
                before |-> job.before]
      /\ job.left \in Seq(OperandsOf(cmd))
      /\ IsTree(tree) /\ cwd \in DOMAIN tree /\ answer = None
    BY <1>1, TypedIsThere, Zenon DEF WInv, TInv, IInv, TypeOK, JobOK, DoneOK
<1>3. ~GoesOn(cmd, result) => ~result.ok \/ (cmd.find # NoFind /\ cmd.name = "cat")
    BY <1>1, GoesOnWhenDone DEF WInv
<1>4. CASE GoesOn(cmd, result)
    <2>1. job' = [job EXCEPT !.left = left, !.out = out, !.done = done] /\ answer' = None
        BY <1>1, <1>2, <1>4, Zenon
    <2>2. PrintedOK'
        BY <2>1, Zenon DEF PrintedOK, Answered
    <2>3. ASSUME cmd.name = "grep_l", cmd.find # NoFind
          PROVE  tree' = tree /\ Grepped(tree, cwd, cmd, left, out)
        <3>1. Grepped(tree, cwd, cmd, job.left, job.out)
            BY <1>1, <2>3, Zenon DEF WInv, GrepOK
        <3> HIDE DEF cmd
        <3>2. QED
            BY <1>1, <1>2, <2>3, <3>1, GrepGoesOn
    <2> HIDE DEF cmd, result, done, left, out
    <2>4. job'.cmd = cmd /\ job'.left = left /\ job'.out = out
        BY <1>2, <2>1
    <2>5. GrepOK'
        BY <1>1, <2>3, <2>4, Zenon DEF GrepOK
    <2>6. QED
        BY <2>2, <2>5
<1>5. CASE ~GoesOn(cmd, result)
    <2> HIDE DEF cmd, result, done
    <2>1. /\ job' = Idle
          /\ answer' = [cmd |-> cmd, exit |-> IF result.ok THEN 0 ELSE 1, out |-> result.out,
                        done |-> done, before |-> job.before]
        BY <1>1, <1>5
    <2>2. answer'.cmd = cmd /\ answer'.exit = IF result.ok THEN 0 ELSE 1
        BY <2>1
    <2>3. answer'.exit # 0 \/ answer'.cmd.name # "grep_l"
        BY <1>3, <1>5, <2>2
    <2>4. QED
        BY <2>1, <2>3, Zenon DEF GrepOK, PrintedOK, Answered
<1>6. QED
    BY <1>4, <1>5

\* The answer has each line of what was printed.
LEMMA FinishPrints ==
    ASSUME WInv, Finish
    PROVE  GrepOK' /\ PrintedOK'
<1> DEFINE cmd == job.cmd
           exec == cmd.find.via = "exec"
<1>1. PICK exit :
         /\ job # Idle /\ job.left = <<>> /\ job' = Idle /\ tree' = tree /\ cwd' = cwd
         /\ answer' = [cmd |-> cmd, exit |-> exit,
                       out |-> IF cmd.name = "grep_l" \/ exec THEN SeenOnce(job.out) ELSE job.out,
                       done |-> job.done, before |-> job.before]
    BY Zenon DEF Finish, Answer, SeenOnce
<1>2. cmd \in Commands /\ IsTree(tree) /\ IsCommand(cmd)
    BY <1>1, TreeAssumption, Zenon DEF WInv, TInv, IInv, TypeOK, JobOK
<1>3. ASSUME cmd.name = "grep_l", cmd.find # NoFind
      PROVE  Printed(tree, cwd, cmd, SeenOnce(job.out))
    <2>1. Grepped(tree, cwd, cmd, job.left, job.out)
        BY <1>1, <1>3, Zenon DEF WInv, GrepOK
    <2>2. job.out \in Seq(Paths)
        BY <2>1, Zenon DEF Grepped
    <2>3. ToSet(SeenOnce(job.out)) = ToSet(job.out)
        BY <2>2, SeenOnceHasAll
    <2> HIDE DEF cmd
    <2>4. QED
        BY <1>1, <1>2, <1>3, <2>1, <2>3, GrepEnds
<1> HIDE DEF cmd, exec
<1>4. answer'.cmd = cmd /\ (cmd.name = "grep_l" => answer'.out = SeenOnce(job.out))
    BY <1>1
<1>5. PrintedOK'
    BY <1>1, <1>3, <1>4, Zenon DEF PrintedOK
<1>6. QED
    BY <1>1, <1>5, Zenon DEF GrepOK

\* Every step.
LEMMA InitPrints == Init => WInv
<1>1. ASSUME Init PROVE job = Idle /\ answer = None
    BY <1>1 DEF Init
<1>2. QED
    BY <1>1, InitAnswers, Zenon DEF WInv, GrepOK, PrintedOK, Answered

LEMMA NextPrints == WInv /\ [Next]_vars => WInv'
<1>1. SUFFICES ASSUME WInv, [Next]_vars PROVE WInv'
    OBVIOUS
<1>2. TInv'
    BY <1>1, NextAnswers DEF WInv
<1>3. GrepOK' /\ PrintedOK'
    <2>1. CASE ChangeDir
        BY <1>1, <2>1, ChangeDirPrints
    <2>2. CASE Begin
        BY <1>1, <2>2, BeginPrints
    <2>3. CASE Operand
        BY <1>1, <2>3, OperandPrints
    <2>4. CASE Finish
        BY <1>1, <2>4, FinishPrints
    <2>5. CASE UNCHANGED vars
        <3>1. tree' = tree /\ cwd' = cwd /\ job' = job /\ answer' = answer
            BY <2>5 DEF vars
        <3>2. QED
            BY <1>1, <3>1, Zenon DEF WInv, GrepOK, PrintedOK, Answered
    <2>6. QED
        BY <1>1, <2>1, <2>2, <2>3, <2>4, <2>5 DEF Next
<1>4. QED
    BY <1>2, <1>3 DEF WInv

-----------------------------------------------------------------------------
(* The theorems.                                                           *)

\* Whatever the commands do, in any number, to any of the trees: what they leave
\* is a tree, with every node in a directory, and the session is in a directory
\* of it. It needs that operands stay typed, those that find passes on included.
THEOREM TypesAreKept == Spec => []TypeOK
<1>1. IInv => TypeOK
    BY DEF IInv
<1>2. QED
    BY <1>1, InitIsTyped, NextKeeps, PTL DEF Spec

\* A command that answers 0 has done to every operand what it says (AnswersAreTrue),
\* for all trees, commands, lists of operands and matches of find, in any number
\* of commands: a node that an operand has made is not lost to a later one, the
\* path of a removed one leads nowhere, and the paths that find passes on lead to
\* what it has found. It needs what is done so far (DoneOK), and that no node is
\* named by dots.
THEOREM AnswersAreKept == Spec => []AnswersAreTrue
<1>1. TInv => AnswersAreTrue
    BY DEF TInv
<1>2. QED
    BY <1>1, InitAnswers, NextAnswers, PTL DEF Spec

\* The walks agree (WalksAgree), in every tree that the commands make, for all roots
\* of find and grep, and any words and names: find meets each node below its root
\* once, parents first, the stack of grep meets the same files, and find -exec
\* grep -l and find | xargs grep -l print what grep -l prints. It needs that
\* children come one by one, in the order of their names, that nothing is below
\* two of them, and how far a grep has come with what find has passed on.
THEOREM WalksAreOne == Spec => []WalksAgree
<1>1. WInv => WalksAgree
    <2>1. SUFFICES ASSUME WInv PROVE WalksAgree
        OBVIOUS
    <2>2. IsTree(tree) /\ cwd \in DOMAIN tree
        BY <2>1, TypedIsThere DEF WInv, TInv, IInv, TypeOK
    <2>3. \A node \in DOMAIN tree :
             LET found == FindPaths(tree, node)
                 files == CollectFiles(tree, node)
             IN /\ ToSet(found) = Under(tree, node) /\ Len(found) = Cardinality(ToSet(found))
                /\ \A i, j \in DOMAIN found : (IsPrefix(found[i], found[j]) /\ i # j) => i < j
                /\ ToSet(files) = ToSet(OfType(tree, found, "file"))
                /\ Len(files) = Cardinality(ToSet(files))
                /\ Resolve(tree, cwd, Typed(node)) = node
        BY <2>2, TreeWalks
    <2>4. (Answered /\ answer.cmd.name = "grep_l" /\ answer.cmd.find # NoFind) =>
             Printed(tree, cwd, answer.cmd, answer.out)
        BY <2>1, Zenon DEF WInv, PrintedOK
    <2>5. QED
        BY <2>3, <2>4, Zenon DEF WalksAgree, Printed
<1>2. QED
    BY <1>1, InitPrints, NextPrints, PTL DEF Spec

\* A step removes or changes nothing that its operand does not name, and what it
\* makes is in the workspace, but for mkdir -p of a path that climbs
\* (OnlyAsAsked), for all trees, paths and commands: with
\* get_or_create_child_file, cp leaves a file that is there.
THEOREM OnlyTheNamedChanges == Spec => OnlyAsAsked
<1> DEFINE Asked ==
              LET operand == Head(job.left)
                  named == Resolve(tree, cwd, operand[1])
              IN /\ \A p \in DOMAIN tree \ DOMAIN tree' : job.cmd.name = "rm" /\ p = named
                 /\ \A p \in DOMAIN tree \cap DOMAIN tree' :
                       tree'[p] # tree[p] =>
                           /\ job.cmd.name = "echo" /\ p = named /\ tree[p].type = "file"
                           /\ job.cmd.op # ">"
                           /\ job.cmd.op = ">>" => IsPrefix(tree[p].text, tree'[p].text)
                 /\ \A p \in DOMAIN tree' \ DOMAIN tree :
                       \/ IsUnder(p, Workspace)
                       \/ job.cmd.name = "mkdir_p" /\ Climbs(operand[1])
<1>1. IInv /\ [Next]_vars => [Asked]_tree
    <2>1. SUFFICES ASSUME IInv, [Next]_vars, tree' # tree PROVE Asked
        OBVIOUS
    <2>2. Next
        BY <2>1 DEF vars
    <2>3. AsAsked(tree, tree', job.cmd, Resolve(tree, cwd, Head(job.left)[1]), Head(job.left)[1])
        BY <2>1, <2>2, StepAsAsked
    <2>4. QED
        BY <2>3, Zenon DEF AsAsked
<1> HIDE DEF Asked
<1>2. Spec => [][Asked]_tree
    BY <1>1, InitIsTyped, NextKeeps, PTL DEF Spec
<1>3. QED
    BY <1>2 DEF OnlyAsAsked, Asked
=============================================================================
