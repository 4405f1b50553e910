----------------------------- MODULE QueryProofs -----------------------------
(***************************************************************************)
(* What the candle and metric queries select and add up is right for every *)
(* table (QueriesAreExact): the sums over a set of candles, the bars as a  *)
(* set and in order, the windows of a table without gaps, and the cards of *)
(* the overview.                                                           *)
(***************************************************************************)
EXTENDS AlgorithmsProofs

-----------------------------------------------------------------------------
\* Sums over a finite set

\* What holds of the empty set and with every set of the sets with one element
\* more holds of every subset.
LEMMA InductionOverSubsets ==
    ASSUME NEW S, IsFiniteSet(S), NEW J, {} \in J,
           \A T \in SUBSET S : \A a \in S \ T : T \in J => T \union {a} \in J
    PROVE  SUBSET S \subseteq J
<1> DEFINE N == Cardinality(S)
           I == {n \in 0 .. N : \A T \in SUBSET S : Cardinality(T) = n => T \in J}
<1>1. N \in Nat /\ \A T \in SUBSET S : IsFiniteSet(T) /\ Cardinality(T) \in 0 .. N
    <2>1. N \in Nat
        BY FS_CardinalityType
    <2>2. ASSUME NEW T \in SUBSET S PROVE IsFiniteSet(T) /\ Cardinality(T) \in 0 .. N
        <3>1. IsFiniteSet(T) /\ Cardinality(T) <= N
            BY FS_Subset
        <3>2. Cardinality(T) \in Nat
            BY <3>1, FS_CardinalityType
        <3> QED BY <2>1, <3>1, <3>2
    <2> QED BY <2>1, <2>2
<1> HIDE DEF N
<1>2. 0 \in I
    <2>1. \A T \in SUBSET S : Cardinality(T) = 0 => T = {}
        BY <1>1, FS_EmptySet
    <2> QED BY <1>1, <2>1
<1>3. ASSUME NEW n \in 0 .. N - 1, n \in I PROVE n + 1 \in I
    <2>1. n + 1 \in 0 .. N /\ n \in Nat
        BY <1>1
    <2>2. ASSUME NEW T \in SUBSET S, Cardinality(T) = n + 1 PROVE T \in J
        <3>1. IsFiniteSet(T) /\ T # {}
            BY <1>1, <2>1, <2>2, FS_EmptySet
        <3>2. PICK a \in T : TRUE
            BY <3>1
        <3> DEFINE rest == T \ {a}
        <3>3. Cardinality(rest) = Cardinality(T) - 1
            BY <3>1, <3>2, FS_RemoveElement
        <3>4. Cardinality(rest) = n
            BY <2>1, <2>2, <3>3
        <3>5. rest \in SUBSET S /\ a \in S \ rest /\ rest \union {a} = T
            BY <3>2
        <3> HIDE DEF rest
        <3>6. rest \in J
            BY <1>3, <3>4, <3>5
        <3>7. rest \union {a} \in J
            BY <3>5, <3>6
        <3> QED BY <3>5, <3>7
    <2> QED BY <2>1, <2>2
<1> HIDE DEF I
<1>4. 0 .. N \subseteq I
    BY <1>1, <1>2, <1>3, InductionUpTo
<1>5. ASSUME NEW T \in SUBSET S PROVE T \in J
    <2>1. Cardinality(T) \in I
        BY <1>1, <1>4
    <2> QED BY <2>1 DEF I
<1> QED BY <1>5

\* The element FoldSet takes next.
Some(T) == CHOOSE x \in T : TRUE

\* What FoldSet tabulates: the sum of the values of every subset.
SumTables(S, v) ==
    {f \in [SUBSET S -> Int] : \A T \in SUBSET S : f[T] = IF T = {} THEN 0 ELSE f[T \ {Some(T)}] + v[Some(T)]}

\* Sums over a finite set have a table.
LEMMA SumsHaveTable ==
    ASSUME NEW S, IsFiniteSet(S), NEW v \in [S -> Int]
    PROVE  SumTables(S, v) # {}
<1> DEFINE N == Cardinality(S)
           P == SUBSET S
           G == [P -> Int]
           next == [g \in G |-> [T \in P |-> IF T = {} THEN 0 ELSE g[T \ {Some(T)}] + v[Some(T)]]]
           turn == [n \in 1 .. N + 1 |-> next]
           first == [T \in P |-> 0]
<1>1. N \in Nat
    BY FS_CardinalityType
<1>2. \A T \in P : T # {} => Some(T) \in T /\ Some(T) \in S /\ T \ {Some(T)} \in P /\ v[Some(T)] \in Int
    BY DEF Some
<1>3. first \in G
    OBVIOUS
<1>4. next \in [G -> G]
    <2>1. ASSUME NEW g \in G PROVE [T \in P |-> IF T = {} THEN 0 ELSE g[T \ {Some(T)}] + v[Some(T)]] \in G
        <3>1. ASSUME NEW T \in P, T # {} PROVE g[T \ {Some(T)}] + v[Some(T)] \in Int
            <4>1. g[T \ {Some(T)}] \in Int /\ v[Some(T)] \in Int
                BY <1>2, <3>1
            <4> QED BY <4>1
        <3> QED BY <3>1
    <2> HIDE DEF G
    <2> QED BY <2>1
<1>5. \A g \in G : \A T \in P : next[g][T] = IF T = {} THEN 0 ELSE g[T \ {Some(T)}] + v[Some(T)]
    OBVIOUS
<1> HIDE DEF N, next, first
<1>6. turn \in LoopBodies(N + 1, G) /\ \A n \in 1 .. N + 1 : turn[n] = next
    <2> HIDE DEF G
    <2> QED BY <1>4 DEF LoopBodies
<1> HIDE DEF turn
<1>7. PICK f \in LoopRuns(N + 1, G, first, turn) : TRUE
    <2>1. N + 1 \in Nat
        BY <1>1
    <2> HIDE DEF G
    <2> QED BY <1>3, <1>6, <2>1, Recursion
<1>8. f \in [0 .. N + 1 -> G] /\ \A n \in 1 .. N + 1 : f[n] = next[f[n - 1]]
    BY <1>6, <1>7 DEF LoopRuns
<1>9. \A n \in 1 .. N + 1 : \A T \in P : f[n][T] = IF T = {} THEN 0 ELSE f[n - 1][T \ {Some(T)}] + v[Some(T)]
    <2> SUFFICES ASSUME NEW n \in 1 .. N + 1 PROVE \A T \in P : f[n][T] = IF T = {} THEN 0 ELSE f[n - 1][T \ {Some(T)}] + v[Some(T)]
        OBVIOUS
    <2>1. n - 1 \in 0 .. N + 1
        BY <1>1
    <2> HIDE DEF G, P
    <2>2. f[n - 1] \in G /\ f[n] = next[f[n - 1]]
        BY <1>8, <2>1
    <2> QED BY <1>5, <2>2
<1>10. \A T \in P : f[0][T] = 0
    <2>1. f[0] = first
        BY <1>7 DEF LoopRuns
    <2> QED BY <2>1 DEF first
<1> DEFINE I == {n \in 0 .. N : \A T \in P : Cardinality(T) <= n => f[n + 1][T] = f[n][T]}
<1>11. 0 \in I
    <2>1. ASSUME NEW T \in P, Cardinality(T) <= 0 PROVE f[0 + 1][T] = f[0][T]
        <3>1. IsFiniteSet(T) /\ Cardinality(T) \in Nat
            BY FS_Subset, FS_CardinalityType
        <3>2. T = {}
            BY <2>1, <3>1, FS_EmptySet
        <3>3. 1 \in 1 .. N + 1 /\ 0 + 1 = 1
            BY <1>1
        <3> HIDE DEF P, G
        <3>4. f[1][T] = 0
            BY <1>9, <3>2, <3>3
        <3> QED BY <1>10, <3>3, <3>4
    <2> HIDE DEF P
    <2> QED BY <1>1, <2>1
<1>12. ASSUME NEW n \in 0 .. N - 1, n \in I PROVE n + 1 \in I
    <2>1. n + 1 \in 0 .. N /\ n + 1 \in 1 .. N + 1 /\ (n + 1) + 1 \in 1 .. N + 1 /\ ((n + 1) + 1) - 1 = n + 1 /\ (n + 1) - 1 = n /\ n \in Nat
        BY <1>1
    <2>2. ASSUME NEW T \in P, Cardinality(T) <= n + 1 PROVE f[(n + 1) + 1][T] = f[n + 1][T]
        <3>1. CASE T = {}
            BY <1>9, <2>1, <3>1
        <3>2. CASE T # {}
            <4> DEFINE rest == T \ {Some(T)}
            <4>1. rest \in P /\ Some(T) \in T
                BY <1>2, <3>2
            <4>2. IsFiniteSet(T) /\ Cardinality(T) \in Nat
                BY FS_Subset, FS_CardinalityType
            <4>3. Cardinality(rest) = Cardinality(T) - 1
                BY <4>1, <4>2, FS_RemoveElement
            <4>4. Cardinality(rest) <= n
                BY <2>1, <2>2, <4>2, <4>3
            <4> HIDE DEF rest, P
            <4>5. f[n + 1][rest] = f[n][rest]
                BY <1>12, <4>1, <4>4
            <4>6. f[(n + 1) + 1][T] = f[n + 1][rest] + v[Some(T)]
                BY <1>9, <2>1, <3>2 DEF rest
            <4>7. f[n + 1][T] = f[n][rest] + v[Some(T)]
                BY <1>9, <2>1, <3>2 DEF rest
            <4> QED BY <4>5, <4>6, <4>7
        <3> QED BY <3>1, <3>2
    <2> HIDE DEF P
    <2> QED BY <2>1, <2>2
<1>13. N \in I
    <2> HIDE DEF I
    <2>1. 0 .. N \subseteq I
        BY <1>1, <1>11, <1>12, InductionUpTo
    <2> QED BY <1>1, <2>1
<1>14. \A T \in P : f[N + 1][T] = f[N][T]
    <2> SUFFICES ASSUME NEW T \in P PROVE f[N + 1][T] = f[N][T]
        OBVIOUS
    <2>1. Cardinality(T) <= N
        BY FS_Subset DEF N
    <2> HIDE DEF P
    <2> QED BY <1>13, <2>1
<1>15. f[N + 1] \in SumTables(S, v)
    <2>1. N + 1 \in 0 .. N + 1 /\ N + 1 \in 1 .. N + 1 /\ (N + 1) - 1 = N
        BY <1>1
    <2>2. f[N + 1] \in G
        <3> HIDE DEF G
        <3> QED BY <1>8, <2>1
    <2>3. ASSUME NEW T \in P PROVE f[N + 1][T] = IF T = {} THEN 0 ELSE f[N + 1][T \ {Some(T)}] + v[Some(T)]
        <3>1. f[N + 1][T] = IF T = {} THEN 0 ELSE f[N][T \ {Some(T)}] + v[Some(T)]
            BY <1>9, <2>1
        <3>2. T # {} => f[N + 1][T \ {Some(T)}] = f[N][T \ {Some(T)}]
            BY <1>2, <1>14
        <3> QED BY <3>1, <3>2
    <2> QED BY <2>2, <2>3 DEF SumTables
<1> QED BY <1>15

\* The values of a field.
ValuesOf(S, field, v) == v \in [S -> Int] /\ \A c \in S : v[c] = c[field]

\* A sum is the entry of its set.
LEMMA SumIsEntry ==
    ASSUME NEW S, IsFiniteSet(S), NEW field, NEW v, ValuesOf(S, field, v),
           NEW f \in SumTables(S, v), NEW A \in SUBSET S
    PROVE  SumOf(A, field) = f[A]
<1> DEFINE P == SUBSET A
           Loop(g) == [s \in P |-> IF s = {} THEN 0 ELSE g[s \ {Some(s)}] + Some(s)[field]]
           sum == CHOOSE g : g = Loop(g)
<1>1. SumOf(A, field) = sum[A]
    BY DEF SumOf, FoldSet, MapThenFoldSet, Some
<1>2. \A T \in P : T # {} => Some(T) \in T /\ Some(T) \in S /\ T \ {Some(T)} \in P /\ v[Some(T)] = Some(T)[field]
    BY DEF Some, ValuesOf
<1>3. \A T \in P : f[T] = IF T = {} THEN 0 ELSE f[T \ {Some(T)}] + v[Some(T)]
    BY DEF SumTables
<1> DEFINE h == [T \in P |-> f[T]]
<1>4. h = Loop(h)
    <2>1. \A T \in P : h[T] = IF T = {} THEN 0 ELSE h[T \ {Some(T)}] + Some(T)[field]
        BY <1>2, <1>3
    <2> QED BY <2>1
<1>5. sum = Loop(sum)
    <2> HIDE DEF Loop, h
    <2> QED BY <1>4
<1> HIDE DEF sum
<1>6. \A T \in P : sum[T] = IF T = {} THEN 0 ELSE sum[T \ {Some(T)}] + Some(T)[field]
    BY <1>5
<1> DEFINE N == Cardinality(A)
           I == {n \in 0 .. N : \A T \in P : Cardinality(T) = n => sum[T] = f[T]}
<1>7. IsFiniteSet(A) /\ N \in Nat
    BY FS_Subset, FS_CardinalityType
<1>8. \A T \in P : IsFiniteSet(T) /\ Cardinality(T) \in 0 .. N
    <2> SUFFICES ASSUME NEW T \in P PROVE IsFiniteSet(T) /\ Cardinality(T) \in 0 .. N
        OBVIOUS
    <2>1. IsFiniteSet(T) /\ Cardinality(T) <= N
        BY <1>7, FS_Subset
    <2>2. Cardinality(T) \in Nat
        BY <2>1, FS_CardinalityType
    <2> QED BY <1>7, <2>1, <2>2
<1> HIDE DEF N
<1>9. 0 \in I
    <2>1. ASSUME NEW T \in P, Cardinality(T) = 0 PROVE sum[T] = f[T]
        <3>1. T = {}
            BY <1>8, <2>1, FS_EmptySet
        <3> QED BY <1>3, <1>6, <3>1
    <2> HIDE DEF P
    <2> QED BY <1>7, <2>1
<1>10. ASSUME NEW n \in 0 .. N - 1, n \in I PROVE n + 1 \in I
    <2>1. n + 1 \in 0 .. N /\ n \in Nat
        BY <1>7
    <2>2. ASSUME NEW T \in P, Cardinality(T) = n + 1 PROVE sum[T] = f[T]
        <3>1. IsFiniteSet(T) /\ T # {}
            BY <1>8, <2>1, <2>2, FS_EmptySet
        <3> DEFINE rest == T \ {Some(T)}
        <3>2. rest \in P /\ Some(T) \in T /\ v[Some(T)] = Some(T)[field]
            BY <1>2, <3>1
        <3>3. Cardinality(rest) = Cardinality(T) - 1
            BY <3>1, <3>2, FS_RemoveElement
        <3>4. Cardinality(rest) = n
            BY <2>1, <2>2, <3>3
        <3>5. sum[T] = sum[rest] + Some(T)[field]
            BY <1>6, <3>1
        <3>6. f[T] = f[rest] + v[Some(T)]
            BY <1>3, <3>1
        <3> HIDE DEF rest, P
        <3>7. sum[rest] = f[rest]
            BY <1>10, <3>2, <3>4
        <3> QED BY <3>2, <3>5, <3>6, <3>7
    <2> HIDE DEF P
    <2> QED BY <2>1, <2>2
<1>11. 0 .. N \subseteq I
    <2> HIDE DEF I
    <2> QED BY <1>7, <1>9, <1>10, InductionUpTo
<1>12. sum[A] = f[A]
    <2>1. A \in P /\ Cardinality(A) \in I
        BY <1>7, <1>8, <1>11
    <2> HIDE DEF P
    <2> QED BY <2>1
<1> QED BY <1>1, <1>12

\* A sum grows by the value of a new element, whichever it is.
SumsAdd(S, field) ==
    /\ SumOf({}, field) = 0
    /\ \A T \in SUBSET S : SumOf(T, field) \in Int
    /\ \A T \in SUBSET S : \A a \in S \ T : SumOf(T \union {a}, field) = SumOf(T, field) + a[field]

\* So do those of every field of integers.
LEMMA SumsAre ==
    ASSUME NEW S, IsFiniteSet(S), NEW field, \A c \in S : c[field] \in Int
    PROVE  SumsAdd(S, field)
<1> DEFINE v == [c \in S |-> c[field]]
           P == SUBSET S
<1>1. v \in [S -> Int] /\ \A c \in S : v[c] = c[field]
    OBVIOUS
<1> HIDE DEF v
<1>2. PICK f \in SumTables(S, v) : TRUE
    BY <1>1, SumsHaveTable
<1>3. f \in [P -> Int] /\ \A T \in P : f[T] = IF T = {} THEN 0 ELSE f[T \ {Some(T)}] + v[Some(T)]
    BY DEF SumTables
<1>4. ASSUME NEW T \in P PROVE SumOf(T, field) = f[T]
    <2>1. f \in SumTables(S, v) /\ T \in SUBSET S /\ IsFiniteSet(S)
        BY <1>2
    <2> HIDE DEF P
    <2>2. ValuesOf(S, field, v)
        BY <1>1 DEF ValuesOf
    <2> QED BY <2>1, <2>2, SumIsEntry
<1> DEFINE Grows(T) == \A a \in S \ T : f[T \union {a}] = f[T] + v[a]
           N == Cardinality(S)
           I == {n \in 0 .. N : \A T \in P : Cardinality(T) <= n => Grows(T)}
<1>5. N \in Nat /\ \A T \in P : IsFiniteSet(T) /\ Cardinality(T) \in 0 .. N
    <2>1. N \in Nat
        BY FS_CardinalityType
    <2>2. ASSUME NEW T \in P PROVE IsFiniteSet(T) /\ Cardinality(T) \in 0 .. N
        <3>1. IsFiniteSet(T) /\ Cardinality(T) <= N
            BY FS_Subset
        <3>2. Cardinality(T) \in Nat
            BY <3>1, FS_CardinalityType
        <3> QED BY <2>1, <3>1, <3>2
    <2> QED BY <2>1, <2>2
<1>6. ASSUME NEW T \in P, T # {} PROVE Some(T) \in T /\ T \ {Some(T)} \in P /\ Some(T) \in S
    BY <1>6 DEF Some
<1> HIDE DEF N
<1>7. 0 \in I
    <2>1. ASSUME NEW T \in P, Cardinality(T) <= 0, NEW a \in S \ T PROVE f[T \union {a}] = f[T] + v[a]
        <3>1. T = {}
            BY <1>5, <2>1, FS_EmptySet
        <3>2. {a} \in P /\ {a} # {} /\ Some({a}) = a /\ {a} \ {a} = {} /\ T \union {a} = {a} /\ {} \in P
            BY <3>1 DEF Some
        <3>3. f[{a}] = f[{}] + v[a] /\ f[{}] = 0
            BY <1>3, <3>2
        <3> QED BY <3>1, <3>2, <3>3
    <2> QED BY <1>5, <2>1
<1>8. ASSUME NEW n \in 0 .. N - 1, n \in I PROVE n + 1 \in I
    <2>1. n + 1 \in 0 .. N /\ n \in Nat
        BY <1>5
    <2>2. ASSUME NEW T \in P, Cardinality(T) <= n + 1, NEW a \in S \ T PROVE f[T \union {a}] = f[T] + v[a]
        <3> DEFINE U == T \union {a}
                   x == Some(U)
        <3>1. U \in P /\ U # {}
            OBVIOUS
        <3>2. x \in U /\ U \ {x} \in P /\ f[U] = f[U \ {x}] + v[x]
            BY <1>3, <1>6, <3>1
        <3> HIDE DEF x
        <3>3. CASE x = a
            <4>1. U \ {x} = T
                BY <3>3
            <4> QED BY <3>2, <3>3, <4>1
        <3>4. CASE x # a
            <4> DEFINE rest == T \ {x}
            <4>1. x \in T /\ rest \in P /\ U \ {x} = rest \union {a} /\ a \in S \ rest /\ x \in S \ rest /\ rest \union {x} = T
                BY <3>2, <3>4
            <4>2. Cardinality(rest) = Cardinality(T) - 1
                BY <1>5, <4>1, FS_RemoveElement
            <4>3. Cardinality(rest) <= n
                BY <1>5, <2>1, <2>2, <4>2
            <4> HIDE DEF rest, P, U
            <4>4. f[rest \union {a}] = f[rest] + v[a] /\ f[rest \union {x}] = f[rest] + v[x]
                BY <1>8, <4>1, <4>3
            <4>5. f[U] = (f[rest] + v[a]) + v[x] /\ f[T] = f[rest] + v[x]
                BY <3>2, <4>1, <4>4
            <4>6. f[rest] \in Int /\ v[a] \in Int /\ v[x] \in Int
                BY <1>1, <1>3, <4>1
            <4>7. f[U] = f[T] + v[a]
                BY <4>5, <4>6
            <4> QED BY <4>7 DEF U
        <3> QED BY <3>3, <3>4
    <2> HIDE DEF P
    <2> QED BY <2>1, <2>2
<1>9. N \in I
    <2> HIDE DEF I
    <2>1. 0 .. N \subseteq I
        BY <1>5, <1>7, <1>8, InductionUpTo
    <2> QED BY <1>5, <2>1
<1>10. ASSUME NEW T \in P PROVE Grows(T)
    <2>1. Cardinality(T) <= N
        BY <1>5
    <2> HIDE DEF P, Grows
    <2> QED BY <1>9, <2>1
<1>11. SumOf({}, field) = 0
    <2>1. {} \in P
        OBVIOUS
    <2> QED BY <1>3, <1>4, <2>1
<1>12. ASSUME NEW T \in P PROVE SumOf(T, field) \in Int
    BY <1>3, <1>4
<1>13. ASSUME NEW T \in P, NEW a \in S \ T PROVE SumOf(T \union {a}, field) = SumOf(T, field) + a[field]
    <2>1. T \union {a} \in P
        OBVIOUS
    <2>2. f[T \union {a}] = f[T] + v[a]
        BY <1>10
    <2> QED BY <1>1, <1>4, <2>1, <2>2
<1> QED BY <1>11, <1>12, <1>13 DEF SumsAdd

\* The sum of one element.
LEMMA SumOfOne ==
    ASSUME NEW S, NEW field, SumsAdd(S, field), NEW a \in S, a[field] \in Int
    PROVE  SumOf({a}, field) = a[field]
<1>1. {} \in SUBSET S /\ a \in S \ {} /\ {} \union {a} = {a}
    OBVIOUS
<1>2. SumOf({} \union {a}, field) = SumOf({}, field) + a[field] /\ SumOf({}, field) = 0
    BY <1>1 DEF SumsAdd
<1> QED BY <1>1, <1>2

\* A sum over more is no less, and the same if what is more is zero.
LEMMA SumOfMore ==
    ASSUME NEW S, NEW field, SumsAdd(S, field), NEW B \in SUBSET S, IsFiniteSet(B), NEW A \in SUBSET B,
           \A c \in B \ A : c[field] \in Nat
    PROVE  /\ SumOf(A, field) <= SumOf(B, field)
           /\ (\A c \in B \ A : c[field] = 0) => SumOf(A, field) = SumOf(B, field)
<1> DEFINE C == B \ A
           J == {T \in SUBSET C : /\ SumOf(A, field) <= SumOf(A \union T, field)
                                  /\ (\A c \in C : c[field] = 0) => SumOf(A, field) = SumOf(A \union T, field)}
<1>1. IsFiniteSet(C) /\ C \subseteq S /\ A \in SUBSET S /\ A \union C = B
    BY FS_Subset
<1>2. {} \in J
    <2>1. A \union {} = A /\ SumOf(A, field) \in Int
        BY <1>1 DEF SumsAdd
    <2> QED BY <2>1
<1>3. ASSUME NEW T \in SUBSET C, NEW a \in C \ T, T \in J PROVE T \union {a} \in J
    <2> DEFINE U == A \union T
    <2>1. U \in SUBSET S /\ a \in S \ U /\ A \union (T \union {a}) = U \union {a} /\ T \union {a} \in SUBSET C /\ a \in C
        BY <1>1
    <2>2. /\ SumOf(U \union {a}, field) = SumOf(U, field) + a[field] /\ SumOf(U, field) \in Int
          /\ SumOf(A, field) \in Int /\ a[field] \in Nat
        BY <1>1, <2>1 DEF SumsAdd
    <2>3. /\ SumOf(A, field) <= SumOf(U, field)
          /\ (\A c \in C : c[field] = 0) => SumOf(A, field) = SumOf(U, field)
        BY <1>3
    <2> HIDE DEF U, C
    <2>4. SumOf(A, field) <= SumOf(U \union {a}, field)
        BY <2>2, <2>3
    <2>5. (\A c \in C : c[field] = 0) => SumOf(A, field) = SumOf(U \union {a}, field)
        BY <2>1, <2>2, <2>3
    <2> QED BY <2>1, <2>4, <2>5
<1> HIDE DEF C
<1>4. C \in J
    <2> HIDE DEF J
    <2>1. SUBSET C \subseteq J
        BY <1>1, <1>2, <1>3, InductionOverSubsets
    <2> QED BY <2>1
<1> QED BY <1>1, <1>4 DEF C

\* What holds between two multiples of the values holds between those of the sums.
LEMMA SumsCompare ==
    ASSUME NEW S, NEW one, NEW two, SumsAdd(S, one), SumsAdd(S, two), NEW A \in SUBSET S, IsFiniteSet(A),
           NEW k \in Int, NEW l \in Int,
           \A c \in A : c[one] \in Int /\ c[two] \in Int /\ k * c[one] <= l * c[two]
    PROVE  k * SumOf(A, one) <= l * SumOf(A, two)
<1> DEFINE J == {T \in SUBSET A : k * SumOf(T, one) <= l * SumOf(T, two)}
<1>1. {} \in J
    <2>1. SumOf({}, one) = 0 /\ SumOf({}, two) = 0
        BY DEF SumsAdd
    <2>2. k * 0 <= l * 0
        OBVIOUS
    <2> QED BY <2>1, <2>2
<1>2. ASSUME NEW T \in SUBSET A, NEW a \in A \ T, T \in J PROVE T \union {a} \in J
    <2> DEFINE x == SumOf(T, one)
               y == SumOf(T, two)
               u == a[one]
               w == a[two]
    <2>1. T \in SUBSET S /\ a \in S \ T
        OBVIOUS
    <2>2. SumOf(T \union {a}, one) = x + u /\ SumOf(T \union {a}, two) = y + w /\ x \in Int /\ y \in Int
        BY <2>1 DEF SumsAdd
    <2>3. u \in Int /\ w \in Int /\ k * u <= l * w /\ k * x <= l * y
        BY <1>2
    <2> HIDE DEF x, y, u, w
    <2>4. k * (x + u) = k * x + k * u /\ l * (y + w) = l * y + l * w
        BY <2>2, <2>3
    <2>5. k * x \in Int /\ k * u \in Int /\ l * y \in Int /\ l * w \in Int
        BY <2>2, <2>3
    <2>6. k * x + k * u <= l * y + l * w
        <3> DEFINE kx == k * x
                   ku == k * u
                   ly == l * y
                   lw == l * w
        <3>1. kx \in Int /\ ku \in Int /\ ly \in Int /\ lw \in Int /\ kx <= ly /\ ku <= lw
            BY <2>3, <2>5
        <3> HIDE DEF kx, ku, ly, lw
        <3>2. kx + ku <= ly + lw
            BY <3>1
        <3> QED BY <3>2 DEF kx, ku, ly, lw
    <2>7. k * SumOf(T \union {a}, one) <= l * SumOf(T \union {a}, two)
        BY <2>2, <2>4, <2>6
    <2>8. T \union {a} \in SUBSET A
        OBVIOUS
    <2> QED BY <2>7, <2>8
<1>3. A \in J
    <2> HIDE DEF J
    <2>1. SUBSET A \subseteq J
        BY <1>1, <1>2, InductionOverSubsets
    <2> QED BY <2>1
<1> QED BY <1>3

\* A finite set has a least and a greatest element.
LEMMA FiniteExtremes ==
    ASSUME NEW S, IsFiniteSet(S), S # {}, NEW v \in [S -> Int]
    PROVE  /\ \E m \in S : \A x \in S : v[m] <= v[x]
           /\ \E m \in S : \A x \in S : v[x] <= v[m]
<1> DEFINE Low(T) == \E m \in T : \A x \in T : v[m] <= v[x]
           High(T) == \E m \in T : \A x \in T : v[x] <= v[m]
           J == {T \in SUBSET S : T = {} \/ (Low(T) /\ High(T))}
<1>1. {} \in J
    OBVIOUS
<1>2. ASSUME NEW T \in SUBSET S, NEW a \in S \ T, T \in J PROVE T \union {a} \in J
    <2> DEFINE U == T \union {a}
    <2>1. \A x \in U : v[x] \in Int
        OBVIOUS
    <2>2. CASE T = {}
        <3>1. \A x \in U : x = a
            BY <2>2
        <3>2. Low(U) /\ High(U)
            BY <2>1, <3>1
        <3> QED BY <3>2
    <2>3. CASE T # {}
        <3>1. PICK m \in T : \A x \in T : v[m] <= v[x]
            BY <1>2, <2>3
        <3>2. PICK n \in T : \A x \in T : v[x] <= v[n]
            BY <1>2, <2>3
        <3>3. Low(U)
            <4> DEFINE k == IF v[a] <= v[m] THEN a ELSE m
            <4>1. k \in U /\ v[k] <= v[a] /\ v[k] <= v[m]
                BY <2>1, <3>1
            <4>2. \A x \in U : v[k] <= v[x]
                BY <2>1, <3>1, <4>1
            <4> HIDE DEF k
            <4> QED BY <4>1, <4>2
        <3>4. High(U)
            <4> DEFINE k == IF v[n] <= v[a] THEN a ELSE n
            <4>1. k \in U /\ v[a] <= v[k] /\ v[n] <= v[k]
                BY <2>1, <3>2
            <4>2. \A x \in U : v[x] <= v[k]
                BY <2>1, <3>2, <4>1
            <4> HIDE DEF k
            <4> QED BY <4>1, <4>2
        <3> QED BY <3>3, <3>4
    <2> QED BY <2>2, <2>3
<1>3. S \in J
    <2> HIDE DEF J
    <2>1. SUBSET S \subseteq J
        BY <1>1, <1>2, InductionOverSubsets
    <2> QED BY <2>1
<1> QED BY <1>3

\* Rows with times.
Timed(S) == IsFiniteSet(S) /\ \A c \in S : c.time \in Int

\* The oldest and the newest of them are there.
LEMMA EndsAre ==
    ASSUME NEW S, Timed(S), S # {}
    PROVE  /\ FirstOf(S) \in S /\ \A c \in S : FirstOf(S).time <= c.time
           /\ LastOf(S) \in S /\ \A c \in S : c.time <= LastOf(S).time
<1> DEFINE v == [c \in S |-> c.time]
<1>1. v \in [S -> Int] /\ \A c \in S : v[c] = c.time
    BY DEF Timed
<1> HIDE DEF v
<1>2. /\ \E m \in S : \A x \in S : v[m] <= v[x]
      /\ \E m \in S : \A x \in S : v[x] <= v[m]
    BY <1>1, FiniteExtremes DEF Timed
<1>3. /\ \E m \in S : \A x \in S : m.time <= x.time
      /\ \E m \in S : \A x \in S : x.time <= m.time
    BY <1>1, <1>2
<1> QED BY <1>3 DEF FirstOf, LastOf

\* So are the least and the greatest price.
LEMMA PricesAre ==
    ASSUME NEW P, IsFiniteSet(P), P # {}, P \subseteq Int
    PROVE  Max(P) \in P /\ Min(P) \in P /\ \A p \in P : p <= Max(P) /\ Min(P) <= p
<1> DEFINE v == [p \in P |-> p]
<1>1. v \in [P -> Int] /\ \A p \in P : v[p] = p
    OBVIOUS
<1> HIDE DEF v
<1>2. /\ \E m \in P : \A x \in P : v[m] <= v[x]
      /\ \E m \in P : \A x \in P : v[x] <= v[m]
    BY <1>1, FiniteExtremes
<1>3. /\ \E m \in P : \A x \in P : m <= x
      /\ \E m \in P : \A x \in P : m >= x
    BY <1>1, <1>2
<1>4. Max(P) \in P /\ \A p \in P : Max(P) >= p
    BY <1>3 DEF Max
<1>5. Min(P) \in P /\ \A p \in P : Min(P) <= p
    BY <1>3 DEF Min
<1>6. \A p \in P : p <= Max(P)
    BY <1>4
<1> QED BY <1>4, <1>5, <1>6

-----------------------------------------------------------------------------
\* Rows in order

\* One row per time.
Keyed(B) == \A a, b \in B : a.time = b.time => a = b

Ordered(s, n) == \A i, j \in 1 .. n : i < j => s[i].time < s[j].time

\* The rows of a set, each once, in the order of their times.
InOrder(s, B) ==
    /\ Cardinality(B) \in Nat /\ s \in [1 .. Cardinality(B) -> B] /\ Ordered(s, Cardinality(B))
    /\ \A b \in B : \E i \in 1 .. Cardinality(B) : s[i] = b

\* Rows of different times have an order.
LEMMA AscendingIs ==
    ASSUME NEW B, Timed(B), Keyed(B)
    PROVE  InOrder(Ascending(B), B)
<1> DEFINE N == Cardinality(B)
           I == {n \in 0 .. N : \A T \in SUBSET B : Cardinality(T) = n => \E s \in [1 .. n -> T] : Ordered(s, n)}
<1>1. IsFiniteSet(B) /\ N \in Nat /\ \A c \in B : c.time \in Int
    BY FS_CardinalityType DEF Timed
<1>2. \A T \in SUBSET B : IsFiniteSet(T) /\ Timed(T)
    BY <1>1, FS_Subset DEF Timed
<1> HIDE DEF N
<1>3. 0 \in I
    <2>1. ASSUME NEW T \in SUBSET B, Cardinality(T) = 0 PROVE \E s \in [1 .. 0 -> T] : Ordered(s, 0)
        <3> DEFINE s == [i \in 1 .. 0 |-> i]
        <3>1. s \in [1 .. 0 -> T] /\ Ordered(s, 0)
            BY DEF Ordered
        <3> QED BY <3>1
    <2> QED BY <1>1, <2>1
<1>4. ASSUME NEW n \in 0 .. N - 1, n \in I PROVE n + 1 \in I
    <2>1. n + 1 \in 0 .. N /\ n \in Nat
        BY <1>1
    <2>2. ASSUME NEW T \in SUBSET B, Cardinality(T) = n + 1 PROVE \E s \in [1 .. n + 1 -> T] : Ordered(s, n + 1)
        <3>1. IsFiniteSet(T) /\ Timed(T) /\ T # {}
            BY <1>2, <2>1, <2>2, FS_EmptySet
        <3> DEFINE l == LastOf(T)
                   rest == T \ {l}
        <3>2. l \in T /\ \A c \in T : c.time <= l.time
            BY <3>1, EndsAre
        <3> HIDE DEF l
        <3>3. Cardinality(rest) = Cardinality(T) - 1
            BY <3>1, <3>2, FS_RemoveElement
        <3>4. Cardinality(rest) = n /\ rest \in SUBSET B
            BY <2>1, <2>2, <3>3
        <3>5. PICK s \in [1 .. n -> rest] : Ordered(s, n)
            BY <1>4, <3>4
        <3> DEFINE t == [i \in 1 .. n + 1 |-> IF i = n + 1 THEN l ELSE s[i]]
        <3>6. \A i \in 1 .. n : i # n + 1 /\ i \in 1 .. n + 1 /\ s[i] \in rest
            BY <2>1
        <3>7. \A i \in 1 .. n + 1 : i = n + 1 \/ i \in 1 .. n
            BY <2>1
        <3>8. t \in [1 .. n + 1 -> T]
            BY <3>2, <3>6, <3>7
        <3>9. \A i \in 1 .. n : t[i] = s[i]
            BY <3>6
        <3>10. t[n + 1] = l
            BY <2>1
        <3> HIDE DEF t
        <3>11. \A c \in rest : c.time < l.time
            BY <1>1, <3>2 DEF Keyed
        <3> HIDE DEF rest
        <3>12. ASSUME NEW i \in 1 .. n + 1, NEW j \in 1 .. n + 1, i < j PROVE t[i].time < t[j].time
            <4>1. i \in 1 .. n
                BY <2>1, <3>12
            <4>2. CASE j = n + 1
                BY <3>6, <3>9, <3>10, <3>11, <4>1, <4>2
            <4>3. CASE j # n + 1
                <5>1. j \in 1 .. n
                    BY <3>7, <4>3
                <5> QED BY <3>5, <3>9, <3>12, <4>1, <5>1 DEF Ordered
            <4> QED BY <4>2, <4>3
        <3> QED BY <3>8, <3>12 DEF Ordered
    <2> QED BY <2>1, <2>2
<1>5. PICK w \in [1 .. N -> B] : Ordered(w, N)
    <2> HIDE DEF I
    <2>1. 0 .. N \subseteq I
        BY <1>1, <1>3, <1>4, InductionUpTo
    <2>2. N \in I
        BY <1>1, <2>1
    <2> QED BY <2>2 DEF I, N
<1> DEFINE s == Ascending(B)
<1>6. s \in [1 .. N -> B] /\ Ordered(s, N)
    <2> DEFINE Is(t) == \A i, j \in DOMAIN t : i < j => t[i].time < t[j].time
    <2>1. s = CHOOSE t \in [1 .. N -> B] : Is(t)
        BY DEF Ascending, N
    <2>2. \A t \in [1 .. N -> B] : Is(t) <=> Ordered(t, N)
        BY DEF Ordered
    <2> HIDE DEF Is, s
    <2>3. Is(w)
        BY <1>5, <2>2
    <2>4. s \in [1 .. N -> B] /\ Is(s)
        BY <1>5, <2>1, <2>3
    <2> QED BY <2>2, <2>4
<1> HIDE DEF s
<1>7. ASSUME NEW b \in B PROVE \E i \in 1 .. N : s[i] = b
    <2> SUFFICES ASSUME \A i \in 1 .. N : s[i] # b PROVE FALSE
        OBVIOUS
    <2> DEFINE R == B \ {b}
    <2>1. Cardinality(R) = N - 1 /\ IsFiniteSet(R)
        BY <1>1, FS_RemoveElement DEF N
    <2>2. IsFiniteSet(1 .. N) /\ Cardinality(1 .. N) = N
        <3>1. IsFiniteSet(1 .. N) /\ Cardinality(1 .. N) = IF 1 > N THEN 0 ELSE N - 1 + 1
            BY <1>1, FS_Interval
        <3> QED BY <1>1, <3>1
    <2>3. s \in [1 .. N -> R]
        BY <1>6
    <2> HIDE DEF R
    <2>4. Cardinality(R) < Cardinality(1 .. N)
        BY <1>1, <2>1, <2>2
    <2>5. PICK x \in 1 .. N, y \in 1 .. N : x # y /\ s[x] = s[y]
        BY <2>1, <2>2, <2>3, <2>4, FS_PigeonHole
    <2>6. s[x].time \in Int /\ (x < y \/ y < x)
        BY <1>1, <1>6, <2>5
    <2>7. s[x].time < s[y].time \/ s[y].time < s[x].time
        BY <1>6, <2>6 DEF Ordered
    <2> QED BY <2>5, <2>6, <2>7
<1> QED BY <1>1, <1>6, <1>7 DEF InOrder, N, s

-----------------------------------------------------------------------------
\* Bars

\* The candles a bar stands for.
Own(T, b, width) == {c \in T : b.time <= c.time /\ c.time < b.time + width}

\* A bar tells of its candles.
BarTells(b, own) ==
    /\ \E c \in own : c.open = b.open /\ \A d \in own : c.time <= d.time
    /\ \E c \in own : c.close = b.close /\ \A d \in own : d.time <= c.time
    /\ \A c \in own : b.low <= c.low /\ c.high <= b.high
    /\ b.volume = SumOf(own, "volume")

\* The bars of a table, in no order.
BarsOfTable(B, T, width, limit) ==
    /\ Timed(B) /\ Keyed(B) /\ Cardinality(B) <= limit
    /\ B = {} <=> T = {}
    /\ T # {} => \E b \in B : (\A d \in B : d.time <= b.time) /\ LastOf(T) \in Own(T, b, width)
    /\ \A b \in B : BarTells(b, Own(T, b, width))
    /\ \A c \in T : \A b \in B : b.time <= c.time => \E d \in B : c \in Own(T, d, width)

\* In order, they are what the query answers.
LEMMA BarsInOrder ==
    ASSUME input.kind = "candles", NEW B, BarsOfTable(B, input.table, input.width, input.limit), Bars = Ascending(B)
    PROVE  BarsAreTheirCandles
<1> DEFINE T == input.table
           w == input.width
           N == Cardinality(B)
           s == Bars
<1>1. InOrder(s, B)
    BY AscendingIs DEF BarsOfTable
<1>2. /\ N \in Nat /\ s \in [1 .. N -> B] /\ Ordered(s, N) /\ N <= input.limit
      /\ \A b \in B : \E i \in 1 .. N : s[i] = b
    BY <1>1 DEF InOrder, BarsOfTable
<1>3. IsFiniteSet(B) /\ (N = 0 <=> B = {})
    BY FS_EmptySet DEF BarsOfTable, Timed
<1> HIDE DEF N, s
<1>4. DOMAIN s = 1 .. N /\ Len(s) = N /\ (s = <<>> <=> N = 0)
    <2>1. DOMAIN s = 1 .. N /\ s \in Seq(B)
        BY <1>2
    <2>2. Len(s) = N
        BY <1>2, <2>1
    <2> QED BY <1>2, <2>1, <2>2
<1>5. Len(s) <= input.limit
    BY <1>2, <1>4
<1>6. \A i, j \in DOMAIN s : i < j => s[i].time < s[j].time
    BY <1>2, <1>4 DEF Ordered
<1>7. (s = <<>>) = (T = {})
    BY <1>3, <1>4 DEF BarsOfTable
<1>8. ASSUME s # <<>> PROVE InBar(LastOf(T), Last(s))
    <2>1. PICK b \in B : (\A d \in B : d.time <= b.time) /\ LastOf(T) \in Own(T, b, w)
        BY <1>7, <1>8 DEF BarsOfTable
    <2>2. PICK i \in 1 .. N : s[i] = b
        BY <1>2
    <2>3. N \in 1 .. N /\ s[N] \in B
        BY <1>2, <2>2
    <2>4. s[N].time <= b.time /\ s[N].time \in Int /\ b.time \in Int
        BY <2>1, <2>3 DEF BarsOfTable, Timed
    <2>5. i < N => b.time < s[N].time
        BY <1>2, <2>2, <2>3 DEF Ordered
    <2>6. i = N
        BY <2>2, <2>3, <2>4, <2>5
    <2>7. Last(s) = b
        BY <1>4, <2>2, <2>6 DEF Last
    <2> QED BY <2>1, <2>7 DEF InBar, Own
<1>9. ASSUME NEW i \in DOMAIN s PROVE BarTells(s[i], Own(T, s[i], w))
    <2>1. s[i] \in B
        BY <1>2, <1>4
    <2> QED BY <2>1 DEF BarsOfTable
<1>10. ASSUME NEW c \in T, s # <<>>, c.time >= s[1].time PROVE \E i \in DOMAIN s : InBar(c, s[i])
    <2>1. s[1] \in B /\ s[1].time <= c.time
        <3>1. 1 \in 1 .. N
            BY <1>2, <1>4, <1>10
        <3> QED BY <1>2, <1>10, <3>1
    <2>2. PICK d \in B : c \in Own(T, d, w)
        BY <2>1 DEF BarsOfTable
    <2>3. PICK i \in 1 .. N : s[i] = d
        BY <1>2
    <2> QED BY <1>4, <2>2, <2>3 DEF InBar, Own
<1>11. \A i \in DOMAIN s : {c \in T : InBar(c, s[i])} = Own(T, s[i], w)
    BY DEF InBar, Own
<1> QED BY <1>5, <1>6, <1>7, <1>8, <1>9, <1>10, <1>11 DEF BarsAreTheirCandles, BarTells, s, T, w

\* A table of candles.
CandleTable(T) ==
    /\ IsFiniteSet(T) /\ Keyed(T)
    /\ \A c \in T : /\ c.time \in Nat /\ c.open \in Nat /\ c.close \in Nat
                    /\ c.high \in Nat /\ c.low \in Nat /\ c.volume \in Nat

\* The tables, widths and limits that are asked for.
LEMMA CandleInputsAre ==
    ASSUME input.kind = "candles", input \in CandleInputs
    PROVE  CandleTable(input.table) /\ input.width \in Nat \ {0} /\ input.limit \in Nat \ {0}
<1>1. input.table \in TablesOf(BarCandles) /\ input.width \in 1 .. MaxWidth /\ input.limit \in 1 .. MaxLimit
    BY DEF CandleInputs
<1>2. MaxWidth \in Nat /\ MaxLimit \in Nat /\ IsFiniteSet(BarCandles)
    BY AlgorithmsAssumption
<1>3. \A c \in BarCandles : /\ c.time \in Nat /\ c.open \in Nat /\ c.close \in Nat
                            /\ c.high \in Nat /\ c.low \in Nat /\ c.volume \in Nat
    <2> DEFINE R == [time : Nat, open : Nat, close : Nat, high : Nat, low : Nat, volume : Nat]
    <2>1. BarCandles \subseteq R
        BY AlgorithmsAssumption
    <2>2. \A c \in R : /\ c.time \in Nat /\ c.open \in Nat /\ c.close \in Nat
                       /\ c.high \in Nat /\ c.low \in Nat /\ c.volume \in Nat
        OBVIOUS
    <2> HIDE DEF R
    <2> QED BY <2>1, <2>2
<1>4. input.table \in SUBSET BarCandles /\ Keyed(input.table)
    BY <1>1 DEF TablesOf, Keyed
<1>5. CandleTable(input.table)
    BY <1>2, <1>3, <1>4, FS_Subset DEF CandleTable
<1> QED BY <1>1, <1>2, <1>5

\* The minute bars: the newest candles themselves.
LEMMA BaseBars ==
    ASSUME NEW T, CandleTable(T), NEW limit \in Nat \ {0}
    PROVE  BarsOfTable({c \in T : Cardinality({d \in T : d.time > c.time}) < limit}, T, 1, limit)
<1> DEFINE Newer(c) == {d \in T : d.time > c.time}
           B == {c \in T : Cardinality(Newer(c)) < limit}
<1>1. IsFiniteSet(T) /\ \A c \in T : c.time \in Int
    BY DEF CandleTable
<1>2. ASSUME NEW S \in SUBSET T PROVE IsFiniteSet(S) /\ Timed(S) /\ Keyed(S) /\ Cardinality(S) \in Nat
    <2>1. IsFiniteSet(S)
        BY <1>1, FS_Subset
    <2>2. Cardinality(S) \in Nat
        BY <2>1, FS_CardinalityType
    <2> QED BY <1>1, <2>1, <2>2 DEF Timed, Keyed, CandleTable
<1>3. B \in SUBSET T /\ \A c : Newer(c) \in SUBSET T
    OBVIOUS
<1>4. Timed(B) /\ Keyed(B) /\ Cardinality(B) \in Nat /\ IsFiniteSet(B)
    BY <1>2, <1>3
<1>5. Cardinality(B) <= limit
    <2>1. CASE B = {}
        <3> HIDE DEF B
        <3>1. Cardinality(B) = 0
            BY <2>1, FS_EmptySet
        <3> QED BY <3>1
    <2>2. CASE B # {}
        <3> DEFINE m == FirstOf(B)
        <3>1. m \in B /\ \A c \in B : m.time <= c.time
            BY <1>4, <2>2, EndsAre
        <3> HIDE DEF m
        <3>2. B \ {m} \subseteq Newer(m)
            <4>1. ASSUME NEW c \in B, c # m PROVE c.time > m.time
                <5>1. c.time # m.time
                    BY <1>4, <3>1, <4>1 DEF Keyed
                <5>2. c.time \in Int /\ m.time \in Int /\ m.time <= c.time
                    BY <1>1, <3>1
                <5> QED BY <5>1, <5>2
            <4> QED BY <4>1
        <3>3. Cardinality(B \ {m}) = Cardinality(B) - 1
            BY <1>4, <3>1, FS_RemoveElement
        <3>4. Newer(m) \in SUBSET T
            OBVIOUS
        <3>5. IsFiniteSet(Newer(m)) /\ Cardinality(Newer(m)) \in Nat
            BY <1>2, <3>4
        <3>6. Cardinality(Newer(m)) < limit
            BY <3>1
        <3> DEFINE Older == Newer(m)
                   rest == B \ {m}
        <3>7. Cardinality(rest) <= Cardinality(Older)
            <4> HIDE DEF Newer, B
            <4>1. rest \in SUBSET Older /\ IsFiniteSet(Older)
                BY <3>2, <3>5
            <4> HIDE DEF Older, rest
            <4> QED BY <4>1, FS_Subset
        <3> HIDE DEF Newer, B
        <3> QED BY <1>4, <3>3, <3>5, <3>6, <3>7
    <2> QED BY <2>1, <2>2
<1>6. ASSUME T # {}
      PROVE  LastOf(T) \in B /\ \A d \in B : d.time <= LastOf(T).time
    <2> DEFINE l == LastOf(T)
    <2>1. l \in T /\ \A c \in T : c.time <= l.time
        BY <1>2, <1>6, EndsAre
    <2> HIDE DEF l
    <2>2. Newer(l) = {}
        BY <1>1, <2>1
    <2>3. Cardinality(Newer(l)) = 0
        BY <2>2, FS_EmptySet
    <2>4. l \in B
        BY <2>1, <2>3
    <2> QED BY <2>1, <2>4 DEF l
<1>7. B = {} <=> T = {}
    BY <1>6
<1>8. ASSUME NEW b \in T PROVE Own(T, b, 1) = {b}
    <2>1. \A c \in T : b.time <= c.time /\ c.time < b.time + 1 <=> c.time = b.time
        BY <1>1
    <2> QED BY <2>1 DEF Own, CandleTable, Keyed
<1>9. ASSUME NEW b \in T PROVE BarTells(b, {b})
    <2>1. \A c \in T : c["volume"] \in Int
        BY DEF CandleTable
    <2>2. SumsAdd(T, "volume")
        BY <1>1, <2>1, SumsAre
    <2>3. SumOf({b}, "volume") = b["volume"]
        BY <2>1, <2>2, SumOfOne
    <2>4. b.time \in Nat /\ b.low \in Nat /\ b.high \in Nat
        BY DEF CandleTable
    <2> QED BY <2>3, <2>4 DEF BarTells
<1>10. ASSUME NEW c \in T, NEW b \in B, b.time <= c.time PROVE c \in B /\ c \in Own(T, c, 1)
    <2>1. Newer(c) \in SUBSET Newer(b)
        BY <1>1, <1>10
    <2>2. IsFiniteSet(Newer(b)) /\ Cardinality(Newer(b)) \in Nat /\ Cardinality(Newer(c)) \in Nat /\ Cardinality(Newer(b)) < limit
        <3>1. Newer(b) \in SUBSET T /\ Newer(c) \in SUBSET T
            OBVIOUS
        <3>2. Cardinality(Newer(b)) < limit
            OBVIOUS
        <3> HIDE DEF Newer
        <3> QED BY <1>2, <3>1, <3>2
    <2> DEFINE one == Newer(c)
               two == Newer(b)
    <2>3. Cardinality(one) <= Cardinality(two)
        <3>1. one \in SUBSET two /\ IsFiniteSet(two)
            BY <2>1, <2>2
        <3> HIDE DEF one, two
        <3> QED BY <3>1, FS_Subset
    <2>4. c \in B
        <3> HIDE DEF Newer
        <3> QED BY <2>2, <2>3
    <2> QED BY <1>8, <2>4
<1>11. ASSUME NEW b \in B PROVE BarTells(b, Own(T, b, 1))
    BY <1>8, <1>9
<1>12. ASSUME T # {} PROVE \E b \in B : (\A d \in B : d.time <= b.time) /\ LastOf(T) \in Own(T, b, 1)
    <2>1. LastOf(T) \in T
        BY <1>6, <1>12
    <2>2. LastOf(T) \in Own(T, LastOf(T), 1)
        BY <1>8, <2>1
    <2> QED BY <1>6, <1>12, <2>2
<1>13. \A c \in T : \A b \in B : b.time <= c.time => \E d \in B : c \in Own(T, d, 1)
    BY <1>10
<1> HIDE DEF B
<1>14. BarsOfTable(B, T, 1, limit)
    BY <1>4, <1>5, <1>7, <1>11, <1>12, <1>13 DEF BarsOfTable
<1> QED BY <1>14 DEF B

\* The bin of a time.
LEMMA BinIs ==
    ASSUME NEW width \in Nat \ {0}, NEW t \in Nat
    PROVE  /\ dateBin(width, t) \in Nat /\ dateBin(width, t) <= t /\ t < dateBin(width, t) + width
           /\ \E q \in Nat : dateBin(width, t) = q * width
<1> DEFINE q == t \div width
<1>1. t = width * q + (t % width) /\ q \in Nat /\ t % width \in 0 .. width - 1
    OBVIOUS
<1>2. dateBin(width, t) = q * width
    BY DEF dateBin
<1> HIDE DEF q
<1>3. q * width \in Nat /\ q * width = width * q
    BY <1>1
<1> QED BY <1>1, <1>2, <1>3

\* A bar of some candles.
LEMMA BarIs ==
    ASSUME NEW T, CandleTable(T), NEW own \in SUBSET T, own # {}, NEW bin
    PROVE  Bar(bin, own).time = bin /\ BarTells(Bar(bin, own), own)
<1> DEFINE b == Bar(bin, own)
           highs == {c.high : c \in own}
           lows == {c.low : c \in own}
<1>1. IsFiniteSet(own) /\ \A c \in own : c.time \in Int /\ c.high \in Nat /\ c.low \in Nat
    BY FS_Subset DEF CandleTable
<1>2. /\ b.time = bin /\ b.open = FirstOf(own).open /\ b.close = LastOf(own).close
      /\ b.high = Max(highs) /\ b.low = Min(lows) /\ b.volume = SumOf(own, "volume")
    BY DEF Bar
<1>3. /\ FirstOf(own) \in own /\ \A c \in own : FirstOf(own).time <= c.time
      /\ LastOf(own) \in own /\ \A c \in own : c.time <= LastOf(own).time
    BY <1>1, EndsAre DEF Timed
<1>4. IsFiniteSet(highs) /\ IsFiniteSet(lows)
    <2> DEFINE h == [c \in own |-> c.high]
               k == [c \in own |-> c.low]
    <2>1. h \in Surjection(own, highs) /\ k \in Surjection(own, lows)
        BY DEF Surjection
    <2> HIDE DEF h, k, highs, lows
    <2> QED BY <1>1, <2>1, FS_Surjection
<1>5. highs # {} /\ lows # {} /\ highs \subseteq Int /\ lows \subseteq Int
    BY <1>1
<1>6. \A c \in own : c.high \in highs /\ c.low \in lows
    OBVIOUS
<1> HIDE DEF highs, lows, b
<1>7. (\A p \in highs : p <= Max(highs)) /\ \A p \in lows : Min(lows) <= p
    BY <1>4, <1>5, PricesAre
<1>8. \A c \in own : b.low <= c.low /\ c.high <= b.high
    BY <1>2, <1>6, <1>7
<1>9. BarTells(b, own)
    BY <1>2, <1>3, <1>8 DEF BarTells
<1> QED BY <1>2, <1>9 DEF b

\* The bars of wider intervals.
LEMMA AggregatedBars ==
    ASSUME NEW T, CandleTable(T), T # {}, NEW width \in Nat \ {0}, NEW limit \in Nat \ {0}
    PROVE  \E B : BarsOfTable(B, T, width, limit) /\ selectAggregatedCandles(T, width, limit) = Ascending(B)
<1> DEFINE first == FirstBucket(T, width, limit)
           src == {c \in T : c.time >= first}
           binOf(c) == dateBin(width, c.time)
           of(bin) == {c \in src : dateBin(width, c.time) = bin}
           B == {Bar(dateBin(width, c.time), of(dateBin(width, c.time))) : c \in src}
           l == LastOf(T)
           top == binOf(l)
<1>1. IsFiniteSet(T) /\ \A c \in T : c.time \in Nat
    BY DEF CandleTable
<1>2. selectAggregatedCandles(T, width, limit) = Ascending(B)
    BY DEF selectAggregatedCandles
<1>3. l \in T /\ \A c \in T : c.time <= l.time
    BY <1>1, EndsAre DEF Timed
<1>4. ASSUME NEW c \in T
      PROVE  /\ binOf(c) \in Nat /\ binOf(c) <= c.time /\ c.time < binOf(c) + width
             /\ \E q \in Nat : binOf(c) = q * width
    BY <1>1, BinIs
<1>5. PICK p \in Nat : top = p * width
    BY <1>3, <1>4
<1> DEFINE low == p - (limit - 1)
<1>6. first = low * width /\ low \in Int
    <2>1. first = top - (limit - 1) * width
        BY DEF FirstBucket
    <2> HIDE DEF first, top
    <2>2. low \in Int
        OBVIOUS
    <2>3. p * width - (limit - 1) * width = (p - (limit - 1)) * width
        OBVIOUS
    <2> QED BY <1>5, <2>1, <2>2, <2>3
<1> HIDE DEF first, top, l, binOf, low
<1>7. ASSUME NEW c \in T
      PROVE  /\ \E q \in Nat : binOf(c) = q * width /\ q <= p
             /\ c.time >= first <=> binOf(c) >= first
    <2>1. PICK q \in Nat : binOf(c) = q * width
        BY <1>4
    <2>2. binOf(c) \in Nat /\ binOf(c) <= c.time /\ c.time < binOf(c) + width /\ c.time \in Nat
        BY <1>1, <1>4
    <2>3. top \in Nat /\ top <= l.time /\ l.time < top + width /\ l.time \in Nat
        BY <1>1, <1>3, <1>4 DEF top
    <2>4. q <= p
        <3> SUFFICES ASSUME p < q PROVE FALSE
            OBVIOUS
        <3>1. top + width <= binOf(c)
            BY <1>5, <2>1, MultiplesInOrder
        <3> QED BY <1>3, <2>2, <2>3, <3>1
    <2>5. first \in Int
        BY <1>6
    <2>6. ASSUME c.time >= first PROVE binOf(c) >= first
        <3> SUFFICES ASSUME binOf(c) < first PROVE FALSE
            BY <2>2, <2>5
        <3>1. q < low
            <4>1. q * width < low * width
                BY <1>6, <2>1
            <4> QED BY <1>6, <4>1, MultiplesInOrder
        <3>2. binOf(c) + width <= first
            BY <1>6, <2>1, <3>1, MultiplesInOrder
        <3> QED BY <2>2, <2>5, <2>6, <3>2
    <2>7. binOf(c) >= first => c.time >= first
        BY <2>2, <2>5
    <2> QED BY <2>1, <2>4, <2>6, <2>7
<1>8. \A c \in src : of(binOf(c)) \in SUBSET T /\ c \in of(binOf(c)) /\ c \in T
    BY DEF binOf
<1>9. B = {Bar(binOf(c), of(binOf(c))) : c \in src}
    BY DEF binOf
<1>10. ASSUME NEW c \in T, NEW d \in src, binOf(d) <= c.time, c.time < binOf(d) + width
       PROVE  c \in of(binOf(d))
    <2>1. PICK q \in Nat : binOf(c) = q * width
        BY <1>4
    <2>2. d \in T
        OBVIOUS
    <2>3. PICK r \in Nat : binOf(d) = r * width
        BY <1>4, <2>2
    <2>4. binOf(c) \in Nat /\ binOf(c) <= c.time /\ c.time < binOf(c) + width /\ c.time \in Nat /\ binOf(d) \in Nat
        BY <1>1, <1>4, <2>2
    <2>5. ~(q < r)
        <3>1. q < r => binOf(c) + width <= binOf(d)
            BY <2>1, <2>3, MultiplesInOrder
        <3> QED BY <1>10, <2>4, <3>1
    <2>6. ~(r < q)
        <3>1. r < q => binOf(d) + width <= binOf(c)
            BY <2>1, <2>3, MultiplesInOrder
        <3> QED BY <1>10, <2>4, <3>1
    <2>7. binOf(c) = binOf(d)
        BY <2>1, <2>3, <2>5, <2>6
    <2>8. c.time >= first
        <3>1. binOf(d) >= first
            BY <1>7, <2>2
        <3> QED BY <1>7, <2>7, <3>1
    <2> QED BY <2>7, <2>8 DEF binOf
<1>11. ASSUME NEW d \in src
       PROVE  of(binOf(d)) = {c \in T : binOf(d) <= c.time /\ c.time < binOf(d) + width}
    <2>1. ASSUME NEW c \in of(binOf(d)) PROVE c \in T /\ binOf(d) <= c.time /\ c.time < binOf(d) + width
        <3>1. c \in T /\ binOf(c) = binOf(d)
            BY DEF binOf
        <3> QED BY <1>4, <3>1
    <2> QED BY <1>10, <2>1
<1> HIDE DEF of, src
<1>12. ASSUME NEW c \in src
       PROVE  /\ Bar(binOf(c), of(binOf(c))).time = binOf(c)
              /\ BarTells(Bar(binOf(c), of(binOf(c))), of(binOf(c)))
    BY <1>8, BarIs
<1>13. ASSUME NEW b \in B
       PROVE  \E c \in src : b = Bar(binOf(c), of(binOf(c))) /\ b.time = binOf(c)
    BY <1>9, <1>12
<1>14. ASSUME NEW c \in src PROVE \E b \in B : b = Bar(binOf(c), of(binOf(c))) /\ b.time = binOf(c)
    BY <1>9, <1>12
<1> HIDE DEF B
<1>15. src \subseteq T
    BY DEF src
<1>16. l \in src
    <2>1. binOf(l) >= first
        <3>1. low <= p
            BY DEF low
        <3>2. low * width <= p * width
            BY <1>6, <3>1
        <3>3. binOf(l) = p * width
            BY <1>5 DEF top
        <3>4. low * width \in Int /\ p * width \in Int
            BY <1>6
        <3> QED BY <1>6, <3>2, <3>3, <3>4
    <2> QED BY <1>3, <1>7, <2>1 DEF src
<1>17. Keyed(B)
    <2> SUFFICES ASSUME NEW a \in B, NEW b \in B, a.time = b.time PROVE a = b
        BY DEF Keyed
    <2>1. PICK c \in src : a = Bar(binOf(c), of(binOf(c))) /\ a.time = binOf(c)
        BY <1>13
    <2>2. PICK d \in src : b = Bar(binOf(d), of(binOf(d))) /\ b.time = binOf(d)
        BY <1>13
    <2> QED BY <2>1, <2>2
<1> DEFINE place == [b \in B |-> (b.time \div width) - low + 1]
<1>18. ASSUME NEW b \in B
       PROVE  /\ b.time \in Nat /\ place[b] \in 1 .. limit
              /\ \E q \in Nat : b.time = q * width /\ place[b] = q - low + 1
    <2>1. PICK c \in src : b.time = binOf(c)
        BY <1>13
    <2>2. c \in T /\ c.time >= first
        BY DEF src
    <2>3. PICK q \in Nat : binOf(c) = q * width /\ q <= p
        BY <1>7, <2>2
    <2>4. binOf(c) >= first
        BY <1>7, <2>2
    <2>5. low <= q
        <3> SUFFICES ASSUME q < low PROVE FALSE
            BY <1>6
        <3>1. q * width < low * width
            BY <1>6, MultiplesInOrder
        <3>2. q * width \in Int /\ low * width \in Int
            BY <1>6
        <3> QED BY <1>6, <2>3, <2>4, <3>1, <3>2
    <2>6. (q * width) \div width = q
        BY Multiple
    <2>7. place[b] = q - low + 1
        BY <2>1, <2>3, <2>6
    <2>8. q - low + 1 \in 1 .. limit
        BY <2>3, <2>5 DEF low
    <2>9. b.time \in Nat
        BY <1>4, <2>1, <2>2
    <2> HIDE DEF place
    <2> QED BY <2>1, <2>3, <2>7, <2>8, <2>9
<1>19. place \in Injection(B, 1 .. limit)
    <2>1. place \in [B -> 1 .. limit]
        BY <1>18
    <2>2. ASSUME NEW a \in B, NEW b \in B, place[a] = place[b] PROVE a = b
        <3> HIDE DEF place
        <3>1. PICK q \in Nat : a.time = q * width /\ place[a] = q - low + 1
            BY <1>18
        <3>2. PICK r \in Nat : b.time = r * width /\ place[b] = r - low + 1
            BY <1>18
        <3>3. q = r
            <4>1. q - low + 1 = r - low + 1
                BY <2>2, <3>1, <3>2
            <4>2. q \in Int /\ r \in Int /\ low \in Int
                BY <1>6
            <4> QED BY <4>1, <4>2
        <3> QED BY <1>17, <3>1, <3>2, <3>3 DEF Keyed
    <2> HIDE DEF place
    <2> QED BY <2>1, <2>2 DEF Injection, IsInjective
<1>20. IsFiniteSet(B) /\ Cardinality(B) <= limit
    <2> HIDE DEF place
    <2>1. IsFiniteSet(1 .. limit) /\ Cardinality(1 .. limit) = IF 1 > limit THEN 0 ELSE limit - 1 + 1
        BY FS_Interval
    <2>2. IsFiniteSet(B) /\ Cardinality(B) <= Cardinality(1 .. limit)
        BY <1>19, <2>1, FS_Injection
    <2> QED BY <2>1, <2>2
<1>21. Timed(B)
    BY <1>18, <1>20 DEF Timed
<1>22. ASSUME NEW b \in B PROVE BarTells(b, Own(T, b, width))
    <2>1. PICK c \in src : b = Bar(binOf(c), of(binOf(c))) /\ b.time = binOf(c)
        BY <1>13
    <2>2. Own(T, b, width) = of(binOf(c))
        BY <1>11, <2>1 DEF Own
    <2> QED BY <1>12, <2>1, <2>2
<1>23. ASSUME NEW c \in src PROVE \E b \in B : b.time = binOf(c) /\ c \in Own(T, b, width)
    <2>1. PICK b \in B : b.time = binOf(c)
        BY <1>14
    <2>2. c \in T
        BY <1>15
    <2> QED BY <1>4, <2>1, <2>2 DEF Own
<1>24. ASSUME NEW c \in T, NEW b \in B, b.time <= c.time PROVE \E d \in B : c \in Own(T, d, width)
    <2>1. PICK d \in src : b.time = binOf(d)
        BY <1>13
    <2>2. d \in T /\ d.time >= first
        BY DEF src
    <2>3. binOf(d) >= first
        BY <1>7, <2>2
    <2>4. c.time >= first
        <3>1. c.time \in Int /\ binOf(d) \in Int /\ first \in Int
            BY <1>1, <1>4, <1>6, <2>2
        <3> QED BY <1>24, <2>1, <2>3, <3>1
    <2>5. c \in src
        BY <2>4 DEF src
    <2> QED BY <1>23, <2>5
<1>25. \E b \in B : (\A d \in B : d.time <= b.time) /\ LastOf(T) \in Own(T, b, width)
    <2>1. PICK b \in B : b.time = binOf(l) /\ l \in Own(T, b, width)
        BY <1>16, <1>23
    <2>2. ASSUME NEW d \in B PROVE d.time <= b.time
        <3>1. PICK c \in src : d.time = binOf(c)
            BY <1>13
        <3>2. c \in T
            BY <1>15
        <3>3. PICK q \in Nat : binOf(c) = q * width /\ q <= p
            BY <1>7, <3>2
        <3>4. q * width <= p * width
            BY <3>3
        <3>5. b.time = p * width
            BY <1>5, <2>1 DEF top
        <3> QED BY <3>1, <3>3, <3>4, <3>5
    <2> QED BY <2>1, <2>2 DEF l
<1>26. B # {}
    BY <1>14, <1>16
<1>27. BarsOfTable(B, T, width, limit)
    BY <1>17, <1>20, <1>21, <1>22, <1>24, <1>25, <1>26 DEF BarsOfTable
<1> QED BY <1>2, <1>27

\* The bars of every interval tell what the minute candles do.
LEMMA BarsHold ==
    ASSUME input.kind = "candles", input \in CandleInputs
    PROVE  BarsAreTheirCandles
<1> DEFINE T == input.table
           w == input.width
           limit == input.limit
<1>1. CandleTable(T) /\ w \in Nat \ {0} /\ limit \in Nat \ {0}
    BY CandleInputsAre
<1>2. CASE w = 1
    <2> DEFINE B == {c \in T : Cardinality({d \in T : d.time > c.time}) < limit}
    <2>1. Bars = Ascending(B)
        BY <1>2 DEF Bars, findCandles, selectBaseCandles
    <2>2. BarsOfTable(B, T, w, limit)
        BY <1>1, <1>2, BaseBars
    <2> HIDE DEF B
    <2> QED BY <2>1, <2>2, BarsInOrder
<1>3. CASE w # 1 /\ T # {}
    <2>1. Bars = selectAggregatedCandles(T, w, limit)
        BY <1>3 DEF Bars, findCandles
    <2>2. PICK B : BarsOfTable(B, T, w, limit) /\ selectAggregatedCandles(T, w, limit) = Ascending(B)
        BY <1>1, <1>3, AggregatedBars
    <2> QED BY <2>1, <2>2, BarsInOrder
<1>4. CASE w # 1 /\ T = {}
    <2>1. Bars = <<>>
        BY <1>4 DEF Bars, findCandles, selectAggregatedCandles
    <2>2. DOMAIN Bars = {} /\ Len(Bars) = 0
        BY <2>1
    <2> QED BY <1>1, <1>4, <2>1, <2>2 DEF BarsAreTheirCandles
<1> QED BY <1>2, <1>3, <1>4

-----------------------------------------------------------------------------
\* Windows

\* The open times of the last n candles.
LastTimes(now, n, step) == {t \in Int : t % step = 0 /\ now - n * step < t /\ t <= now}

\* There are n of them, each a step after the one before.
LEMMA LastTimesAre ==
    ASSUME NEW now \in Int, NEW n \in Nat, NEW step \in Nat \ {0}
    PROVE  IsFiniteSet(LastTimes(now, n, step)) /\ Cardinality(LastTimes(now, n, step)) = n
<1> DEFINE last == now \div step
           S == LastTimes(now, n, step)
           f == [k \in 0 .. n - 1 |-> (last - k) * step]
<1>1. now = step * last + (now % step) /\ last \in Int /\ now % step \in 0 .. step - 1
    OBVIOUS
<1> HIDE DEF last
<1>2. last * step <= now /\ now < last * step + step /\ last * step \in Int
    <2>1. step * last = last * step /\ last * step \in Int
        BY <1>1
    <2> QED BY <1>1, <2>1
<1>3. ASSUME NEW q \in Int
      PROVE  /\ q * step <= now <=> q <= last
             /\ now - n * step < q * step <=> last - n < q
    <2> DEFINE a == q * step
               b == last * step
               c == n * step
    <2>1. a \in Int /\ b \in Int /\ c \in Int /\ b <= now /\ now < b + step
        BY <1>1, <1>2
    <2>2. q <= last => a <= b
        BY <1>1
    <2>3. last < q => b + step <= a
        BY <1>1, MultiplesInOrder
    <2>4. (last - n) * step = b - c /\ last - n \in Int
        BY <1>1
    <2>5. last - n < q => b - c + step <= a
        <3>1. last - n < q => (last - n) * step + step <= q * step
            BY <2>4, MultiplesInOrder
        <3> QED BY <2>4, <3>1
    <2>6. q <= last - n => a <= b - c
        <3>1. q <= last - n => q * step <= (last - n) * step
            BY <2>4
        <3> QED BY <2>4, <3>1
    <2> HIDE DEF a, b, c
    <2>7. a <= now <=> q <= last
        BY <1>1, <2>1, <2>2, <2>3
    <2>8. now - c < a <=> last - n < q
        BY <1>1, <2>1, <2>4, <2>5, <2>6
    <2> QED BY <2>7, <2>8 DEF a, c
<1>4. ASSUME NEW k \in 0 .. n - 1 PROVE f[k] \in S /\ f[k] = (last - k) * step
    <2>1. last - k \in Int /\ last - k <= last /\ last - n < last - k
        BY <1>1
    <2>2. (last - k) * step \in Int /\ ((last - k) * step) % step = 0
        BY <2>1, Multiple
    <2> QED BY <1>3, <2>1, <2>2 DEF LastTimes
<1>5. ASSUME NEW t \in S PROVE \E k \in 0 .. n - 1 : f[k] = t
    <2>1. t \in Int /\ t % step = 0 /\ now - n * step < t /\ t <= now
        BY DEF LastTimes
    <2>2. t = (t \div step) * step /\ t \div step \in Int
        BY <2>1, Aligned
    <2> DEFINE q == t \div step
    <2> HIDE DEF q
    <2>3. q \in Int /\ t = q * step
        BY <2>2 DEF q
    <2>4. q <= last /\ last - n < q
        BY <1>3, <2>1, <2>3
    <2>5. last - q \in 0 .. n - 1 /\ last - (last - q) = q
        BY <1>1, <2>3, <2>4
    <2> QED BY <2>3, <2>5
<1>6. ASSUME NEW j \in 0 .. n - 1, NEW k \in 0 .. n - 1, f[j] = f[k] PROVE j = k
    <2>1. (last - j) * step = (last - k) * step /\ last - j \in Int /\ last - k \in Int
        BY <1>1, <1>6
    <2>2. ((last - j) * step) \div step = last - j /\ ((last - k) * step) \div step = last - k
        BY <2>1, Multiple
    <2>3. last - j = last - k
        BY <2>1, <2>2
    <2> QED BY <1>1, <2>3
<1>7. f \in Bijection(0 .. n - 1, S)
    <2>1. f \in [0 .. n - 1 -> S]
        BY <1>4
    <2> HIDE DEF f, S
    <2> QED BY <1>5, <1>6, <2>1 DEF Bijection, Injection, Surjection, IsInjective
<1>8. IsFiniteSet(0 .. n - 1) /\ Cardinality(0 .. n - 1) = n
    <2>1. IsFiniteSet(0 .. n - 1) /\ Cardinality(0 .. n - 1) = IF 0 > n - 1 THEN 0 ELSE (n - 1) - 0 + 1
        BY FS_Interval
    <2> QED BY <2>1
<1> HIDE DEF f
<1>9. ExistsBijection(0 .. n - 1, S)
    BY <1>7 DEF ExistsBijection
<1> QED BY <1>8, <1>9, FS_Bijection

\* The same set that ends at a candle.
LEMMA LastTimesBefore ==
    ASSUME NEW t \in Int, NEW step \in Nat \ {0}, t % step = 0, NEW now \in Int, t <= now, NEW n \in Nat,
           now - n * step < t
    PROVE  \A k \in Nat : \A u \in Int : u % step = 0 /\ t - k * step < u => now - (n + k) * step < u
<1> SUFFICES ASSUME NEW k \in Nat, NEW u \in Int, u % step = 0, t - k * step < u PROVE now - (n + k) * step < u
    OBVIOUS
<1> DEFINE a == n * step
           b == k * step
<1>1. (n + k) * step = a + b /\ a \in Int /\ b \in Int
    OBVIOUS
<1>2. now - a < t /\ t - b < u
    OBVIOUS
<1> HIDE DEF a, b
<1>3. now - (a + b) < u
    BY <1>1, <1>2
<1> QED BY <1>1, <1>3

\* A time of the grid knows its return unless it is the first one.
LEMMA ReturnsAre ==
    ASSUME NEW now \in Int, NEW n \in Nat, NEW step \in Nat \ {0}
    PROVE  Returns(LastTimes(now, n + 1, step)) = LastTimes(now, n, step)
<1> DEFINE a == n * step
<1>1. (n + 1) * step = a + step /\ a \in Int /\ step \in Int /\ step > 0
    OBVIOUS
<1> HIDE DEF a
<1>2. ASSUME NEW t \in LastTimes(now, n, step) PROVE t \in Returns(LastTimes(now, n + 1, step))
    <2>1. t \in Int /\ t % step = 0 /\ now - a < t /\ t <= now
        BY DEF LastTimes, a
    <2>2. (t - step) % step = 0
        BY <2>1, Aligned
    <2>3. now - (a + step) < t - step /\ t - step < t /\ t - step \in Int /\ t - step <= now /\ now - (a + step) < t
        BY <1>1, <2>1
    <2>4. t \in LastTimes(now, n + 1, step) /\ t - step \in LastTimes(now, n + 1, step)
        BY <1>1, <2>1, <2>2, <2>3 DEF LastTimes
    <2> QED BY <2>3, <2>4 DEF Returns
<1>3. ASSUME NEW t \in Returns(LastTimes(now, n + 1, step)) PROVE t \in LastTimes(now, n, step)
    <2>1. PICK u \in LastTimes(now, n + 1, step) : u < t /\ t \in LastTimes(now, n + 1, step)
        BY DEF Returns
    <2>2. /\ u \in Int /\ u % step = 0 /\ now - (a + step) < u
          /\ t \in Int /\ t % step = 0 /\ t <= now
        BY <1>1, <2>1 DEF LastTimes
    <2>3. u + step <= t
        BY <2>1, <2>2, AlignedApart
    <2>4. now - a < t
        BY <1>1, <2>2, <2>3
    <2> QED BY <2>2, <2>4 DEF LastTimes, a
<1> QED BY <1>2, <1>3

\* Every point of a rolling series has a full frame.
LEMMA FrameIs ==
    ASSUME NEW now \in Int, NEW n \in Nat, NEW k \in Nat, NEW step \in Nat \ {0}, NEW t \in LastTimes(now, n, step)
    PROVE  {u \in LastTimes(now, n + k, step) :
               u <= t /\ Cardinality({v \in LastTimes(now, n + k + 1, step) : u < v /\ v <= t}) < k}
               = LastTimes(t, k, step)
<1> DEFINE base == LastTimes(now, n + k + 1, step)
           between(u) == {v \in base : u < v /\ v <= t}
<1>1. t \in Int /\ t % step = 0 /\ now - n * step < t /\ t <= now
    BY DEF LastTimes
<1>2. ASSUME NEW u \in Int, u % step = 0, u <= t, now - (n + k) * step < u
      PROVE  Cardinality(between(u)) < k <=> t - k * step < u
    <2> DEFINE a == t \div step
               b == u \div step
    <2>1. t = a * step /\ u = b * step /\ a \in Int /\ b \in Int
        BY <1>1, <1>2, Aligned
    <2> HIDE DEF a, b
    <2>2. b <= a
        BY <1>2, <2>1, MultiplesInOrder
    <2>3. a - b \in Nat /\ (a - b) * step = t - u
        BY <2>1, <2>2
    <2>4. between(u) = LastTimes(t, a - b, step)
        <3>1. t - (a - b) * step = u
            BY <1>1, <1>2, <2>3
        <3>2. ASSUME NEW v \in Int, v % step = 0, u < v, v <= t PROVE v \in base
            <4> DEFINE c == (n + k) * step
            <4>1. (n + k + 1) * step = c + step /\ c \in Int
                BY SMT
            <4> HIDE DEF c
            <4>2. now - (c + step) < v /\ v <= now
                BY <1>1, <1>2, <3>2, <4>1 DEF c
            <4> QED BY <3>2, <4>1, <4>2 DEF LastTimes
        <3>3. ASSUME NEW v \in base PROVE v \in Int /\ v % step = 0
            BY DEF LastTimes
        <3> HIDE DEF base
        <3> QED BY <3>1, <3>2, <3>3 DEF LastTimes
    <2>5. Cardinality(between(u)) = a - b
        <3>1. a - b \in Nat /\ t \in Int /\ step \in Nat \ {0}
            BY <1>1, <2>3
        <3>2. Cardinality(LastTimes(t, a - b, step)) = a - b
            BY <3>1, LastTimesAre
        <3> HIDE DEF between
        <3> QED BY <2>4, <3>2
    <2>6. a - b < k <=> (a - b) * step < k * step
        BY <2>3, MultiplesInOrder
    <2>7. t - u < k * step <=> t - k * step < u
        <3> DEFINE c == k * step
        <3>1. c \in Int
            OBVIOUS
        <3> HIDE DEF c
        <3> QED BY <1>1, <1>2, <3>1 DEF c
    <2> HIDE DEF between
    <2> QED BY <2>3, <2>5, <2>6, <2>7
<1>3. ASSUME NEW u \in LastTimes(t, k, step)
      PROVE  u \in Int /\ u % step = 0 /\ u <= t /\ t - k * step < u /\ u \in LastTimes(now, n + k, step)
                 /\ now - (n + k) * step < u
    <2>1. u \in Int /\ u % step = 0 /\ u <= t /\ t - k * step < u
        BY DEF LastTimes
    <2>2. now - (n + k) * step < u
        BY <1>1, <2>1, LastTimesBefore
    <2>3. u <= now
        BY <1>1, <2>1
    <2> QED BY <2>1, <2>2, <2>3 DEF LastTimes
<1>4. ASSUME NEW u \in LastTimes(now, n + k, step) PROVE u \in Int /\ u % step = 0 /\ now - (n + k) * step < u
    BY DEF LastTimes
<1>5. ASSUME NEW u \in LastTimes(now, n + k, step), u <= t, Cardinality(between(u)) < k PROVE u \in LastTimes(t, k, step)
    <2>1. u \in Int /\ u % step = 0 /\ now - (n + k) * step < u
        BY <1>4
    <2>2. t - k * step < u
        BY <1>2, <1>5, <2>1
    <2> QED BY <1>5, <2>1, <2>2 DEF LastTimes
<1>6. ASSUME NEW u \in LastTimes(t, k, step) PROVE Cardinality(between(u)) < k
    BY <1>2, <1>3
<1> QED BY <1>3, <1>5, <1>6

\* What a query reads of a table without gaps.
LEMMA WithinComplete ==
    ASSUME input.kind = "window", input.now \in Nat, input.samples \in Nat,
           NEW k \in Nat, k <= 2 * WindowBound + input.samples + 1
    PROVE  Within(Complete, input.now, k, Step) = LastTimes(input.now, k, Step)
<1> DEFINE m == 2 * WindowBound + input.samples + 1
           now == input.now
           a == k * Step
           b == m * Step
<1>1. Step \in Nat \ {0} /\ WindowBound \in Nat
    BY AlgorithmsAssumption
<1>2. m \in Nat /\ k <= m /\ now \in Nat
    BY <1>1
<1> HIDE DEF m
<1>3. a \in Nat /\ b \in Nat /\ a <= b
    <2>1. a \in Nat /\ b \in Nat
        BY <1>1, <1>2
    <2>2. ~(m < k)
        BY <1>2
    <2>3. ~(b < a)
        BY <1>1, <1>2, <2>2, MultiplesInOrder
    <2> HIDE DEF a, b
    <2> QED BY <2>1, <2>3
<1>4. Complete = {t \in now - b .. now : t % Step = 0}
    BY DEF Complete, m
<1> HIDE DEF a, b, now
<1>5. Within(Complete, now, k, Step) = {t \in now - b .. now : t % Step = 0 /\ t > now - a}
    BY <1>4 DEF Within, a
<1>6. LastTimes(now, k, Step) = {t \in Int : t % Step = 0 /\ now - a < t /\ t <= now}
    BY DEF LastTimes, a
<1>7. {t \in now - b .. now : t % Step = 0 /\ t > now - a} = {t \in Int : t % Step = 0 /\ now - a < t /\ t <= now}
    BY <1>2, <1>3
<1> QED BY <1>5, <1>6, <1>7 DEF now

\* The minutes a window asks for.
LEMMA MinutesAre ==
    ASSUME input.kind = "window", input \in WindowInputs
    PROVE  /\ Minutes \in 1 .. input.max
           /\ Minutes = input.window.amount * MinutesOf[input.window.unit] \/ Minutes = input.max
           /\ input.now \in Nat /\ input.samples \in Nat /\ input.samples >= 2
<1> DEFINE amount == input.window.amount
           unit == input.window.unit
           x == amount * MinutesOf[unit]
<1>1. amount \in Amounts /\ unit \in {"m", "h", "d"} /\ input.max \in Maxima /\ input.samples \in Rolling /\ input.now \in ReadTimes
    BY DEF WindowInputs
<1>2. amount \in Nat \ {0} /\ input.max \in Nat \ {0} /\ input.samples \in Nat /\ input.samples >= 2 /\ input.now \in Nat
    <2>1. Amounts \subseteq Nat \ {0} /\ Maxima \subseteq Nat \ {0} /\ ReadTimes \subseteq Nat
        BY AlgorithmsAssumption
    <2>2. Rolling \subseteq Nat \ 0 .. 1
        BY AlgorithmsAssumption
    <2>3. input.samples \in Nat /\ input.samples >= 2
        <3>1. ASSUME NEW y \in Nat, y \notin 0 .. 1 PROVE y >= 2
            BY <3>1
        <3>2. input.samples \in Nat /\ input.samples \notin 0 .. 1
            BY <1>1, <2>2
        <3> QED BY <3>1, <3>2
    <2> QED BY <1>1, <2>1, <2>3
<1>3. MinutesOf[unit] \in Nat \ {0}
    BY <1>1 DEF MinutesOf
<1> HIDE DEF amount, unit
<1>4. x \in Nat /\ x >= 1
    <2> DEFINE u == MinutesOf[unit]
    <2> HIDE DEF u
    <2>1. u \in Nat \ {0}
        BY <1>3 DEF u
    <2>2. amount * u \in Nat /\ amount * u >= 1
        BY <1>2, <2>1
    <2> QED BY <2>2 DEF u
<1>5. Minutes = clampWindow(x, input.max)
    BY DEF Minutes, parseWindowToMinutes, amount, unit
<1> HIDE DEF x
<1>6. Minutes \in 1 .. input.max /\ (Minutes = x \/ Minutes = input.max)
    BY <1>2, <1>4, <1>5 DEF clampWindow
<1> QED BY <1>2, <1>6 DEF x, amount, unit

\* The windows of every length are whole.
LEMMA WindowsHold ==
    ASSUME input.kind = "window", input \in WindowInputs
    PROVE  WindowsAreWhole
<1> DEFINE n == IF Minutes <= WindowBound THEN Minutes ELSE WindowBound
           now == input.now
           k == input.samples
           W == LastTimes(now, n, Step)
           P == PrevWin(Complete, now, n, Step)
<1>1. /\ Minutes \in 1 .. input.max /\ now \in Nat /\ k \in Nat /\ k >= 2
      /\ Minutes = input.window.amount * MinutesOf[input.window.unit] \/ Minutes = input.max
    BY MinutesAre
<1>2. Step \in Nat \ {0} /\ WindowBound \in Nat
    BY AlgorithmsAssumption
<1>3. n \in Nat /\ n <= WindowBound
    BY <1>1, <1>2
<1> HIDE DEF n, now, k
<1>4. ASSUME NEW m \in Nat, m <= 2 * WindowBound + k + 1
      PROVE  Within(Complete, now, m, Step) = LastTimes(now, m, Step)
    BY <1>1, <1>4, WithinComplete DEF now, k
<1>5. Win(Complete, now, n, Step) = W /\ Cardinality(W) = n
    <2>1. n <= 2 * WindowBound + k + 1
        BY <1>1, <1>2, <1>3
    <2> QED BY <1>1, <1>2, <1>3, <1>4, <2>1, LastTimesAre DEF Win
<1>6. P = LastTimes(now - n * Step, n, Step) /\ Cardinality(P) = n
    <2> DEFINE a == n * Step
    <2>1. 2 * n \in Nat /\ 2 * n <= 2 * WindowBound + k + 1
        BY <1>1, <1>2, <1>3
    <2>2. P = {t \in LastTimes(now, 2 * n, Step) : t <= now - n * Step}
        BY <1>4, <2>1 DEF PrevWin
    <2>3. a \in Nat /\ (2 * n) * Step = a + a
        BY <1>2, <1>3
    <2>4. P = {t \in Int : t % Step = 0 /\ now - (a + a) < t /\ t <= now /\ t <= now - a}
        BY <2>2, <2>3 DEF LastTimes
    <2>5. LastTimes(now - a, n, Step) = {t \in Int : t % Step = 0 /\ (now - a) - a < t /\ t <= now - a}
        BY DEF LastTimes
    <2> HIDE DEF a, P
    <2>6. P = LastTimes(now - a, n, Step)
        BY <1>1, <2>3, <2>4, <2>5
    <2>7. now - a \in Int
        BY <1>1, <2>3
    <2>8. Cardinality(LastTimes(now - a, n, Step)) = n
        BY <1>2, <1>3, <2>7, LastTimesAre
    <2> QED BY <2>6, <2>8 DEF a
<1>7. W \intersect P = {}
    <2> SUFFICES ASSUME NEW t \in W, t \in P PROVE FALSE
        OBVIOUS
    <2> DEFINE a == n * Step
    <2>1. t \in Int /\ now - a < t /\ t <= now - a /\ a \in Int
        BY <1>2, <1>3, <1>6 DEF LastTimes
    <2> HIDE DEF a
    <2> QED BY <1>1, <2>1
<1>8. OverviewReturns(Complete, now, n, Step) = W
    <2>1. n + 1 \in Nat /\ n + 1 <= 2 * WindowBound + k + 1
        BY <1>1, <1>2, <1>3
    <2> QED BY <1>1, <1>2, <1>3, <1>4, <2>1, ReturnsAre DEF OverviewReturns
<1>9. ASSUME NEW t \in W PROVE Cardinality(RollingFrame(Complete, now, n, k, Step, t)) = k
    <2> DEFINE base == Within(Complete, now, RollingFetch(n, k), Step)
    <2>1. n + k + 1 \in Nat /\ n + k + 1 <= 2 * WindowBound + k + 1 /\ n + k \in Nat /\ (n + k) + 1 = n + k + 1
        BY <1>1, <1>2, <1>3
    <2>2. base = LastTimes(now, n + k + 1, Step)
        BY <1>4, <2>1 DEF RollingFetch
    <2>3. Returns(base) = LastTimes(now, n + k, Step)
        BY <1>1, <1>2, <2>1, <2>2, ReturnsAre
    <2>4. RollingFrame(Complete, now, n, k, Step, t)
              = {u \in Returns(base) : u <= t /\ Cardinality({v \in base : u < v /\ v <= t}) < k}
        BY DEF RollingFrame
    <2> HIDE DEF base
    <2>5. RollingFrame(Complete, now, n, k, Step, t)
              = {u \in LastTimes(now, n + k, Step) :
                     u <= t /\ Cardinality({v \in LastTimes(now, n + k + 1, Step) : u < v /\ v <= t}) < k}
        BY <2>2, <2>3, <2>4
    <2>6. RollingFrame(Complete, now, n, k, Step, t) = LastTimes(t, k, Step)
        <3>1. t \in LastTimes(now, n, Step) /\ now \in Int /\ n \in Nat /\ k \in Nat /\ Step \in Nat \ {0}
            BY <1>1, <1>2, <1>3
        <3>2. {u \in LastTimes(now, n + k, Step) :
                  u <= t /\ Cardinality({v \in LastTimes(now, n + k + 1, Step) : u < v /\ v <= t}) < k}
                  = LastTimes(t, k, Step)
            BY <3>1, FrameIs
        <3> QED BY <2>5, <3>2, Zenon
    <2>7. t \in Int
        BY DEF LastTimes
    <2> QED BY <1>1, <1>2, <2>6, <2>7, LastTimesAre
<1>10. RollingPoints(Complete, now, n, k, Step) = W
    <2>1. \A t \in W : Cardinality(RollingFrame(Complete, now, n, k, Step, t)) >= 2
        BY <1>1, <1>9
    <2> HIDE DEF W
    <2>2. Within(Complete, now, n, Step) = W
        BY <1>5 DEF Win
    <2> QED BY <2>1, <2>2 DEF RollingPoints
<1> HIDE DEF W, P
<1> QED BY <1>1, <1>5, <1>6, <1>7, <1>8, <1>9, <1>10 DEF WindowsAreWhole, n, now, k, P

-----------------------------------------------------------------------------
\* The overview

\* The trade that sets the price: none is later, and none of its time has a
\* greater id.
LEMMA LastTradeIs ==
    ASSUME NEW R, IsFiniteSet(R), R # {}, \A t \in R : t.time \in Int /\ t.id \in Int
    PROVE  /\ LastTrade(R) \in R
           /\ \A u \in R : u.time <= LastTrade(R).time /\ (u.time = LastTrade(R).time => u.id <= LastTrade(R).id)
<1> DEFINE times == [t \in R |-> t.time]
<1>1. times \in [R -> Int] /\ \A t \in R : times[t] = t.time
    OBVIOUS
<1> HIDE DEF times
<1>2. PICK m \in R : \A t \in R : t.time <= m.time
    BY <1>1, FiniteExtremes
<1> DEFINE L == {t \in R : t.time = m.time}
           ids == [t \in L |-> t.id]
<1>3. IsFiniteSet(L) /\ L # {}
    BY FS_Subset
<1>4. ids \in [L -> Int] /\ \A t \in L : ids[t] = t.id
    OBVIOUS
<1> HIDE DEF ids, L
<1>5. PICK l \in L : \A t \in L : t.id <= l.id
    <2>1. \E l \in L : \A t \in L : ids[t] <= ids[l]
        BY <1>3, <1>4, FiniteExtremes
    <2> QED BY <1>4, <2>1
<1>6. l \in R /\ \A u \in R : u.time < l.time \/ (u.time = l.time /\ u.id <= l.id)
    BY <1>2, <1>5 DEF L
<1>7. LastTrade(R) \in R /\ \A u \in R : u.time < LastTrade(R).time \/ (u.time = LastTrade(R).time /\ u.id <= LastTrade(R).id)
    BY <1>6 DEF LastTrade
<1> QED BY <1>7

\* NULL becomes zero, a value is kept.
LEMMA OrZeroIs ==
    ASSUME NEW x, NEW zero
    PROVE  OrZero({x}, zero) = x /\ OrZero(Null, zero) = zero /\ OrZero({}, zero) = zero
BY DEF OrZero, Null

\* The columns of the row, one by one.
LEMMA ColumnsAre ==
    ASSUME NEW a, NEW b, NEW c, NEW d, NEW e, NEW f, NEW g, NEW h, NEW i, NEW row,
           row = [lastPrice |-> a, priceChange24h |-> b, quoteVolume24h |-> c, vwap |-> d, vwapDeviation |-> e,
                  volatilityReturns |-> f, takerBuyRatio |-> g, tradeCount1m |-> h, volumeSurge |-> i]
    PROVE  /\ mapOverviewRow(row).lastPrice = OrZero(a, 0)
           /\ mapOverviewRow(row).priceChange24h = OrZero(b, <<0, 1>>)
           /\ mapOverviewRow(row).quoteVolume24h = OrZero(c, 0)
           /\ mapOverviewRow(row).vwap = OrZero(d, <<0, 1>>)
           /\ mapOverviewRow(row).vwapDeviation = OrZero(e, <<0, 1>>)
           /\ mapOverviewRow(row).volatilityReturns = OrZero(f, 0)
           /\ mapOverviewRow(row).takerBuyRatio = clamp01(OrZero(g, <<0, 1>>))
           /\ mapOverviewRow(row).tradeCount1m = OrZero(h, 0)
           /\ mapOverviewRow(row).volumeSurge = OrZero(i, <<0, 1>>)
<1>1. DOMAIN row = {"lastPrice", "priceChange24h", "quoteVolume24h", "vwap", "vwapDeviation",
                    "volatilityReturns", "takerBuyRatio", "tradeCount1m", "volumeSurge"}
    OBVIOUS
<1>2. /\ row.lastPrice = a /\ row.priceChange24h = b /\ row.quoteVolume24h = c /\ row.vwap = d /\ row.vwapDeviation = e
      /\ row.volatilityReturns = f /\ row.takerBuyRatio = g /\ row.tradeCount1m = h /\ row.volumeSurge = i
    OBVIOUS
<1> QED BY <1>1, <1>2 DEF mapOverviewRow

\* A table of the overview.
TradedTable(T) ==
    /\ IsFiniteSet(T)
    /\ \A c \in T : /\ c.time \in Nat /\ c.close \in Nat \ {0} /\ c.quote \in Nat /\ c.volume \in Nat /\ c.takerQuote \in Nat
                    /\ c.quote = c.volume * c.close /\ c.takerQuote <= c.quote

\* The sums of some of its candles.
LEMMA TradedSums ==
    ASSUME NEW T, TradedTable(T)
    PROVE  /\ SumsAdd(T, "volume") /\ SumsAdd(T, "quote") /\ SumsAdd(T, "takerQuote")
           /\ \A A \in SUBSET T : /\ SumOf(A, "volume") \in Nat /\ SumOf(A, "quote") \in Nat
                                  /\ SumOf(A, "takerQuote") \in Nat /\ SumOf(A, "takerQuote") <= SumOf(A, "quote")
<1>1. IsFiniteSet(T) /\ \A c \in T : /\ c["volume"] \in Nat /\ c["quote"] \in Nat /\ c["takerQuote"] \in Nat
                                     /\ c["takerQuote"] <= c["quote"]
    BY DEF TradedTable
<1>2. SumsAdd(T, "volume") /\ SumsAdd(T, "quote") /\ SumsAdd(T, "takerQuote")
    <2>1. (\A c \in T : c["volume"] \in Int) /\ (\A c \in T : c["quote"] \in Int) /\ (\A c \in T : c["takerQuote"] \in Int)
        BY <1>1
    <2> QED BY <1>1, <2>1, SumsAre
<1>3. ASSUME NEW A \in SUBSET T, NEW field, SumsAdd(T, field), \A c \in T : c[field] \in Nat
      PROVE  SumOf(A, field) \in Nat
    <2>1. IsFiniteSet(A) /\ {} \in SUBSET A /\ A \in SUBSET T /\ \A c \in A \ {} : c[field] \in Nat
        BY <1>1, <1>3, FS_Subset
    <2>2. SumOf({}, field) <= SumOf(A, field)
        BY <1>3, <2>1, SumOfMore
    <2>3. SumOf({}, field) = 0 /\ SumOf(A, field) \in Int
        BY <1>3 DEF SumsAdd
    <2> QED BY <2>2, <2>3
<1>4. ASSUME NEW A \in SUBSET T
      PROVE  SumOf(A, "volume") \in Nat /\ SumOf(A, "quote") \in Nat /\ SumOf(A, "takerQuote") \in Nat
    BY <1>1, <1>2, <1>3
<1>5. ASSUME NEW A \in SUBSET T PROVE SumOf(A, "takerQuote") <= SumOf(A, "quote")
    <2>1. IsFiniteSet(A) /\ \A c \in A : c["takerQuote"] \in Int /\ c["quote"] \in Int /\ 1 * c["takerQuote"] <= 1 * c["quote"]
        BY <1>1, FS_Subset
    <2>2. 1 * SumOf(A, "takerQuote") <= 1 * SumOf(A, "quote")
        BY <1>2, <2>1, SumsCompare
    <2> QED BY <1>4, <2>2
<1> QED BY <1>2, <1>4, <1>5

\* The volume and the value of a window lie between those at its prices.
LEMMA VwapIs ==
    ASSUME NEW T, TradedTable(T), NEW A \in SUBSET T, A # {}, \A c \in A : c.volume > 0
    PROVE  /\ SumOf(A, "volume") > 0 /\ SumOf(A, "quote") > 0
           /\ \E c, d \in A : /\ c.close * SumOf(A, "volume") <= SumOf(A, "quote")
                              /\ SumOf(A, "quote") <= d.close * SumOf(A, "volume")
<1> DEFINE V == SumOf(A, "volume")
           Q == SumOf(A, "quote")
<1>1. /\ SumsAdd(T, "volume") /\ SumsAdd(T, "quote") /\ V \in Nat /\ Q \in Nat
    BY TradedSums
<1>2. IsFiniteSet(A)
    BY FS_Subset DEF TradedTable
<1>3. \A c \in A : c.close \in Nat \ {0} /\ c.volume \in Nat \ {0} /\ c.quote = c.volume * c.close
    BY DEF TradedTable
<1> HIDE DEF V, Q
<1> DEFINE prices == [c \in A |-> c.close]
<1>4. prices \in [A -> Int] /\ \A c \in A : prices[c] = c.close
    BY <1>3
<1> HIDE DEF prices
<1>5. /\ \E m \in A : \A x \in A : prices[m] <= prices[x]
      /\ \E m \in A : \A x \in A : prices[x] <= prices[m]
    BY <1>2, <1>4, FiniteExtremes
<1>6. PICK c \in A : \A x \in A : c.close <= x.close
    BY <1>4, <1>5
<1>7. PICK d \in A : \A x \in A : x.close <= d.close
    BY <1>4, <1>5
<1>8. c.close * V <= Q
    <2>1. ASSUME NEW x \in A PROVE x["volume"] \in Int /\ x["quote"] \in Int /\ c.close * x["volume"] <= 1 * x["quote"]
        <3> DEFINE p == c.close
                   q == x.close
                   v == x.volume
        <3>1. p \in Nat /\ q \in Nat /\ v \in Nat /\ p <= q /\ x.quote = v * q
            BY <1>3, <1>6
        <3> HIDE DEF p, q, v
        <3>2. p * v <= v * q /\ v * q \in Int /\ 1 * (v * q) = v * q
            BY <3>1
        <3> QED BY <3>1, <3>2 DEF p, v
    <2>2. c.close \in Int /\ 1 \in Int
        BY <1>3
    <2>3. c.close * SumOf(A, "volume") <= 1 * SumOf(A, "quote")
        BY <1>1, <1>2, <2>1, <2>2, SumsCompare
    <2> QED BY <1>1, <2>3 DEF V, Q
<1>9. Q <= d.close * V
    <2>1. ASSUME NEW x \in A PROVE x["quote"] \in Int /\ x["volume"] \in Int /\ 1 * x["quote"] <= d.close * x["volume"]
        <3> DEFINE p == d.close
                   q == x.close
                   v == x.volume
        <3>1. p \in Nat /\ q \in Nat /\ v \in Nat /\ q <= p /\ x.quote = v * q
            BY <1>3, <1>7
        <3> HIDE DEF p, q, v
        <3>2. v * q <= p * v /\ v * q \in Int /\ 1 * (v * q) = v * q
            BY <3>1
        <3> QED BY <3>1, <3>2 DEF p, v
    <2>2. d.close \in Int /\ 1 \in Int
        BY <1>3
    <2>3. 1 * SumOf(A, "quote") <= d.close * SumOf(A, "volume")
        BY <1>1, <1>2, <2>1, <2>2, SumsCompare
    <2> QED BY <1>1, <2>3 DEF V, Q
<1>10. V > 0
    <2>1. {c} \in SUBSET A /\ c["volume"] \in Int /\ c["volume"] >= 1 /\ c \in T
        BY <1>3
    <2>2. SumOf({c}, "volume") = c["volume"]
        BY <1>1, <2>1, SumOfOne
    <2>3. \A x \in A \ {c} : x["volume"] \in Nat
        BY <1>3
    <2>4. SumOf({c}, "volume") <= SumOf(A, "volume")
        BY <1>1, <1>2, <2>1, <2>3, SumOfMore
    <2> QED BY <1>1, <2>1, <2>2, <2>4 DEF V
<1>11. Q > 0
    <2> DEFINE p == c.close
    <2>1. p \in Nat \ {0} /\ p * V <= Q
        BY <1>3, <1>8
    <2> HIDE DEF p
    <2>2. p * V >= 1 /\ p * V \in Int
        BY <1>1, <1>10, <2>1
    <2> QED BY <1>1, <2>1, <2>2
<1> QED BY <1>8, <1>9, <1>10, <1>11 DEF V, Q

\* The candles without volume add nothing to the sums.
LEMMA QuietCandles ==
    ASSUME NEW T, TradedTable(T), NEW A \in SUBSET T
    PROVE  \A f \in {"volume", "quote", "takerQuote"} : SumOf(A, f) = SumOf({c \in A : c.volume > 0}, f)
<1> DEFINE B == {c \in A : c.volume > 0}
<1>1. IsFiniteSet(A) /\ B \in SUBSET A
    BY FS_Subset DEF TradedTable
<1>2. ASSUME NEW c \in A \ B PROVE c["volume"] = 0 /\ c["quote"] = 0 /\ c["takerQuote"] = 0
    <2> DEFINE p == c.close
               v == c.volume
               w == c.takerQuote
    <2>1. p \in Nat /\ v = 0 /\ w \in Nat /\ c.quote = v * p /\ w <= v * p
        BY DEF TradedTable
    <2> HIDE DEF p, v, w
    <2>2. 0 * p = 0
        BY <2>1
    <2> QED BY <2>1, <2>2 DEF v, w
<1> HIDE DEF B
<1>3. ASSUME NEW f \in {"volume", "quote", "takerQuote"} PROVE SumOf(A, f) = SumOf(B, f)
    <2>1. SumsAdd(T, f) /\ (\A c \in A \ B : c[f] \in Nat) /\ \A c \in A \ B : c[f] = 0
        BY <1>2, TradedSums
    <2> QED BY <1>1, <2>1, SumOfMore
<1> QED BY <1>3 DEF B

\* What the overview is read from.
LEMMA OverviewInputsAre ==
    ASSUME input.kind = "overview", input \in OverviewInputs
    PROVE  /\ TradedTable(input.table) /\ Timed(input.table)
           /\ IsFiniteSet(input.trades) /\ \A t \in input.trades : t.time \in Int /\ t.id \in Int
           /\ input.now \in Nat /\ input.window \in Nat /\ Step \in Nat \ {0}
           /\ Day \in Nat /\ input.window * Step \in Nat /\ input.window * Step <= Day
<1>1. /\ input.table \in TablesOf(TradedCandles) /\ input.trades \in SUBSET MarketTrades
      /\ input.now \in ReadTimes /\ input.window \in 1 .. MaxWindow
    BY DEF OverviewInputs
<1>2. IsFiniteSet(TradedCandles) /\ IsFiniteSet(MarketTrades) /\ ReadTimes \subseteq Nat
    BY AlgorithmsAssumption
<1>3. \A c \in TradedCandles : /\ c.time \in Nat /\ c.close \in Nat \ {0} /\ c.quote \in Nat /\ c.volume \in Nat
                               /\ c.takerQuote \in Nat /\ c.quote = c.volume * c.close /\ c.takerQuote <= c.quote
    <2> DEFINE R == [time : Nat, close : Nat \ {0}, quote : Nat, volume : Nat, takerQuote : Nat]
    <2>1. TradedCandles \subseteq R /\ \A c \in TradedCandles : c.quote = c.volume * c.close /\ c.takerQuote <= c.quote
        BY AlgorithmsAssumption
    <2>2. \A c \in R : c.time \in Nat /\ c.close \in Nat \ {0} /\ c.quote \in Nat /\ c.volume \in Nat /\ c.takerQuote \in Nat
        OBVIOUS
    <2> HIDE DEF R
    <2> QED BY <2>1, <2>2
<1>4. \A t \in MarketTrades : t.time \in Int /\ t.id \in Int
    <2>1. MarketTrades \subseteq [time : Nat, id : Nat, price : Nat]
        BY AlgorithmsAssumption
    <2> QED BY <2>1
<1>5. input.table \in SUBSET TradedCandles
    BY <1>1 DEF TablesOf
<1>6. TradedTable(input.table) /\ Timed(input.table)
    BY <1>2, <1>3, <1>5, FS_Subset DEF TradedTable, Timed
<1>7. IsFiniteSet(input.trades) /\ \A t \in input.trades : t.time \in Int /\ t.id \in Int
    BY <1>1, <1>2, <1>4, FS_Subset
<1>8. DayCandles \in Nat /\ MaxWindow \in 0 .. DayCandles /\ Step \in Nat \ {0}
    BY AlgorithmsAssumption
<1>9. input.window \in Nat /\ input.window <= DayCandles
    BY <1>1, <1>8
<1>10. Day \in Nat /\ input.window * Step \in Nat /\ input.window * Step <= Day
    <2> DEFINE n == input.window
    <2>1. n \in Nat /\ n <= DayCandles /\ DayCandles \in Nat
        BY <1>8, <1>9
    <2> HIDE DEF n
    <2>2. n * Step \in Nat /\ DayCandles * Step \in Nat
        BY <1>8, <2>1
    <2>3. ~(DayCandles < n)
        BY <2>1
    <2>4. ~(DayCandles * Step < n * Step)
        BY <1>8, <2>1, <2>3, MultiplesInOrder
    <2> DEFINE a == n * Step
               b == DayCandles * Step
    <2> HIDE DEF a, b
    <2>5. a \in Nat /\ b \in Nat /\ a <= b
        BY <2>2, <2>4 DEF a, b
    <2> QED BY <2>5 DEF a, b, n, Day
<1>11. input.now \in Nat
    BY <1>1, <1>2
<1> QED BY <1>6, <1>7, <1>8, <1>9, <1>10, <1>11

\* The price on the card.
LEMMA PriceIs ==
    ASSUME NEW T, NEW R
    PROVE  /\ T = {} /\ R = {} => LastPrice(T, R) = Null
           /\ T # {} \/ R # {} => LastPrice(T, R) = {OrZero(LastPrice(T, R), 0)}
           /\ OrZero(LastPrice(T, R), 0) = IF R # {} THEN LastTrade(R).price
                                          ELSE IF T # {} THEN LastOf(T).close ELSE 0
<1>1. CASE R # {}
    <2>1. LastPrice(T, R) = {LastTrade(R).price}
        BY <1>1 DEF LastPrice
    <2> QED BY <1>1, <2>1, OrZeroIs
<1>2. CASE R = {} /\ T # {}
    <2>1. LastPrice(T, R) = {LastOf(T).close}
        BY <1>2 DEF LastPrice
    <2> QED BY <1>2, <2>1, OrZeroIs
<1>3. CASE R = {} /\ T = {}
    <2>1. LastPrice(T, R) = Null
        BY <1>3 DEF LastPrice
    <2> QED BY <1>3, <2>1, OrZeroIs
<1> QED BY <1>1, <1>2, <1>3

\* A quotient whose parts are not negative, and what a NULL one becomes.
LEMMA QuotientIs ==
    ASSUME NEW num, NEW den \in Int
    PROVE  /\ den > 0 => OrZero(Quotient(num, den), <<0, 1>>) = <<num, den>>
           /\ ~(den > 0) => OrZero(Quotient(num, den), <<0, 1>>) = <<0, 1>>
           /\ den > 0 => Quotient(num, den) = {<<num, den>>}
<1>1. den > 0 => Quotient(num, den) = {<<num, den>>}
    BY DEF Quotient
<1>2. ~(den > 0) => Quotient(num, den) = Null
    BY DEF Quotient
<1> QED BY <1>1, <1>2, OrZeroIs

\* The cards of every table, with trades or without, add up.
LEMMA OverviewHolds ==
    ASSUME input.kind = "overview", input \in OverviewInputs
    PROVE  OverviewAddsUp
<1> DEFINE T == input.table
           R == input.trades
           now == input.now
           n == input.window
           o == Snapshot
           times == TimesOf(T)
           last == LastPrice(T, R)
           price == OrZero(last, 0)
           all == CandlesAt(T, Win(times, now, n, Step))
           prev == CandlesAt(T, PrevWin(times, now, n, Step))
           rets == Returns(Within({t \in times : \E c \in T : c.time = t /\ c.close > 0}, now, n + 1, Step))
           change == UNION {Change(p, b) : p \in last, b \in Base24h(T, now, Day)}
           win == {c \in T : c.time > now - n * Step /\ c.volume > 0}
           before == {c \in T : c.time <= now - Day}
           today == {c \in T : c.time > now - Day}
           V == SumOf(win, "volume")
           Q == SumOf(win, "quote")
           K == SumOf(win, "takerQuote")
<1>1. /\ TradedTable(T) /\ Timed(T) /\ IsFiniteSet(R) /\ \A t \in R : t.time \in Int /\ t.id \in Int
      /\ now \in Nat /\ Day \in Nat /\ n * Step \in Nat /\ n * Step <= Day
    BY OverviewInputsAre
<1>2. SumOf(all, "volume") = V /\ SumOf(all, "quote") = Q /\ SumOf(all, "takerQuote") = K
    <2>1. all = {c \in T : c.time > now - n * Step}
        BY DEF CandlesAt, Win, Within, TimesOf
    <2>2. win = {c \in all : c.volume > 0} /\ all \in SUBSET T
        BY <2>1
    <2> HIDE DEF all, win, T
    <2> QED BY <1>1, <2>2, QuietCandles
<1>3. /\ o.lastPrice = price
      /\ o.priceChange24h = OrZero(change, <<0, 1>>)
      /\ o.quoteVolume24h = SumOf(today, "quote")
      /\ o.vwap = OrZero(Quotient(Q, V), <<0, 1>>)
      /\ o.vwapDeviation = OrZero(Deviation(last, all), <<0, 1>>)
      /\ o.volatilityReturns = OrZero(IF Cardinality(rets) >= 2 THEN {Cardinality(rets)} ELSE Null, 0)
      /\ o.takerBuyRatio = clamp01(OrZero(Quotient(K, Q), <<0, 1>>))
      /\ o.tradeCount1m = Cardinality({t \in R : t.time > now - Step})
      /\ o.volumeSurge = OrZero(Quotient(Q, SumOf(prev, "quote")), <<0, 1>>)
    <2> DEFINE row == OverviewRow(T, R, now, n, Day, Step)
               quote == {SumOf(today, "quote")}
               vwap == Quotient(SumOf(all, "quote"), SumOf(all, "volume"))
               deviation == Deviation(last, all)
               returns == IF Cardinality(rets) >= 2 THEN {Cardinality(rets)} ELSE Null
               taker == Quotient(SumOf(all, "takerQuote"), SumOf(all, "quote"))
               count == {Cardinality({t \in R : t.time > now - Step})}
               surge == Quotient(SumOf(all, "quote"), SumOf(prev, "quote"))
    <2>1. row = [lastPrice |-> last, priceChange24h |-> change, quoteVolume24h |-> quote, vwap |-> vwap,
                 vwapDeviation |-> deviation, volatilityReturns |-> returns, takerBuyRatio |-> taker,
                 tradeCount1m |-> count, volumeSurge |-> surge]
        BY DEF OverviewRow
    <2>2. o = mapOverviewRow(row)
        BY DEF Snapshot
    <2>3. OrZero(quote, 0) = SumOf(today, "quote") /\ OrZero(count, 0) = Cardinality({t \in R : t.time > now - Step})
        BY OrZeroIs
    <2>4. vwap = Quotient(Q, V) /\ taker = Quotient(K, Q) /\ surge = Quotient(Q, SumOf(prev, "quote"))
        <3> HIDE DEF all, prev, V, Q, K
        <3> QED BY <1>2
    <2> HIDE DEF row, o, last, change, quote, vwap, deviation, returns, taker, count, surge
    <2>5. /\ mapOverviewRow(row).lastPrice = OrZero(last, 0)
          /\ mapOverviewRow(row).priceChange24h = OrZero(change, <<0, 1>>)
          /\ mapOverviewRow(row).quoteVolume24h = OrZero(quote, 0)
          /\ mapOverviewRow(row).vwap = OrZero(vwap, <<0, 1>>)
          /\ mapOverviewRow(row).vwapDeviation = OrZero(deviation, <<0, 1>>)
          /\ mapOverviewRow(row).volatilityReturns = OrZero(returns, 0)
          /\ mapOverviewRow(row).takerBuyRatio = clamp01(OrZero(taker, <<0, 1>>))
          /\ mapOverviewRow(row).tradeCount1m = OrZero(count, 0)
          /\ mapOverviewRow(row).volumeSurge = OrZero(surge, <<0, 1>>)
        BY <2>1, ColumnsAre
    <2> HIDE DEF V, Q, K, all, prev, rets, today
    <2> QED BY <2>2, <2>3, <2>4, <2>5 DEF deviation, returns
<1>4. win \in SUBSET T /\ today \in SUBSET T /\ win \in SUBSET today /\ prev \in SUBSET T
    <2>1. \A c \in T : c.time \in Int
        BY <1>1 DEF Timed
    <2>2. ASSUME NEW c \in win PROVE c \in today
        <3> DEFINE a == n * Step
        <3>1. c.time > now - a /\ c \in T
            OBVIOUS
        <3>2. a \in Nat /\ a <= Day
            BY <1>1
        <3> HIDE DEF a, T, now
        <3> QED BY <1>1, <2>1, <3>1, <3>2
    <2> QED BY <2>2 DEF CandlesAt
<1>5. V \in Nat /\ Q \in Nat /\ K \in Nat /\ K <= Q /\ SumOf(prev, "quote") \in Nat /\ SumOf(today, "quote") \in Nat
    <2> HIDE DEF win, today, prev, T
    <2> QED BY <1>1, <1>4, TradedSums
<1>6. win = {} => V = 0 /\ Q = 0 /\ K = 0
    <2> HIDE DEF win, T
    <2>1. SumOf({}, "volume") = 0 /\ SumOf({}, "quote") = 0 /\ SumOf({}, "takerQuote") = 0
        BY <1>1, TradedSums DEF SumsAdd
    <2> QED BY <2>1
<1>7. win # {} => /\ V > 0 /\ Q > 0
                  /\ \E c, d \in win : c.close * V <= Q /\ Q <= d.close * V
    <2>1. \A c \in win : c.volume > 0
        OBVIOUS
    <2> HIDE DEF win, T
    <2> QED BY <1>1, <1>4, <2>1, VwapIs
<1>8. /\ T = {} /\ R = {} => last = Null
      /\ T # {} \/ R # {} => last = {price}
      /\ price = IF R # {} THEN LastTrade(R).price ELSE IF T # {} THEN LastOf(T).close ELSE 0
    BY PriceIs
<1>9. IF R # {}
      THEN \E t \in R : /\ o.lastPrice = t.price
                        /\ \A u \in R : u.time <= t.time /\ (u.time = t.time => u.id <= t.id)
      ELSE o.lastPrice = IF T # {} THEN LastOf(T).close ELSE 0
    <2> HIDE DEF o, price, T, R
    <2>1. CASE R # {}
        BY <1>1, <1>3, <1>8, <2>1, LastTradeIs
    <2> QED BY <1>3, <1>8, <2>1
<1>10. win # {} => T # {}
    OBVIOUS
<1>11. before # {} => T # {}
    OBVIOUS
<1> HIDE DEF o, times, last, price, change, prev, rets, win, today, V, Q, K
<1>12. IF win = {} THEN o.vwap = <<0, 1>> ELSE o.vwap = <<Q, V>>
    BY <1>3, <1>5, <1>6, <1>7, QuotientIs
<1>13. IF win = {} THEN o.vwapDeviation = <<0, 1>> ELSE o.vwapDeviation = <<price * V - Q, Q>>
    <2>1. Deviation(last, all) = UNION {IF V > 0 THEN Quotient(p * V - Q, Q) ELSE Null : p \in last}
        BY <1>2 DEF Deviation
    <2>2. CASE win = {}
        <3>1. ~(V > 0)
            BY <1>6, <2>2
        <3>2. Deviation(last, all) = {}
            BY <2>1, <3>1 DEF Null
        <3> QED BY <1>3, <2>2, <3>2, OrZeroIs
    <2>3. CASE win # {}
        <3>1. V > 0 /\ Q > 0 /\ last = {price}
            BY <1>7, <1>8, <1>10, <2>3
        <3>2. Deviation(last, all) = Quotient(price * V - Q, Q)
            BY <2>1, <3>1
        <3> HIDE DEF all
        <3> QED BY <1>3, <1>5, <2>3, <3>1, <3>2, QuotientIs
    <2> QED BY <2>2, <2>3
<1>14. o.takerBuyRatio = IF win = {} THEN <<0, 1>> ELSE <<K, Q>>
    <2>1. CASE win = {}
        <3>1. clamp01(<<0, 1>>) = <<0, 1>>
            BY DEF clamp01
        <3> QED BY <1>3, <1>5, <1>6, <2>1, <3>1, QuotientIs
    <2>2. CASE win # {}
        <3>1. ~(K < 0) /\ ~(K > Q) /\ Q > 0
            BY <1>5, <1>7, <2>2
        <3>2. clamp01(<<K, Q>>) = <<K, Q>>
            BY <3>1 DEF clamp01
        <3> QED BY <1>3, <1>5, <2>2, <3>1, <3>2, QuotientIs
    <2> QED BY <2>1, <2>2
<1>15. o.priceChange24h = IF before = {} THEN <<0, 1>> ELSE <<price - LastOf(before).close, LastOf(before).close>>
    <2>1. Base24h(T, now, Day) = IF before = {} THEN Null ELSE {LastOf(before).close}
        BY DEF Base24h
    <2>2. CASE before = {}
        <3> HIDE DEF T, now
        <3>1. change = {}
            BY <2>1, <2>2 DEF Null, change
        <3> QED BY <1>3, <2>2, <3>1, OrZeroIs
    <2>3. CASE before # {}
        <3> DEFINE base == LastOf(before).close
        <3>1. base \in Nat \ {0}
            <4>1. LastOf(before) \in before
                <5>1. Timed(before)
                    BY <1>1, FS_Subset DEF Timed
                <5> HIDE DEF before
                <5> QED BY <2>3, <5>1, EndsAre
            <4> QED BY <1>1, <4>1 DEF TradedTable
        <3>2. last = {price}
            BY <1>8, <1>11, <2>3
        <3> HIDE DEF T, now, before
        <3>3. Base24h(T, now, Day) = {base}
            BY <2>1, <2>3
        <3> HIDE DEF base
        <3>4. change = Change(price, base)
            BY <3>2, <3>3 DEF change
        <3>5. OrZero(Change(price, base), <<0, 1>>) = <<price - base, base>>
            BY <3>1, QuotientIs DEF Change
        <3> QED BY <1>3, <2>3, <3>4, <3>5 DEF base
    <2> QED BY <2>2, <2>3
<1>16. o.volumeSurge[2] > 0 /\ (SumOf(prev, "quote") = 0 => o.volumeSurge = <<0, 1>>)
    <2> DEFINE P == SumOf(prev, "quote")
    <2> HIDE DEF P
    <2>1. o.volumeSurge = OrZero(Quotient(Q, P), <<0, 1>>) /\ P \in Nat
        BY <1>3, <1>5 DEF P
    <2>2. CASE P > 0
        <3>1. o.volumeSurge = <<Q, P>>
            BY <2>1, <2>2, QuotientIs
        <3> QED BY <2>1, <2>2, <3>1 DEF P
    <2>3. CASE ~(P > 0)
        <3>1. o.volumeSurge = <<0, 1>>
            BY <2>1, <2>3, QuotientIs
        <3> QED BY <2>1, <2>3, <3>1
    <2> QED BY <2>2, <2>3
<1>17. ASSUME T = {}, R = {}
       PROVE  /\ \A f \in {"lastPrice", "quoteVolume24h", "volatilityReturns", "tradeCount1m"} : o[f] = 0
              /\ \A f \in {"vwap", "takerBuyRatio", "volumeSurge"} : o[f] = <<0, 1>>
    <2>1. win = {} /\ today = {} /\ prev = {} /\ rets = {} /\ {t \in R : t.time > now - Step} = {}
        BY <1>17 DEF win, today, prev, rets, times, CandlesAt, TimesOf, Within, Returns
    <2>2. SumOf({}, "quote") = 0
        BY <1>1, TradedSums DEF SumsAdd
    <2>3. Cardinality({}) = 0
        BY FS_EmptySet
    <2>4. o.lastPrice = 0
        BY <1>3, <1>8, <1>17
    <2>5. o.quoteVolume24h = 0 /\ o.tradeCount1m = 0
        BY <1>3, <2>1, <2>2, <2>3
    <2>6. o.volatilityReturns = 0
        BY <1>3, <2>1, <2>3, OrZeroIs
    <2>7. o.vwap = <<0, 1>> /\ o.takerBuyRatio = <<0, 1>> /\ o.volumeSurge = <<0, 1>>
        BY <1>12, <1>14, <1>16, <2>1, <2>2
    <2> QED BY <2>4, <2>5, <2>6, <2>7
<1>18. IF win = {} THEN o.vwap = <<0, 1>> /\ o.vwapDeviation = <<0, 1>>
       ELSE /\ \E c, d \in win : c.close * o.vwap[2] <= o.vwap[1] /\ o.vwap[1] <= d.close * o.vwap[2]
            /\ Sign(o.vwapDeviation[1]) = Sign(o.lastPrice * o.vwap[2] - o.vwap[1])
    <2>1. CASE win = {}
        BY <1>12, <1>13, <2>1
    <2>2. CASE win # {}
        <3>1. o.vwap[1] = Q /\ o.vwap[2] = V /\ o.vwapDeviation[1] = price * V - Q /\ o.lastPrice = price
            BY <1>3, <1>12, <1>13, <2>2
        <3>2. \E c, d \in win : c.close * V <= Q /\ Q <= d.close * V
            BY <1>7, <2>2
        <3> QED BY <2>2, <3>1, <3>2
    <2> QED BY <2>1, <2>2
<1>19. 0 <= o.takerBuyRatio[1] /\ o.takerBuyRatio[1] <= o.takerBuyRatio[2]
    <2>1. CASE win = {}
        BY <1>14, <2>1
    <2>2. CASE win # {}
        BY <1>5, <1>14, <2>2
    <2> QED BY <2>1, <2>2
<1>20. IF before = {} THEN o.priceChange24h = <<0, 1>>
       ELSE Sign(o.priceChange24h[1]) = Sign(o.lastPrice - LastOf(before).close)
    <2> HIDE DEF before
    <2>1. CASE before = {}
        BY <1>15, <2>1
    <2>2. CASE before # {}
        BY <1>3, <1>15, <2>2
    <2> QED BY <2>1, <2>2
<1>21. Q <= o.quoteVolume24h
    <2>1. IsFiniteSet(today) /\ SumsAdd(T, "quote") /\ \A c \in today \ win : c["quote"] \in Nat
        BY <1>1, <1>4, FS_Subset, TradedSums DEF TradedTable
    <2>2. SumOf(win, "quote") <= SumOf(today, "quote")
        BY <1>4, <2>1, SumOfMore
    <2> QED BY <1>3, <2>2 DEF Q
<1>22. \A f \in {"vwap", "vwapDeviation", "takerBuyRatio", "priceChange24h", "volumeSurge"} : o[f][2] > 0
    <2>1. o.vwap[2] > 0 /\ o.vwapDeviation[2] > 0 /\ o.takerBuyRatio[2] > 0
        <3>1. CASE win = {}
            BY <1>12, <1>13, <1>14, <3>1
        <3>2. CASE win # {}
            BY <1>7, <1>12, <1>13, <1>14, <3>2
        <3> QED BY <3>1, <3>2
    <2>2. o.priceChange24h[2] > 0
        <3>1. CASE before = {}
            <4> HIDE DEF before
            <4> QED BY <1>15, <3>1
        <3>2. CASE before # {}
            <4>1. Timed(before)
                BY <1>1, FS_Subset DEF Timed
            <4>2. LastOf(before) \in before
                <5> HIDE DEF before
                <5> QED BY <3>2, <4>1, EndsAre
            <4>3. LastOf(before).close \in Nat \ {0}
                BY <1>1, <4>2 DEF TradedTable
            <4> HIDE DEF before
            <4> QED BY <1>15, <3>2, <4>3
        <3> QED BY <3>1, <3>2
    <2> QED BY <1>16, <2>1, <2>2
<1> QED BY <1>9, <1>17, <1>18, <1>19, <1>20, <1>21, <1>22 DEF OverviewAddsUp, o, win, Q

-----------------------------------------------------------------------------
\* The theorem

\* The bars of every width are those of the minute candles under them, none left
\* out and none counted twice; on a table without gaps every window, the one
\* before it, every return and every rolling frame has all its candles; and the
\* cards of the overview agree with the table and with each other: for every
\* set of candles and trades, every window, width, limit and frame.
THEOREM QueriesAreExactHolds == Spec => []QueriesAreExact
<1>1. AlgorithmsInv => QueriesAreExact
    <2> SUFFICES ASSUME AlgorithmsInv PROVE QueriesAreExact
        OBVIOUS
    <2> USE DEF QueriesAreExact
    <2>1. BarsAreTheirCandles
        <3>1. CASE input.kind = "candles"
            BY <3>1, KindsApart, BarsHold DEF AlgorithmsInv
        <3>2. CASE input.kind # "candles"
            BY <3>2 DEF BarsAreTheirCandles
        <3> QED BY <3>1, <3>2
    <2>2. WindowsAreWhole
        <3>1. CASE input.kind = "window"
            BY <3>1, KindsApart, WindowsHold DEF AlgorithmsInv
        <3>2. CASE input.kind # "window"
            BY <3>2 DEF WindowsAreWhole
        <3> QED BY <3>1, <3>2
    <2>3. OverviewAddsUp
        <3>1. CASE input.kind = "overview"
            BY <3>1, KindsApart, OverviewHolds DEF AlgorithmsInv
        <3>2. CASE input.kind # "overview"
            BY <3>2 DEF OverviewAddsUp
        <3> QED BY <3>1, <3>2
    <2> QED BY <2>1, <2>2, <2>3
<1> QED BY <1>1, AlgorithmsInitInv, AlgorithmsNextInv, PTL DEF Spec
==============================================================================
