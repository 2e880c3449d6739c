------------------------ MODULE DarwinWeights_proofs ------------------------
(***************************************************************************)
(* Theorems about DarwinWeights, for any number of publishers, tracks,     *)
(* revisions, days and batches.                                            *)
(***************************************************************************)
EXTENDS DarwinWeights, FiniteSetTheorems, WellFoundedInduction, TLAPS

-------------------------------------------------------------------------------
(* Greatest elements. *)

LEMMA LeastExists ==
    ASSUME NEW S, S \subseteq Nat, S # {}
    PROVE  \E x \in S : \A y \in S : x <= y
<1>. DEFINE R == OpToRel(<, Nat)
<1>1. \E x \in S : \A y \in S : ~ (<<y, x>> \in R)
    BY NatLessThanWellFounded, WFMin, Zenon
<1>2. \A x, y \in S : y < x => <<y, x>> \in R
    BY SMT DEF OpToRel
<1>. HIDE DEF R
<1>3. PICK x \in S : \A y \in S : ~ (y < x)
    BY <1>1, <1>2, Zenon
<1>4. \A y \in S : x <= y
    BY <1>3
<1>. QED BY <1>4

LEMMA GreatestExists ==
    ASSUME NEW N \in Nat, NEW S, S \subseteq 0 .. N, S # {}
    PROVE  \E x \in S : \A y \in S : y <= x
<1>. DEFINE T == {N - x : x \in S}
<1>0. PICK s \in S : TRUE
    OBVIOUS
<1>1. T \subseteq Nat /\ N - s \in T
    BY <1>0
<1>. HIDE DEF T
<1>2. PICK t \in T : \A y \in T : t <= y
    BY <1>1, LeastExists
<1>3. PICK x \in S : t = N - x
    BY <1>2 DEF T
<1>4. \A y \in S : N - y \in T
    BY Zenon DEF T
<1>5. \A y \in S : N - x <= N - y
    BY <1>2, <1>3, <1>4
<1>. QED BY <1>5

LEMMA MaxIsGreatest ==
    ASSUME NEW N \in Nat, NEW S, S \subseteq 0 .. N, S # {}
    PROVE  Max(S) \in S /\ \A y \in S : y <= Max(S)
<1>1. \E x \in S : \A y \in S : x >= y
    BY GreatestExists
<1>. QED BY <1>1, Zenon DEF Max

\* MaxSeq bounds a window from above and is attained when it is positive.
LEMMA MaxSeqBounds ==
    ASSUME NEW w, w \subseteq Index
    PROVE  /\ MaxSeq(w) \in Nat
           /\ \A x \in w : x <= MaxSeq(w)
           /\ MaxSeq(w) > 0 => MaxSeq(w) \in w
<1>. MaxLabels \in Nat
    BY WeightsAssumption
<1>1. CASE w = {}
    BY <1>1 DEF MaxSeq
<1>2. CASE w # {}
    <2>1. w \subseteq 0 .. MaxLabels
        BY DEF Index
    <2>2. Max(w) \in w /\ \A y \in w : y <= Max(w)
        BY <1>2, <2>1, MaxIsGreatest
    <2>3. MaxSeq(w) = Max(w)
        BY <1>2, Zenon DEF MaxSeq
    <2>4. w \subseteq Nat
        BY DEF Index
    <2>5. Max(w) \in Nat
        BY <2>2, <2>4, Zenon
    <2>. QED BY <2>2, <2>3, <2>5
<1>. QED BY <1>1, <1>2

-------------------------------------------------------------------------------
(* Sums of scores.  The fold of the library is a recursive function on the  *)
(* subsets of a window; that it exists, and yields a number, is shown by    *)
(* induction on the number of labels.                                       *)

LEMMA Induction ==
    ASSUME NEW n \in Nat, NEW S, 0 \in S, \A k \in 0 .. n : k < n /\ k \in S => k + 1 \in S
    PROVE  n \in S
<1>. SUFFICES ASSUME n \notin S PROVE FALSE
    OBVIOUS
<1>1. (0 .. n) \ S \subseteq Nat /\ n \in (0 .. n) \ S
    OBVIOUS
<1>2. PICK m \in (0 .. n) \ S : \A y \in (0 .. n) \ S : m <= y
    <2>. DEFINE T == (0 .. n) \ S
    <2>1. T \subseteq Nat /\ T # {}
        BY <1>1
    <2>. HIDE DEF T
    <2>2. \E m \in T : \A y \in T : m <= y
        BY <2>1, LeastExists
    <2>. QED BY <2>2 DEF T
<1>3. m # 0 /\ m - 1 \in 0 .. n /\ m - 1 < n /\ (m - 1) + 1 = m
    OBVIOUS
<1>4. m - 1 \in S
    BY <1>2, <1>3
<1>. QED BY <1>3, <1>4

Any(s) == CHOOSE x \in s : TRUE

\* g sums the scores of the subsets of S, one label after the other.
Sums(S, g) ==
    g = [s \in SUBSET S |-> IF s = {} THEN 0 ELSE label[Any(s)].score + g[s \ {Any(s)}]]

LEMMA TotalIsSum ==
    ASSUME NEW w, NEW m
    PROVE  Total(w, m) = (CHOOSE g : Sums(w[m], g))[w[m]]
BY DEF Total, MapThenSumSet, MapThenFoldSet, Sums, Any

LEMMA RestIsSmaller ==
    ASSUME NEW S, IsFiniteSet(S), NEW s \in SUBSET S, s # {}
    PROVE  /\ Any(s) \in S /\ s \ {Any(s)} \in SUBSET S
           /\ Cardinality(s) \in Nat /\ Cardinality(s \ {Any(s)}) = Cardinality(s) - 1
<1>1. Any(s) \in s
    BY DEF Any
<1>2. IsFiniteSet(s)
    BY FS_Subset
<1>. QED BY <1>1, <1>2, FS_RemoveElement, FS_CardinalityType

LEMMA SumIsInt ==
    ASSUME NEW S, IsFiniteSet(S), \A x \in S : label[x].score \in Int
    PROVE  (CHOOSE g : Sums(S, g))[S] \in Int
<1>. DEFINE Upto(n) == {s \in SUBSET S : Cardinality(s) <= n}
           F(g, s) == IF s = {} THEN 0 ELSE label[Any(s)].score + g[s \ {Any(s)}]
           N == Cardinality(S)
           Good == {n \in Nat : \E g \in [Upto(n) -> Int] : \A s \in Upto(n) : g[s] = F(g, s)}
<1>1. N \in Nat /\ \A s \in SUBSET S : Cardinality(s) \in Nat /\ Cardinality(s) <= N
    BY FS_Subset, FS_CardinalityType
<1>2. \A s \in SUBSET S : Cardinality(s) = 0 <=> s = {}
    BY FS_Subset, FS_EmptySet
<1>3. ASSUME NEW n \in Nat, NEW s \in Upto(n), s # {}
      PROVE  label[Any(s)].score \in Int /\ s \ {Any(s)} \in Upto(n) /\ n # 0 /\ s \ {Any(s)} \in Upto(n - 1)
    BY <1>3, <1>1, RestIsSmaller
<1>4. 0 \in Good
    <2>1. \A s \in Upto(0) : s = {}
        BY <1>1, <1>2
    <2>2. [s \in Upto(0) |-> 0] \in [Upto(0) -> Int]
        OBVIOUS
    <2>. HIDE DEF Upto
    <2>. QED BY <2>1, <2>2
<1>5. ASSUME NEW n \in Nat, n \in Good PROVE n + 1 \in Good
    <2>1. PICK g \in [Upto(n) -> Int] : \A s \in Upto(n) : g[s] = F(g, s)
        BY <1>5
    <2>. DEFINE h == [s \in Upto(n + 1) |-> F(g, s)]
    <2>2. ASSUME NEW s \in Upto(n + 1), s # {}
          PROVE  label[Any(s)].score \in Int /\ s \ {Any(s)} \in Upto(n) /\ s \ {Any(s)} \in Upto(n + 1)
        BY <1>3, <2>2
    <2>3. \A s \in Upto(n) : s \in Upto(n + 1)
        BY <1>1
    <2>. HIDE DEF Upto
    <2>4. h \in [Upto(n + 1) -> Int]
        BY <2>2
    <2>5. \A s \in Upto(n) : h[s] = g[s]
        BY <2>1, <2>3
    <2>6. ASSUME NEW s \in Upto(n + 1) PROVE h[s] = F(h, s)
        <3>1. h[s] = F(g, s)
            OBVIOUS
        <3>2. s # {} => h[s \ {Any(s)}] = g[s \ {Any(s)}]
            BY <2>2, <2>5
        <3>. HIDE DEF h
        <3>. QED BY <3>1, <3>2
    <2>7. \E x \in [Upto(n + 1) -> Int] : \A s \in Upto(n + 1) : x[s] = F(x, s)
        <3>. HIDE DEF h, F
        <3>. QED BY <2>4, <2>6, Zenon
    <2>. HIDE DEF F
    <2>. QED BY <2>7
<1>6. N \in Good
    <2>. HIDE DEF Good
    <2>. QED BY <1>1, <1>4, <1>5, Induction
<1>7. Upto(N) = SUBSET S
    BY <1>1
<1>8. \E g : Sums(S, g)
    <2>1. PICK g \in [SUBSET S -> Int] : \A s \in SUBSET S : g[s] = F(g, s)
        BY <1>6, <1>7
    <2>2. g = [s \in SUBSET S |-> F(g, s)]
        BY <2>1
    <2>. QED BY <2>2, Zenon DEF Sums
<1>. DEFINE c == CHOOSE g : Sums(S, g)
<1>9. Sums(S, c)
    BY <1>8, Zenon
<1>. HIDE DEF c
<1>10. \A s \in SUBSET S : c[s] = F(c, s)
    BY <1>9, Zenon DEF Sums
<1>. DEFINE Typed == {n \in Nat : \A s \in Upto(n) : c[s] \in Int}
<1>11. 0 \in Typed
    <2>1. \A s \in Upto(0) : s = {}
        BY <1>1, <1>2
    <2>2. \A s \in Upto(0) : c[s] = 0
        BY <1>10, <2>1
    <2>. HIDE DEF Upto
    <2>. QED BY <2>2
<1>12. ASSUME NEW n \in Nat, n \in Typed PROVE n + 1 \in Typed
    <2>1. ASSUME NEW s \in Upto(n + 1), s # {}
          PROVE  label[Any(s)].score \in Int /\ s \ {Any(s)} \in Upto(n)
        BY <1>3, <2>1
    <2>2. \A s \in Upto(n) : c[s] \in Int
        BY <1>12
    <2>3. \A s \in Upto(n + 1) : c[s] = F(c, s)
        BY <1>10
    <2>. HIDE DEF Upto
    <2>4. ASSUME NEW s \in Upto(n + 1) PROVE c[s] \in Int
        <3>1. CASE s = {}
            BY <2>3, <3>1
        <3>2. CASE s # {}
            <4>1. c[s] = label[Any(s)].score + c[s \ {Any(s)}]
                BY <2>3, <3>2
            <4>2. label[Any(s)].score \in Int /\ c[s \ {Any(s)}] \in Int
                BY <2>1, <2>2, <3>2
            <4>. QED BY <4>1, <4>2
        <3>. QED BY <3>1, <3>2
    <2>. QED BY <2>4
<1>13. N \in Typed
    <2>. HIDE DEF Typed
    <2>. QED BY <1>1, <1>11, <1>12, Induction
<1>14. S \in Upto(N)
    BY <1>7
<1>. QED BY <1>13, <1>14 DEF c

-------------------------------------------------------------------------------
(* The newest batch of a set: the latest of the latest cutoff. *)

Newest(bs, S, i) ==
    /\ i \in S
    /\ \A k \in S : bs[k].cutoff < bs[i].cutoff \/ (bs[k].cutoff = bs[i].cutoff /\ k <= i)

LEMMA NewestExists ==
    ASSUME NEW bs, NEW n \in Nat, NEW S, S \subseteq 1 .. n, S # {},
           \A i \in S : bs[i].cutoff \in Day
    PROVE  \E i \in S : Newest(bs, S, i)
<1>. DEFINE C == {bs[i].cutoff : i \in S}
<1>0. LastDay \in Nat
    BY WeightsAssumption
<1>1. PICK s \in S : TRUE
    OBVIOUS
<1>2. bs[s].cutoff \in C /\ C \subseteq 0 .. LastDay
    BY <1>0, <1>1 DEF Day
<1>. HIDE DEF C
<1>3. PICK c \in C : \A y \in C : y <= c
    BY <1>0, <1>2, GreatestExists
<1>. DEFINE T == {i \in S : bs[i].cutoff = c}
<1>4. PICK l \in S : bs[l].cutoff = c
    BY <1>3 DEF C
<1>5. l \in T /\ T \subseteq S
    BY <1>4, Zenon
<1>6. T \subseteq 0 .. n
    <2>1. S \subseteq 0 .. n
        OBVIOUS
    <2>. QED BY <1>5, <2>1, Zenon
<1>. HIDE DEF T
<1>7. PICK i \in T : \A k \in T : k <= i
    BY <1>5, <1>6, GreatestExists
<1>8. i \in S /\ bs[i].cutoff = c
    BY <1>7 DEF T
<1>9. ASSUME NEW k \in S
      PROVE  bs[k].cutoff < bs[i].cutoff \/ (bs[k].cutoff = bs[i].cutoff /\ k <= i)
    <2>1. bs[k].cutoff \in C
        BY Zenon DEF C
    <2>2. bs[k].cutoff <= c
        BY <1>3, <2>1
    <2>3. bs[k].cutoff \in Int /\ c \in Int
        BY <1>0, <1>4 DEF Day
    <2>4. bs[k].cutoff = c => k \in T
        BY DEF T
    <2>. QED BY <1>7, <1>8, <2>2, <2>3, <2>4
<1>. QED BY <1>8, <1>9 DEF Newest

LEMMA NewestIsUnique ==
    ASSUME NEW bs, NEW S, S \subseteq Nat, \A i \in S : bs[i].cutoff \in Int,
           NEW i, NEW k, Newest(bs, S, i), Newest(bs, S, k)
    PROVE  i = k
BY DEF Newest

\* The batches of K that made the weight of m which counts at c.
Made(bs, m, c, K) == {i \in K : m \in bs[i].moved /\ bs[i].cutoff <= c}

\* The index of the newest batch of S, 0 if there is none.
NewestOf(bs, S) ==
    IF S = {} THEN 0
    ELSE CHOOSE i \in S :
            \A k \in S : bs[k].cutoff < bs[i].cutoff \/ (bs[k].cutoff = bs[i].cutoff /\ k <= i)

\* Current, of an explicit sequence of batches.
CurrentOf(bs, m, c, K) == NewestOf(bs, Made(bs, m, c, K))

LEMMA CurrentIsOfBatches ==
    ASSUME NEW m, NEW c, NEW K
    PROVE  Current(m, c, K) = CurrentOf(batches, m, c, K)
BY Zenon DEF Current, CurrentOf, NewestOf, Made

LEMMA NewestOfIsNewest ==
    ASSUME NEW bs, NEW n \in Nat, NEW S, S \subseteq 1 .. n,
           \A i \in S : bs[i].cutoff \in Day
    PROVE  /\ S = {} => NewestOf(bs, S) = 0
           /\ S # {} => Newest(bs, S, NewestOf(bs, S))
           /\ NewestOf(bs, S) \in 0 .. n
<1>1. CASE S = {}
    BY <1>1 DEF NewestOf
<1>2. CASE S # {}
    <2>1. \E i \in S : Newest(bs, S, i)
        BY <1>2, NewestExists
    <2>. DEFINE P(i) == \A k \in S : bs[k].cutoff < bs[i].cutoff \/ (bs[k].cutoff = bs[i].cutoff /\ k <= i)
    <2>2. \E i \in S : P(i)
        BY <2>1, Zenon DEF Newest
    <2>3. NewestOf(bs, S) = CHOOSE i \in S : P(i)
        BY <1>2, Zenon DEF NewestOf
    <2>. HIDE DEF P
    <2>4. NewestOf(bs, S) \in S /\ P(NewestOf(bs, S))
        BY <2>2, <2>3, Zenon
    <2>5. Newest(bs, S, NewestOf(bs, S))
        BY <2>4, Zenon DEF Newest, P
    <2>6. S \subseteq 0 .. n
        OBVIOUS
    <2>. QED BY <1>2, <2>4, <2>5, <2>6, Zenon
<1>. QED BY <1>1, <1>2

LEMMA CurrentIsNewest ==
    ASSUME NEW bs, NEW n \in Nat, NEW m, NEW c, NEW K, K \subseteq 1 .. n,
           \A i \in K : bs[i].cutoff \in Day
    PROVE  /\ Made(bs, m, c, K) = {} => CurrentOf(bs, m, c, K) = 0
           /\ Made(bs, m, c, K) # {} => Newest(bs, Made(bs, m, c, K), CurrentOf(bs, m, c, K))
           /\ CurrentOf(bs, m, c, K) \in 0 .. n
<1>. DEFINE M == Made(bs, m, c, K)
<1>1. M \subseteq 1 .. n /\ \A i \in M : bs[i].cutoff \in Day
    BY DEF Made
<1>. HIDE DEF M
<1>2. /\ M = {} => NewestOf(bs, M) = 0
      /\ M # {} => Newest(bs, M, NewestOf(bs, M))
      /\ NewestOf(bs, M) \in 0 .. n
    BY <1>1, NewestOfIsNewest
<1>. QED BY <1>2, Zenon DEF CurrentOf, M

LEMMA BatchShape ==
    ASSUME NEW b \in BatchRecord
    PROVE  /\ b.cutoff \in Day /\ b.cutoff \in Slot /\ b.stamp \in Day
           /\ b.moved \subseteq Member
           /\ \A m \in Member : b.window[m] \subseteq Index
BY WeightsAssumption DEF BatchRecord

\* The newest of some batches depends on these only.
LEMMA NewestIsLocal ==
    ASSUME NEW bs, NEW cs, NEW n \in Nat, NEW M, M \subseteq 1 .. n,
           \A x \in M : bs[x].cutoff \in Day,
           \A x \in M : cs[x] = bs[x]
    PROVE  NewestOf(cs, M) = NewestOf(bs, M)
<1>. DEFINE i == NewestOf(bs, M)
            k == NewestOf(cs, M)
<1>1. M = {} => i = 0
    BY NewestOfIsNewest
<1>2. M # {} => Newest(bs, M, i)
    BY NewestOfIsNewest
<1>3. \A x \in M : cs[x].cutoff \in Day
    BY Zenon
<1>4. M = {} => k = 0
    BY <1>3, NewestOfIsNewest
<1>5. M # {} => Newest(cs, M, k)
    BY <1>3, NewestOfIsNewest
<1>6. M \subseteq Nat /\ \A x \in M : bs[x].cutoff \in Int
    <2>1. 1 .. n \subseteq Nat /\ Day \subseteq Int
        BY WeightsAssumption DEF Day
    <2>. QED BY <2>1, Zenon
<1>. HIDE DEF i, k
<1>7. Newest(cs, M, k) => Newest(bs, M, k)
    BY DEF Newest
<1>8. M # {} => i = k
    BY <1>2, <1>5, <1>6, <1>7, NewestIsUnique
<1>. QED BY <1>1, <1>4, <1>8 DEF i, k

\* Another batch at the end leaves alone what counts among sets of batches that
\* differ by it at most, if it is not one that counts.
LEMMA CurrentOfPrefix ==
    ASSUME NEW bs \in Seq(BatchRecord), NEW b \in BatchRecord, NEW m, NEW c,
           NEW K, K \subseteq DOMAIN bs, NEW L,
           L = K \/ (L = K \cup {Len(bs) + 1} /\ ~ (b.cutoff <= c))
    PROVE  CurrentOf(Append(bs, b), m, c, L) = CurrentOf(bs, m, c, K)
<1>. DEFINE cs == Append(bs, b)
            M == Made(bs, m, c, K)
<1>1. Len(bs) \in Nat /\ K \subseteq 1 .. Len(bs)
    OBVIOUS
<1>2. \A i \in K : cs[i] = bs[i] /\ bs[i] \in BatchRecord
    BY <1>1
<1>3. cs[Len(bs) + 1] = b
    BY <1>1
<1>. HIDE DEF cs
<1>4. Made(cs, m, c, L) = M
    BY <1>2, <1>3 DEF Made
<1>5. M \subseteq 1 .. Len(bs) /\ \A x \in M : x \in K
    BY <1>1 DEF Made
<1>6. \A x \in M : bs[x].cutoff \in Day
    BY <1>2, <1>5, BatchShape
<1>7. \A x \in M : cs[x] = bs[x]
    BY <1>2, <1>5
<1>. HIDE DEF M
<1>8. NewestOf(cs, M) = NewestOf(bs, M)
    BY <1>1, <1>5, <1>6, <1>7, NewestIsLocal
<1>. QED BY <1>4, <1>8, Zenon DEF CurrentOf, M, cs

-------------------------------------------------------------------------------
(* The inductive invariant. *)

LabelRecord == [of : Member, due : Day, matured : Day, score : UNION {Score[m] : m \in Member}]

\* The types but for the checkpoints, which the windows of jobs are needed for.
TablesAreSound ==
    /\ now \in Day
    /\ label \in Seq(LabelRecord) /\ Len(label) <= MaxLabels
    /\ batches \in Seq(BatchRecord) /\ Len(batches) <= MaxBatches
    /\ cycle \in [CycleDay -> [pc : {"idle", "running", "accepted", "refused"},
                             seen : {None} \cup SnapshotRecord]]

\* A batch is decided under the lock, by a publication of a slot, when there is
\* room for one more.
JobsAreSound ==
    /\ job \in [Publisher -> {None} \cup JobRecord]
    /\ \A p \in Publisher : job[p] # None /\ job[p].op = "PUBLISH" => job[p].cutoff \in Slot
    /\ lock \in Publisher \cup {None}
    /\ \A p \in Publisher : lock = p <=> (job[p] # None /\ job[p].batch # None)
    /\ lock # None => Len(batches) < MaxBatches

\* Batch b builds on the weights that the first n batches of bs make.
BuildsOn(b, bs, n) ==
    \A m \in Member : b.previous[m] = CurrentOf(bs, m, b.cutoff, 1 .. n)

\* It moves weights on a score past those of the newest of them.
HasNews(b, bs, n) ==
    b.moved # {} =>
        \E m \in Member :
            /\ MaxSeq(b.window[m]) > 0
            /\ \A i \in 1 .. n :
                 Newest(bs, 1 .. n, i) => MaxSeq(b.window[m]) > MaxSeq(bs[i].window[m])

Decided(b, bs, n) == BuildsOn(b, bs, n) /\ HasNews(b, bs, n)

\* A window read once has labels only, which are never taken away.
WindowsAreKnown ==
    \A p \in Publisher : job[p] # None => \A m \in Member : job[p].window[m] \subseteq DOMAIN label

Checkpoint == [of : Member, cutoff : Day, window : SUBSET Index,
               rev : Revision, band : {"Q1", "Q2", "Q3", "Q4", None}]

BatchesAreDecided ==
    /\ \A k \in Published : Decided(batches[k], batches, k - 1)
    /\ \A p \in Publisher : lock = p => Decided(job[p].batch, batches, Len(batches))

Inv ==
    /\ TablesAreSound /\ JobsAreSound /\ WindowsAreKnown /\ BatchesAreDecided
    /\ evaluated \subseteq Checkpoint

-------------------------------------------------------------------------------
(* What follows from the invariant in one state. *)

LEMMA WindowIsOfIndices ==
    ASSUME TablesAreSound, NEW m, NEW c
    PROVE  Window(m, c) \subseteq Index
<1>1. DOMAIN label \subseteq Index
    BY WeightsAssumption DEF TablesAreSound, Index
<1>. QED BY <1>1, Zenon DEF Window, Eligible

LEMMA NoForks ==
    ASSUME TablesAreSound, BatchesAreDecided
    PROVE  ForksAreBackdated
<1>. SUFFICES ASSUME NEW i \in Published, NEW k \in Published, NEW m \in Member,
                     i < k, m \in batches[i].moved, m \in batches[k].moved,
                     batches[i].previous[m] = batches[k].previous[m],
                     ~ (batches[k].cutoff < batches[i].cutoff)
              PROVE  FALSE
    BY Zenon DEF ForksAreBackdated
<1>1. batches \in Seq(BatchRecord) /\ Published = 1 .. Len(batches) /\ Len(batches) \in Nat
    BY DEF TablesAreSound, Published
<1>2. \A x \in Published : batches[x].cutoff \in Day
    BY <1>1, BatchShape
<1>3. i \in Nat /\ k \in Nat /\ 1 <= i /\ i <= k - 1
    BY <1>1
<1>. DEFINE j == batches[i].previous[m]
            I == Made(batches, m, batches[i].cutoff, 1 .. i - 1)
            K == Made(batches, m, batches[k].cutoff, 1 .. k - 1)
<1>4. j = CurrentOf(batches, m, batches[i].cutoff, 1 .. i - 1)
    BY DEF BatchesAreDecided, Decided, BuildsOn
<1>5. j = CurrentOf(batches, m, batches[k].cutoff, 1 .. k - 1)
    BY DEF BatchesAreDecided, Decided, BuildsOn
<1>6. i \in K
    BY <1>1, <1>2, <1>3, WeightsAssumption DEF Made, Day
<1>7. 1 .. i - 1 \subseteq Published /\ 1 .. k - 1 \subseteq Published /\ i - 1 \in Nat /\ k - 1 \in Nat
    BY <1>1, <1>3
<1>8. Newest(batches, K, j)
    BY <1>2, <1>5, <1>6, <1>7, CurrentIsNewest
<1>9. j \in 0 .. i - 1
    BY <1>2, <1>4, <1>7, CurrentIsNewest
<1>10. batches[i].cutoff < batches[j].cutoff
    BY <1>6, <1>8, <1>9, <1>3 DEF Newest
<1>11. I # {} => j \in I
    BY <1>2, <1>4, <1>7, CurrentIsNewest DEF Newest
<1>12. I = {} => j = 0
    BY <1>2, <1>4, <1>7, CurrentIsNewest
<1>13. j # 0 /\ j \in Published
    BY <1>1, <1>3, <1>8 DEF Newest, Made
<1>14. batches[j].cutoff <= batches[i].cutoff
    BY <1>11, <1>12, <1>13 DEF Made
<1>. QED BY <1>2, <1>10, <1>13, <1>14, WeightsAssumption DEF Day

LEMMA ScoresMoveOnce ==
    ASSUME TablesAreSound, BatchesAreDecided
    PROVE  ScoreMovesOnce
<1>. SUFFICES ASSUME NEW k \in Published, batches[k].moved # {}, InOrder(k)
              PROVE  \E m \in Member : \E x \in batches[k].window[m] :
                        \A i \in 1 .. k - 1 : x \notin batches[i].window[m]
    BY Zenon DEF ScoreMovesOnce
<1>1. batches \in Seq(BatchRecord) /\ Published = 1 .. Len(batches) /\ Len(batches) \in Nat
    BY DEF TablesAreSound, Published
<1>2. \A x \in Published : batches[x].cutoff \in Day
    BY <1>1, BatchShape
<1>3. \A x \in Published, m \in Member : batches[x].window[m] \subseteq Index
    BY <1>1, BatchShape
<1>4. PICK m \in Member :
          /\ MaxSeq(batches[k].window[m]) > 0
          /\ \A i \in 1 .. k - 1 :
               Newest(batches, 1 .. k - 1, i) =>
                   MaxSeq(batches[k].window[m]) > MaxSeq(batches[i].window[m])
    BY DEF BatchesAreDecided, Decided, HasNews
<1>. DEFINE x == MaxSeq(batches[k].window[m])
<1>5. x \in batches[k].window[m]
    BY <1>3, <1>4, MaxSeqBounds
<1>6. k \in Nat /\ 1 .. k - 1 \subseteq Published /\ k - 1 \in Nat
    BY <1>1
<1>7. ASSUME NEW i \in 1 .. k - 1
      PROVE  x \notin batches[i].window[m]
    <2>1. \E l \in 1 .. k - 1 : Newest(batches, 1 .. k - 1, l)
        BY <1>2, <1>6, NewestExists
    <2>2. PICK l \in 1 .. k - 1 : Newest(batches, 1 .. k - 1, l)
        BY <2>1
    <2>3. k - 1 \in 1 .. k - 1 /\ k - 1 \in Nat /\ l \in Nat /\ l <= k - 1
        BY <1>6
    <2>4. batches[k - 1].cutoff \in Int /\ batches[l].cutoff \in Int
        BY <1>2, <1>6, <2>3, WeightsAssumption DEF Day
    <2>5. l < k - 1 => batches[l].cutoff <= batches[k - 1].cutoff
        BY <1>6, <2>3 DEF InOrder
    <2>6. batches[k - 1].cutoff < batches[l].cutoff
            \/ (batches[k - 1].cutoff = batches[l].cutoff /\ k - 1 <= l)
        BY <2>2, <2>3 DEF Newest
    <2>7. l = k - 1
        BY <2>3, <2>4, <2>5, <2>6
    <2>8. x > MaxSeq(batches[k - 1].window[m])
        BY <1>4, <2>2, <2>7
    <2>9. i < k - 1 => MaxSeq(batches[i].window[m]) <= MaxSeq(batches[k - 1].window[m])
        BY <1>6 DEF InOrder
    <2>10. /\ MaxSeq(batches[i].window[m]) \in Nat
           /\ \A y \in batches[i].window[m] : y <= MaxSeq(batches[i].window[m])
        BY <1>3, <1>6, MaxSeqBounds
    <2>11. MaxSeq(batches[k - 1].window[m]) \in Nat /\ x \in Nat
        BY <1>3, <1>6, <2>3, MaxSeqBounds
    <2>12. MaxSeq(batches[i].window[m]) < x
        <3>1. i = k - 1 \/ i < k - 1
            BY <1>6
        <3>. HIDE DEF x
        <3>. QED BY <2>8, <2>9, <2>10, <2>11, <3>1
    <2>. HIDE DEF x
    <2>. QED BY <2>10, <2>11, <2>12
<1>. QED BY <1>5, <1>7

-------------------------------------------------------------------------------
(* Bands. *)

LEMMA TotalIsInt ==
    ASSUME TablesAreSound, NEW w, NEW m, w[m] \subseteq DOMAIN label
    PROVE  Total(w, m) \in Int
<1>1. label \in Seq(LabelRecord) /\ Len(label) \in Nat
    BY DEF TablesAreSound
<1>2. \A i \in DOMAIN label : label[i].score \in Int
    <2>. SUFFICES ASSUME NEW i \in DOMAIN label
                  PROVE  label[i].score \in Int
        OBVIOUS
    <2>1. label[i] \in LabelRecord
        BY <1>1
    <2>2. label[i].score \in UNION {Score[x] : x \in Member}
        BY <2>1 DEF LabelRecord
    <2>. QED BY <2>2, WeightsAssumption
<1>3. IsFiniteSet(w[m])
    <2>1. IsFiniteSet(DOMAIN label)
        BY <1>1, FS_Interval
    <2>. QED BY <2>1, FS_Subset
<1>. QED BY <1>2, <1>3, TotalIsSum, SumIsInt

LEMMA QuotientBelowFour ==
    ASSUME NEW x \in Nat, NEW n \in Nat, n > 0, x < 4 * n
    PROVE  x \div n \in 0 .. 3
OBVIOUS

\* The tracks above and those tied with m are among the ranked, so the quartile
\* of the midrank is one of four.
LEMMA PeerBandIsABand ==
    ASSUME TablesAreSound, NEW w, \A m \in Member : w[m] \subseteq DOMAIN label,
           NEW m \in Full(w)
    PROVE  PeerBand(w, m) \in {"Q1", "Q2", "Q3", "Q4"}
<1>. DEFINE A == {k \in Full(w) : Total(w, k) > Total(w, m)}
            T == {k \in Full(w) : Total(w, k) = Total(w, m)}
            n == Cardinality(Full(w))
            above == Cardinality(A)
            tied == Cardinality(T)
            twice == 2 * above + tied - 1
<1>1. IsFiniteSet(Full(w)) /\ Full(w) \subseteq Member
    <2>1. Full(w) \in SUBSET Member
        BY DEF Full
    <2>. QED BY <2>1, WeightsAssumption, FS_Subset
<1>2. \A k \in Full(w) : Total(w, k) \in Int
    BY <1>1, TotalIsInt
<1>3. A \subseteq Full(w) /\ T \subseteq Full(w) /\ A \cap T = {} /\ m \in T
    BY <1>2
<1>. HIDE DEF A, T
<1>4. IsFiniteSet(A) /\ IsFiniteSet(T) /\ IsFiniteSet(A \cup T)
    BY <1>1, <1>3, FS_Subset
<1>5. n \in Nat /\ above \in Nat /\ tied \in Nat /\ Cardinality(A \cup T) \in Nat
    BY <1>1, <1>4, FS_CardinalityType
<1>6. tied # 0
    BY <1>3, <1>4, FS_EmptySet
<1>7. Cardinality(A \cup T) = above + tied
    <2>1. Cardinality(A \cup T) = above + tied - Cardinality(A \cap T)
        BY <1>4, FS_Union
    <2>2. Cardinality(A \cap T) = 0
        BY <1>3, FS_EmptySet
    <2>. QED BY <1>5, <2>1, <2>2
<1>8. Cardinality(A \cup T) <= n
    <2>1. A \cup T \in SUBSET Full(w)
        BY <1>3
    <2>. QED BY <1>1, <2>1, FS_Subset
<1>9. above + tied <= n /\ n > 0
    BY <1>5, <1>6, <1>7, <1>8
<1>10. PeerBand(w, m) =
         IF tied = n THEN "Q2"
         ELSE IF n = 3 THEN (IF twice = 0 THEN "Q1" ELSE IF twice = 4 THEN "Q4" ELSE "Q2")
         ELSE <<"Q1", "Q2", "Q3", "Q4">>[(twice * 2) \div n + 1]
    BY DEF PeerBand, A, T
<1>. HIDE DEF n, above, tied
<1>11. twice \in Nat /\ twice * 2 \in Nat /\ twice * 2 < 4 * n
    BY <1>5, <1>6, <1>9
<1>. HIDE DEF twice
<1>12. (twice * 2) \div n \in 0 .. 3
    <2>. DEFINE x == twice * 2
    <2>1. x \in Nat /\ x < 4 * n
        BY <1>11
    <2>. HIDE DEF x
    <2>2. x \div n \in 0 .. 3
        BY <1>5, <1>9, <2>1, QuotientBelowFour
    <2>. QED BY <2>2 DEF x
<1>13. (twice * 2) \div n + 1 \in 1 .. 4
    BY <1>12
<1>14. \A i \in 1 .. 4 : <<"Q1", "Q2", "Q3", "Q4">>[i] \in {"Q1", "Q2", "Q3", "Q4"}
    OBVIOUS
<1>15. <<"Q1", "Q2", "Q3", "Q4">>[(twice * 2) \div n + 1] \in {"Q1", "Q2", "Q3", "Q4"}
    BY <1>13, <1>14, Zenon
<1>. QED BY <1>10, <1>15, Zenon

\* The checkpoints of a job have their type.
LEMMA RowsAreCheckpoints ==
    ASSUME TablesAreSound, NEW j \in JobRecord,
           \A m \in Member : j.window[m] \subseteq DOMAIN label
    PROVE  Rows(j) \subseteq Checkpoint
<1>. SUFFICES ASSUME NEW m \in Member
              PROVE  [of |-> m, cutoff |-> j.cutoff, window |-> j.window[m], rev |-> j.rev,
                      band |-> Band(j.window, m)] \in Checkpoint
    BY DEF Rows
<1>1. Band(j.window, m) \in {"Q1", "Q2", "Q3", "Q4", None}
    <2>1. SelfBand(j.window, m) \in {"Q1", "Q2", "Q3", "Q4"}
        BY DEF SelfBand
    <2>2. m \in Full(j.window) => PeerBand(j.window, m) \in {"Q1", "Q2", "Q3", "Q4"}
        BY PeerBandIsABand
    <2>. QED BY <2>1, <2>2 DEF Band
<1>2. j.cutoff \in Day /\ j.window[m] \in SUBSET Index /\ j.rev \in Revision
    BY DEF JobRecord
<1>. QED BY <1>1, <1>2 DEF Checkpoint

-------------------------------------------------------------------------------
(* The types, step by step. *)

LEMMA InitIsSound ==
    ASSUME Init
    PROVE  Inv
<1>1. TablesAreSound
    BY WeightsAssumption DEF Init, TablesAreSound, Day
<1>2. JobsAreSound
    BY WeightsAssumption DEF Init, JobsAreSound
<1>3. BatchesAreDecided
    BY WeightsAssumption DEF Init, BatchesAreDecided, Published
<1>4. WindowsAreKnown /\ evaluated \subseteq Checkpoint
    BY DEF Init, WindowsAreKnown
<1>. QED BY <1>1, <1>2, <1>3, <1>4 DEF Inv

LEMMA SnapshotIsSound ==
    ASSUME TablesAreSound, NEW d \in CycleDay
    PROVE  Snapshot(d) \in SnapshotRecord
<1>. DEFINE K == {i \in Published : batches[i].stamp <= d}
<1>1. batches \in Seq(BatchRecord) /\ Len(batches) \in Nat /\ Len(batches) <= MaxBatches
    BY DEF TablesAreSound
<1>2. K \subseteq 1 .. Len(batches)
    BY <1>1 DEF Published
<1>3. \A i \in K : batches[i].cutoff \in Day
    BY <1>1, <1>2, BatchShape
<1>. HIDE DEF K
<1>4. \A m \in Member : Current(m, d, K) \in 0 .. Len(batches)
    BY <1>1, <1>2, <1>3, CurrentIsNewest, CurrentIsOfBatches
<1>5. 0 .. Len(batches) \subseteq 0 .. MaxBatches
    BY <1>1, WeightsAssumption
<1>6. Weights(d) \in [Member -> 0 .. MaxBatches]
    BY <1>4, <1>5, Zenon DEF Weights, K
<1>7. {e \in Accepted : e < d} \subseteq CycleDay
    BY DEF Accepted, InState
<1>. QED BY <1>6, <1>7 DEF Snapshot, SnapshotRecord

LEMMA PreparedIsSound ==
    ASSUME TablesAreSound, JobsAreSound, NEW p \in Publisher, Prepare(p)
    PROVE  job'[p] # None /\ job'[p] \in JobRecord /\ job'[p].batch \in BatchRecord
           /\ job'[p].op = job[p].op /\ job'[p].cutoff = job[p].cutoff
<1>. DEFINE j == job[p]
            B == [cutoff |-> j.cutoff, window |-> j.window, moved |-> Moved(j.window),
                  previous |-> PreviousAt(j.cutoff), stamp |-> now]
<1>1. j \in JobRecord /\ j.cutoff \in Slot
    BY DEF Prepare, AtWrite, JobsAreSound
<1>2. j.window \in [Member -> SUBSET Index]
    BY <1>1 DEF JobRecord
<1>3. Moved(j.window) \subseteq Member
    BY DEF Moved, Full
<1>4. PreviousAt(j.cutoff) \in [Member -> 0 .. MaxBatches]
    <2>1. batches \in Seq(BatchRecord) /\ Len(batches) \in Nat /\ Len(batches) <= MaxBatches
        BY DEF TablesAreSound
    <2>2. Published \subseteq 1 .. Len(batches) /\ \A i \in Published : batches[i].cutoff \in Day
        BY <2>1, BatchShape DEF Published
    <2>3. \A m \in Member : Current(m, j.cutoff, Published) \in 0 .. Len(batches)
        BY <2>1, <2>2, CurrentIsNewest, CurrentIsOfBatches
    <2>4. 0 .. Len(batches) \subseteq 0 .. MaxBatches
        BY <2>1, WeightsAssumption
    <2>. QED BY <2>3, <2>4, Zenon DEF PreviousAt
<1>5. now \in Day
    BY DEF TablesAreSound
<1>6. B \in BatchRecord
    BY <1>1, <1>2, <1>3, <1>4, <1>5 DEF BatchRecord
<1>. HIDE DEF B
<1>7. job'[p] = [j EXCEPT !.batch = B]
    BY DEF Prepare, JobsAreSound, B
<1>8. job'[p] \in JobRecord
    BY <1>1, <1>6, <1>7 DEF JobRecord
<1>9. job'[p].batch = B /\ job'[p].op = j.op /\ job'[p].cutoff = j.cutoff
    BY <1>1, <1>7 DEF JobRecord
<1>. QED BY <1>6, <1>8, <1>9, WeightsAssumption

LEMMA TypesStep ==
    ASSUME TablesAreSound, JobsAreSound, [Next]_vars
    PROVE  TablesAreSound' /\ JobsAreSound'
<1>1. CASE UNCHANGED vars
    BY <1>1 DEF vars, TablesAreSound, JobsAreSound
<1>2. CASE Tick
    BY <1>2, WeightsAssumption DEF Tick, TablesAreSound, JobsAreSound, Day
<1>3. ASSUME NEW m \in Member, NEW due \in Day, NEW matured \in Day, NEW s \in Score[m],
             Mature(m, due, matured, s)
      PROVE  TablesAreSound' /\ JobsAreSound'
    <2>1. [of |-> m, due |-> due, matured |-> matured, score |-> s] \in LabelRecord
        BY DEF LabelRecord
    <2>2. label' \in Seq(LabelRecord) /\ Len(label') <= MaxLabels
        BY <1>3, <2>1, WeightsAssumption DEF Mature, TablesAreSound
    <2>. QED BY <1>3, <2>2 DEF Mature, TablesAreSound, JobsAreSound
<1>4. ASSUME NEW p \in Publisher, NEW r \in Revision, NEW q \in Asked, Read(p, r, q[1], q[2])
      PROVE  TablesAreSound' /\ JobsAreSound'
    <2>. DEFINE new == [rev |-> r, cutoff |-> q[2], op |-> q[1],
                        window |-> [m \in Member |-> Window(m, q[2])], batch |-> None]
    <2>1. [m \in Member |-> Window(m, q[2])] \in [Member -> SUBSET Index]
        BY WindowIsOfIndices
    <2>2. new \in JobRecord
        BY <2>1, WeightsAssumption DEF JobRecord
    <2>3. new.op = "PUBLISH" => new.cutoff \in Slot
        BY <1>4 DEF Read
    <2>4. new.batch = None
        OBVIOUS
    <2>. HIDE DEF new
    <2>5. job' = [job EXCEPT ![p] = new]
        BY <1>4 DEF Read, new
    <2>6. UNCHANGED <<now, label, evaluated, batches, lock, cycle>> /\ job[p] = None
        BY <1>4 DEF Read
    <2>7. JobsAreSound'
        BY <2>2, <2>3, <2>4, <2>5, <2>6, WeightsAssumption DEF JobsAreSound
    <2>. QED BY <2>6, <2>7 DEF TablesAreSound
<1>5. ASSUME NEW p \in Publisher, Collide(p) \/ Refresh(p)
      PROVE  TablesAreSound' /\ JobsAreSound'
    <2>1. UNCHANGED <<now, label, batches, lock, cycle>> /\ job' = [job EXCEPT ![p] = None] /\ lock = None
        BY <1>5 DEF Collide, Refresh, AtWrite, Leave
    <2>2. JobsAreSound'
        BY <2>1, WeightsAssumption DEF JobsAreSound
    <2>. QED BY <2>1, <2>2 DEF TablesAreSound
<1>6. ASSUME NEW p \in Publisher, Prepare(p)
      PROVE  TablesAreSound' /\ JobsAreSound'
    <2>1. UNCHANGED <<now, label, evaluated, batches, cycle>> /\ lock = None /\ lock' = p
        /\ Len(batches) < MaxBatches
        BY <1>6 DEF Prepare, AtWrite
    <2>2. job'[p] # None /\ job'[p] \in JobRecord /\ job'[p].batch \in BatchRecord
           /\ job'[p].op = job[p].op /\ job'[p].cutoff = job[p].cutoff
        BY <1>6, PreparedIsSound
    <2>3. job' \in [Publisher -> {None} \cup JobRecord] /\ \A q \in Publisher \ {p} : job'[q] = job[q]
        BY <1>6, <2>2 DEF Prepare, JobsAreSound
    <2>4. job[p] # None
        BY <1>6 DEF Prepare, AtWrite
    <2>5. JobsAreSound'
        BY <2>1, <2>2, <2>3, <2>4, <1>6, WeightsAssumption DEF JobsAreSound, Prepare
    <2>. QED BY <2>1, <2>5 DEF TablesAreSound
<1>7. ASSUME NEW p \in Publisher, Commit(p)
      PROVE  TablesAreSound' /\ JobsAreSound'
    <2>1. job[p] \in JobRecord /\ job[p].batch \in BatchRecord /\ Len(batches) < MaxBatches
        BY <1>7, WeightsAssumption DEF Commit, JobsAreSound, JobRecord
    <2>2. batches' \in Seq(BatchRecord) /\ Len(batches') <= MaxBatches
        BY <1>7, <2>1, WeightsAssumption DEF Commit, TablesAreSound
    <2>3. job' = [job EXCEPT ![p] = None] /\ lock = p /\ lock' = None /\ UNCHANGED <<now, label, cycle>>
        BY <1>7 DEF Commit, Leave
    <2>4. JobsAreSound'
        BY <2>3, WeightsAssumption DEF JobsAreSound
    <2>. QED BY <2>2, <2>3, <2>4 DEF TablesAreSound
<1>8. ASSUME NEW p \in Publisher, Die(p)
      PROVE  TablesAreSound' /\ JobsAreSound'
    <2>1. /\ job' = [job EXCEPT ![p] = None] /\ job[p] # None
          /\ lock' = IF lock = p THEN None ELSE lock
          /\ UNCHANGED <<now, label, batches, cycle>>
        BY <1>8 DEF Die, Leave
    <2>2. JobsAreSound'
        BY <2>1, WeightsAssumption DEF JobsAreSound
    <2>. QED BY <2>1, <2>2 DEF TablesAreSound
<1>9. ASSUME NEW d \in CycleDay, PrepareCycle(d) \/ AcceptCycle(d)
      PROVE  TablesAreSound' /\ JobsAreSound'
    <2>. DEFINE Rec == [pc : {"idle", "running", "accepted", "refused"}, seen : {None} \cup SnapshotRecord]
    <2>1. Snapshot(d) \in SnapshotRecord
        BY SnapshotIsSound
    <2>2. PICK x \in Rec : cycle' = [cycle EXCEPT ![d] = x]
        <3>1. CASE PrepareCycle(d)
            <4>1. cycle' = [cycle EXCEPT ![d] = [pc |-> "running", seen |-> Snapshot(d)]]
                BY <3>1, Zenon DEF PrepareCycle
            <4>2. [pc |-> "running", seen |-> Snapshot(d)] \in Rec
                BY <2>1
            <4>. QED BY <4>1, <4>2, Zenon
        <3>2. CASE AcceptCycle(d)
            <4>1. PICK v \in {"accepted", "refused"} :
                      cycle' = [cycle EXCEPT ![d] = [pc |-> v, seen |-> None]]
                BY <3>2 DEF AcceptCycle
            <4>2. [pc |-> v, seen |-> None] \in Rec
                BY <4>1
            <4>. QED BY <4>1, <4>2, Zenon
        <3>. QED BY <1>9, <3>1, <3>2
    <2>. HIDE DEF Rec
    <2>3. UNCHANGED <<now, label, evaluated, batches, lock, job>>
        BY <1>9 DEF PrepareCycle, AcceptCycle
    <2>4. cycle' \in [CycleDay -> Rec]
        BY <2>2 DEF TablesAreSound, Rec
    <2>. QED BY <2>3, <2>4 DEF TablesAreSound, JobsAreSound, Rec
<1>. QED BY <1>1, <1>2, <1>3, <1>4, <1>5, <1>6, <1>7, <1>8, <1>9 DEF Next

\* Checkpoints are written by a refresh and by a commit.
LEMMA CheckpointsStep ==
    ASSUME Inv, [Next]_vars
    PROVE  evaluated' \subseteq Checkpoint
<1>1. ASSUME NEW p \in Publisher, job[p] # None
      PROVE  Rows(job[p]) \subseteq Checkpoint
    BY <1>1, RowsAreCheckpoints DEF Inv, JobsAreSound, WindowsAreKnown
<1>2. \/ evaluated' = evaluated
      \/ \E p \in Publisher : job[p] # None /\ evaluated' = evaluated \cup Rows(job[p])
    <2>1. ASSUME NEW p \in Publisher, Refresh(p)
          PROVE  job[p] # None /\ evaluated' = evaluated \cup Rows(job[p])
        BY <2>1 DEF Refresh, AtWrite
    <2>2. ASSUME NEW p \in Publisher, Commit(p)
          PROVE  job[p] # None /\ evaluated' = evaluated \cup Rows(job[p])
        BY <2>2 DEF Commit, Inv, JobsAreSound
    <2>. QED BY <2>1, <2>2 DEF Next, vars, Tick, Mature, Read, Collide, Prepare, Die,
                               PrepareCycle, AcceptCycle
<1>. QED BY <1>1, <1>2 DEF Inv

\* A window is read from the labels there are, and labels stay.
LEMMA WindowsStep ==
    ASSUME Inv, [Next]_vars
    PROVE  WindowsAreKnown'
<1>1. DOMAIN label \subseteq DOMAIN label'
    <2>1. label \in Seq(LabelRecord) /\ Len(label) \in Nat
        BY DEF Inv, TablesAreSound
    <2>2. label' = label \/ \E x : label' = Append(label, x)
        BY DEF Next, vars, Tick, Mature, Read, Collide, Refresh, Prepare, Commit, Die,
               PrepareCycle, AcceptCycle
    <2>. QED BY <2>1, <2>2
<1>2. ASSUME NEW q \in Publisher, job'[q] # None
      PROVE  \/ job[q] # None /\ job'[q].window = job[q].window
             \/ \E c : job'[q].window = [m \in Member |-> Window(m, c)]
    <2>0. job \in [Publisher -> {None} \cup JobRecord]
        BY DEF Inv, JobsAreSound
    <2>1. CASE job' = job
        BY <1>2, <2>1
    <2>2. ASSUME NEW p \in Publisher, job' = [job EXCEPT ![p] = None]
          PROVE  job[q] # None /\ job'[q].window = job[q].window
        BY <1>2, <2>0, <2>2
    <2>3. ASSUME NEW p \in Publisher, NEW r \in Revision, NEW x \in Asked, Read(p, r, x[1], x[2])
          PROVE  \/ job[q] # None /\ job'[q].window = job[q].window
                 \/ \E c : job'[q].window = [m \in Member |-> Window(m, c)]
        <3>1. CASE q = p
            <4>1. job'[q].window = [m \in Member |-> Window(m, x[2])]
                BY <2>0, <2>3, <3>1 DEF Read
            <4>. QED BY <4>1
        <3>2. CASE q # p
            BY <1>2, <2>0, <2>3, <3>2 DEF Read
        <3>. QED BY <3>1, <3>2
    <2>4. ASSUME NEW p \in Publisher, Prepare(p)
          PROVE  job[q] # None /\ job'[q].window = job[q].window
        <3>1. CASE q = p
            <4>1. PICK b : job' = [job EXCEPT ![p].batch = b]
                BY <2>4 DEF Prepare
            <4>2. job[p] # None /\ job[p] \in JobRecord
                BY <2>0, <2>4 DEF Prepare, AtWrite
            <4>3. job'[p].window = job[p].window
                BY <2>0, <4>1, <4>2 DEF JobRecord
            <4>. QED BY <3>1, <4>2, <4>3
        <3>2. CASE q # p
            BY <1>2, <2>0, <2>4, <3>2 DEF Prepare
        <3>. QED BY <3>1, <3>2
    <2>. QED BY <2>1, <2>2, <2>3, <2>4 DEF Next, vars, Tick, Mature, Collide, Refresh, Commit,
                                         Die, Leave, PrepareCycle, AcceptCycle
<1>3. \A m, c : Window(m, c) \subseteq DOMAIN label
    BY DEF Window, Eligible
<1>4. ASSUME NEW q \in Publisher, job'[q] # None, NEW m \in Member
      PROVE  job'[q].window[m] \subseteq DOMAIN label'
    <2>1. CASE job[q] # None /\ job'[q].window = job[q].window
        BY <1>1, <2>1 DEF Inv, WindowsAreKnown
    <2>2. CASE \E c : job'[q].window = [k \in Member |-> Window(k, c)]
        <3>1. PICK c : job'[q].window[m] = Window(m, c)
            BY <2>2
        <3>. QED BY <1>1, <1>3, <3>1
    <2>. QED BY <1>2, <1>4, <2>1, <2>2
<1>. QED BY <1>4 DEF WindowsAreKnown

-------------------------------------------------------------------------------
(* Decisions, step by step. *)

\* A batch decided on the first n batches stays so when one more is committed.
LEMMA DecidedOfPrefix ==
    ASSUME NEW bs \in Seq(BatchRecord), NEW b \in BatchRecord, NEW x \in BatchRecord,
           NEW n \in 0 .. Len(bs), Decided(x, bs, n)
    PROVE  Decided(x, Append(bs, b), n)
<1>. DEFINE cs == Append(bs, b)
<1>1. 1 .. n \subseteq DOMAIN bs /\ \A i \in 1 .. n : cs[i] = bs[i]
    OBVIOUS
<1>2. \A m \in Member : CurrentOf(cs, m, x.cutoff, 1 .. n) = CurrentOf(bs, m, x.cutoff, 1 .. n)
    BY <1>1, CurrentOfPrefix
<1>. HIDE DEF cs
<1>3. BuildsOn(x, cs, n)
    BY <1>2, Zenon DEF Decided, BuildsOn
<1>4. \A i \in 1 .. n : Newest(cs, 1 .. n, i) <=> Newest(bs, 1 .. n, i)
    BY <1>1 DEF Newest
<1>5. HasNews(x, cs, n)
    BY <1>1, <1>4, Zenon DEF Decided, HasNews
<1>. QED BY <1>3, <1>5, Zenon DEF Decided, cs

\* What a publication decides under the lock, it decides on what is committed.
LEMMA PreparedIsDecided ==
    ASSUME TablesAreSound, JobsAreSound, NEW p \in Publisher, Prepare(p)
    PROVE  Decided(job'[p].batch, batches, Len(batches))
<1>. DEFINE j == job[p]
            B == [cutoff |-> j.cutoff, window |-> j.window, moved |-> Moved(j.window),
                  previous |-> PreviousAt(j.cutoff), stamp |-> now]
            n == Len(batches)
<1>1. j \in JobRecord
    BY DEF Prepare, AtWrite, JobsAreSound
<1>2. job'[p].batch = B
    <2>. HIDE DEF B
    <2>1. job'[p] = [j EXCEPT !.batch = B]
        BY DEF Prepare, JobsAreSound, B
    <2>. QED BY <1>1, <2>1 DEF JobRecord
<1>3. batches \in Seq(BatchRecord) /\ n \in Nat /\ Published = 1 .. n
    BY DEF TablesAreSound, Published
<1>4. \A i \in 1 .. n :
          batches[i].cutoff \in Day /\ \A m \in Member : batches[i].window[m] \subseteq Index
    BY <1>3, BatchShape
<1>5. BuildsOn(B, batches, n)
    BY <1>3, CurrentIsOfBatches, Zenon DEF PreviousAt, BuildsOn
<1>6. HasNews(B, batches, n)
    <2>1. SUFFICES ASSUME B.moved # {}
                   PROVE  \E m \in Member :
                            /\ MaxSeq(B.window[m]) > 0
                            /\ \A i \in 1 .. n : Newest(batches, 1 .. n, i) =>
                                 MaxSeq(B.window[m]) > MaxSeq(batches[i].window[m])
        BY Zenon DEF HasNews
    <2>2. PICK m \in Member : MaxSeq(j.window[m]) > Consumed(m)
        BY <2>1 DEF Moved
    <2>3. MaxSeq(j.window[m]) \in Nat
        BY <1>1, MaxSeqBounds DEF JobRecord
    <2>. DEFINE last == {i \in Published : \A k \in Published :
                    batches[k].cutoff < batches[i].cutoff
                    \/ (batches[k].cutoff = batches[i].cutoff /\ k <= i)}
    <2>4. \A i : i \in last <=> Newest(batches, 1 .. n, i)
        BY <1>3, Zenon DEF Newest
    <2>5. Consumed(m) = IF last = {} THEN 0 ELSE MaxSeq(batches[CHOOSE i \in last : TRUE].window[m])
        BY Zenon DEF Consumed
    <2>. HIDE DEF last
    <2>6. CASE last = {}
        BY <2>2, <2>4, <2>5, <2>6
    <2>7. CASE last # {}
        <3>1. PICK l \in last : l = CHOOSE i \in last : TRUE
            BY <2>7, Zenon
        <3>2. Consumed(m) = MaxSeq(batches[l].window[m])
            BY <2>5, <2>7, <3>1, Zenon
        <3>3. l \in 1 .. n /\ Newest(batches, 1 .. n, l)
            BY <2>4, <3>1 DEF Newest
        <3>4. \A i \in 1 .. n : Newest(batches, 1 .. n, i) => i = l
            <4>1. 1 .. n \subseteq Nat /\ \A i \in 1 .. n : batches[i].cutoff \in Int
                BY <1>4, WeightsAssumption DEF Day
            <4>. QED BY <3>3, <4>1, NewestIsUnique, Zenon
        <3>5. MaxSeq(batches[l].window[m]) \in Nat
            BY <1>4, <3>3, MaxSeqBounds
        <3>. QED BY <2>2, <2>3, <3>2, <3>4, <3>5
    <2>. QED BY <2>6, <2>7
<1>. QED BY <1>2, <1>5, <1>6 DEF Decided

LEMMA DecisionsStep ==
    ASSUME Inv, [Next]_vars
    PROVE  BatchesAreDecided'
<1>. USE DEF Inv
<1>1. CASE UNCHANGED <<batches, lock>> /\ \A p \in Publisher : lock = p => job'[p] = job[p]
    BY <1>1 DEF BatchesAreDecided, Published
<1>2. CASE batches' = batches /\ lock' = None
    BY <1>2, WeightsAssumption DEF BatchesAreDecided, Published
<1>3. ASSUME NEW p \in Publisher, Prepare(p)
      PROVE  BatchesAreDecided'
    <2>1. batches' = batches /\ lock' = p
        BY <1>3 DEF Prepare
    <2>2. Decided(job'[p].batch, batches, Len(batches))
        BY <1>3, PreparedIsDecided
    <2>. QED BY <2>1, <2>2 DEF BatchesAreDecided, Published
<1>4. ASSUME NEW p \in Publisher, Commit(p)
      PROVE  BatchesAreDecided'
    <2>. DEFINE b == job[p].batch
                n == Len(batches)
    <2>1. b \in BatchRecord /\ Decided(b, batches, n)
        BY <1>4, WeightsAssumption DEF Commit, JobsAreSound, JobRecord, BatchesAreDecided
    <2>2. batches \in Seq(BatchRecord) /\ n \in Nat /\ Published = 1 .. n
        BY DEF TablesAreSound, Published
    <2>3. batches' = Append(batches, b) /\ lock' = None
        BY <1>4 DEF Commit
    <2>. HIDE DEF b
    <2>4. ASSUME NEW k \in 1 .. n + 1
          PROVE  Decided(batches'[k], batches', k - 1)
        <3>1. k - 1 \in 0 .. n
            BY <2>2
        <3>2. PICK x \in BatchRecord : x = batches'[k] /\ Decided(x, batches, k - 1)
            <4>1. CASE k = n + 1
                <5>1. batches'[k] = b /\ k - 1 = n
                    BY <2>2, <2>3, <4>1
                <5>. QED BY <2>1, <5>1
            <4>2. CASE k # n + 1
                <5>1. k \in Published /\ batches'[k] = batches[k] /\ batches[k] \in BatchRecord
                    BY <2>2, <2>3, <4>2
                <5>. QED BY <5>1 DEF BatchesAreDecided
            <4>. QED BY <4>1, <4>2
        <3>. QED BY <2>1, <2>2, <2>3, <3>1, <3>2, DecidedOfPrefix
    <2>5. Published' = 1 .. n + 1
        BY <2>2, <2>3 DEF Published
    <2>. QED BY <2>3, <2>4, <2>5, WeightsAssumption, Zenon DEF BatchesAreDecided
<1>5. CASE UNCHANGED vars
    BY <1>1, <1>5 DEF vars
<1>6. CASE Tick
    BY <1>1, <1>6 DEF Tick
<1>7. ASSUME NEW m \in Member, NEW due \in Day, NEW matured \in Day, NEW s \in Score[m],
             Mature(m, due, matured, s)
      PROVE  BatchesAreDecided'
    BY <1>1, <1>7 DEF Mature
<1>8. ASSUME NEW p \in Publisher, NEW r \in Revision, NEW q \in Asked, Read(p, r, q[1], q[2])
      PROVE  BatchesAreDecided'
    BY <1>1, <1>8 DEF Read, JobsAreSound
<1>9. ASSUME NEW p \in Publisher, Collide(p) \/ Refresh(p)
      PROVE  BatchesAreDecided'
    BY <1>2, <1>9 DEF Collide, Refresh, AtWrite
<1>10. ASSUME NEW p \in Publisher, Die(p)
      PROVE  BatchesAreDecided'
    BY <1>1, <1>2, <1>10 DEF Die, Leave, JobsAreSound
<1>11. ASSUME NEW d \in CycleDay, PrepareCycle(d) \/ AcceptCycle(d)
      PROVE  BatchesAreDecided'
    BY <1>1, <1>11 DEF PrepareCycle, AcceptCycle
<1>. QED BY <1>3, <1>4, <1>5, <1>6, <1>7, <1>8, <1>9, <1>10, <1>11 DEF Next

\* The invariant holds in every reachable state.
THEOREM WeightsInvariant == Spec => []Inv
<1>1. Init => Inv
    BY InitIsSound
<1>2. Inv /\ [Next]_vars => Inv'
    BY TypesStep, WindowsStep, DecisionsStep, CheckpointsStep DEF Inv
<1>. QED BY <1>1, <1>2, PTL DEF Spec

-------------------------------------------------------------------------------
(* The properties. *)

\* Every table holds rows of its own shape; the band of a checkpoint is one of
\* the four, whatever the scores and the number of peers.
THEOREM WeightsTyped == Spec => []TypeOK
<1>1. Inv => TypeOK
    BY DEF Inv, TablesAreSound, JobsAreSound, LabelRecord, Checkpoint, TypeOK, Day
<1>. QED BY <1>1, WeightsInvariant, PTL

\* For any publishers and windows, two updates start from the same weights only
\* if the later one was published for an earlier slot.
THEOREM UpdatesAreNotLost == Spec => []ForksAreBackdated
<1>1. Inv => ForksAreBackdated
    BY NoForks DEF Inv
<1>. QED BY <1>1, WeightsInvariant, PTL

\* As long as slots are published in order, no score moves the weights twice.
THEOREM ScoresAreAppliedOnce == Spec => []ScoreMovesOnce
<1>1. Inv => ScoreMovesOnce
    BY ScoresMoveOnce DEF Inv
<1>. QED BY <1>1, WeightsInvariant, PTL

\* A batch stamped or effective after day d leaves the weights of d alone.
LEMMA LaterBatchLeaves ==
    ASSUME TablesAreSound, NEW b \in BatchRecord, batches' = Append(batches, b),
           NEW d, ~ (b.stamp <= d /\ b.cutoff <= d)
    PROVE  Weights(d)' = Weights(d)
<1>. DEFINE K == {i \in Published : batches[i].stamp <= d}
            L == {i \in Published' : batches'[i].stamp <= d}
            n == Len(batches)
<1>1. batches \in Seq(BatchRecord) /\ n \in Nat /\ Published = 1 .. n /\ Published' = 1 .. n + 1
    BY DEF TablesAreSound, Published
<1>2. batches'[n + 1] = b /\ \A i \in 1 .. n : batches'[i] = batches[i]
    BY <1>1
<1>3. K \subseteq DOMAIN batches
    BY <1>1
<1>4. L = IF b.stamp <= d THEN K \cup {n + 1} ELSE K
    BY <1>1, <1>2
<1>. HIDE DEF K, L
<1>5. \A m \in Member : CurrentOf(Append(batches, b), m, d, L) = CurrentOf(batches, m, d, K)
    BY <1>1, <1>3, <1>4, CurrentOfPrefix
<1>6. \A m \in Member : Current(m, d, K) = CurrentOf(batches, m, d, K)
    BY CurrentIsOfBatches
<1>7. Weights(d) = [m \in Member |-> Current(m, d, K)]
    BY Zenon DEF Weights, K
<1>8. Weights(d)' = [m \in Member |-> CurrentOf(batches', m, d, L)]
    BY Zenon DEF Weights, Current, CurrentOf, NewestOf, Made, L
<1>9. Weights(d)' = [m \in Member |-> CurrentOf(Append(batches, b), m, d, L)]
    BY <1>8
<1>. QED BY <1>5, <1>6, <1>7, <1>9

\* A step that changes the weights of a day is the commit of a batch that is
\* stamped and effective by that day.
LEMMA WeightsChangeByCommit ==
    ASSUME Inv, [Next]_vars, NEW d, Weights(d)' # Weights(d)
    PROVE  \E p \in Publisher :
              /\ lock = p
              /\ batches' = Append(batches, job[p].batch)
              /\ job[p].batch.stamp <= d /\ job[p].batch.cutoff <= d
<1>1. ASSUME batches' = batches
      PROVE  FALSE
    <2>1. Weights(d) =
            [m \in Member |->
               CurrentOf(batches, m, d, {i \in DOMAIN batches : batches[i].stamp <= d})]
        BY Zenon DEF Weights, Current, CurrentOf, NewestOf, Made, Published
    <2>2. Weights(d)' =
            [m \in Member |->
               CurrentOf(batches', m, d, {i \in DOMAIN batches' : batches'[i].stamp <= d})]
        BY Zenon DEF Weights, Current, CurrentOf, NewestOf, Made, Published
    <2>. QED BY <1>1, <2>1, <2>2, Zenon
<1>2. PICK p \in Publisher : Commit(p)
    BY <1>1 DEF Next, vars, Tick, Mature, Read, Collide, Refresh, Prepare, Die,
                PrepareCycle, AcceptCycle
<1>3. lock = p /\ batches' = Append(batches, job[p].batch)
    BY <1>2 DEF Commit
<1>4. job[p].batch \in BatchRecord
    BY <1>3, WeightsAssumption DEF Inv, JobsAreSound, JobRecord
<1>5. job[p].batch.stamp <= d /\ job[p].batch.cutoff <= d
    BY <1>3, <1>4, LaterBatchLeaves DEF Inv
<1>. QED BY <1>3, <1>5

\* The weights as of a closed day change only by a publication that was stamped
\* before the close.
THEOREM ThePastIsSettled == Spec => PastIsSettled
<1>1. Inv /\ [Next]_vars =>
        [\A d \in 1 .. now - 1 :
            (\A p \in Publisher : lock = p => job[p].batch.stamp > d)
               => Weights(d)' = Weights(d)]_vars
    <2>. SUFFICES ASSUME Inv, [Next]_vars, NEW d \in 1 .. now - 1,
                         \A p \in Publisher : lock = p => job[p].batch.stamp > d,
                         Weights(d)' # Weights(d)
                  PROVE  FALSE
        OBVIOUS
    <2>1. PICK p \in Publisher : lock = p /\ job[p].batch.stamp <= d
        BY WeightsChangeByCommit
    <2>2. job[p].batch \in BatchRecord
        BY <2>1, WeightsAssumption DEF Inv, JobsAreSound, JobRecord
    <2>3. job[p].batch.stamp \in Int /\ d \in Int
        BY <2>2, BatchShape, WeightsAssumption DEF Day, Inv, TablesAreSound
    <2>. QED BY <2>1, <2>3
<1>. QED BY <1>1, WeightsInvariant, PTL DEF Spec, PastIsSettled

\* A running cycle's snapshot changes only by a batch stamped by the close of
\* its day, or by the acceptance of the cycle of an earlier day.
THEOREM PinsAreLostForCause == Spec => PinIsLostForCause
<1>1. Inv /\ [Next]_vars =>
        [\A d \in Running :
           Snapshot(d)' # Snapshot(d)
              => \/ \E e \in Accepted' \ Accepted : e < d
                 \/ /\ Len(batches') > Len(batches)
                    /\ batches'[Len(batches')].stamp <= d
                    /\ batches'[Len(batches')].cutoff <= d]_vars
    <2>. SUFFICES ASSUME Inv, [Next]_vars, NEW d \in Running, Snapshot(d)' # Snapshot(d),
                         ~ \E e \in Accepted' \ Accepted : e < d
                  PROVE  /\ Len(batches') > Len(batches)
                         /\ batches'[Len(batches')].stamp <= d
                         /\ batches'[Len(batches')].cutoff <= d
        OBVIOUS
    <2>1. Accepted \subseteq Accepted'
        <3>1. cycle \in [CycleDay -> [pc : {"idle", "running", "accepted", "refused"},
                                      seen : {None} \cup SnapshotRecord]]
            BY DEF Inv, TablesAreSound
        <3>2. CASE cycle' = cycle
            BY <3>2 DEF Accepted, InState
        <3>3. ASSUME NEW x \in CycleDay, PrepareCycle(x) \/ AcceptCycle(x)
              PROVE  Accepted \subseteq Accepted'
            BY <3>1, <3>3 DEF PrepareCycle, AcceptCycle, Accepted, Running, InState
        <3>. QED BY <3>2, <3>3 DEF Next, vars, Tick, Mature, Read, Collide, Refresh, Prepare,
                                  Commit, Die
    <2>2. {e \in Accepted : e < d}' = {e \in Accepted : e < d}
        BY <2>1
    <2>3. Weights(d)' # Weights(d)
        BY <2>2 DEF Snapshot
    <2>4. PICK p \in Publisher :
              /\ batches' = Append(batches, job[p].batch)
              /\ job[p].batch.stamp <= d /\ job[p].batch.cutoff <= d
        BY <2>3, WeightsChangeByCommit
    <2>5. batches \in Seq(BatchRecord) /\ Len(batches) \in Nat
        BY DEF Inv, TablesAreSound
    <2>. QED BY <2>4, <2>5
<1>. QED BY <1>1, WeightsInvariant, PTL DEF Spec, PinIsLostForCause

===============================================================================
