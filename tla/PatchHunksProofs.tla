-------------------------- MODULE PatchHunksProofs --------------------------
(***************************************************************************)
(* Proofs about PatchHunks.  Lines are counted: a line is in a file at the *)
(* number of lines of the file up to it, and the header of a hunk says how *)
(* many there are in front of the hunk.                                    *)
(***************************************************************************)
EXTENDS PatchHunks, FiniteSetTheorems, FunctionTheorems, SequenceTheorems,
        WellFoundedInduction, TLAPS

-----------------------------------------------------------------------------
\* Least and greatest.

\* Of some natural numbers one is the least.
LEMMA LeastExists ==
    ASSUME NEW T, T \subseteq Nat, T # {}
    PROVE  \E x \in T : \A y \in T : x <= y
<1> DEFINE R == {ss \in Nat \X Nat : ss[1] < ss[2]}
<1>1. IsWellFoundedOn(R, Nat)
  BY NatLessThanWellFounded DEF OpToRel
<1>2. \A x, y \in Nat : y < x => <<y, x>> \in R
  OBVIOUS
<1> HIDE DEF R
<1>3. PICK x \in T : \A y \in T : ~ (<<y, x>> \in R)
  BY <1>1, WFMin
<1>4. \A y \in T : ~(y < x)
  BY <1>2, <1>3
<1> QED BY <1>4

\* Of some natural numbers up to n one is the greatest.
LEMMA GreatestExists ==
    ASSUME NEW n \in Nat, NEW T, T \subseteq 0..n, T # {}
    PROVE  \E x \in T : \A y \in T : x >= y
<1> DEFINE D == {n - x : x \in T}
<1>1. D \subseteq Nat /\ D # {}
  <2>1. \A x \in T : n - x \in Nat /\ n - x \in D
    OBVIOUS
  <2> QED BY <2>1
<1> HIDE DEF D
<1>2. PICK d \in D : \A e \in D : d <= e
  BY <1>1, LeastExists
<1>3. PICK x \in T : d = n - x
  BY DEF D
<1>4. \A y \in T : n - y \in D
  BY DEF D
<1>5. \A y \in T : n - x <= n - y
  BY <1>2, <1>3, <1>4
<1>6. \A y \in T : x >= y
  BY <1>5
<1> QED BY <1>6

\* Min and Max of FiniteSetsExt, where they exist.
LEMMA MinIs ==
    ASSUME NEW T, T \subseteq Nat, T # {}
    PROVE  Min(T) \in T /\ \A y \in T : Min(T) <= y
BY LeastExists DEF Min

LEMMA MaxIs ==
    ASSUME NEW n \in Nat, NEW T, T \subseteq 0..n, T # {}
    PROVE  Max(T) \in T /\ \A y \in T : Max(T) >= y
BY GreatestExists DEF Max

\* Max and Min of two numbers.
LEMMA MaxOfTwo ==
    ASSUME NEW a \in Int, NEW b \in Int
    PROVE  Max({a, b}) = IF a >= b THEN a ELSE b
<1> DEFINE m == IF a >= b THEN a ELSE b
<1>1. m \in {a, b} /\ \A y \in {a, b} : m >= y
  OBVIOUS
<1>2. \A x \in {a, b} : (\A y \in {a, b} : x >= y) => x = m
  OBVIOUS
<1> QED BY <1>1, <1>2 DEF Max

LEMMA MinOfTwo ==
    ASSUME NEW a \in Int, NEW b \in Int
    PROVE  Min({a, b}) = IF a <= b THEN a ELSE b
<1> DEFINE m == IF a <= b THEN a ELSE b
<1>1. m \in {a, b} /\ \A y \in {a, b} : m <= y
  OBVIOUS
<1>2. \A x \in {a, b} : (\A y \in {a, b} : x <= y) => x = m
  OBVIOUS
<1> QED BY <1>1, <1>2 DEF Min

-----------------------------------------------------------------------------
\* Counting.

\* How many members of T lie between a and b.
Among(T, a, b) == Cardinality({k \in a..b : k \in T})

\* How many members a set has between two numbers.
LEMMA AmongFinite ==
    ASSUME NEW T, NEW a \in Int, NEW b \in Int
    PROVE  IsFiniteSet({k \in a..b : k \in T})
<1>1. IsFiniteSet(a..b) /\ {k \in a..b : k \in T} \in SUBSET (a..b)
  BY FS_Interval
<1> QED BY <1>1, FS_Subset

LEMMA AmongNat ==
    ASSUME NEW T, NEW a \in Int, NEW b \in Int
    PROVE  Among(T, a, b) \in Nat
BY AmongFinite, FS_CardinalityType DEF Among

LEMMA AmongZero ==
    ASSUME NEW T, NEW a \in Int, NEW b \in Int
    PROVE  Among(T, a, b) = 0 <=> \A k \in a..b : k \notin T
<1> DEFINE U == {k \in a..b : k \in T}
<1>1. IsFiniteSet(U)
  BY AmongFinite
<1>2. Cardinality(U) = 0 <=> U = {}
  BY <1>1, FS_EmptySet
<1> QED BY <1>2 DEF Among

\* Counts over neighbouring ranges add up.
LEMMA AmongSplit ==
    ASSUME NEW T, NEW a \in Int, NEW m \in Int, NEW b \in Int, a <= m + 1, m <= b
    PROVE  Among(T, a, b) = Among(T, a, m) + Among(T, m + 1, b)
<1> DEFINE U == {k \in a..m : k \in T}
           V == {k \in m + 1..b : k \in T}
<1>1. IsFiniteSet(U) /\ IsFiniteSet(V)
  <2>1. m + 1 \in Int
    OBVIOUS
  <2>2. IsFiniteSet({k \in a..m : k \in T})
    BY AmongFinite
  <2>3. IsFiniteSet({k \in m + 1..b : k \in T})
    BY <2>1, AmongFinite
  <2> QED BY <2>2, <2>3
<1>2. Cardinality(U) \in Nat /\ Cardinality(V) \in Nat
  BY <1>1, FS_CardinalityType
<1>3. U \cap V = {} /\ U \cup V = {k \in a..b : k \in T}
  OBVIOUS
<1>4. Cardinality(U \cup V) = Cardinality(U) + Cardinality(V) - Cardinality(U \cap V)
  BY <1>1, FS_Union
<1>5. Cardinality(U \cap V) = 0
  BY <1>3, FS_EmptySet
<1>6. Cardinality(U \cup V) = Cardinality(U) + Cardinality(V)
  BY <1>2, <1>4, <1>5
<1> QED BY <1>3, <1>6 DEF Among

\* The same pattern somewhere else.
Copied(T, z, U, c) == \A k \in 1..z : k \in T <=> k + (c - 1) \in U

LEMMA AmongFromOne ==
    ASSUME NEW T, NEW U, NEW z \in Int, NEW c \in Int, NEW e \in Int,
           e - c = z - 1, Copied(T, z, U, c)
    PROVE  Among(T, 1, z) = Among(U, c, e)
<1> DEFINE d == c - 1
           S == {k \in 1..z : k \in T}
           R == {k \in c..e : k \in U}
           f == [k \in S |-> k + d]
<1>0. /\ d \in Int /\ \A k \in 1..z : k + d \in c..e
      /\ \A r \in c..e : r - d \in 1..z /\ r - d + d = r
  OBVIOUS
<1>1. IsFiniteSet(S)
  <2>1. S \in SUBSET (1..z) /\ IsFiniteSet(1..z)
    BY FS_Interval
  <2> QED BY <2>1, FS_Subset
<1>2. f \in [S -> R]
  <2>1. \A k \in S : k + d \in R
    BY <1>0 DEF Copied
  <2> QED BY <2>1
<1>3. \A j, k \in S : f[j] = f[k] => j = k
  OBVIOUS
<1>4. \A r \in R : \E k \in S : f[k] = r
  <2>1. \A r \in R : r - d \in S
    BY <1>0 DEF Copied
  <2> QED BY <1>0, <2>1
<1>5. f \in Bijection(S, R)
  <2> HIDE DEF f, S, R
  <2> QED BY <1>2, <1>3, <1>4, Fun_IsBij
<1>6. ExistsBijection(S, R)
  BY <1>5 DEF ExistsBijection
<1>7. Cardinality(R) = Cardinality(S)
  <2> HIDE DEF S, R, f
  <2> QED BY <1>1, <1>6, FS_Bijection
<1> QED BY <1>7 DEF Among

\* Where a set has every number of a range, it has as many as the range is long.
LEMMA AmongAll ==
    ASSUME NEW T, NEW a \in Int, NEW b \in Int, a <= b + 1, a..b \subseteq T
    PROVE  Among(T, a, b) = b - a + 1
<1>1. {k \in a..b : k \in T} = a..b
  OBVIOUS
<1>2. Cardinality(a..b) = b - a + 1
  BY FS_Interval
<1> QED BY <1>1, <1>2 DEF Among

\* The same pattern behind x members.
LEMMA AmongBehind ==
    ASSUME NEW T, NEW U, NEW x \in Int, NEW c \in Int, NEW m \in Int, NEW e \in Int,
           0 <= x, c = x + 1, x <= e, e - c = m - 1, 1..x \subseteq T,
           Copied(U, m, T, c)
    PROVE  Among(T, 1, e) = x + Among(U, 1, m)
<1>1. Among(U, 1, m) = Among(T, c, e)
  BY AmongFromOne
<1>2. Among(T, 1, x) = x
  <2>1. Among(T, 1, x) = x - 1 + 1
    BY AmongAll
  <2> QED BY <2>1
<1>3. Among(T, 1, e) = Among(T, 1, x) + Among(T, c, e)
  BY AmongSplit
<1> QED BY <1>1, <1>2, <1>3

\* The count depends on what is between the two numbers only.
LEMMA AmongSame ==
    ASSUME NEW T, NEW U, NEW a \in Int, NEW b \in Int, \A k \in a..b : k \in T <=> k \in U
    PROVE  Among(T, a, b) = Among(U, a, b)
<1>1. {k \in a..b : k \in T} = {k \in a..b : k \in U}
  OBVIOUS
<1> QED BY <1>1 DEF Among

-----------------------------------------------------------------------------
\* What InOrder makes of a set: a sequence in which every member has its place, the
\* number of members up to it.

\* A member comes at the place that is the number of members up to it.
LEMMA InOrderIs ==
    ASSUME NEW n \in Nat, NEW S, S \subseteq 1..n
    PROVE  /\ IsFiniteSet(S) /\ Cardinality(S) \in 0..n
           /\ InOrder(S) \in Seq(S) /\ Len(InOrder(S)) = Cardinality(S)
           /\ \A i \in 1..Cardinality(S) :
                  InOrder(S)[i] \in S /\ Among(S, 1, InOrder(S)[i]) = i
           /\ \A k \in S : /\ Among(S, 1, k) \in 1..Cardinality(S)
                           /\ InOrder(S)[Among(S, 1, k)] = k
<1> DEFINE c == Cardinality(S)
           f == [k \in S |-> Among(S, 1, k)]
<1>1. IsFiniteSet(S) /\ c \in Nat /\ c <= n
  <2>1. IsFiniteSet(1..n) /\ Cardinality(1..n) = n
    BY FS_Interval
  <2> QED BY <2>1, FS_Subset, FS_CardinalityType
<1>2. \A k \in S : k \in Nat /\ 1 <= k /\ k <= n
  OBVIOUS
<1>3. \A k \in S : f[k] \in 1..c
  <2> SUFFICES ASSUME NEW k \in S
               PROVE  Among(S, 1, k) \in 1..c
    OBVIOUS
  <2>1. k \in Int /\ k \in 1..k
    BY <1>2
  <2>2. Among(S, 1, k) \in Nat /\ (Among(S, 1, k) = 0 <=> \A j \in 1..k : j \notin S)
    BY <2>1, AmongNat, AmongZero
  <2>3. {j \in 1..k : j \in S} \in SUBSET S
    OBVIOUS
  <2>4. Among(S, 1, k) <= c
    BY <1>1, <2>3, FS_Subset DEF Among
  <2> QED BY <1>1, <2>1, <2>2, <2>4
<1>4. ASSUME NEW j \in S, NEW k \in S, j < k
      PROVE  f[j] < f[k]
  <2>1. j \in Int /\ k \in Int /\ 1 <= j + 1 /\ j <= k /\ j + 1 \in Int /\ k \in j + 1..k
    BY <1>2, <1>4
  <2>2. Among(S, 1, k) = Among(S, 1, j) + Among(S, j + 1, k)
    BY <2>1, AmongSplit
  <2>3. Among(S, 1, j) \in Nat
    BY <2>1, AmongNat, AmongZero
  <2>4. /\ Among(S, j + 1, k) \in Nat
        /\ Among(S, j + 1, k) = 0 <=> \A i \in j + 1..k : i \notin S
    BY <2>1, AmongNat, AmongZero
  <2>5. Among(S, j + 1, k) # 0
    BY <2>1, <2>4
  <2> QED BY <2>2, <2>3, <2>4, <2>5
<1>5. \A j, k \in S : f[j] = f[k] => j = k
  <2> SUFFICES ASSUME NEW j \in S, NEW k \in S, f[j] = f[k], j # k
               PROVE  FALSE
    OBVIOUS
  <2>1. j < k \/ k < j
    BY <1>2
  <2>2. f[j] \in Int /\ f[k] \in Int
    BY <1>1, <1>3
  <2> QED BY <1>4, <2>1, <2>2
<1>6. \A i \in 1..c : \E k \in S : f[k] = i
  <2>1. f \in [S -> 1..c]
    BY <1>3
  <2>2. IsFiniteSet(1..c) /\ Cardinality(1..c) = c
    BY <1>1, FS_Interval
  <2> HIDE DEF f
  <2>3. f \in Injection(S, 1..c)
    BY <1>5, <2>1, Fun_IsInj
  <2>4. f \in Surjection(S, 1..c)
    BY <2>2, <2>3, FS_Injection
  <2> QED BY <2>4, Fun_SurjectionProperties
<1>7. InOrder(S) = [i \in 1..c |-> CHOOSE k \in S : f[k] = i]
  <2>1. ASSUME NEW k \in S
        PROVE  {j \in S : j <= k} = {j \in 1..k : j \in S}
    <3> HIDE DEF c, f
    <3>1. \A j \in S : j <= k <=> j \in 1..k
      BY <1>2
    <3> QED BY <3>1
  <2>2. \A k \in S : Cardinality({j \in S : j <= k}) = f[k]
    BY <2>1 DEF Among
  <2>3. ASSUME NEW i \in 1..c
        PROVE  (CHOOSE k \in S : Cardinality({j \in S : j <= k}) = i)
                   = (CHOOSE k \in S : f[k] = i)
    <3> HIDE DEF f
    <3> QED BY <2>2
  <2>4. [i \in 1..c |-> CHOOSE k \in S : Cardinality({j \in S : j <= k}) = i]
            = [i \in 1..c |-> CHOOSE k \in S : f[k] = i]
    <3> DEFINE u(i) == CHOOSE k \in S : Cardinality({j \in S : j <= k}) = i
               v(i) == CHOOSE k \in S : f[k] = i
    <3>1. \A i \in 1..c : u(i) = v(i)
      BY <2>3
    <3> HIDE DEF c, f, u, v
    <3>2. [i \in 1..c |-> u(i)] = [i \in 1..c |-> v(i)]
      BY <3>1
    <3> QED BY <3>2 DEF u, v
  <2> QED BY <2>4 DEF InOrder
<1> HIDE DEF f
<1>8. \A i \in 1..c : InOrder(S)[i] \in S /\ f[InOrder(S)[i]] = i
  BY <1>6, <1>7
<1>9. \A k \in S : InOrder(S)[f[k]] = k
  BY <1>3, <1>5, <1>8
<1>10. InOrder(S) \in [1..c -> S]
  BY <1>7, <1>8
<1>11. InOrder(S) \in Seq(S) /\ Len(InOrder(S)) = c
  <2> HIDE DEF c
  <2>1. InOrder(S) \in Seq(S)
    BY <1>1, <1>10, IsASeq
  <2>2. DOMAIN InOrder(S) = 1..c
    BY <1>10
  <2> QED BY <1>1, <2>1, <2>2, LenProperties
<1>12. \A k \in S : f[k] = Among(S, 1, k)
  BY DEF f
<1>13. \A i \in 1..c : InOrder(S)[i] \in S /\ Among(S, 1, InOrder(S)[i]) = i
  BY <1>8, <1>12
<1>14. \A k \in S : Among(S, 1, k) \in 1..c /\ InOrder(S)[Among(S, 1, k)] = k
  BY <1>3, <1>9, <1>12
<1> QED BY <1>1, <1>11, <1>13, <1>14

-----------------------------------------------------------------------------
\* The files and git's diff of them.

ScriptOK ==
    /\ script \in Seq({" ", "+", "-"}) /\ Len(script) \in 0..MaxLines
    /\ func \in 0..Len(script)

Tags == {" ", "+", "-"}
In(tags) == {k \in Lines : script[k] \in tags}

\* The lines are numbers from 1 on.
LEMMA LinesAre ==
    ASSUME ScriptOK
    PROVE  /\ Len(script) \in Nat /\ Lines = 1..Len(script) /\ Lines \subseteq Int
           /\ \A k \in Lines : script[k] \in Tags
<1>1. script \in Seq({" ", "+", "-"})
  BY DEF ScriptOK
<1>2. Len(script) \in Nat /\ \A k \in 1..Len(script) : script[k] \in Tags
  BY <1>1, LenProperties, ElementOfSeq DEF Tags
<1>3. Lines = 1..Len(script)
  BY DEF Lines
<1>4. Lines \subseteq Int
  BY <1>2, <1>3
<1> QED BY <1>2, <1>3, <1>4

\* Lines of a file are counted by Among.
LEMMA CountIs ==
    ASSUME ScriptOK, NEW tags, NEW a \in Int, NEW b \in Int, 1 <= a, b <= Len(script)
    PROVE  Count(tags, a, b) = Among(In(tags), a, b)
<1>1. \A k \in a..b : k \in Lines
  BY LinesAre
<1>2. \A k \in a..b : script[k] \in tags <=> k \in In(tags)
  BY <1>1 DEF In
<1>3. {k \in a..b : script[k] \in tags} = {k \in a..b : k \in In(tags)}
  BY <1>2
<1> QED BY <1>3 DEF Count, Among

LEMMA CountSplit ==
    ASSUME ScriptOK, NEW tags, NEW a \in Int, NEW m \in Int, NEW p \in Int, NEW b \in Int,
           1 <= a, a <= p, p = m + 1, m <= b, b <= Len(script)
    PROVE  /\ Count(tags, a, b) = Count(tags, a, m) + Count(tags, p, b)
           /\ Count(tags, a, m) \in Nat /\ Count(tags, p, b) \in Nat
<1>1. Len(script) \in Nat /\ m + 1 \in Int /\ 1 <= p /\ m <= Len(script)
  BY LinesAre
<1>2. Count(tags, a, b) = Among(In(tags), a, b)
  BY CountIs
<1>3. Count(tags, a, m) = Among(In(tags), a, m)
  BY <1>1, CountIs
<1>4. Count(tags, p, b) = Among(In(tags), p, b)
  BY <1>1, CountIs
<1>5. Among(In(tags), a, m) \in Nat
  BY AmongNat
<1>6. Among(In(tags), p, b) \in Nat
  BY <1>1, AmongNat
<1>7. Among(In(tags), a, b) = Among(In(tags), a, m) + Among(In(tags), p, b)
  BY AmongSplit
<1> QED BY <1>2, <1>3, <1>4, <1>5, <1>6, <1>7

\* The lines of a file up to b are those up to m and those behind it.
LEMMA CountUpTo ==
    ASSUME ScriptOK, NEW tags, NEW m \in Int, NEW p \in Int, NEW b \in Int,
           1 <= p, p = m + 1, m <= b, b <= Len(script)
    PROVE  /\ Count(tags, 1, b) = Count(tags, 1, m) + Count(tags, p, b)
           /\ Count(tags, 1, m) \in Nat /\ Count(tags, p, b) \in Nat
BY CountSplit

\* A file has the lines with its tags, each at its count.
LEMMA KeptIs ==
    ASSUME ScriptOK, NEW tags
    PROVE  /\ Kept(tags) \in Seq(In(tags)) /\ Len(Kept(tags)) = Count(tags, 1, Len(script))
           /\ Len(Kept(tags)) \in Nat /\ Len(Kept(tags)) <= Len(script)
           /\ \A k \in Lines : script[k] \in tags => IsAt(Kept(tags), Count(tags, 1, k), k)
           /\ \A i \in 1..Len(Kept(tags)) :
                  Kept(tags)[i] \in In(tags) /\ Count(tags, 1, Kept(tags)[i]) = i
<1> DEFINE S == In(tags)
           n == Len(script)
<1>1. n \in Nat /\ Lines = 1..n
  BY LinesAre
<1>2. S \subseteq 1..n
  BY <1>1 DEF In
<1>3. Kept(tags) = InOrder(S)
  BY DEF Kept, In
<1>4. /\ Cardinality(S) \in 0..n
      /\ InOrder(S) \in Seq(S) /\ Len(InOrder(S)) = Cardinality(S)
      /\ \A i \in 1..Cardinality(S) : InOrder(S)[i] \in S /\ Among(S, 1, InOrder(S)[i]) = i
      /\ \A k \in S : Among(S, 1, k) \in 1..Cardinality(S) /\ InOrder(S)[Among(S, 1, k)] = k
  <2> HIDE DEF S, n
  <2> QED BY <1>1, <1>2, InOrderIs
<1>5. \A k \in S : Count(tags, 1, k) = Among(S, 1, k)
  <2> SUFFICES ASSUME NEW k \in S
               PROVE  Count(tags, 1, k) = Among(S, 1, k)
    OBVIOUS
  <2>1. k \in Int /\ k <= n
    BY <1>1, <1>2
  <2> QED BY <2>1, CountIs
<1>6. Cardinality(S) = Count(tags, 1, n)
  <2>1. {k \in 1..n : k \in S} = S
    BY <1>2
  <2>2. Count(tags, 1, n) = Among(S, 1, n)
    BY <1>1, CountIs
  <2> QED BY <2>1, <2>2 DEF Among
<1>7. DOMAIN Kept(tags) = 1..Cardinality(S)
  <2> HIDE DEF S
  <2> QED BY <1>3, <1>4
<1>8. \A k \in Lines : script[k] \in tags => k \in S
  BY DEF In
<1>9. \A k \in Lines : script[k] \in tags => IsAt(Kept(tags), Count(tags, 1, k), k)
  <2> HIDE DEF S
  <2> QED BY <1>3, <1>4, <1>5, <1>7, <1>8 DEF IsAt
<1>10. \A i \in 1..Len(Kept(tags)) : Kept(tags)[i] \in S /\ Count(tags, 1, Kept(tags)[i]) = i
  <2> HIDE DEF S
  <2> QED BY <1>3, <1>4, <1>5
<1> QED BY <1>1, <1>3, <1>4, <1>6, <1>9, <1>10

\* No hunk goes beyond the script.
LEMMA InHunkIs ==
    ASSUME ScriptOK
    PROVE  /\ ~InHunk(0) /\ ~InHunk(Len(script) + 1)
           /\ \A k \in Int : InHunk(k) => k \in Lines
<1>1. 0 \notin Lines /\ Len(script) + 1 \notin Lines
  BY LinesAre
<1> QED BY <1>1 DEF InHunk

\* Lines a to b are all in the hunk, and those around it are not.
Bounds(a, b) ==
    /\ a \in Lines /\ b \in Lines /\ a <= b
    /\ \A k \in a..b : InHunk(k)
    /\ ~InHunk(a - 1) /\ ~InHunk(b + 1)

\* A hunk goes from where it begins to the last line before one that is not in it.
LEMMA HunkEndIs ==
    ASSUME ScriptOK, NEW a \in Lines, InHunk(a), ~InHunk(a - 1)
    PROVE  Bounds(a, HunkEnd(a))
<1> DEFINE n == Len(script)
           E == {k \in Lines : k >= a /\ ~InHunk(k + 1)}
<1>1. n \in Nat /\ Lines = 1..n /\ a \in 1..n
  BY LinesAre
<1>2. n \in E
  BY <1>1, InHunkIs
<1>3. E \subseteq Nat /\ E # {}
  BY <1>1, <1>2
<1>4. Min(E) \in E /\ \A k \in E : Min(E) <= k
  <2> HIDE DEF E
  <2> QED BY <1>3, MinIs
<1>5. HunkEnd(a) = Min(E)
  BY DEF HunkEnd
<1> DEFINE b == Min(E)
<1>6. b \in Lines /\ b >= a /\ ~InHunk(b + 1)
  BY <1>4
<1>7. ASSUME NEW k \in a..b
      PROVE  InHunk(k)
  <2>1. CASE k = a
    BY <2>1
  <2>2. CASE k # a
    <3>1. k - 1 \in Lines /\ k - 1 >= a /\ ~(b <= k - 1) /\ k - 1 + 1 = k
      BY <1>1, <1>6, <2>2
    <3>2. k - 1 \notin E
      BY <1>4, <3>1
    <3> QED BY <3>1, <3>2
  <2> QED BY <2>1, <2>2
<1> HIDE DEF E
<1>8. a <= b
  BY <1>1, <1>6
<1> QED BY <1>5, <1>6, <1>7, <1>8 DEF Bounds

Starts == {k \in Lines : InHunk(k) /\ ~InHunk(k - 1)}

\* Where hunks begin.
LEMMA StartsAre ==
    ASSUME ScriptOK
    PROVE  /\ HunkStarts = InOrder(Starts) /\ Cardinality(Starts) \in 0..Len(script)
           /\ HunkStarts \in Seq(Starts) /\ Len(HunkStarts) = Cardinality(Starts)
           /\ DOMAIN HunkStarts = 1..Len(HunkStarts)
           /\ \A i \in 1..Len(HunkStarts) :
                  HunkStarts[i] \in Starts /\ Among(Starts, 1, HunkStarts[i]) = i
           /\ \A k \in Starts : /\ Among(Starts, 1, k) \in 1..Len(HunkStarts)
                                /\ HunkStarts[Among(Starts, 1, k)] = k
<1>1. Len(script) \in Nat /\ Starts \subseteq 1..Len(script)
  BY LinesAre DEF Starts
<1>2. HunkStarts = InOrder(Starts)
  BY DEF HunkStarts, Starts
<1>3. /\ Cardinality(Starts) \in 0..Len(script)
      /\ InOrder(Starts) \in Seq(Starts) /\ Len(InOrder(Starts)) = Cardinality(Starts)
      /\ \A i \in 1..Cardinality(Starts) :
             InOrder(Starts)[i] \in Starts /\ Among(Starts, 1, InOrder(Starts)[i]) = i
      /\ \A k \in Starts : /\ Among(Starts, 1, k) \in 1..Cardinality(Starts)
                           /\ InOrder(Starts)[Among(Starts, 1, k)] = k
  BY <1>1, InOrderIs
<1>4. DOMAIN InOrder(Starts) = 1..Len(InOrder(Starts))
  BY <1>3
<1> QED BY <1>2, <1>3, <1>4

\* The hunks of the diff.
Begin(i) == HunkStarts[i]
End(i) == HunkEnd(HunkStarts[i])

\* What git shows are the hunks from their beginnings to their ends.
LEMMA HunksAre ==
    ASSUME ScriptOK
    PROVE  /\ Len(GitPatch) \in 0..MaxLines /\ DOMAIN GitPatch = 1..Len(GitPatch)
           /\ Len(GitPatch) = Len(HunkStarts)
           /\ \A i \in 1..Len(GitPatch) :
                  Bounds(Begin(i), End(i)) /\ GitPatch[i] = HunkFrom(Begin(i), End(i))
<1>0. /\ Cardinality(Starts) \in 0..Len(script) /\ Len(HunkStarts) = Cardinality(Starts)
      /\ Len(script) \in 0..MaxLines
  BY StartsAre DEF ScriptOK
<1>1. /\ Len(HunkStarts) \in 0..MaxLines /\ DOMAIN HunkStarts = 1..Len(HunkStarts)
      /\ \A i \in 1..Len(HunkStarts) : HunkStarts[i] \in Starts
  BY <1>0, StartsAre, PatchHunksAssumption
<1>2. GitPatch = [i \in 1..Len(HunkStarts) |-> HunkFrom(Begin(i), End(i))]
  BY <1>1 DEF GitPatch, Begin, End
<1>3. Len(GitPatch) = Len(HunkStarts) /\ DOMAIN GitPatch = 1..Len(HunkStarts)
  BY <1>1, <1>2
<1>4. ASSUME NEW i \in 1..Len(HunkStarts)
      PROVE  Bounds(Begin(i), End(i))
  <2>1. Begin(i) \in Lines /\ InHunk(Begin(i)) /\ ~InHunk(Begin(i) - 1)
    BY <1>1 DEF Begin, Starts
  <2> QED BY <2>1, HunkEndIs DEF Begin, End
<1> QED BY <1>1, <1>2, <1>3, <1>4

\* Every line around a change is in exactly one hunk.
LEMMA HunkOfLine ==
    ASSUME ScriptOK, NEW k \in Lines, InHunk(k)
    PROVE  \E i \in 1..Len(GitPatch) : k \in Begin(i)..End(i)
<1> DEFINE O == {j \in 0..k - 1 : ~InHunk(j)}
<1>1. k \in Nat /\ 1 <= k /\ Lines = 1..Len(script) /\ Len(script) \in Nat
  BY LinesAre
<1>2. O \subseteq 0..k - 1 /\ 0 \in O /\ k - 1 \in Nat
  BY <1>1, InHunkIs
<1>3. PICK e \in O : \A j \in O : e >= j
  <2> HIDE DEF O
  <2> QED BY <1>2, GreatestExists
<1>4. e \in 0..k - 1 /\ ~InHunk(e)
  BY <1>3
<1>5. InHunk(e + 1)
  <2>1. CASE e + 1 = k
    BY <2>1
  <2>2. CASE e + 1 # k
    <3>1. e + 1 \in 0..k - 1 /\ ~(e >= e + 1)
      BY <1>1, <1>4, <2>2
    <3> QED BY <1>3, <3>1
  <2> QED BY <2>1, <2>2
<1>6. e + 1 \in Starts
  <2>1. e + 1 \in Lines /\ e + 1 - 1 = e
    BY <1>1, <1>4
  <2> QED BY <1>4, <1>5, <2>1 DEF Starts
<1>7. PICK i \in 1..Len(GitPatch) : Begin(i) = e + 1
  <2>1. Len(GitPatch) = Len(HunkStarts)
    BY HunksAre
  <2> QED BY <1>6, <2>1, StartsAre DEF Begin
<1>8. Bounds(e + 1, End(i))
  BY <1>7, HunksAre
<1> DEFINE b == End(i)
<1>9. b \in Int /\ ~InHunk(b + 1) /\ e + 1 <= b
  BY <1>1, <1>8 DEF Bounds
<1>10. ~(b < k)
  <2> SUFFICES ASSUME b < k
               PROVE  FALSE
    OBVIOUS
  <2>1. b + 1 # k
    BY <1>9
  <2>2. b + 1 \in 0..k - 1 /\ ~(e >= b + 1)
    BY <1>1, <1>4, <1>9, <2>1
  <2> QED BY <1>3, <1>9, <2>2
<1>11. k \in e + 1..b
  BY <1>1, <1>4, <1>9, <1>10
<1> QED BY <1>7, <1>11

\* No line is in two hunks.
LEMMA HunksAreApart ==
    ASSUME ScriptOK, NEW i \in 1..Len(GitPatch), NEW j \in 1..Len(GitPatch), NEW k \in Lines,
           k \in Begin(i)..End(i), k \in Begin(j)..End(j)
    PROVE  i = j
<1>1. Bounds(Begin(i), End(i)) /\ Bounds(Begin(j), End(j))
  BY HunksAre
<1>2. Begin(i) \in Int /\ End(i) \in Int /\ Begin(j) \in Int /\ End(j) \in Int /\ k \in Int
  BY <1>1, LinesAre DEF Bounds
<1>3. ~(Begin(i) < Begin(j))
  <2> SUFFICES ASSUME Begin(i) < Begin(j)
               PROVE  FALSE
    OBVIOUS
  <2>1. Begin(j) - 1 \in Begin(i)..End(i)
    BY <1>2
  <2> QED BY <1>1, <2>1 DEF Bounds
<1>4. ~(Begin(j) < Begin(i))
  <2> SUFFICES ASSUME Begin(j) < Begin(i)
               PROVE  FALSE
    OBVIOUS
  <2>1. Begin(i) - 1 \in Begin(j)..End(j)
    BY <1>2
  <2> QED BY <1>1, <2>1 DEF Bounds
<1>5. Begin(i) = Begin(j)
  BY <1>2, <1>3, <1>4
<1>6. Len(GitPatch) = Len(HunkStarts)
  BY HunksAre
<1> QED BY <1>5, <1>6, StartsAre DEF Begin

-----------------------------------------------------------------------------
\* What the header of a hunk of the diff says.

StartOf(tags, a, b) == Count(tags, 1, a - 1) + (IF Count(tags, a, b) = 0 THEN 0 ELSE 1)

\* The bounds of a hunk are lines of the script.
LEMMA BoundsAre ==
    ASSUME ScriptOK, NEW a, NEW b, Bounds(a, b)
    PROVE  /\ a \in Int /\ b \in Int /\ 1 <= a /\ a <= b /\ b <= Len(script)
           /\ Len(script) \in Nat
BY LinesAre DEF Bounds

\* What the header and the lines of a hunk are.
LEMMA HunkIs ==
    ASSUME ScriptOK, NEW a, NEW b, Bounds(a, b)
    PROVE  LET h == HunkFrom(a, b)
           IN /\ h.start1 = StartOf(Old, a, b) /\ h.size1 = AsRead(Count(Old, a, b))
              /\ h.start2 = StartOf(New, a, b) /\ h.size2 = AsRead(Count(New, a, b))
              /\ h.section \in 0..Len(script)
              /\ DOMAIN h.lines = 1..b - a + 1 /\ Len(h.lines) = b - a + 1
              /\ h.lines \in Seq([tag : Tags, line : 0..MaxLines])
              /\ \A k \in 1..b - a + 1 :
                    /\ h.lines[k].tag = script[a + k - 1] /\ h.lines[k].line = a + k - 1
                    /\ a + k - 1 \in Lines
<1> DEFINE h == HunkFrom(a, b)
           n == b - a + 1
           x(k) == [tag |-> script[a + k - 1], line |-> a + k - 1]
<1>1. /\ a \in Int /\ b \in Int /\ 1 <= a /\ a <= b /\ b <= Len(script) /\ Len(script) \in Nat
      /\ Lines = 1..Len(script)
  BY BoundsAre, LinesAre
<1>2. /\ h.start1 = StartOf(Old, a, b) /\ h.size1 = AsRead(Count(Old, a, b))
      /\ h.start2 = StartOf(New, a, b) /\ h.size2 = AsRead(Count(New, a, b))
      /\ h.section = IF func < a THEN func ELSE 0
      /\ h.lines = [k \in 1..n |-> x(k)]
  BY DEF HunkFrom, StartOf
<1>3. h.section \in 0..Len(script)
  <2>1. func \in 0..Len(script)
    BY DEF ScriptOK
  <2> HIDE DEF h
  <2> QED BY <1>1, <1>2, <2>1
<1>4. \A k \in 1..n : a + k - 1 \in Lines /\ a + k - 1 \in 0..MaxLines
  <2>1. MaxLines \in Nat
    BY PatchHunksAssumption
  <2>2. Len(script) \in 0..MaxLines
    BY DEF ScriptOK
  <2> QED BY <1>1, <2>1, <2>2
<1>5. \A k \in 1..n : x(k) \in [tag : Tags, line : 0..MaxLines]
  BY <1>4, LinesAre
<1>6. n \in Nat
  BY <1>1
<1>7. h.lines \in [1..n -> [tag : Tags, line : 0..MaxLines]]
  <2> HIDE DEF x, n, h
  <2> QED BY <1>2, <1>5
<1>8. h.lines \in Seq([tag : Tags, line : 0..MaxLines])
  <2> HIDE DEF x, n, h
  <2> QED BY <1>2, <1>5, <1>6, IsASeq
<1>9. DOMAIN h.lines = 1..n /\ Len(h.lines) = n
  <2>1. DOMAIN h.lines = 1..n
    <3> HIDE DEF x, n, h
    <3> QED BY <1>7
  <2> HIDE DEF x, n, h
  <2> QED BY <1>6, <1>8, <2>1, LenProperties
<1>10. \A k \in 1..n : h.lines[k] = x(k)
  <2> HIDE DEF h
  <2> QED BY <1>2
<1>11. \A k \in 1..n : h.lines[k].tag = script[a + k - 1] /\ h.lines[k].line = a + k - 1
  <2>1. \A k : x(k).tag = script[a + k - 1] /\ x(k).line = a + k - 1
    OBVIOUS
  <2> HIDE DEF h, x
  <2> QED BY <1>10, <2>1
<1> HIDE DEF h
<1>12. /\ h.start1 = StartOf(Old, a, b) /\ h.size1 = AsRead(Count(Old, a, b))
       /\ h.start2 = StartOf(New, a, b) /\ h.size2 = AsRead(Count(New, a, b))
       /\ h.section \in 0..Len(script)
       /\ DOMAIN h.lines = 1..b - a + 1 /\ Len(h.lines) = b - a + 1
       /\ h.lines \in Seq([tag : Tags, line : 0..MaxLines])
       /\ \A k \in 1..b - a + 1 :
             /\ h.lines[k].tag = script[a + k - 1] /\ h.lines[k].line = a + k - 1
             /\ a + k - 1 \in Lines
  BY <1>2, <1>3, <1>4, <1>8, <1>9, <1>11
<1> QED BY <1>12 DEF h

\* The lines of a hunk that are in a file.
Tagging(h, tags) == {k \in DOMAIN h.lines : h.lines[k].tag \in tags}

LEMMA InFrontIs ==
    ASSUME NEW h, NEW tags, NEW n \in Nat, DOMAIN h.lines = 1..n, NEW k \in 1..n + 1
    PROVE  InFront(h, tags, k) = Among(Tagging(h, tags), 1, k - 1)
<1>1. \A j \in 1..k - 1 : h.lines[j].tag \in tags <=> j \in Tagging(h, tags)
  BY DEF Tagging
<1>2. {j \in 1..k - 1 : h.lines[j].tag \in tags} = {j \in 1..k - 1 : j \in Tagging(h, tags)}
  BY <1>1
<1> QED BY <1>2 DEF InFront, Among

\* Lines in front of a line of a hunk are those of the script from its beginning on.
LEMMA InFrontOfGiven ==
    ASSUME ScriptOK, NEW a, NEW b, Bounds(a, b), NEW tags, NEW k \in 1..b - a + 2
    PROVE  InFront(HunkFrom(a, b), tags, k) = Count(tags, a, a + k - 2)
<1> DEFINE h == HunkFrom(a, b)
           n == b - a + 1
<1>1. a \in Int /\ b \in Int /\ 1 <= a /\ a <= b /\ b <= Len(script) /\ Len(script) \in Nat
  BY BoundsAre
<1>2. /\ DOMAIN h.lines = 1..n
      /\ \A j \in 1..n : h.lines[j].tag = script[a + j - 1] /\ a + j - 1 \in Lines
  BY HunkIs
<1>3. n \in Nat /\ k \in 1..n + 1 /\ k \in Int
  BY <1>1
<1> HIDE DEF h
<1>4. \A j \in 1..k - 1 : j \in Tagging(h, tags) <=> j + (a - 1) \in In(tags)
  <2>1. \A j \in 1..k - 1 : j \in 1..n /\ j + (a - 1) = a + j - 1
    BY <1>1, <1>3
  <2> QED BY <1>2, <2>1 DEF Tagging, In
<1>5. InFront(h, tags, k) = Among(Tagging(h, tags), 1, k - 1)
  <2> HIDE DEF n
  <2> QED BY <1>2, <1>3, InFrontIs
<1>6. Among(Tagging(h, tags), 1, k - 1) = Among(In(tags), a, a + k - 2)
  <2>1. k - 1 \in Int /\ a - 1 \in Int
    BY <1>1, <1>3
  <2>2. a + k - 2 \in Int /\ (a + k - 2) - a = (k - 1) - 1
    BY <1>1, <1>3
  <2> DEFINE z == k - 1
             y == a + k - 2
  <2>3. 1 \in Int /\ z \in Int /\ y \in Int /\ a \in Int /\ y - a = z - 1
    BY <1>1, <2>1, <2>2
  <2>4. Copied(Tagging(h, tags), z, In(tags), a)
    BY <1>4 DEF Copied
  <2> HIDE DEF z, y
  <2>5. Among(Tagging(h, tags), 1, z) = Among(In(tags), a, y)
    BY <2>3, <2>4, AmongFromOne
  <2> QED BY <2>5 DEF z, y
<1>7. a + k - 2 \in Int /\ a + k - 2 <= Len(script)
  BY <1>1, <1>3
<1>8. Count(tags, a, a + k - 2) = Among(In(tags), a, a + k - 2)
  BY <1>1, <1>7, CountIs
<1> QED BY <1>5, <1>6, <1>8 DEF h

\* Each line is where the header says: at its count.
LEMMA Located ==
    ASSUME ScriptOK, NEW a, NEW b, Bounds(a, b), NEW tags, NEW k \in 1..b - a + 1,
           script[a + k - 1] \in tags
    PROVE  /\ StartOf(tags, a, b) + InFront(HunkFrom(a, b), tags, k) = Count(tags, 1, a + k - 1)
           /\ Count(tags, a, b) # 0
<1> DEFINE m == a + k - 1
<1>1. a \in Int /\ b \in Int /\ 1 <= a /\ a <= b /\ b <= Len(script) /\ Len(script) \in Nat
  BY BoundsAre
<1>2. k \in Int /\ k \in 1..b - a + 2 /\ m \in a..b /\ m \in Lines /\ m \in In(tags) /\ m \in Int
  <2>1. k \in Int /\ k \in 1..b - a + 2 /\ m \in a..b /\ m \in Int
    BY <1>1
  <2>2. m \in Lines
    BY <1>1, <2>1, LinesAre
  <2> QED BY <2>1, <2>2 DEF In
<1>3. InFront(HunkFrom(a, b), tags, k) = Count(tags, a, m - 1)
  <2>1. m - 1 = a + k - 2
    BY <1>1, <1>2
  <2> QED BY <1>2, <2>1, InFrontOfGiven
<1> HIDE DEF m
<1>4. /\ Count(tags, 1, m) = Count(tags, 1, m - 1) + Count(tags, m, m)
      /\ Count(tags, 1, m - 1) \in Nat
  <2> DEFINE z == m - 1
  <2>1. z \in Int /\ m \in Int /\ 1 <= m /\ z <= m /\ m <= Len(script) /\ m = z + 1
    BY <1>1, <1>2
  <2> HIDE DEF z
  <2>2. Count(tags, 1, m) = Count(tags, 1, z) + Count(tags, m, m) /\ Count(tags, 1, z) \in Nat
    BY <2>1, CountUpTo
  <2> QED BY <2>2 DEF z
<1>5. /\ Count(tags, 1, m - 1) = Count(tags, 1, a - 1) + Count(tags, a, m - 1)
      /\ Count(tags, 1, a - 1) \in Nat /\ Count(tags, a, m - 1) \in Nat
  <2> DEFINE y == a - 1
             z == m - 1
  <2>1. /\ 1 \in Int /\ y \in Int /\ a \in Int /\ z \in Int /\ 1 <= 1 /\ 1 <= a /\ y <= z
        /\ z <= Len(script) /\ a = y + 1
    BY <1>1, <1>2
  <2> HIDE DEF y, z
  <2>2. /\ Count(tags, 1, z) = Count(tags, 1, y) + Count(tags, a, z)
        /\ Count(tags, 1, y) \in Nat /\ Count(tags, a, z) \in Nat
    BY <2>1, CountUpTo
  <2> QED BY <2>2 DEF y, z
<1>6. Count(tags, m, m) = 1
  <2>1. 1 <= m /\ m <= Len(script) /\ m <= m + 1 /\ m - m + 1 = 1 /\ m..m = {m}
    BY <1>1, <1>2
  <2>2. Count(tags, m, m) = Among(In(tags), m, m)
    BY <1>2, <2>1, CountIs
  <2>3. m..m \subseteq In(tags)
    BY <1>2, <2>1
  <2>4. Among(In(tags), m, m) = m - m + 1
    BY <1>2, <2>1, <2>3, AmongAll
  <2> QED BY <2>1, <2>2, <2>4
<1>7. Count(tags, a, b) # 0
  <2>1. Count(tags, a, b) = Among(In(tags), a, b)
    BY <1>1, CountIs
  <2>2. Among(In(tags), a, b) # 0
    BY <1>1, <1>2, AmongZero
  <2> QED BY <2>1, <2>2
<1>8. StartOf(tags, a, b) = Count(tags, 1, a - 1) + 1
  BY <1>7 DEF StartOf
<1>9. StartOf(tags, a, b) + InFront(HunkFrom(a, b), tags, k) = Count(tags, 1, m)
  BY <1>3, <1>4, <1>5, <1>6, <1>8
<1> QED BY <1>7, <1>9 DEF m

\* A hunk that has no line of a file is the whole change, and the file is empty.
LEMMA NothingElse ==
    ASSUME ScriptOK, NEW a, NEW b, Bounds(a, b), NEW tags \in {Old, New}, Count(tags, a, b) = 0
    PROVE  Kept(tags) = <<>>
<1>1. a \in Int /\ b \in Int /\ 1 <= a /\ a <= b /\ b <= Len(script) /\ Len(script) \in Nat
  BY BoundsAre
<1>2. \A k \in a..b : k \notin In(tags)
  <2>1. Count(tags, a, b) = Among(In(tags), a, b)
    BY <1>1, CountIs
  <2> QED BY <1>1, <2>1, AmongZero
<1>3. \A k \in a..b : k \in Lines /\ script[k] # " "
  <2>1. \A k \in a..b : k \in Lines
    BY <1>1, LinesAre
  <2> QED BY <1>2, <2>1 DEF In, Old, New
<1>4. Context \in Nat /\ Context >= 1
  BY PatchHunksAssumption
<1>5. a = 1
  <2> SUFFICES ASSUME a # 1
               PROVE  FALSE
    OBVIOUS
  <2>1. a - 1 \in Lines /\ a \in a..b
    BY <1>1, LinesAre
  <2>2. a - Context <= a - 1 /\ a - 1 <= a + Context
    BY <1>1, <1>4
  <2>3. InHunk(a - 1)
    BY <1>3, <2>1, <2>2 DEF InHunk
  <2> QED BY <2>3 DEF Bounds
<1>6. b = Len(script)
  <2> SUFFICES ASSUME b # Len(script)
               PROVE  FALSE
    OBVIOUS
  <2>1. b + 1 \in Lines /\ b \in a..b
    BY <1>1, LinesAre
  <2>2. b - Context <= b + 1 /\ b + 1 <= b + Context
    BY <1>1, <1>4
  <2>3. InHunk(b + 1)
    BY <1>3, <2>1, <2>2 DEF InHunk
  <2> QED BY <2>3 DEF Bounds
<1>7. Len(Kept(tags)) = 0 /\ Kept(tags) \in Seq(In(tags))
  BY <1>5, <1>6, KeptIs
<1>8. \A u \in Seq(In(tags)) : Len(u) = 0 => u = <<>>
  OBVIOUS
<1> QED BY <1>7, <1>8

\* Where the header says that the hunk begins and ends.
LEMMA StartIs ==
    ASSUME ScriptOK, NEW a, NEW b, Bounds(a, b), NEW tags
    PROVE  /\ StartOf(tags, a, b) \in Nat /\ Count(tags, a, b) \in Nat
           /\ StartOf(tags, a, b) <= Len(Kept(tags)) + 1
           /\ Count(tags, a, b) # 0 =>
                 /\ StartOf(tags, a, b) >= 1
                 /\ StartOf(tags, a, b) + Count(tags, a, b) = Count(tags, 1, b) + 1
                 /\ StartOf(tags, a, b) + Count(tags, a, b) <= Len(Kept(tags)) + 1
<1>1. a \in Int /\ b \in Int /\ 1 <= a /\ a <= b /\ b <= Len(script) /\ Len(script) \in Nat
  BY BoundsAre
<1>2. /\ Count(tags, 1, b) = Count(tags, 1, a - 1) + Count(tags, a, b)
      /\ Count(tags, 1, a - 1) \in Nat /\ Count(tags, a, b) \in Nat
  <2>1. a - 1 \in Int /\ 1 <= a /\ a - 1 <= b /\ a = (a - 1) + 1
    BY <1>1
  <2> QED BY <1>1, <2>1, CountUpTo
<1>3. /\ Count(tags, 1, Len(script)) = Count(tags, 1, b) + Count(tags, b + 1, Len(script))
      /\ Count(tags, b + 1, Len(script)) \in Nat
  <2>1. Len(script) \in Int /\ b + 1 \in Int /\ 1 <= b + 1 /\ Len(script) <= Len(script)
    BY <1>1
  <2> QED BY <1>1, <2>1, CountSplit
<1>4. Len(Kept(tags)) = Count(tags, 1, Len(script))
  BY KeptIs
<1> QED BY <1>2, <1>3, <1>4 DEF StartOf

-----------------------------------------------------------------------------
\* Questions about lines.

\* The lines of a hunk of the diff are in the files at their places.
LEMMA GivenIsAt ==
    ASSUME ScriptOK, NEW a, NEW b, Bounds(a, b), NEW tags, NEW k \in 1..b - a + 1,
           HunkFrom(a, b).lines[k].tag \in tags
    PROVE  IsAt(Kept(tags), StartOf(tags, a, b) + InFront(HunkFrom(a, b), tags, k),
                HunkFrom(a, b).lines[k].line)
<1>1. /\ HunkFrom(a, b).lines[k].tag = script[a + k - 1] /\ a + k - 1 \in Lines
      /\ HunkFrom(a, b).lines[k].line = a + k - 1
  BY HunkIs
<1>2. StartOf(tags, a, b) + InFront(HunkFrom(a, b), tags, k) = Count(tags, 1, a + k - 1)
  BY <1>1, Located
<1>3. IsAt(Kept(tags), Count(tags, 1, a + k - 1), a + k - 1)
  BY <1>1, KeptIs
<1> QED BY <1>1, <1>2, <1>3

\* All lines differ.
LEMMA OneNumber ==
    ASSUME ScriptOK, NEW tags, NEW m, NEW n, NEW line,
           IsAt(Kept(tags), m, line), IsAt(Kept(tags), n, line)
    PROVE  m = n
<1>1. m \in 1..Len(Kept(tags)) /\ n \in 1..Len(Kept(tags)) /\ Kept(tags)[m] = Kept(tags)[n]
  <2>1. DOMAIN Kept(tags) = 1..Len(Kept(tags))
    BY KeptIs
  <2> QED BY <2>1 DEF IsAt
<1>2. Count(tags, 1, Kept(tags)[m]) = m /\ Count(tags, 1, Kept(tags)[n]) = n
  BY <1>1, KeptIs
<1> QED BY <1>1, <1>2

\* A hunk has as many lines of a file as there are between its bounds.
LEMMA TaggingOfGiven ==
    ASSUME ScriptOK, NEW a, NEW b, Bounds(a, b), NEW tags
    PROVE  Cardinality(Tagging(HunkFrom(a, b), tags)) = Count(tags, a, b)
<1> DEFINE h == HunkFrom(a, b)
           n == b - a + 1
<1>1. a \in Int /\ b \in Int /\ 1 <= a /\ a <= b /\ n \in Nat /\ n + 1 \in 1..b - a + 2
      /\ a + (n + 1) - 2 = b /\ (n + 1) - 1 = n /\ n + 1 \in 1..n + 1
  <2>1. a \in Int /\ b \in Int /\ 1 <= a /\ a <= b
    BY BoundsAre
  <2> QED BY <2>1
<1>2. DOMAIN h.lines = 1..n
  BY HunkIs
<1>3. InFront(h, tags, n + 1) = Count(tags, a, b)
  <2>1. InFront(h, tags, n + 1) = Count(tags, a, a + (n + 1) - 2)
    <3> HIDE DEF n
    <3> QED BY <1>1, InFrontOfGiven
  <2> QED BY <1>1, <2>1
<1> HIDE DEF h, n
<1>4. InFront(h, tags, n + 1) = Among(Tagging(h, tags), 1, n)
  <2>1. InFront(h, tags, n + 1) = Among(Tagging(h, tags), 1, (n + 1) - 1)
    BY <1>1, <1>2, InFrontIs
  <2> QED BY <1>1, <2>1
<1>5. {k \in 1..n : k \in Tagging(h, tags)} = Tagging(h, tags)
  BY <1>2 DEF Tagging
<1> QED BY <1>3, <1>4, <1>5 DEF Among, h

\* What a question is given of one hunk.
Picked(h, q) == {k \in DOMAIN h.lines : Answers(h, q, k)}

\* An answer has the lines that are picked and no others.
LEMMA SelectedInIs ==
    ASSUME NEW h, NEW n \in Nat, DOMAIN h.lines = 1..n, NEW q, InReach(h, q)
    PROVE  /\ \A p \in DOMAIN SelectedIn(h, q) : \E k \in Picked(h, q) : SelectedIn(h, q)[p] = h.lines[k]
           /\ \A k \in Picked(h, q) : \E p \in DOMAIN SelectedIn(h, q) : SelectedIn(h, q)[p] = h.lines[k]
<1> DEFINE S == Picked(h, q)
           c == InOrder(S)
<1>1. S \subseteq 1..n
  BY DEF Picked
<1>2. SelectedIn(h, q) = [p \in DOMAIN c |-> h.lines[c[p]]]
  BY DEF SelectedIn, Picked
<1>3. /\ c \in Seq(S) /\ Len(c) = Cardinality(S)
      /\ \A i \in 1..Cardinality(S) : c[i] \in S
      /\ \A k \in S : Among(S, 1, k) \in 1..Cardinality(S) /\ c[Among(S, 1, k)] = k
  <2> HIDE DEF S
  <2> QED BY <1>1, InOrderIs
<1> HIDE DEF S, c
<1>4. DOMAIN c = 1..Cardinality(S)
  BY <1>3
<1>5. \A p \in DOMAIN SelectedIn(h, q) : p \in 1..Cardinality(S) /\ SelectedIn(h, q)[p] = h.lines[c[p]]
  BY <1>2, <1>4
<1>6. \A k \in S : SelectedIn(h, q)[Among(S, 1, k)] = h.lines[k]
                   /\ Among(S, 1, k) \in DOMAIN SelectedIn(h, q)
  BY <1>2, <1>3, <1>4
<1> QED BY <1>3, <1>5, <1>6 DEF S

\* What SelectedIsAsked says of one hunk.
AnswerIsRight(h, q, file) ==
    LET s == SelectedIn(h, q)
        got == {s[p] : p \in DOMAIN s}
        new == {k \in DOMAIN h.lines : h.lines[k].tag \in New}
        wanted == {file[n] : n \in (q.start..q.end) \cap DOMAIN file}
    IN /\ \A x \in got : x.tag \in New => x.line \in wanted
       /\ q.start \in h.start2..h.start2 + Cardinality(new) - 1 =>
              \A k \in new : h.lines[k].line \in wanted => h.lines[k] \in got

\* A hunk as git shows it is answered from rightly: its numbers are those of the new file.
LEMMA SelectedOfGiven ==
    ASSUME ScriptOK, NEW a, NEW b, Bounds(a, b),
           NEW q \in [side : {"left", "right"}, start : Nat, end : Nat], q.side = "right"
    PROVE  AnswerIsRight(HunkFrom(a, b), q, NewFile)
<1> DEFINE h == HunkFrom(a, b)
           s == SelectedIn(h, q)
           got == {s[p] : p \in DOMAIN s}
           new == {k \in DOMAIN h.lines : h.lines[k].tag \in New}
           wanted == {NewFile[n] : n \in (q.start..q.end) \cap DOMAIN NewFile}
           n == b - a + 1
           num(k) == h.start2 + InFront(h, New, k)
<1>1. n \in Nat /\ DOMAIN h.lines = 1..n /\ h.start2 = StartOf(New, a, b)
      /\ h.size2 = AsRead(Count(New, a, b))
  BY HunkIs, BoundsAre
<1>2. q.start \in Int /\ q.end \in Int
  OBVIOUS
<1>3. \A k \in 1..n : h.lines[k].tag \in New => IsAt(NewFile, num(k), h.lines[k].line)
  <2> SUFFICES ASSUME NEW k \in 1..n, h.lines[k].tag \in New
               PROVE  IsAt(NewFile, num(k), h.lines[k].line)
    OBVIOUS
  <2>1. IsAt(Kept(New), StartOf(New, a, b) + InFront(HunkFrom(a, b), New, k),
             HunkFrom(a, b).lines[k].line)
    BY GivenIsAt
  <2> QED BY <1>1, <2>1 DEF NewFile
<1>4. \A k \in 1..n : k \in Picked(h, q) <=> q.start <= num(k) /\ num(k) <= q.end
  <2> HIDE DEF h
  <2> QED BY <1>1 DEF Picked, Answers
<1>5. DOMAIN NewFile = 1..Len(NewFile) /\ Len(NewFile) \in Nat
  BY KeptIs DEF NewFile
<1> HIDE DEF h
<1>6. ASSUME NEW x \in got, x.tag \in New
      PROVE  x.line \in wanted
  <2>1. InReach(h, q)
    <3> SUFFICES ASSUME ~InReach(h, q)
                 PROVE  FALSE
      OBVIOUS
    <3>1. s = <<>>
      BY DEF SelectedIn
    <3> QED BY <1>6, <3>1
  <2>2. PICK k \in Picked(h, q) : x = h.lines[k]
    BY <1>1, <1>6, <2>1, SelectedInIs
  <2>3. k \in 1..n
    BY <1>1 DEF Picked
  <2>4. IsAt(NewFile, num(k), x.line) /\ q.start <= num(k) /\ num(k) <= q.end
    BY <1>3, <1>4, <1>6, <2>2, <2>3
  <2> HIDE DEF num
  <2>5. num(k) \in (q.start..q.end) \cap DOMAIN NewFile /\ NewFile[num(k)] = x.line
    BY <1>2, <1>5, <2>4 DEF IsAt
  <2> QED BY <2>5
<1>7. ASSUME q.start \in h.start2..h.start2 + Cardinality(new) - 1, NEW k \in new,
             h.lines[k].line \in wanted
      PROVE  h.lines[k] \in got
  <2>1. new = Tagging(h, New)
    BY DEF Tagging
  <2>2. Cardinality(new) = Count(New, a, b)
    BY <2>1, TaggingOfGiven DEF h
  <2>3. StartOf(New, a, b) \in Nat /\ Count(New, a, b) \in Nat
    BY StartIs
  <2>4. InReach(h, q)
    <3>1. /\ h.start2 \in Nat /\ Count(New, a, b) \in Nat /\ h.start2 <= q.start
          /\ q.start <= h.start2 + Count(New, a, b) - 1
      BY <1>1, <1>7, <2>2, <2>3
    <3>2. Count(New, a, b) # 1 => h.size2 = Count(New, a, b)
      BY <1>1 DEF AsRead
    <3>3. Count(New, a, b) = 1 => h.size2 = 0
      BY <1>1 DEF AsRead
    <3>4. q.start <= h.start2 + h.size2
      BY <1>2, <3>1, <3>2, <3>3
    <3> QED BY <3>1, <3>4 DEF InReach
  <2>5. k \in 1..n /\ h.lines[k].tag \in New
    BY <1>1
  <2>6. IsAt(NewFile, num(k), h.lines[k].line)
    BY <1>3, <2>5
  <2>7. PICK m \in (q.start..q.end) \cap DOMAIN NewFile : NewFile[m] = h.lines[k].line
    BY <1>7
  <2>8. IsAt(NewFile, m, h.lines[k].line)
    BY <2>7 DEF IsAt
  <2>9. num(k) = m
    <3> HIDE DEF num
    <3> QED BY <2>6, <2>8, OneNumber DEF NewFile
  <2>10. q.start <= m /\ m <= q.end
    BY <1>2, <2>7
  <2>11. k \in Picked(h, q)
    BY <1>4, <2>5, <2>9, <2>10
  <2>12. \A j \in Picked(h, q) : \E p \in DOMAIN SelectedIn(h, q) : SelectedIn(h, q)[p] = h.lines[j]
    <3>1. n \in Nat /\ DOMAIN h.lines = 1..n
      BY <1>1
    <3> HIDE DEF n
    <3> QED BY <2>4, <3>1, SelectedInIs
  <2>13. \E p \in DOMAIN s : s[p] = h.lines[k]
    BY <2>11, <2>12
  <2> QED BY <2>13
<1>8. /\ \A x \in got : x.tag \in New => x.line \in wanted
      /\ q.start \in h.start2..h.start2 + Cardinality(new) - 1 =>
             \A k \in new : h.lines[k].line \in wanted => h.lines[k] \in got
  <2> HIDE DEF got, new, wanted
  <2> QED BY <1>6, <1>7
<1> QED BY <1>8 DEF h, AnswerIsRight

-----------------------------------------------------------------------------
\* Slices, and lines shown as context.

\* What a slice of a file holds.
LEMMA SliceIs ==
    ASSUME NEW S, NEW file \in Seq(S), NEW first \in Int, NEW last \in Int, 1 <= first
    PROVE  LET hi == IF last <= Len(file) THEN last ELSE Len(file)
           IN /\ Slice(file, first, last) \in Seq(S)
              /\ Len(Slice(file, first, last)) = IF first <= hi THEN hi - first + 1 ELSE 0
              /\ \A i \in 1..Len(Slice(file, first, last)) :
                     Slice(file, first, last)[i] = file[first + i - 1]
<1> DEFINE hi == IF last <= Len(file) THEN last ELSE Len(file)
           s == SubSeq(file, first, hi)
<1>1. Len(file) \in Nat /\ hi \in Int /\ hi <= Len(file)
  OBVIOUS
<1>2. Slice(file, first, last) = s
  <2>1. Max({1, first}) = first
    BY MaxOfTwo
  <2>2. Min({last, Len(file)}) = hi
    BY <1>1, MinOfTwo
  <2> QED BY <2>1, <2>2 DEF Slice
<1>3. \A i \in first..hi : file[i] \in S
  <2>1. \A i \in first..hi : i \in 1..Len(file)
    BY <1>1
  <2> QED BY <2>1, ElementOfSeq
<1> HIDE DEF hi
<1>4. /\ s \in Seq(S) /\ Len(s) = IF first <= hi THEN hi - first + 1 ELSE 0
      /\ \A i \in 1..hi - first + 1 : s[i] = file[first + i - 1]
  BY <1>1, <1>3, SubSeqProperties
<1>5. \A i \in 1..Len(s) : s[i] = file[first + i - 1]
  BY <1>1, <1>4
<1> QED BY <1>2, <1>4, <1>5 DEF hi

HunkLine == [tag : Tags, line : 0..MaxLines]

\* A slice that reaches the end.
LEMMA TailIs ==
    ASSUME NEW S, NEW file \in Seq(S), NEW first \in Int, 1 <= first, NEW last \in Int,
           Len(file) <= last
    PROVE  /\ Len(Slice(file, first, last)) =
                  IF first <= Len(file) THEN Len(file) - first + 1 ELSE 0
           /\ \A i \in 1..Len(Slice(file, first, last)) :
                  Slice(file, first, last)[i] = file[first + i - 1]
<1> DEFINE hi == IF last <= Len(file) THEN last ELSE Len(file)
           s == Slice(file, first, last)
<1>1. Len(s) = IF first <= hi THEN hi - first + 1 ELSE 0
  BY SliceIs
<1>2. \A i \in 1..Len(s) : s[i] = file[first + i - 1]
  BY SliceIs
<1> HIDE DEF s
<1>3. Len(file) \in Nat
  BY LenProperties
<1>4. hi = Len(file)
  BY <1>3
<1> HIDE DEF hi
<1>5. Len(s) = IF first <= Len(file) THEN Len(file) - first + 1 ELSE 0
  BY <1>1, <1>4
<1> QED BY <1>2, <1>5 DEF s

\* Lines shown as context keep their order.
LEMMA ContextLinesAre ==
    ASSUME NEW p \in Seq(0..MaxLines)
    PROVE  /\ ContextLines(p) \in Seq(HunkLine) /\ Len(ContextLines(p)) = Len(p)
           /\ \A k \in 1..Len(p) : ContextLines(p)[k].tag = " " /\ ContextLines(p)[k].line = p[k]
<1> DEFINE n == Len(p)
           x(k) == [tag |-> " ", line |-> p[k]]
<1>1. n \in Nat /\ DOMAIN p = 1..n /\ \A k \in 1..n : p[k] \in 0..MaxLines
  BY LenProperties, ElementOfSeq
<1>2. ContextLines(p) = [k \in 1..n |-> x(k)]
  BY <1>1 DEF ContextLines
<1>3. \A k \in 1..n : x(k) \in HunkLine /\ x(k).tag = " " /\ x(k).line = p[k]
  BY <1>1 DEF HunkLine, Tags
<1> HIDE DEF x, n
<1>4. ContextLines(p) \in [1..n -> HunkLine] /\ DOMAIN ContextLines(p) = 1..n
  BY <1>2, <1>3
<1>5. ContextLines(p) \in Seq(HunkLine)
  <2>1. n \in Nat /\ \A k \in 1..n : x(k) \in HunkLine
    BY <1>1, <1>3
  <2>2. [k \in 1..n |-> x(k)] \in Seq(HunkLine)
    BY <2>1, IsASeq
  <2> QED BY <1>2, <2>2
<1>6. Len(ContextLines(p)) = n
  BY <1>1, <1>4, <1>5, LenProperties
<1>7. \A k \in 1..n : ContextLines(p)[k].tag = " " /\ ContextLines(p)[k].line = p[k]
  BY <1>2, <1>3
<1> QED BY <1>5, <1>6, <1>7 DEF n

\* A hunk with lines p in front and f behind.
Padded(p, lines, f) == ContextLines(p) \o lines \o ContextLines(f)

\* Lines in front, the lines of the hunk, and lines behind.
LEMMA PaddedIs ==
    ASSUME NEW p \in Seq(0..MaxLines), NEW f \in Seq(0..MaxLines), NEW u \in Seq(HunkLine)
    PROVE  /\ Padded(p, u, f) \in Seq(HunkLine)
           /\ Len(p) \in Nat /\ Len(u) \in Nat /\ Len(f) \in Nat
           /\ Len(Padded(p, u, f)) = Len(p) + Len(u) + Len(f)
           /\ DOMAIN Padded(p, u, f) = 1..Len(p) + Len(u) + Len(f)
           /\ \A k \in 1..Len(p) : /\ Padded(p, u, f)[k].tag = " "
                                   /\ Padded(p, u, f)[k].line = p[k]
           /\ \A k \in 1..Len(u) : Padded(p, u, f)[Len(p) + k] = u[k]
           /\ \A k \in 1..Len(f) : /\ Padded(p, u, f)[Len(p) + Len(u) + k].tag = " "
                                   /\ Padded(p, u, f)[Len(p) + Len(u) + k].line = f[k]
<1> DEFINE c == ContextLines(p)
           d == ContextLines(f)
<1>1. /\ c \in Seq(HunkLine) /\ Len(c) = Len(p)
      /\ \A k \in 1..Len(p) : c[k].tag = " " /\ c[k].line = p[k]
  BY ContextLinesAre
<1>2. /\ d \in Seq(HunkLine) /\ Len(d) = Len(f)
      /\ \A k \in 1..Len(f) : d[k].tag = " " /\ d[k].line = f[k]
  BY ContextLinesAre
<1>3. Padded(p, u, f) = (c \o u) \o d
  BY DEF Padded
<1> HIDE DEF c, d
<1>4. Len(p) \in Nat /\ Len(u) \in Nat /\ Len(f) \in Nat
  BY LenProperties
<1>5. /\ c \o u \in Seq(HunkLine) /\ Len(c \o u) = Len(p) + Len(u)
      /\ \A k \in 1..Len(p) + Len(u) : (c \o u)[k] = IF k <= Len(p) THEN c[k] ELSE u[k - Len(p)]
  <2>1. /\ c \o u \in Seq(HunkLine) /\ Len(c \o u) = Len(c) + Len(u)
        /\ \A k \in 1..Len(c) + Len(u) : (c \o u)[k] = IF k <= Len(c) THEN c[k] ELSE u[k - Len(c)]
    <3>1. c \in Seq(HunkLine)
      BY <1>1
    <3> QED BY <3>1, ConcatProperties
  <2> QED BY <1>1, <2>1
<1> DEFINE v == c \o u
           w == v \o d
<1> HIDE DEF v
<1>6. /\ w \in Seq(HunkLine) /\ Len(w) = Len(v) + Len(d)
      /\ \A k \in 1..Len(v) + Len(d) : w[k] = IF k <= Len(v) THEN v[k] ELSE d[k - Len(v)]
  <2>1. v \in Seq(HunkLine)
    BY <1>5 DEF v
  <2>2. d \in Seq(HunkLine)
    BY <1>2
  <2> QED BY <2>1, <2>2, ConcatProperties
<1>7. Padded(p, u, f) = w
  BY <1>3 DEF v
<1>8. Len(v) = Len(p) + Len(u) /\ Len(w) = Len(p) + Len(u) + Len(f)
  BY <1>2, <1>5, <1>6 DEF v
<1>14. Len(d) = Len(f)
  BY <1>2
<1> HIDE DEF w
<1>9. DOMAIN w = 1..Len(p) + Len(u) + Len(f)
  BY <1>6, <1>8, LenProperties
<1>10. ASSUME NEW k \in 1..Len(p)
       PROVE  w[k] = c[k]
  <2>1. k \in 1..Len(v) + Len(d) /\ k <= Len(v) /\ k \in 1..Len(p) + Len(u) /\ k <= Len(p)
    BY <1>4, <1>8, <1>14
  <2> QED BY <1>5, <1>6, <2>1 DEF v
<1>11. ASSUME NEW k \in 1..Len(u)
       PROVE  w[Len(p) + k] = u[k]
  <2>1. /\ Len(p) + k \in 1..Len(v) + Len(d) /\ Len(p) + k <= Len(v)
        /\ Len(p) + k \in 1..Len(p) + Len(u) /\ ~(Len(p) + k <= Len(p)) /\ (Len(p) + k) - Len(p) = k
    BY <1>4, <1>8, <1>14
  <2>2. w[Len(p) + k] = v[Len(p) + k]
    BY <1>6, <2>1
  <2>3. v[Len(p) + k] = u[(Len(p) + k) - Len(p)]
    BY <1>5, <2>1 DEF v
  <2> QED BY <2>1, <2>2, <2>3
<1>12. ASSUME NEW k \in 1..Len(f)
       PROVE  w[Len(p) + Len(u) + k] = d[k]
  <2>1. /\ Len(p) + Len(u) + k \in 1..Len(v) + Len(d) /\ ~(Len(p) + Len(u) + k <= Len(v))
        /\ (Len(p) + Len(u) + k) - Len(v) = k
    BY <1>4, <1>8, <1>14
  <2>2. w[Len(p) + Len(u) + k] = d[(Len(p) + Len(u) + k) - Len(v)]
    BY <1>6, <2>1
  <2> QED BY <2>1, <2>2
<1>13. /\ w \in Seq(HunkLine) /\ Len(w) = Len(p) + Len(u) + Len(f)
       /\ \A k \in 1..Len(p) : w[k].tag = " " /\ w[k].line = p[k]
       /\ \A k \in 1..Len(u) : w[Len(p) + k] = u[k]
       /\ \A k \in 1..Len(f) : /\ w[Len(p) + Len(u) + k].tag = " "
                               /\ w[Len(p) + Len(u) + k].line = f[k]
  BY <1>1, <1>2, <1>6, <1>8, <1>10, <1>11, <1>12
<1> QED BY <1>4, <1>7, <1>9, <1>13

\* How the lines of a padded hunk are counted.
IsPadded(h, p, g, f) == h.lines = Padded(p, g.lines, f)

\* Where the lines of a hunk come to stand that got others in front and behind.
LEMMA InFrontOfPadded ==
    ASSUME NEW p \in Seq(0..MaxLines), NEW f \in Seq(0..MaxLines), NEW g,
           g.lines \in Seq(HunkLine), NEW h, IsPadded(h, p, g, f), NEW tags \in {Old, New}
    PROVE  /\ \A k \in 1..Len(p) + 1 : InFront(h, tags, k) = k - 1
           /\ \A k \in 1..Len(g.lines) + 1 : InFront(h, tags, Len(p) + k) = Len(p) + InFront(g, tags, k)
           /\ \A k \in 1..Len(f) :
                  InFront(h, tags, Len(p) + Len(g.lines) + k)
                      = Len(p) + InFront(g, tags, Len(g.lines) + 1) + (k - 1)
           /\ \A k \in 1..Len(g.lines) + 1 : InFront(g, tags, k) \in Nat
<1> DEFINE T == Tagging(h, tags)
           U == Tagging(g, tags)
           x == Len(p)
           y == Len(g.lines)
           z == Len(f)
<1>1. x \in Nat /\ y \in Nat /\ z \in Nat
  BY LenProperties
<1>2. /\ DOMAIN h.lines = 1..x + y + z /\ DOMAIN g.lines = 1..y
      /\ \A k \in 1..x : h.lines[k].tag = " "
      /\ \A k \in 1..y : h.lines[x + k] = g.lines[k]
      /\ \A k \in 1..z : h.lines[x + y + k].tag = " "
  <2>1. DOMAIN g.lines = 1..y
    BY LenProperties
  <2>2. \A u \in Seq(HunkLine) :
           /\ DOMAIN Padded(p, u, f) = 1..Len(p) + Len(u) + Len(f)
           /\ \A k \in 1..Len(p) : Padded(p, u, f)[k].tag = " "
           /\ \A k \in 1..Len(u) : Padded(p, u, f)[Len(p) + k] = u[k]
           /\ \A k \in 1..Len(f) : Padded(p, u, f)[Len(p) + Len(u) + k].tag = " "
    <3> SUFFICES ASSUME NEW u \in Seq(HunkLine)
                 PROVE  /\ DOMAIN Padded(p, u, f) = 1..Len(p) + Len(u) + Len(f)
                        /\ \A k \in 1..Len(p) : Padded(p, u, f)[k].tag = " "
                        /\ \A k \in 1..Len(u) : Padded(p, u, f)[Len(p) + k] = u[k]
                        /\ \A k \in 1..Len(f) : Padded(p, u, f)[Len(p) + Len(u) + k].tag = " "
      OBVIOUS
    <3>1. DOMAIN Padded(p, u, f) = 1..Len(p) + Len(u) + Len(f)
      BY PaddedIs
    <3>2. \A k \in 1..Len(p) : /\ Padded(p, u, f)[k].tag = " "
                               /\ Padded(p, u, f)[k].line = p[k]
      BY PaddedIs
    <3>3. \A k \in 1..Len(u) : Padded(p, u, f)[Len(p) + k] = u[k]
      BY PaddedIs
    <3>4. \A k \in 1..Len(f) : /\ Padded(p, u, f)[Len(p) + Len(u) + k].tag = " "
                               /\ Padded(p, u, f)[Len(p) + Len(u) + k].line = f[k]
      BY PaddedIs
    <3> QED BY <3>1, <3>2, <3>3, <3>4
  <2> QED BY <2>1, <2>2 DEF IsPadded
<1>3. " " \in tags
  BY DEF Old, New
<1> HIDE DEF x, y, z
<1>4. \A m \in 0..x + y + z : InFront(h, tags, m + 1) = Among(T, 1, m)
  <2> SUFFICES ASSUME NEW m \in 0..x + y + z
               PROVE  InFront(h, tags, m + 1) = Among(T, 1, m)
    OBVIOUS
  <2>1. x + y + z \in Nat /\ m + 1 \in 1..x + y + z + 1 /\ (m + 1) - 1 = m
    BY <1>1
  <2>2. InFront(h, tags, m + 1) = Among(T, 1, (m + 1) - 1)
    BY <1>2, <2>1, InFrontIs
  <2> QED BY <2>1, <2>2
<1>5. \A m \in 0..y : InFront(g, tags, m + 1) = Among(U, 1, m) /\ Among(U, 1, m) \in Nat
  <2> SUFFICES ASSUME NEW m \in 0..y
               PROVE  InFront(g, tags, m + 1) = Among(U, 1, m) /\ Among(U, 1, m) \in Nat
    OBVIOUS
  <2>1. m \in Int /\ m + 1 \in 1..y + 1 /\ (m + 1) - 1 = m
    BY <1>1
  <2>2. InFront(g, tags, m + 1) = Among(U, 1, (m + 1) - 1)
    BY <1>1, <1>2, <2>1, InFrontIs
  <2>3. Among(U, 1, m) \in Nat
    BY <2>1, AmongNat
  <2> QED BY <2>1, <2>2, <2>3
<1>6. \A k \in 1..x : k \in T
  <2>1. \A k \in 1..x : k \in 1..x + y + z
    BY <1>1
  <2> QED BY <1>2, <1>3, <2>1 DEF Tagging
<1>7. \A k \in 1..z : x + y + k \in T
  <2>1. \A k \in 1..z : x + y + k \in 1..x + y + z
    BY <1>1
  <2> QED BY <1>2, <1>3, <2>1 DEF Tagging
<1>8. \A k \in 1..y : k \in U <=> x + k \in T
  <2>1. \A k \in 1..y : x + k \in 1..x + y + z
    BY <1>1
  <2> QED BY <1>2, <2>1 DEF Tagging
<1> HIDE DEF T, U
<1>9. \A m \in 0..x : Among(T, 1, m) = m
  <2> SUFFICES ASSUME NEW m \in 0..x
               PROVE  Among(T, 1, m) = m
    OBVIOUS
  <2>1. m \in Int /\ 1 <= m + 1 /\ 1..m \subseteq T /\ m - 1 + 1 = m
    BY <1>1, <1>6
  <2>2. Among(T, 1, m) = m - 1 + 1
    BY <2>1, AmongAll
  <2> QED BY <2>1, <2>2
<1>10. \A m \in 0..y : Among(T, 1, x + m) = x + Among(U, 1, m)
  <2> SUFFICES ASSUME NEW m \in 0..y
               PROVE  Among(T, 1, x + m) = x + Among(U, 1, m)
    OBVIOUS
  <2> DEFINE c == x + 1
             e == x + m
  <2>1. /\ x \in Int /\ c \in Int /\ m \in Int /\ e \in Int
        /\ 0 <= x /\ c = x + 1 /\ x <= e /\ e - c = m - 1
    BY <1>1
  <2>2. 1..x \subseteq T
    BY <1>6
  <2>3. Copied(U, m, T, c)
    <3>1. \A k \in 1..m : k \in 1..y /\ k + (c - 1) = x + k
      BY <1>1
    <3> QED BY <1>8, <3>1 DEF Copied
  <2> HIDE DEF c, e
  <2>4. Among(T, 1, e) = x + Among(U, 1, m)
    BY <2>1, <2>2, <2>3, AmongBehind
  <2> QED BY <2>4 DEF e
<1>11. \A k \in 1..z : Among(T, 1, x + y + k - 1) = x + Among(U, 1, y) + (k - 1)
  <2> SUFFICES ASSUME NEW k \in 1..z
               PROVE  Among(T, 1, x + y + k - 1) = x + Among(U, 1, y) + (k - 1)
    OBVIOUS
  <2> DEFINE m == x + y
             e == x + y + k - 1
  <2>1. m \in Int /\ e \in Int /\ m + 1 \in Int /\ 1 <= m + 1 /\ m <= e /\ m + 1 <= e + 1
        /\ e - (m + 1) + 1 = k - 1
    BY <1>1
  <2>2. m + 1..e \subseteq T
    <3>1. \A j \in m + 1..e : j - (x + y) \in 1..z /\ x + y + (j - (x + y)) = j
      BY <1>1
    <3>2. \A j \in m + 1..e : x + y + (j - (x + y)) \in T
      BY <1>7, <3>1
    <3> QED BY <3>1, <3>2
  <2>3. Among(T, 1, m) = x + Among(U, 1, y)
    <3>1. y \in 0..y
      BY <1>1
    <3> QED BY <1>10, <3>1
  <2> HIDE DEF m, e
  <2>4. Among(T, m + 1, e) = e - (m + 1) + 1
    BY <2>1, <2>2, AmongAll
  <2>5. Among(T, 1, e) = Among(T, 1, m) + Among(T, m + 1, e)
    BY <2>1, AmongSplit
  <2>6. Among(T, 1, e) = x + Among(U, 1, y) + (k - 1)
    BY <2>1, <2>3, <2>4, <2>5
  <2> QED BY <2>6 DEF e
<1>12. ASSUME NEW k \in 1..x + 1
       PROVE  InFront(h, tags, k) = k - 1
  <2> DEFINE m == k - 1
  <2>1. m \in 0..x + y + z /\ m \in 0..x /\ m + 1 = k
    BY <1>1
  <2> HIDE DEF m
  <2>2. InFront(h, tags, m + 1) = m
    BY <1>4, <1>9, <2>1
  <2> QED BY <2>1, <2>2 DEF m
<1>13. ASSUME NEW k \in 1..y + 1
       PROVE  InFront(h, tags, x + k) = x + InFront(g, tags, k) /\ InFront(g, tags, k) \in Nat
  <2> DEFINE m == k - 1
  <2>1. x + m \in 0..x + y + z /\ m \in 0..y /\ m + 1 = k /\ (x + m) + 1 = x + k
    BY <1>1
  <2> HIDE DEF m
  <2>2. InFront(h, tags, (x + m) + 1) = Among(T, 1, x + m)
    BY <1>4, <2>1
  <2>3. InFront(h, tags, (x + m) + 1) = x + InFront(g, tags, m + 1) /\ InFront(g, tags, m + 1) \in Nat
    BY <1>5, <1>10, <2>1, <2>2
  <2> QED BY <2>1, <2>3
<1>14. ASSUME NEW k \in 1..z
       PROVE  InFront(h, tags, x + y + k) = x + InFront(g, tags, y + 1) + (k - 1)
  <2> DEFINE m == x + y + k - 1
  <2>1. m \in 0..x + y + z /\ y \in 0..y /\ m + 1 = x + y + k
    BY <1>1
  <2>2. Among(T, 1, m) = x + Among(U, 1, y) + (k - 1)
    BY <1>11
  <2>3. InFront(g, tags, y + 1) = Among(U, 1, y)
    BY <1>5, <2>1
  <2> HIDE DEF m
  <2>4. InFront(h, tags, m + 1) = Among(T, 1, m)
    BY <1>4, <2>1
  <2> QED BY <2>1, <2>2, <2>3, <2>4
<1> QED BY <1>12, <1>13, <1>14 DEF x, y, z

-----------------------------------------------------------------------------
\* How far a hunk is extended.

\* The hunk is inside the files that are read.
Placed(g) ==
    /\ base_file \in Seq(0..MaxLines) /\ head_file \in Seq(1..MaxLines)
    /\ Len(head_file) <= MaxLines
    /\ g.start1 \in Int /\ 1 <= g.start1 /\ g.start1 <= Len(base_file) + 1
    /\ g.size1 \in Int /\ 0 <= g.size1 /\ g.size2 \in Int /\ g.start2 \in Nat
    /\ head_file # <<>> => 1 <= g.start2 /\ g.start2 <= Len(head_file) + 1

\* The limits l begin inside the files and not behind the hunk.
Fits(g, l) ==
    /\ l.start1 \in Int /\ 1 <= l.start1 /\ l.start1 <= g.start1
    /\ l.size1 \in Int /\ l.size2 \in Int /\ l.start2 \in Nat
    /\ head_file # <<>> => 1 <= l.start2 /\ l.start2 <= g.start2

\* As many lines are in front in both files, and they are the same.
Even(g, l) ==
    /\ g.start1 - l.start1 = g.start2 - l.start2
    /\ \A k \in 1..g.start1 - l.start1 : base_file[l.start1 + k - 1] = head_file[l.start2 + k - 1]

\* An extension does not begin before the first line.
LEMMA FromIs ==
    ASSUME NEW s \in Nat, NEW n \in Nat
    PROVE  /\ From(s, n) \in Nat /\ 1 <= From(s, n)
           /\ 1 <= s => From(s, n) <= s
<1>1. 1 \in Int /\ s - n \in Int
  OBVIOUS
<1>2. Max({1, s - n}) = IF 1 >= s - n THEN 1 ELSE s - n
  BY <1>1, MaxOfTwo
<1> QED BY <1>2 DEF From

\* _calc_context_limits goes no further than the beginning of the files.
LEMMA LimitsFit ==
    ASSUME NEW g, Placed(g), NEW n \in Nat, after \in Nat
    PROVE  Fits(g, Limits(g, n))
<1> DEFINE s1 == From(g.start1, n)
           s2 == From(g.start2, n)
           z1 == g.size1 + (g.start1 - s1) + after
           z2 == g.size2 + (g.start2 - s2) + after
           over == Max({0, s1 - 1 + z1 - Len(base_file)})
           l == Limits(g, n)
<1>1. /\ g.start1 \in Nat /\ g.start2 \in Nat /\ g.size1 \in Int /\ g.size2 \in Int
      /\ 1 <= g.start1 /\ (head_file # <<>> => 1 <= g.start2) /\ Len(base_file) \in Nat
  <2>1. base_file \in Seq(0..MaxLines)
    BY DEF Placed
  <2> QED BY <2>1, LenProperties DEF Placed
<1>2. s1 \in Nat /\ 1 <= s1 /\ s1 <= g.start1
  BY <1>1, FromIs
<1>3. s2 \in Nat /\ 1 <= s2 /\ (1 <= g.start2 => s2 <= g.start2)
  BY <1>1, FromIs
<1>4. /\ l.start1 = s1 /\ l.start2 = s2
      /\ l.size1 = IF over > 0 THEN Max({z1 - over, g.size1}) ELSE z1
      /\ l.size2 = IF over > 0 THEN Max({z2 - over, g.size2}) ELSE z2
  BY DEF Limits
<1> HIDE DEF s1, s2, l
<1>5. z1 \in Int /\ z2 \in Int /\ s1 - 1 + z1 - Len(base_file) \in Int
  <2>1. z1 \in Int
    BY <1>1, <1>2
  <2>2. z2 \in Int
    BY <1>1, <1>3
  <2> HIDE DEF z1
  <2>3. s1 - 1 + z1 - Len(base_file) \in Int
    BY <1>1, <1>2, <2>1
  <2> QED BY <2>1, <2>2, <2>3
<1> HIDE DEF z1, z2
<1>6. over \in Int
  <2>1. over = IF 0 >= s1 - 1 + z1 - Len(base_file) THEN 0 ELSE s1 - 1 + z1 - Len(base_file)
    BY <1>5, MaxOfTwo
  <2> QED BY <1>5, <2>1
<1> HIDE DEF over
<1>7. l.size1 \in Int
  <2>1. z1 - over \in Int
    BY <1>5, <1>6
  <2>2. Max({z1 - over, g.size1}) \in Int
    BY <1>1, <2>1, MaxOfTwo
  <2> QED BY <1>4, <1>5, <2>2
<1>8. l.size2 \in Int
  <2>1. z2 - over \in Int
    BY <1>5, <1>6
  <2>2. Max({z2 - over, g.size2}) \in Int
    BY <1>1, <2>1, MaxOfTwo
  <2> QED BY <1>4, <1>5, <2>2
<1>9. Fits(g, l)
  BY <1>1, <1>2, <1>3, <1>4, <1>7, <1>8 DEF Fits
<1> QED BY <1>9 DEF l

\* The lines in front, in each file.
LEMMA BeforeIs ==
    ASSUME NEW g, Placed(g), NEW l, Fits(g, l)
    PROVE  /\ OldBefore(g, l) \in Seq(0..MaxLines)
           /\ Len(OldBefore(g, l)) = g.start1 - l.start1 /\ g.start1 - l.start1 \in Nat
           /\ \A k \in 1..g.start1 - l.start1 :
                  OldBefore(g, l)[k] = base_file[l.start1 + k - 1]
           /\ head_file # <<>> =>
                 /\ NewBefore(g, l) \in Seq(0..MaxLines) /\ Len(NewBefore(g, l)) <= MaxLines
                 /\ Len(NewBefore(g, l)) = g.start2 - l.start2 /\ g.start2 - l.start2 \in Nat
                 /\ \A k \in 1..g.start2 - l.start2 :
                        NewBefore(g, l)[k] = head_file[l.start2 + k - 1]
<1>1. ASSUME NEW file \in Seq(0..MaxLines), NEW s \in Int, NEW e \in Int,
             1 <= s, s <= e, e <= Len(file) + 1
      PROVE  /\ Slice(file, s, e - 1) \in Seq(0..MaxLines)
             /\ Len(Slice(file, s, e - 1)) = e - s /\ e - s \in Nat /\ e - s <= Len(file)
             /\ \A k \in 1..e - s : Slice(file, s, e - 1)[k] = file[s + k - 1]
  <2> DEFINE u == Slice(file, s, e - 1)
  <2>1. Len(file) \in Nat /\ e - 1 \in Int /\ e - 1 <= Len(file)
    BY <1>1
  <2>2. /\ u \in Seq(0..MaxLines) /\ Len(u) = IF s <= e - 1 THEN e - 1 - s + 1 ELSE 0
        /\ \A k \in 1..Len(u) : u[k] = file[s + k - 1]
    BY <1>1, <2>1, SliceIs
  <2> HIDE DEF u
  <2>3. Len(u) = e - s
    BY <1>1, <2>2
  <2>4. \A k \in 1..e - s : u[k] = file[s + k - 1]
    BY <2>2, <2>3
  <2>5. e - s \in Nat /\ e - s <= Len(file)
    BY <1>1, <2>1
  <2> QED BY <2>2, <2>3, <2>4, <2>5 DEF u
<1>2. /\ OldBefore(g, l) \in Seq(0..MaxLines)
      /\ Len(OldBefore(g, l)) = g.start1 - l.start1 /\ g.start1 - l.start1 \in Nat
      /\ \A k \in 1..g.start1 - l.start1 : OldBefore(g, l)[k] = base_file[l.start1 + k - 1]
  <2>1. /\ base_file \in Seq(0..MaxLines) /\ l.start1 \in Int /\ g.start1 \in Int
        /\ 1 <= l.start1 /\ l.start1 <= g.start1 /\ g.start1 <= Len(base_file) + 1
    BY DEF Placed, Fits
  <2> QED BY <1>1, <2>1 DEF OldBefore
<1>3. ASSUME head_file # <<>>
      PROVE  /\ NewBefore(g, l) \in Seq(0..MaxLines) /\ Len(NewBefore(g, l)) <= MaxLines
             /\ Len(NewBefore(g, l)) = g.start2 - l.start2 /\ g.start2 - l.start2 \in Nat
             /\ \A k \in 1..g.start2 - l.start2 : NewBefore(g, l)[k] = head_file[l.start2 + k - 1]
  <2>1. /\ head_file \in Seq(1..MaxLines) /\ l.start2 \in Int /\ g.start2 \in Int
        /\ 1 <= l.start2 /\ l.start2 <= g.start2 /\ g.start2 <= Len(head_file) + 1
        /\ Len(head_file) <= MaxLines
    BY <1>3 DEF Placed, Fits
  <2>2. head_file \in Seq(0..MaxLines)
    <3>1. \A k \in 1..Len(head_file) : head_file[k] \in 0..MaxLines
      <4>1. \A k \in 1..Len(head_file) : head_file[k] \in 1..MaxLines
        BY <2>1, ElementOfSeq
      <4> QED BY <4>1
    <3>2. Len(head_file) \in Nat /\ head_file = [k \in 1..Len(head_file) |-> head_file[k]]
      BY <2>1
    <3>3. [k \in 1..Len(head_file) |-> head_file[k]] \in Seq(0..MaxLines)
      BY <3>1, <3>2, IsASeq
    <3> QED BY <3>2, <3>3
  <2>3. /\ NewBefore(g, l) \in Seq(0..MaxLines)
        /\ Len(NewBefore(g, l)) = g.start2 - l.start2 /\ g.start2 - l.start2 \in Nat
        /\ g.start2 - l.start2 <= Len(head_file)
        /\ \A k \in 1..g.start2 - l.start2 : NewBefore(g, l)[k] = head_file[l.start2 + k - 1]
    BY <1>1, <2>1, <2>2 DEF NewBefore
  <2>4. Len(head_file) \in Nat /\ MaxLines \in Nat
    BY <2>1, PatchHunksAssumption
  <2> QED BY <2>1, <2>3, <2>4
<1> QED BY <1>2, <1>3

\* When the lines from i on are the same, there are as many lines in both.
SameFrom(o, w, i) == Slice(o, i, Len(o)) = Slice(w, i, MaxLines + 1)

\* When the tails are the same, so are the lengths, and every line from there on.
LEMMA SameTail ==
    ASSUME NEW o \in Seq(0..MaxLines), NEW w \in Seq(0..MaxLines), NEW i \in 1..Len(o),
           Len(w) <= MaxLines, SameFrom(o, w, i)
    PROVE  Len(o) = Len(w) /\ \A k \in i..Len(o) : o[k] = w[k]
<1> DEFINE x == Slice(o, i, Len(o))
           y == Slice(w, i, MaxLines + 1)
<1>1. /\ MaxLines \in Nat /\ Len(o) \in Nat /\ Len(w) \in Nat /\ i \in Int /\ 1 <= i /\ i <= Len(o)
      /\ MaxLines + 1 \in Int /\ ~(MaxLines + 1 <= Len(w)) /\ Len(o) <= Len(o)
  <2>1. MaxLines \in Nat
    BY PatchHunksAssumption
  <2>2. Len(o) \in Nat /\ Len(w) \in Nat
    BY LenProperties
  <2> DEFINE n == Len(o)
             m == Len(w)
  <2>3. n \in Nat /\ m \in Nat /\ m <= MaxLines /\ i \in 1..n
    BY <2>2
  <2> HIDE DEF n, m
  <2>4. i \in Int /\ 1 <= i /\ i <= n /\ MaxLines + 1 \in Int /\ ~(MaxLines + 1 <= m) /\ n <= n
    BY <2>1, <2>3
  <2> QED BY <2>1, <2>3, <2>4 DEF n, m
<1>2. /\ Len(x) = IF i <= Len(o) THEN Len(o) - i + 1 ELSE 0
      /\ \A k \in 1..Len(x) : x[k] = o[i + k - 1]
  <2> DEFINE e == Len(o)
  <2>1. i \in Int /\ 1 <= i /\ e \in Int /\ Len(o) <= e
    BY <1>1
  <2> HIDE DEF e
  <2> QED BY <2>1, TailIs DEF e
<1>3. /\ Len(y) = IF i <= Len(w) THEN Len(w) - i + 1 ELSE 0
      /\ \A k \in 1..Len(y) : y[k] = w[i + k - 1]
  <2> DEFINE e == MaxLines + 1
  <2>1. i \in Int /\ 1 <= i /\ e \in Int /\ Len(w) <= e
    BY <1>1
  <2> HIDE DEF e
  <2>2. /\ Len(Slice(w, i, e)) = IF i <= Len(w) THEN Len(w) - i + 1 ELSE 0
        /\ \A k \in 1..Len(Slice(w, i, e)) : Slice(w, i, e)[k] = w[i + k - 1]
    BY <2>1, TailIs
  <2> QED BY <2>2 DEF e
<1>4. x = y
  BY DEF SameFrom
<1> HIDE DEF x, y
<1>5. Len(x) = Len(y)
  BY <1>4
<1>6. Len(o) = Len(w) /\ Len(x) = Len(o) - i + 1
  BY <1>1, <1>2, <1>3, <1>5
<1>7. ASSUME NEW k \in i..Len(o)
      PROVE  o[k] = w[k]
  <2> DEFINE m == k - i + 1
  <2>1. m \in 1..Len(x) /\ i + m - 1 = k
    BY <1>1, <1>6
  <2> HIDE DEF m
  <2>2. x[m] = o[i + m - 1] /\ y[m] = w[i + m - 1]
    BY <1>2, <1>3, <1>5, <2>1
  <2> QED BY <1>4, <2>1, <2>2
<1> QED BY <1>6, <1>7

\* Limits that begin where the files begin to be the same.
LEMMA LaterFits ==
    ASSUME NEW g, Placed(g), NEW l, Fits(g, l), head_file # <<>>,
           NEW i \in 1..Len(OldBefore(g, l)), SameFrom(OldBefore(g, l), NewBefore(g, l), i)
    PROVE  Fits(g, Later(l, i - 1)) /\ Even(g, Later(l, i - 1))
<1> DEFINE o == OldBefore(g, l)
           w == NewBefore(g, l)
           m == Later(l, i - 1)
<1>1. /\ o \in Seq(0..MaxLines) /\ Len(o) = g.start1 - l.start1
      /\ \A k \in 1..g.start1 - l.start1 : o[k] = base_file[l.start1 + k - 1]
      /\ w \in Seq(0..MaxLines) /\ Len(w) <= MaxLines /\ Len(w) = g.start2 - l.start2
      /\ \A k \in 1..g.start2 - l.start2 : w[k] = head_file[l.start2 + k - 1]
  BY BeforeIs
<1>2. Len(o) = Len(w) /\ \A k \in i..Len(o) : o[k] = w[k]
  BY <1>1, SameTail
<1>3. /\ m.start1 = l.start1 + (i - 1) /\ m.size1 = l.size1 - (i - 1)
      /\ m.start2 = l.start2 + (i - 1) /\ m.size2 = l.size2 - (i - 1)
  BY DEF Later
<1>4. i \in 1..Len(o)
  OBVIOUS
<1>5. /\ g.start1 \in Int /\ g.start2 \in Int /\ l.start1 \in Int /\ l.start2 \in Int
      /\ l.size1 \in Int /\ l.size2 \in Int /\ 1 <= l.start1 /\ 1 <= l.start2
  BY DEF Placed, Fits
<1> HIDE DEF o, w, m
<1>6. i \in Int /\ 1 <= i /\ i <= g.start1 - l.start1 /\ g.start1 - l.start1 = g.start2 - l.start2
  BY <1>1, <1>2, <1>4, <1>5
<1>7. Fits(g, m)
  <2>1. /\ m.start1 \in Int /\ 1 <= m.start1 /\ m.start1 <= g.start1
    BY <1>3, <1>5, <1>6
  <2>2. m.start2 \in Nat /\ 1 <= m.start2 /\ m.start2 <= g.start2
    BY <1>3, <1>5, <1>6
  <2>3. m.size1 \in Int /\ m.size2 \in Int
    BY <1>3, <1>5, <1>6
  <2> QED BY <2>1, <2>2, <2>3 DEF Fits
<1>8. g.start1 - m.start1 = g.start2 - m.start2
  BY <1>3, <1>5, <1>6
<1>10. g.start1 - m.start1 = g.start1 - l.start1 - (i - 1) /\ g.start1 - m.start1 \in Int
  BY <1>3, <1>5, <1>6
<1>9. ASSUME NEW k \in 1..g.start1 - m.start1
      PROVE  base_file[m.start1 + k - 1] = head_file[m.start2 + k - 1]
  <2> DEFINE j == i + k - 1
  <2>0. /\ k \in Int /\ 1 <= k /\ k <= g.start1 - l.start1 - (i - 1)
        /\ Len(o) = g.start1 - l.start1
        /\ m.start1 = l.start1 + (i - 1) /\ m.start2 = l.start2 + (i - 1)
    BY <1>1, <1>3, <1>10
  <2>1. j \in 1..g.start1 - l.start1 /\ j \in 1..g.start2 - l.start2
    BY <1>5, <1>6, <2>0
  <2>2. j \in i..Len(o)
    BY <1>5, <1>6, <2>0
  <2>4. l.start1 + j - 1 = m.start1 + k - 1 /\ l.start2 + j - 1 = m.start2 + k - 1
    <3>1. \A x \in Int : x + (i + k - 1) - 1 = x + (i - 1) + k - 1
      BY <1>6, <2>0
    <3>2. l.start1 \in Int /\ l.start2 \in Int
      BY <1>5
    <3> QED BY <2>0, <3>1, <3>2
  <2> HIDE DEF j
  <2>3. o[j] = base_file[l.start1 + j - 1] /\ w[j] = head_file[l.start2 + j - 1] /\ o[j] = w[j]
    BY <1>1, <1>2, <2>1, <2>2
  <2> QED BY <2>3, <2>4
<1> QED BY <1>7, <1>8, <1>9 DEF Even, m

\* Nor does the extension back to the enclosing function.
LEMMA WantedFits ==
    ASSUME NEW g, Placed(g), before \in Nat, after \in Nat, dynamic \in Nat, NEW l \in Wanted(g)
    PROVE  Fits(g, l)
<1> DEFINE far == Limits(g, dynamic)
           old == OldBefore(g, far)
           hits == {i \in DOMAIN old : Names(g.section, old[i])}
           i == Min(hits)
<1>1. CASE Enclosing(g) = {}
  <2>1. l = Limits(g, before)
    BY <1>1 DEF Wanted
  <2> QED BY <2>1, LimitsFit
<1>2. CASE Enclosing(g) # {}
  <2>1. /\ Enclosing(g) = {i - 1} /\ head_file # <<>> /\ hits # {}
        /\ Slice(old, i, Len(old)) = Slice(NewBefore(g, far), i, MaxLines + 1)
    BY <1>2 DEF Enclosing
  <2>2. l = Later(far, i - 1)
    BY <2>1 DEF Wanted
  <2>3. Fits(g, far)
    BY LimitsFit
  <2>4. i \in 1..Len(old)
    <3>1. DOMAIN old = 1..Len(old) /\ Len(old) \in Nat
      <4>1. old \in Seq(0..MaxLines)
        BY <2>3, BeforeIs
      <4> QED BY <4>1
    <3>2. hits \subseteq 1..Len(old) /\ hits \subseteq Nat
      BY <3>1
    <3> HIDE DEF hits
    <3>3. i \in hits
      BY <2>1, <3>2, MinIs
    <3> QED BY <3>2, <3>3
  <2>5. SameFrom(old, NewBefore(g, far), i)
    BY <2>1 DEF SameFrom
  <2> HIDE DEF far, i
  <2>6. Fits(g, Later(far, i - 1))
    BY <2>1, <2>3, <2>4, <2>5, LaterFits
  <2> QED BY <2>2, <2>6
<1> QED BY <1>1, <1>2

\* The limits that the hunk gets.
Reached(g, l) == Fits(g, l) /\ (head_file # <<>> => Even(g, l))

\* What the comparison leaves is as long in both files, with the same lines.
LEMMA AlignedFits ==
    ASSUME NEW g, Placed(g), NEW m, Fits(g, m), NEW l,
           l \in (IF Aligned(g, m) # {} THEN Aligned(g, m) ELSE {g})
    PROVE  Reached(g, l)
<1> DEFINE old == OldBefore(g, m)
           new == NewBefore(g, m)
           same == {i \in 1..Len(old) : Slice(old, i, Len(old)) = Slice(new, i, MaxLines + 1)}
<1>1. Aligned(g, m) = IF head_file = <<>> \/ old = new THEN {m}
                      ELSE IF same # {} THEN {Later(m, Min(same) - 1)} ELSE {}
  BY DEF Aligned
<1>2. CASE head_file = <<>>
  BY <1>1, <1>2 DEF Reached
<1>3. CASE head_file # <<>> /\ old = new
  <2>1. l = m
    BY <1>1, <1>3
  <2>2. /\ Len(old) = g.start1 - m.start1
        /\ \A k \in 1..g.start1 - m.start1 : old[k] = base_file[m.start1 + k - 1]
        /\ Len(new) = g.start2 - m.start2
        /\ \A k \in 1..g.start2 - m.start2 : new[k] = head_file[m.start2 + k - 1]
    BY <1>3, BeforeIs
  <2>3. Even(g, m)
    <3> HIDE DEF old, new
    <3>1. g.start1 - m.start1 = g.start2 - m.start2
      BY <1>3, <2>2
    <3> QED BY <1>3, <2>2, <3>1 DEF Even
  <2> QED BY <2>1, <2>3 DEF Reached
<1>4. CASE head_file # <<>> /\ old # new /\ same # {}
  <2> DEFINE i == Min(same)
  <2>1. l = Later(m, i - 1)
    <3> HIDE DEF same
    <3>1. Aligned(g, m) = {Later(m, Min(same) - 1)}
      BY <1>1, <1>4
    <3> HIDE <1>1
    <3> QED BY <3>1
  <2>2. i \in same
    <3>1. same \subseteq Nat
      OBVIOUS
    <3> HIDE DEF same
    <3> QED BY <1>4, <3>1, MinIs
  <2>3. i \in 1..Len(old) /\ SameFrom(old, new, i)
    BY <2>2 DEF SameFrom
  <2> HIDE DEF i
  <2>4. Fits(g, Later(m, i - 1)) /\ Even(g, Later(m, i - 1))
    BY <1>4, <2>3, LaterFits
  <2> QED BY <2>1, <2>4 DEF Reached
<1>5. CASE head_file # <<>> /\ old # new /\ same = {}
  <2>1. l = g
    BY <1>1, <1>5
  <2>2. Fits(g, g)
    BY DEF Fits, Placed
  <2>3. Even(g, g)
    BY DEF Even, Placed
  <2> QED BY <2>1, <2>2, <2>3 DEF Reached
<1> QED BY <1>2, <1>3, <1>4, <1>5

\* The lines behind a hunk that are read with it.
Behind(g) == Slice(base_file, g.start1 + g.size1, g.start1 + g.size1 + after - 1)

\* The lines behind a hunk are those of the old file that was read.
LEMMA BehindIs ==
    ASSUME NEW g, Placed(g), after \in Nat
    PROVE  /\ Behind(g) \in Seq(0..MaxLines) /\ Len(Behind(g)) \in Nat /\ Len(Behind(g)) <= after
           /\ \A k \in 1..Len(Behind(g)) :
                 /\ Behind(g)[k] = base_file[g.start1 + g.size1 + k - 1]
                 /\ g.start1 + g.size1 + k - 1 \in 1..Len(base_file)
<1> DEFINE c == g.start1 + g.size1
           e == g.start1 + g.size1 + after - 1
           f == Slice(base_file, c, e)
<1>1. /\ base_file \in Seq(0..MaxLines) /\ Len(base_file) \in Nat
      /\ g.start1 \in Int /\ 1 <= g.start1 /\ g.size1 \in Int /\ 0 <= g.size1
  <2>1. base_file \in Seq(0..MaxLines)
    BY DEF Placed
  <2>2. Len(base_file) \in Nat
    BY <2>1, LenProperties
  <2> QED BY <2>1, <2>2 DEF Placed
<1>2. c \in Int /\ 1 <= c /\ e \in Int /\ e = c + after - 1
  BY <1>1
<1>3. Behind(g) = f
  BY DEF Behind
<1> HIDE DEF c, e
<1>4. LET hi == IF e <= Len(base_file) THEN e ELSE Len(base_file)
      IN /\ f \in Seq(0..MaxLines)
         /\ Len(f) = IF c <= hi THEN hi - c + 1 ELSE 0
         /\ \A i \in 1..Len(f) : f[i] = base_file[c + i - 1]
  BY <1>1, <1>2, SliceIs
<1> HIDE DEF f
<1>5. \/ Len(f) = 0
      \/ Len(f) = e - c + 1 /\ c <= e /\ e <= Len(base_file)
      \/ Len(f) = Len(base_file) - c + 1 /\ c <= Len(base_file) /\ Len(base_file) < e
  BY <1>1, <1>2, <1>4
<1>6. /\ Len(f) \in Nat /\ Len(f) <= after
      /\ c + Len(f) - 1 <= Len(base_file) \/ Len(f) = 0
  BY <1>1, <1>2, <1>5
<1>7. \A k \in 1..Len(f) : c + k - 1 \in 1..Len(base_file)
  BY <1>1, <1>2, <1>6
<1>8. Len(f) \in Nat /\ Len(f) <= after
  BY <1>6
<1> QED BY <1>3, <1>4, <1>7, <1>8 DEF c

\* What an extension makes of a hunk.
LEMMA ExtendedIs ==
    ASSUME NEW g \in Hunks, Placed(g), NEW l, Fits(g, l), after \in Nat
    PROVE  LET h == ExtendedTo(g, l)
           IN /\ h.start1 = l.start1 /\ h.start2 = l.start2
              /\ h.lines = Padded(OldBefore(g, l), g.lines, Behind(g))
              /\ h \in Hunks
<1> DEFINE p == OldBefore(g, l)
           f == Behind(g)
           u == g.lines
           s == Section(g, p)
           h == ExtendedTo(g, l)
<1>1. p \in Seq(0..MaxLines)
  BY BeforeIs
<1>2. f \in Seq(0..MaxLines)
  BY BehindIs
<1>3. u \in Seq(HunkLine) /\ g.section \in 0..MaxLines
  BY DEF Hunks, HunkLine, Tags
<1>4. Padded(p, u, f) \in Seq(HunkLine)
  <2> HIDE DEF p, f, u
  <2> QED BY <1>1, <1>2, <1>3, PaddedIs
<1>5. h = [start1 |-> l.start1, size1 |-> l.size1, start2 |-> l.start2, size2 |-> l.size2,
           section |-> s, lines |-> Padded(p, u, f)]
  BY DEF ExtendedTo, Following, Behind, Padded
<1>6. s \in 0..MaxLines
  <2> HIDE DEF p
  <2>1. MaxLines \in Nat
    BY PatchHunksAssumption
  <2> QED BY <1>3, <2>1 DEF Section
<1>7. l.start1 \in Nat /\ l.size1 \in Int /\ l.start2 \in Nat /\ l.size2 \in Int
  BY DEF Fits
<1> HIDE DEF p, f, u, s, h
<1>8. h \in Hunks
  <2>1. Hunks = [start1 : Nat, size1 : Int, start2 : Nat, size2 : Int, section : 0..MaxLines,
                 lines : Seq(HunkLine)]
    BY DEF Hunks, HunkLine, Tags
  <2> QED BY <1>4, <1>5, <1>6, <1>7, <2>1
<1>9. h.start1 = l.start1 /\ h.start2 = l.start2 /\ h.lines = Padded(p, u, f)
  BY <1>5
<1> QED BY <1>8, <1>9 DEF p, f, u, h

LEMMA AmongAtMost ==
    ASSUME NEW T, NEW a \in Int, NEW b \in Int, a <= b + 1
    PROVE  Among(T, a, b) <= b - a + 1
<1>1. {k \in a..b : k \in T} \in SUBSET (a..b) /\ IsFiniteSet(a..b) /\ Cardinality(a..b) = b - a + 1
  BY FS_Interval
<1> QED BY <1>1, FS_Subset DEF Among

\* No change is close behind a hunk.
LEMMA AfterHunk ==
    ASSUME ScriptOK, NEW a, NEW b, Bounds(a, b), NEW tags \in {Old, New},
           NEW k \in 1..Context + 1, b + k <= Len(script)
    PROVE  IsAt(Kept(tags), Count(tags, 1, b) + k, b + k)
<1> DEFINE e == b + k
           c == b + 1
<1>1. /\ a \in Int /\ b \in Int /\ 1 <= a /\ a <= b /\ b <= Len(script) /\ Len(script) \in Nat
      /\ Context \in Nat
  BY BoundsAre, PatchHunksAssumption
<1>2. k \in Int /\ 1 <= k /\ k <= Context + 1 /\ c \in Lines
  BY <1>1, LinesAre
<1>3. \A j \in c..e : j \in Lines /\ script[j] = " "
  <2> SUFFICES ASSUME NEW j \in c..e
               PROVE  j \in Lines /\ script[j] = " "
    OBVIOUS
  <2>1. j \in Lines /\ j - Context <= c /\ c <= j + Context
    BY <1>1, <1>2, LinesAre
  <2>2. ~InHunk(c)
    BY DEF Bounds
  <2> HIDE DEF c
  <2> QED BY <1>2, <2>1, <2>2 DEF InHunk
<1>4. c..e \subseteq In(tags)
  BY <1>3 DEF In, Old, New
<1>5. e \in Int /\ c \in Int /\ c = b + 1 /\ 1 <= c /\ b <= e /\ e <= Len(script) /\ c <= e + 1
      /\ e - c + 1 = k /\ e \in c..e
  BY <1>1, <1>2
<1> HIDE DEF c, e
<1>6. Count(tags, c, e) = k
  <2>1. Count(tags, c, e) = Among(In(tags), c, e)
    BY <1>5, CountIs
  <2>2. Among(In(tags), c, e) = e - c + 1
    BY <1>4, <1>5, AmongAll
  <2> QED BY <1>5, <2>1, <2>2
<1>7. Count(tags, 1, e) = Count(tags, 1, b) + Count(tags, c, e)
  BY <1>1, <1>5, CountUpTo
<1>8. e \in Lines /\ script[e] \in tags
  BY <1>4, <1>5 DEF In
<1>9. IsAt(Kept(tags), Count(tags, 1, e), e)
  BY <1>8, KeptIs
<1> QED BY <1>6, <1>7, <1>9 DEF e

-----------------------------------------------------------------------------
\* The hunks of the diff, in the files that are read.

\* A sequence over a set is one over a larger set.
LEMMA SeqWithin ==
    ASSUME NEW S, NEW T, S \subseteq T, NEW u \in Seq(S)
    PROVE  u \in Seq(T)
<1>1. \A k \in 1..Len(u) : u[k] \in T
  BY ElementOfSeq
<1>2. Len(u) \in Nat /\ u = [k \in 1..Len(u) |-> u[k]]
  OBVIOUS
<1>3. [k \in 1..Len(u) |-> u[k]] \in Seq(T)
  BY <1>1, <1>2, IsASeq
<1> QED BY <1>2, <1>3

\* The files belong to the script; the old one may have been read with a line too many.
FilesOK ==
    /\ ScriptOK
    /\ head_file = NewFile
    /\ base_file = OldFile \/ (OldFile # <<>> /\ base_file = <<0>> \o OldFile)

\* The files are no longer than the script; the one that was read may have a line more.
LEMMA FilesAre ==
    ASSUME FilesOK
    PROVE  /\ OldFile \in Seq(1..MaxLines) /\ head_file \in Seq(1..MaxLines)
           /\ Len(OldFile) \in Nat /\ Len(head_file) \in Nat /\ Len(head_file) <= MaxLines
           /\ base_file \in Seq(0..MaxLines) /\ Len(OldFile) <= Len(base_file)
           /\ base_file # OldFile => \A k \in 1..Len(OldFile) + 1 :
                  base_file[k] = IF k = 1 THEN 0 ELSE OldFile[k - 1]
<1>1. /\ ScriptOK /\ head_file = NewFile
      /\ base_file = OldFile \/ (OldFile # <<>> /\ base_file = <<0>> \o OldFile)
  BY DEF FilesOK
<1>2. Len(script) <= MaxLines /\ MaxLines \in Nat /\ Len(script) \in Nat
  <2>1. Len(script) \in 0..MaxLines
    BY <1>1 DEF ScriptOK
  <2>2. MaxLines \in Nat
    BY PatchHunksAssumption
  <2> QED BY <2>1, <2>2
<1>3. ASSUME NEW tags
      PROVE  /\ Kept(tags) \in Seq(1..MaxLines) /\ Len(Kept(tags)) \in Nat
             /\ Len(Kept(tags)) <= MaxLines
  <2>1. In(tags) \subseteq 1..MaxLines
    BY <1>1, <1>2, LinesAre DEF In
  <2>2. Kept(tags) \in Seq(In(tags)) /\ Len(Kept(tags)) \in Nat /\ Len(Kept(tags)) <= Len(script)
    BY <1>1, KeptIs
  <2>3. Kept(tags) \in Seq(1..MaxLines)
    BY <2>1, <2>2, SeqWithin
  <2> QED BY <1>2, <2>2, <2>3
<1>4. OldFile \in Seq(1..MaxLines) /\ Len(OldFile) \in Nat
  BY <1>3 DEF OldFile
<1>5. head_file \in Seq(1..MaxLines) /\ Len(head_file) \in Nat /\ Len(head_file) <= MaxLines
  BY <1>1, <1>3 DEF NewFile
<1>6. OldFile \in Seq(0..MaxLines)
  <2>1. 1..MaxLines \subseteq 0..MaxLines
    OBVIOUS
  <2> QED BY <1>4, <2>1, SeqWithin
<1> DEFINE z == <<0>> \o OldFile
<1>7. /\ z \in Seq(0..MaxLines) /\ Len(z) = 1 + Len(OldFile)
      /\ \A k \in 1..Len(OldFile) + 1 : z[k] = IF k = 1 THEN 0 ELSE OldFile[k - 1]
  <2>1. <<0>> \in Seq(0..MaxLines) /\ Len(<<0>>) = 1 /\ <<0>>[1] = 0
    BY <1>2
  <2>2. /\ z \in Seq(0..MaxLines) /\ Len(z) = Len(<<0>>) + Len(OldFile)
        /\ \A k \in 1..Len(<<0>>) + Len(OldFile) :
               z[k] = IF k <= Len(<<0>>) THEN <<0>>[k] ELSE OldFile[k - Len(<<0>>)]
    BY <1>6, <2>1, ConcatProperties
  <2> HIDE DEF z
  <2>3. \A k \in 1..Len(OldFile) + 1 : (k <= 1 <=> k = 1) /\ k \in 1..1 + Len(OldFile)
    BY <1>4
  <2> QED BY <2>1, <2>2, <2>3
<1> HIDE DEF z
<1>8. CASE base_file = OldFile
  BY <1>4, <1>5, <1>6, <1>8
<1>9. CASE base_file = z
  BY <1>4, <1>5, <1>7, <1>9
<1> QED BY <1>1, <1>8, <1>9 DEF z

\* The hunks of the diff lie in the files.
LEMMA GivenIsPlaced ==
    ASSUME FilesOK, NEW a, NEW b, Bounds(a, b)
    PROVE  /\ HunkFrom(a, b) \in Hunks
           /\ base_file # <<>> => Placed(HunkFrom(a, b))
<1> DEFINE g == HunkFrom(a, b)
<1>1. ScriptOK /\ head_file = NewFile
  BY DEF FilesOK
<1>2. /\ g.start1 = StartOf(Old, a, b) /\ g.size1 = AsRead(Count(Old, a, b))
      /\ g.start2 = StartOf(New, a, b) /\ g.size2 = AsRead(Count(New, a, b))
      /\ g.section \in 0..Len(script) /\ g.lines \in Seq(HunkLine)
  BY <1>1, HunkIs DEF HunkLine
<1>3. /\ StartOf(Old, a, b) \in Nat /\ Count(Old, a, b) \in Nat
      /\ StartOf(Old, a, b) <= Len(OldFile) + 1
      /\ Count(Old, a, b) # 0 => StartOf(Old, a, b) >= 1
  BY <1>1, StartIs DEF OldFile
<1>4. /\ StartOf(New, a, b) \in Nat /\ Count(New, a, b) \in Nat
      /\ StartOf(New, a, b) <= Len(NewFile) + 1
      /\ Count(New, a, b) # 0 => StartOf(New, a, b) >= 1
  BY <1>1, StartIs DEF NewFile
<1>5. AsRead(Count(Old, a, b)) \in Nat /\ AsRead(Count(New, a, b)) \in Nat
  BY <1>3, <1>4 DEF AsRead
<1>6. g.section \in 0..MaxLines
  <2>1. Len(script) \in 0..MaxLines
    BY <1>1 DEF ScriptOK
  <2>2. MaxLines \in Nat
    BY PatchHunksAssumption
  <2>3. g.section \in 0..Len(script)
    BY <1>2
  <2> HIDE DEF g
  <2> QED BY <2>1, <2>2, <2>3
<1>7. g = [start1 |-> g.start1, size1 |-> g.size1, start2 |-> g.start2, size2 |-> g.size2,
           section |-> g.section, lines |-> g.lines]
  BY DEF HunkFrom
<1>8. Count(Old, a, b) = 0 => OldFile = <<>>
  BY <1>1, NothingElse DEF OldFile
<1>9. Count(New, a, b) = 0 => NewFile = <<>>
  BY <1>1, NothingElse DEF NewFile
<1> HIDE DEF g
<1>10. g \in Hunks
  <2>1. Hunks = [start1 : Nat, size1 : Int, start2 : Nat, size2 : Int, section : 0..MaxLines,
                 lines : Seq(HunkLine)]
    BY DEF Hunks, HunkLine, Tags
  <2>2. g.start1 \in Nat /\ g.size1 \in Int /\ g.start2 \in Nat /\ g.size2 \in Int
    BY <1>2, <1>3, <1>4, <1>5
  <2> QED BY <1>2, <1>6, <1>7, <2>1, <2>2
<1>11. ASSUME base_file # <<>>
       PROVE  Placed(g)
  <2>1. OldFile # <<>>
    BY <1>11 DEF FilesOK
  <2>2. /\ base_file \in Seq(0..MaxLines) /\ head_file \in Seq(1..MaxLines)
        /\ Len(head_file) <= MaxLines /\ Len(OldFile) <= Len(base_file)
        /\ Len(OldFile) \in Nat /\ Len(base_file) \in Nat
    <3>1. base_file \in Seq(0..MaxLines)
      BY FilesAre
    <3> QED BY <3>1, FilesAre, LenProperties
  <2>3. g.start1 \in Int /\ 1 <= g.start1 /\ g.start1 <= Len(base_file) + 1
    BY <1>2, <1>3, <1>8, <2>1, <2>2
  <2>4. g.size1 \in Int /\ 0 <= g.size1 /\ g.size2 \in Int /\ g.start2 \in Nat
    BY <1>2, <1>4, <1>5
  <2>5. head_file # <<>> => 1 <= g.start2 /\ g.start2 <= Len(head_file) + 1
    BY <1>1, <1>2, <1>4, <1>9
  <2> QED BY <2>2, <2>3, <2>4, <2>5 DEF Placed
<1> QED BY <1>10, <1>11 DEF g

-----------------------------------------------------------------------------
\* What an extended hunk is.

\* Where extended hunks are right: see ExtendedIsFaithful.
Sure(g) ==
    /\ ~SizeLeftOut(g) /\ after <= Context + 1
    /\ base_file # OldFile => g.lines[1].tag = " "

\* h is g with lines of the files in front and behind.
Grown(h, g) ==
    \E p, f \in Seq(0..MaxLines) :
        /\ h.lines = Padded(p, g.lines, f)
        /\ head_file # <<>> => h.start2 + Len(p) = g.start2
        /\ Sure(g) =>
              /\ h.start1 + Len(p) = g.start1 /\ h.start2 + Len(p) = g.start2
              /\ \A k \in 1..Len(p) : /\ IsAt(OldFile, h.start1 + k - 1, p[k])
                                      /\ IsAt(head_file, h.start2 + k - 1, p[k])
              /\ \A k \in 1..Len(f) : /\ IsAt(OldFile, g.start1 + g.size1 + k - 1, f[k])
                                      /\ IsAt(head_file, g.start2 + g.size2 + k - 1, f[k])

\* A file that does not match is noticed.
LEMMA SureIsRead ==
    ASSUME FilesOK, NEW a, NEW b, Bounds(a, b), Sure(HunkFrom(a, b)), Matches(HunkFrom(a, b))
    PROVE  base_file = OldFile
<1> DEFINE g == HunkFrom(a, b)
           m == g.start1
<1> SUFFICES ASSUME base_file # OldFile
             PROVE  FALSE
  OBVIOUS
<1>1. ScriptOK
  BY DEF FilesOK
<1>2. 1 \in 1..b - a + 1 /\ a + 1 - 1 = a /\ a # 0
  BY <1>1, BoundsAre
<1>3. g.lines[1].tag = " " /\ g.lines[1].tag \in Old /\ g.lines[1].line = a
  <2>1. g.lines[1].line = a + 1 - 1
    BY <1>1, <1>2, HunkIs
  <2> QED BY <1>2, <2>1 DEF Sure, Old
<1>4. IsAt(OldFile, m, a)
  <2>1. IsAt(Kept(Old), StartOf(Old, a, b) + InFront(g, Old, 1), g.lines[1].line)
    BY <1>1, <1>2, <1>3, GivenIsAt
  <2>2. InFront(g, Old, 1) = 0
    <3>1. {j \in 1..1 - 1 : g.lines[j].tag \in Old} = {}
      <4> HIDE DEF g
      <4> QED OBVIOUS
    <3> QED BY <3>1, FS_EmptySet DEF InFront
  <2>3. StartOf(Old, a, b) \in Nat /\ g.start1 = StartOf(Old, a, b)
    BY <1>1, StartIs, HunkIs
  <2>4. StartOf(Old, a, b) + InFront(g, Old, 1) = m
    BY <2>2, <2>3
  <2>5. IsAt(Kept(Old), m, a)
    BY <1>3, <2>1, <2>4
  <2> QED BY <2>5 DEF OldFile
<1>5. m \in 1..Len(OldFile) /\ Len(OldFile) \in Nat
  <2>1. OldFile \in Seq(1..MaxLines) /\ Len(OldFile) \in Nat
    BY FilesAre
  <2>2. DOMAIN OldFile = 1..Len(OldFile)
    BY <2>1
  <2> HIDE DEF m
  <2> QED BY <1>4, <2>1, <2>2 DEF IsAt
<1>6. base_file[m] = IF m = 1 THEN 0 ELSE OldFile[m - 1]
  <2>1. m \in 1..Len(OldFile) + 1
    BY <1>5
  <2> HIDE DEF m
  <2> QED BY <2>1, FilesAre
<1>7. m \in DOMAIN base_file
  <2>1. base_file \in Seq(0..MaxLines) /\ Len(OldFile) <= Len(base_file)
    BY FilesAre
  <2>2. DOMAIN base_file = 1..Len(base_file) /\ Len(base_file) \in Nat
    BY <2>1
  <2> HIDE DEF m
  <2> QED BY <1>5, <2>1, <2>2
<1>8. base_file[m] = a
  <2> HIDE DEF g
  <2> QED BY <1>3, <1>7 DEF Matches, g
<1> HIDE DEF m
<1>9. m # 1 /\ OldFile[m - 1] = a
  BY <1>2, <1>6, <1>8
<1>10. IsAt(OldFile, m - 1, a)
  <2>1. m - 1 \in 1..Len(OldFile)
    BY <1>5, <1>9
  <2>2. OldFile \in Seq(1..MaxLines)
    BY FilesAre
  <2>3. DOMAIN OldFile = 1..Len(OldFile)
    BY <2>2
  <2> QED BY <1>9, <2>1, <2>3 DEF IsAt
<1>11. m = m - 1
  <2> DEFINE n == m - 1
  <2> HIDE DEF n
  <2>1. IsAt(Kept(Old), n, a) /\ IsAt(Kept(Old), m, a)
    BY <1>4, <1>10 DEF n, OldFile
  <2>2. m = n
    BY <1>1, <2>1, OneNumber
  <2> QED BY <2>2 DEF n
<1> QED BY <1>5, <1>11

\* The lines that follow are in both files, right behind the hunk.
LEMMA BehindIsAt ==
    ASSUME FilesOK, base_file = OldFile, base_file # <<>>, after \in Nat,
           NEW a, NEW b, Bounds(a, b), Sure(HunkFrom(a, b)),
           NEW k \in 1..Len(Behind(HunkFrom(a, b)))
    PROVE  LET g == HunkFrom(a, b)
           IN /\ IsAt(OldFile, g.start1 + g.size1 + k - 1, Behind(g)[k])
              /\ IsAt(head_file, g.start2 + g.size2 + k - 1, Behind(g)[k])
<1> DEFINE g == HunkFrom(a, b)
           f == Behind(g)
           n == Len(script)
           c1 == Count(Old, 1, b)
           c2 == Count(New, 1, b)
<1>1. ScriptOK /\ head_file = NewFile
  BY DEF FilesOK
<1>2. a \in Int /\ b \in Int /\ 1 <= a /\ a <= b /\ b <= n /\ n \in Nat
  BY <1>1, BoundsAre
<1>3. g.size1 # 0 /\ g.size2 # 0 /\ after <= Context + 1
  BY DEF Sure, SizeLeftOut
<1>4. /\ g.start1 = StartOf(Old, a, b) /\ g.size1 = AsRead(Count(Old, a, b))
      /\ g.start2 = StartOf(New, a, b) /\ g.size2 = AsRead(Count(New, a, b))
  BY <1>1, HunkIs
<1>5. g.start1 + g.size1 = c1 + 1 /\ c1 \in Nat
  <2>1. /\ StartOf(Old, a, b) \in Nat /\ Count(Old, a, b) \in Nat
        /\ Count(Old, a, b) # 0 => StartOf(Old, a, b) + Count(Old, a, b) = c1 + 1
    BY <1>1, StartIs
  <2>2. Count(Old, 1, b) \in Nat
    <3>1. Count(Old, 1, b) = Among(In(Old), 1, b)
      BY <1>1, <1>2, CountIs
    <3> QED BY <1>2, <3>1, AmongNat
  <2> HIDE DEF g, c1
  <2>3. Count(Old, a, b) # 0 /\ g.size1 = Count(Old, a, b)
    BY <1>3, <1>4 DEF AsRead
  <2> QED BY <1>4, <2>1, <2>2, <2>3 DEF c1
<1>6. g.start2 + g.size2 = c2 + 1 /\ c2 \in Nat
  <2>1. /\ StartOf(New, a, b) \in Nat /\ Count(New, a, b) \in Nat
        /\ Count(New, a, b) # 0 => StartOf(New, a, b) + Count(New, a, b) = c2 + 1
    BY <1>1, StartIs
  <2>2. Count(New, 1, b) \in Nat
    <3>1. Count(New, 1, b) = Among(In(New), 1, b)
      BY <1>1, <1>2, CountIs
    <3> QED BY <1>2, <3>1, AmongNat
  <2> HIDE DEF g, c2
  <2>3. Count(New, a, b) # 0 /\ g.size2 = Count(New, a, b)
    BY <1>3, <1>4 DEF AsRead
  <2> QED BY <1>4, <2>1, <2>2, <2>3 DEF c2
<1>7. /\ Len(f) \in Nat /\ Len(f) <= after
      /\ f[k] = base_file[g.start1 + g.size1 + k - 1]
      /\ g.start1 + g.size1 + k - 1 \in 1..Len(base_file)
  <2>1. Placed(g)
    BY <1>1, GivenIsPlaced
  <2> HIDE DEF g
  <2> QED BY <2>1, BehindIs DEF g
<1>8. k \in Int /\ 1 <= k /\ k <= Context + 1 /\ Context \in Nat
  <2>1. Context \in Nat /\ k \in 1..Len(f)
    BY PatchHunksAssumption
  <2> HIDE DEF f
  <2> QED BY <1>3, <1>7, <2>1
<1>9. g.start1 + g.size1 + k - 1 = c1 + k /\ g.start2 + g.size2 + k - 1 = c2 + k
  <2>1. g.start1 + g.size1 \in Int /\ g.start2 + g.size2 \in Int
    BY <1>5, <1>6
  <2>2. g.start1 + g.size1 + k - 1 = c1 + 1 + k - 1
    BY <1>5
  <2>3. g.start2 + g.size2 + k - 1 = c2 + 1 + k - 1
    BY <1>6
  <2> HIDE DEF g, c1, c2
  <2> QED BY <1>5, <1>6, <1>8, <2>2, <2>3
<1>10. c1 + k <= Len(OldFile)
  <2>1. g.start1 + g.size1 + k - 1 \in 1..Len(OldFile)
    BY <1>7
  <2>2. Len(OldFile) \in Nat
    BY FilesAre
  <2> HIDE DEF g, c1
  <2> QED BY <1>9, <2>1, <2>2
<1>11. b + k <= n
  <2>1. Len(OldFile) = Count(Old, 1, n)
    BY <1>1, KeptIs DEF OldFile
  <2> DEFINE d == b + 1
  <2>2. d \in Int /\ d = b + 1 /\ 1 <= d /\ d <= n + 1 /\ n \in Int /\ n <= Len(script)
    BY <1>2
  <2> HIDE DEF d, n
  <2>3. Count(Old, 1, n) = c1 + Count(Old, d, n)
    BY <1>1, <1>2, <2>2, CountUpTo
  <2>4. Count(Old, d, n) = Among(In(Old), d, n)
    BY <1>1, <2>2, CountIs
  <2>5. Among(In(Old), d, n) <= n - d + 1
    BY <2>2, AmongAtMost
  <2>6. Among(In(Old), d, n) \in Nat
    BY <2>2, AmongNat
  <2> HIDE DEF c1
  <2> QED BY <1>2, <1>5, <1>8, <1>10, <2>1, <2>2, <2>3, <2>4, <2>5, <2>6
<1>12. k \in 1..Context + 1
  BY <1>8
<1>13. IsAt(OldFile, c1 + k, b + k)
  BY <1>1, <1>11, <1>12, AfterHunk DEF OldFile
<1>14. IsAt(head_file, c2 + k, b + k)
  BY <1>1, <1>11, <1>12, AfterHunk DEF NewFile
<1>15. f[k] = b + k
  <2>1. f[k] = OldFile[c1 + k]
    BY <1>7, <1>9
  <2> HIDE DEF f, c1
  <2> QED BY <1>13, <2>1 DEF IsAt
<1> HIDE DEF f
<1>16. IsAt(OldFile, g.start1 + g.size1 + k - 1, f[k]) /\ IsAt(head_file, g.start2 + g.size2 + k - 1, f[k])
  BY <1>9, <1>13, <1>14, <1>15
<1> QED BY <1>16 DEF f

\* A hunk that was extended is the given one with lines of the files around it.
LEMMA GrownOf ==
    ASSUME FilesOK, base_file # <<>>, after \in Nat,
           NEW a, NEW b, Bounds(a, b), Matches(HunkFrom(a, b)), NEW l, Reached(HunkFrom(a, b), l)
    PROVE  /\ ExtendedTo(HunkFrom(a, b), l) \in Hunks
           /\ Grown(ExtendedTo(HunkFrom(a, b), l), HunkFrom(a, b))
<1> DEFINE g == HunkFrom(a, b)
           h == ExtendedTo(g, l)
           p == OldBefore(g, l)
           f == Behind(g)
<1>1. g \in Hunks /\ Placed(g) /\ Fits(g, l) /\ (head_file # <<>> => Even(g, l))
  BY GivenIsPlaced DEF Reached
<1>2. h.start1 = l.start1 /\ h.start2 = l.start2 /\ h.lines = Padded(p, g.lines, f) /\ h \in Hunks
  <2> HIDE DEF g
  <2> QED BY <1>1, ExtendedIs
<1>3. /\ p \in Seq(0..MaxLines) /\ Len(p) = g.start1 - l.start1 /\ g.start1 - l.start1 \in Nat
      /\ \A k \in 1..g.start1 - l.start1 : p[k] = base_file[l.start1 + k - 1]
  <2> HIDE DEF g
  <2> QED BY <1>1, BeforeIs
<1>4. f \in Seq(0..MaxLines)
  <2> HIDE DEF g
  <2> QED BY <1>1, BehindIs
<1>5. /\ g.start1 \in Int /\ g.start2 \in Int /\ l.start1 \in Int /\ l.start2 \in Int
      /\ 1 <= l.start1 /\ g.start1 <= Len(base_file) + 1
  BY <1>1 DEF Placed, Fits
<1>6. ASSUME head_file # <<>>
      PROVE  /\ h.start2 + Len(p) = g.start2
             /\ \A k \in 1..Len(p) : p[k] = head_file[h.start2 + k - 1]
             /\ 1 <= h.start2 /\ g.start2 <= Len(head_file) + 1
  <2>1. /\ g.start1 - l.start1 = g.start2 - l.start2
        /\ \A k \in 1..g.start1 - l.start1 : base_file[l.start1 + k - 1] = head_file[l.start2 + k - 1]
    BY <1>1, <1>6 DEF Even
  <2>2. 1 <= l.start2 /\ g.start2 <= Len(head_file) + 1
    BY <1>1, <1>6 DEF Placed, Fits
  <2>3. h.start2 + Len(p) = g.start2
    <3> HIDE DEF g, h, p
    <3> QED BY <1>2, <1>3, <1>5, <2>1
  <2>4. \A k \in 1..Len(p) : p[k] = head_file[h.start2 + k - 1]
    <3> HIDE DEF g, h, p
    <3> QED BY <1>2, <1>3, <2>1
  <2> QED BY <1>2, <2>2, <2>3, <2>4
<1>7. ASSUME Sure(g)
      PROVE  /\ h.start1 + Len(p) = g.start1 /\ h.start2 + Len(p) = g.start2
             /\ \A k \in 1..Len(p) : /\ IsAt(OldFile, h.start1 + k - 1, p[k])
                                     /\ IsAt(head_file, h.start2 + k - 1, p[k])
             /\ \A k \in 1..Len(f) : /\ IsAt(OldFile, g.start1 + g.size1 + k - 1, f[k])
                                     /\ IsAt(head_file, g.start2 + g.size2 + k - 1, f[k])
  <2>1. base_file = OldFile
    BY <1>7, SureIsRead
  <2>2. head_file # <<>>
    <3>1. g.size2 # 0 /\ g.size2 = AsRead(Count(New, a, b)) /\ ScriptOK /\ head_file = NewFile
      <4>1. ScriptOK /\ head_file = NewFile
        BY DEF FilesOK
      <4> QED BY <1>7, <4>1, HunkIs DEF Sure, SizeLeftOut
    <3>2. Count(New, a, b) # 0 /\ Count(New, a, b) \in Nat
      BY <3>1, StartIs DEF AsRead
    <3>3. /\ StartOf(New, a, b) \in Nat /\ StartOf(New, a, b) >= 1
          /\ StartOf(New, a, b) + Count(New, a, b) <= Len(Kept(New)) + 1
      BY <3>1, <3>2, StartIs
    <3>4. Len(Kept(New)) \in Nat /\ Len(Kept(New)) # 0
      <4>1. Len(Kept(New)) \in Nat
        BY <3>1, KeptIs
      <4> QED BY <3>2, <3>3, <4>1
    <3>5. Kept(New) # <<>>
      BY <3>4
    <3> QED BY <3>1, <3>5 DEF NewFile
  <2>3. /\ DOMAIN OldFile = 1..Len(OldFile) /\ Len(OldFile) \in Nat
        /\ DOMAIN head_file = 1..Len(head_file) /\ Len(head_file) \in Nat
    <3>1. OldFile \in Seq(1..MaxLines) /\ head_file \in Seq(1..MaxLines)
      BY FilesAre
    <3> QED BY <3>1
  <2>4. h.start1 + Len(p) = g.start1
    <3> HIDE DEF g, h, p
    <3> QED BY <1>2, <1>3, <1>5
  <2>5. ASSUME NEW k \in 1..Len(p)
        PROVE  /\ IsAt(OldFile, h.start1 + k - 1, p[k]) /\ IsAt(head_file, h.start2 + k - 1, p[k])
    <3>1. /\ p[k] = base_file[h.start1 + k - 1] /\ p[k] = head_file[h.start2 + k - 1]
      BY <1>2, <1>3, <1>6, <2>2
    <3>2. h.start1 + k - 1 \in 1..Len(OldFile)
      <4>1. h.start1 + Len(p) <= Len(OldFile) + 1 /\ 1 <= h.start1 /\ h.start1 \in Int /\ Len(p) \in Nat
        <5> HIDE DEF g, h, p
        <5> QED BY <1>2, <1>3, <1>5, <2>1, <2>4
      <4> HIDE DEF g, h, p
      <4> QED BY <2>3, <4>1
    <3>3. h.start2 + k - 1 \in 1..Len(head_file)
      <4>1. h.start2 + Len(p) <= Len(head_file) + 1 /\ 1 <= h.start2 /\ h.start2 \in Int /\ Len(p) \in Nat
        <5>1. Len(p) \in Nat
          BY <1>3
        <5> HIDE DEF g, h, p
        <5> QED BY <1>2, <1>5, <1>6, <2>2, <5>1
      <4> HIDE DEF g, h, p
      <4> QED BY <2>3, <4>1
    <3> HIDE DEF h, p
    <3> QED BY <2>1, <2>3, <3>1, <3>2, <3>3 DEF IsAt
  <2>6. \A k \in 1..Len(f) : /\ IsAt(OldFile, g.start1 + g.size1 + k - 1, f[k])
                             /\ IsAt(head_file, g.start2 + g.size2 + k - 1, f[k])
    BY <1>7, <2>1, BehindIsAt
  <2>7. h.start2 + Len(p) = g.start2
    BY <1>6, <2>2
  <2> QED BY <2>4, <2>5, <2>6, <2>7
<1>8. Grown(h, g)
  <2> HIDE DEF g, h, p, f
  <2> QED BY <1>2, <1>3, <1>4, <1>6, <1>7 DEF Grown
<1> QED BY <1>2, <1>8

\* A hunk that is left alone.
LEMMA PaddedWithNone ==
    ASSUME NEW u \in Seq(HunkLine), NEW e \in Seq(0..MaxLines)
    PROVE  Len(e) = 0 => u = Padded(e, u, e)
<1> DEFINE w == Padded(e, u, e)
<1>1. Len(u) \in Nat /\ DOMAIN u = 1..Len(u)
  OBVIOUS
<1>2. w \in Seq(HunkLine) /\ Len(w) = Len(e) + Len(u) + Len(e)
  BY PaddedIs
<1>3. \A k \in 1..Len(u) : w[Len(e) + k] = u[k]
  BY PaddedIs
<1> SUFFICES ASSUME Len(e) = 0
             PROVE  u = w
  OBVIOUS
<1> HIDE DEF w
<1>4. Len(w) = Len(u) /\ \A k \in 1..Len(u) : w[k] = u[k]
  <2>1. \A k \in 1..Len(u) : Len(e) + k = k
    OBVIOUS
  <2> QED BY <1>1, <1>2, <1>3, <2>1
<1>5. u = [k \in 1..Len(u) |-> u[k]]
  BY <1>1
<1>6. w = [k \in 1..Len(w) |-> w[k]]
  BY <1>2
<1> QED BY <1>4, <1>5, <1>6

\* Nothing in front and nothing behind.
LEMMA PaddedWithNothing ==
    ASSUME NEW u \in Seq(HunkLine)
    PROVE  u = Padded(<<>>, u, <<>>)
<1>1. <<>> \in Seq(0..MaxLines) /\ Len(<<>>) = 0
  OBVIOUS
<1> QED BY <1>1, PaddedWithNone

\* So is one that was left alone, with none.
LEMMA GrownSelf ==
    ASSUME FilesOK, NEW a, NEW b, Bounds(a, b)
    PROVE  Grown(HunkFrom(a, b), HunkFrom(a, b))
<1> DEFINE g == HunkFrom(a, b)
<1>1. g \in Hunks
  BY GivenIsPlaced
<1> HIDE DEF g
<1>2. g.lines \in Seq(HunkLine) /\ g.start1 \in Nat /\ g.start2 \in Nat
  BY <1>1 DEF Hunks, HunkLine, Tags
<1>3. g.lines = Padded(<<>>, g.lines, <<>>)
  BY <1>2, PaddedWithNothing
<1>4. <<>> \in Seq(0..MaxLines) /\ Len(<<>>) = 0 /\ 1..0 = {}
  OBVIOUS
<1>5. g.start1 + Len(<<>>) = g.start1 /\ g.start2 + Len(<<>>) = g.start2
  BY <1>2, <1>4
<1>6. Grown(g, g)
  BY <1>3, <1>4, <1>5 DEF Grown
<1> QED BY <1>6 DEF g

\* The files have the lines of a hunk that was extended.
LEMMA GrownIsFaithful ==
    ASSUME FilesOK, NEW a, NEW b, Bounds(a, b), NEW h \in Hunks,
           Grown(h, HunkFrom(a, b)), Sure(HunkFrom(a, b))
    PROVE  Faithful(h, OldFile)
<1> DEFINE g == HunkFrom(a, b)
           n == b - a + 1
<1>1. ScriptOK /\ head_file = NewFile
  BY DEF FilesOK
<1>2. PICK p \in Seq(0..MaxLines), f \in Seq(0..MaxLines) :
        /\ h.lines = Padded(p, g.lines, f)
        /\ h.start1 + Len(p) = g.start1 /\ h.start2 + Len(p) = g.start2
        /\ \A k \in 1..Len(p) : /\ IsAt(OldFile, h.start1 + k - 1, p[k])
                                /\ IsAt(head_file, h.start2 + k - 1, p[k])
        /\ \A k \in 1..Len(f) : /\ IsAt(OldFile, g.start1 + g.size1 + k - 1, f[k])
                                /\ IsAt(head_file, g.start2 + g.size2 + k - 1, f[k])
  BY DEF Grown
<1> DEFINE x == Len(p)
           z == Len(f)
<1>3. g.lines \in Seq(HunkLine) /\ Len(g.lines) = n /\ n \in Nat
  <2>1. a \in Int /\ b \in Int /\ a <= b
    BY <1>1, BoundsAre
  <2>2. Len(g.lines) = b - a + 1 /\ g.lines \in Seq(HunkLine)
    BY <1>1, HunkIs DEF HunkLine
  <2> QED BY <2>1, <2>2
<1>4. x \in Nat /\ z \in Nat
  BY LenProperties
<1>5. /\ DOMAIN h.lines = 1..x + n + z
      /\ \A k \in 1..x : h.lines[k].tag = " " /\ h.lines[k].line = p[k]
      /\ \A k \in 1..n : h.lines[x + k] = g.lines[k]
      /\ \A k \in 1..z : h.lines[x + n + k].tag = " " /\ h.lines[x + n + k].line = f[k]
  <2> DEFINE u == g.lines
             w == Padded(p, u, f)
  <2>1. u \in Seq(HunkLine) /\ Len(u) = n
    BY <1>3
  <2> HIDE DEF u, n
  <2>2. /\ DOMAIN w = 1..Len(p) + Len(u) + Len(f)
        /\ \A k \in 1..Len(p) : w[k].tag = " " /\ w[k].line = p[k]
        /\ \A k \in 1..Len(u) : w[Len(p) + k] = u[k]
        /\ \A k \in 1..Len(f) : w[Len(p) + Len(u) + k].tag = " " /\ w[Len(p) + Len(u) + k].line = f[k]
    BY <2>1, PaddedIs
  <2>3. h.lines = w
    BY <1>2 DEF u
  <2> HIDE DEF w
  <2> QED BY <2>1, <2>2, <2>3 DEF u
<1>6. ASSUME NEW tags \in {Old, New}
      PROVE  /\ \A k \in 1..x : InFront(h, tags, k) = k - 1
             /\ \A k \in 1..n : InFront(h, tags, x + k) = x + InFront(g, tags, k)
             /\ \A k \in 1..z : InFront(h, tags, x + n + k) = x + Count(tags, a, b) + (k - 1)
             /\ \A k \in 1..n : InFront(g, tags, k) \in Nat
  <2>1. /\ \A k \in 1..x + 1 : InFront(h, tags, k) = k - 1
        /\ \A k \in 1..n + 1 : InFront(h, tags, x + k) = x + InFront(g, tags, k)
        /\ \A k \in 1..z : InFront(h, tags, x + n + k) = x + InFront(g, tags, n + 1) + (k - 1)
        /\ \A k \in 1..n + 1 : InFront(g, tags, k) \in Nat
    <3>1. g.lines \in Seq(HunkLine) /\ IsPadded(h, p, g, f) /\ Len(g.lines) = n
      BY <1>2, <1>3 DEF IsPadded
    <3> HIDE DEF g, n
    <3> HIDE DEF x, z
    <3>6. g.lines \in Seq(HunkLine) /\ IsPadded(h, p, g, f)
      BY <3>1
    <3>2. \A k \in 1..Len(p) + 1 : InFront(h, tags, k) = k - 1
      BY <3>6, InFrontOfPadded
    <3>3. \A k \in 1..Len(g.lines) + 1 :
              InFront(h, tags, Len(p) + k) = Len(p) + InFront(g, tags, k)
      BY <3>6, InFrontOfPadded
    <3>4. \A k \in 1..Len(f) :
              InFront(h, tags, Len(p) + Len(g.lines) + k)
                  = Len(p) + InFront(g, tags, Len(g.lines) + 1) + (k - 1)
      BY <3>6, InFrontOfPadded
    <3>5. \A k \in 1..Len(g.lines) + 1 : InFront(g, tags, k) \in Nat
      BY <3>6, InFrontOfPadded
    <3> QED BY <3>1, <3>2, <3>3, <3>4, <3>5 DEF x, z
  <2>2. InFront(g, tags, n + 1) = Count(tags, a, b)
    <3> DEFINE m == n + 1
    <3>1. a \in Int /\ b \in Int /\ a <= b
      BY <1>1, BoundsAre
    <3>2. m \in 1..b - a + 2 /\ a + m - 2 = b
      BY <3>1
    <3> HIDE DEF m
    <3>3. InFront(HunkFrom(a, b), tags, m) = Count(tags, a, a + m - 2)
      BY <1>1, <3>2, InFrontOfGiven
    <3>4. InFront(g, tags, m) = Count(tags, a, b)
      BY <3>2, <3>3
    <3> QED BY <3>4 DEF m
  <2>3. \A k \in 1..x : k \in 1..x + 1
    BY <1>4
  <2>4. \A k \in 1..n : k \in 1..n + 1
    BY <1>3
  <2> HIDE DEF g, n, x, z
  <2> QED BY <2>1, <2>2, <2>3, <2>4
<1>7. /\ g.start1 \in Int /\ g.size1 = Count(Old, a, b) /\ g.start2 \in Int
      /\ g.size2 = Count(New, a, b) /\ g.size1 \in Int /\ g.size2 \in Int
  <2>1. /\ g.start1 = StartOf(Old, a, b) /\ g.size1 = AsRead(Count(Old, a, b))
        /\ g.start2 = StartOf(New, a, b) /\ g.size2 = AsRead(Count(New, a, b))
    BY <1>1, HunkIs
  <2>2. StartOf(Old, a, b) \in Nat /\ Count(Old, a, b) \in Nat
    BY <1>1, StartIs
  <2>3. StartOf(New, a, b) \in Nat /\ Count(New, a, b) \in Nat
    BY <1>1, StartIs
  <2>4. g.size1 # 0 /\ g.size2 # 0
    BY DEF Sure, SizeLeftOut
  <2> HIDE DEF g
  <2> QED BY <2>1, <2>2, <2>3, <2>4 DEF AsRead
<1>8. h.start1 \in Nat /\ h.start2 \in Nat
  <2> HIDE DEF g, n, x, z
  <2> QED BY DEF Hunks
<1>9. ASSUME NEW k \in 1..n, NEW tags \in {Old, New}, g.lines[k].tag \in tags
      PROVE  IsAt(Kept(tags), StartOf(tags, a, b) + InFront(g, tags, k), g.lines[k].line)
  BY <1>1, <1>9, GivenIsAt
<1>10. g.start1 = StartOf(Old, a, b) /\ g.start2 = StartOf(New, a, b)
  BY <1>1, HunkIs
<1> HIDE DEF g, n, x, z
<1>11. ASSUME NEW k \in 1..x
       PROVE  /\ IsAt(OldFile, h.start1 + InFront(h, Old, k), h.lines[k].line)
              /\ IsAt(head_file, h.start2 + InFront(h, New, k), h.lines[k].line)
  <2>1. InFront(h, Old, k) = k - 1 /\ InFront(h, New, k) = k - 1 /\ h.lines[k].line = p[k]
    BY <1>5, <1>6
  <2>2. h.start1 + (k - 1) = h.start1 + k - 1 /\ h.start2 + (k - 1) = h.start2 + k - 1
    BY <1>4, <1>8
  <2>3. IsAt(OldFile, h.start1 + k - 1, p[k]) /\ IsAt(head_file, h.start2 + k - 1, p[k])
    BY <1>2 DEF x
  <2> QED BY <2>1, <2>2, <2>3
<1>12. ASSUME NEW k \in 1..n
       PROVE  /\ h.lines[x + k].tag \in Old =>
                     IsAt(OldFile, h.start1 + InFront(h, Old, x + k), h.lines[x + k].line)
              /\ h.lines[x + k].tag \in New =>
                     IsAt(head_file, h.start2 + InFront(h, New, x + k), h.lines[x + k].line)
  <2>1. h.lines[x + k] = g.lines[k]
    BY <1>5
  <2>2. /\ InFront(h, Old, x + k) = x + InFront(g, Old, k) /\ InFront(g, Old, k) \in Nat
        /\ InFront(h, New, x + k) = x + InFront(g, New, k) /\ InFront(g, New, k) \in Nat
    BY <1>6
  <2>3. h.start1 + InFront(h, Old, x + k) = StartOf(Old, a, b) + InFront(g, Old, k)
    <3>1. h.start1 + x = StartOf(Old, a, b)
      BY <1>2, <1>10 DEF x
    <3> QED BY <1>4, <1>8, <2>2, <3>1
  <2>4. h.start2 + InFront(h, New, x + k) = StartOf(New, a, b) + InFront(g, New, k)
    <3>1. h.start2 + x = StartOf(New, a, b)
      BY <1>2, <1>10 DEF x
    <3> QED BY <1>4, <1>8, <2>2, <3>1
  <2>5. g.lines[k].tag \in Old =>
            IsAt(OldFile, StartOf(Old, a, b) + InFront(g, Old, k), g.lines[k].line)
    BY <1>9 DEF OldFile
  <2>6. g.lines[k].tag \in New =>
            IsAt(head_file, StartOf(New, a, b) + InFront(g, New, k), g.lines[k].line)
    BY <1>1, <1>9 DEF NewFile
  <2> QED BY <2>1, <2>3, <2>4, <2>5, <2>6
<1>13. ASSUME NEW k \in 1..z
       PROVE  /\ IsAt(OldFile, h.start1 + InFront(h, Old, x + n + k), h.lines[x + n + k].line)
              /\ IsAt(head_file, h.start2 + InFront(h, New, x + n + k), h.lines[x + n + k].line)
  <2>1. /\ InFront(h, Old, x + n + k) = x + g.size1 + (k - 1)
        /\ InFront(h, New, x + n + k) = x + g.size2 + (k - 1)
        /\ h.lines[x + n + k].line = f[k]
    BY <1>5, <1>6, <1>7
  <2>2. h.start1 + (x + g.size1 + (k - 1)) = g.start1 + g.size1 + k - 1
    <3>1. h.start1 + x = g.start1 /\ k \in Int
      BY <1>2, <1>4 DEF x
    <3>2. \A s, y \in Int : s + (x + y + (k - 1)) = s + x + y + k - 1
      BY <1>4, <3>1
    <3> QED BY <1>7, <1>8, <3>1, <3>2
  <2>3. h.start2 + (x + g.size2 + (k - 1)) = g.start2 + g.size2 + k - 1
    <3>1. h.start2 + x = g.start2 /\ k \in Int
      BY <1>2, <1>4 DEF x
    <3>2. \A s, y \in Int : s + (x + y + (k - 1)) = s + x + y + k - 1
      BY <1>4, <3>1
    <3> QED BY <1>7, <1>8, <3>1, <3>2
  <2>4. /\ IsAt(OldFile, g.start1 + g.size1 + k - 1, f[k])
        /\ IsAt(head_file, g.start2 + g.size2 + k - 1, f[k])
    BY <1>2 DEF z
  <2> QED BY <2>1, <2>2, <2>3, <2>4
<1>14. ASSUME NEW j \in DOMAIN h.lines
       PROVE  /\ h.lines[j].tag \in Old => IsAt(OldFile, h.start1 + InFront(h, Old, j), h.lines[j].line)
              /\ h.lines[j].tag \in New => IsAt(head_file, h.start2 + InFront(h, New, j), h.lines[j].line)
  <2>1. j \in 1..x + n + z
    BY <1>5
  <2>2. CASE j \in 1..x
    BY <1>11, <2>2
  <2>3. CASE j \in x + 1..x + n
    <3>1. j - x \in 1..n /\ x + (j - x) = j
      BY <1>3, <1>4, <2>3
    <3> QED BY <1>12, <3>1
  <2>4. CASE j \in x + n + 1..x + n + z
    <3>1. j - (x + n) \in 1..z /\ x + n + (j - (x + n)) = j
      BY <1>3, <1>4, <2>4
    <3> QED BY <1>13, <3>1
  <2>5. j \in 1..x \/ j \in x + 1..x + n \/ j \in x + n + 1..x + n + z
    BY <1>3, <1>4, <2>1
  <2> QED BY <2>2, <2>3, <2>4, <2>5
<1> QED BY <1>14 DEF Faithful

-----------------------------------------------------------------------------
\* Added lines.

\* The lines of a hunk with some tags, in their order.
LEMMA TaggedIs ==
    ASSUME NEW h, NEW n \in Nat, DOMAIN h.lines = 1..n, NEW tags
    PROVE  /\ DOMAIN Tagged(h, tags) = 1..Cardinality(Tagging(h, tags))
           /\ Cardinality(Tagging(h, tags)) \in Nat
           /\ \A i \in DOMAIN Tagged(h, tags) : \E m \in Tagging(h, tags) :
                  Among(Tagging(h, tags), 1, m) = i /\ Tagged(h, tags)[i] = h.lines[m]
           /\ \A m \in Tagging(h, tags) :
                  /\ Among(Tagging(h, tags), 1, m) \in DOMAIN Tagged(h, tags)
                  /\ Tagged(h, tags)[Among(Tagging(h, tags), 1, m)] = h.lines[m]
<1> DEFINE S == Tagging(h, tags)
           c == InOrder(S)
           t == Tagged(h, tags)
<1>1. S \subseteq 1..n
  BY DEF Tagging
<1>2. t = [i \in DOMAIN c |-> h.lines[c[i]]]
  BY DEF Tagged, Tagging
<1>3. /\ c \in Seq(S) /\ Len(c) = Cardinality(S) /\ Cardinality(S) \in Nat
      /\ \A i \in 1..Cardinality(S) : c[i] \in S /\ Among(S, 1, c[i]) = i
      /\ \A m \in S : Among(S, 1, m) \in 1..Cardinality(S) /\ c[Among(S, 1, m)] = m
  <2> HIDE DEF S
  <2>1. Cardinality(S) \in 0..n
    BY <1>1, InOrderIs
  <2>2. Cardinality(S) \in Nat
    BY <2>1
  <2>3. /\ InOrder(S) \in Seq(S) /\ Len(InOrder(S)) = Cardinality(S)
        /\ \A i \in 1..Cardinality(S) : InOrder(S)[i] \in S /\ Among(S, 1, InOrder(S)[i]) = i
        /\ \A m \in S : Among(S, 1, m) \in 1..Cardinality(S) /\ InOrder(S)[Among(S, 1, m)] = m
    BY <1>1, InOrderIs
  <2> QED BY <2>2, <2>3
<1> HIDE DEF S, c, t
<1>4. DOMAIN t = 1..Cardinality(S)
  BY <1>2, <1>3
<1>5. \A i \in DOMAIN t : c[i] \in S /\ Among(S, 1, c[i]) = i /\ t[i] = h.lines[c[i]]
  BY <1>2, <1>3, <1>4
<1>6. \A m \in S : Among(S, 1, m) \in DOMAIN t /\ t[Among(S, 1, m)] = h.lines[m]
  <2> SUFFICES ASSUME NEW m \in S
               PROVE  Among(S, 1, m) \in DOMAIN t /\ t[Among(S, 1, m)] = h.lines[m]
    OBVIOUS
  <2>1. Among(S, 1, m) \in DOMAIN t /\ c[Among(S, 1, m)] = m
    BY <1>3, <1>4
  <2>2. t[Among(S, 1, m)] = h.lines[c[Among(S, 1, m)]]
    BY <1>5, <2>1
  <2> QED BY <2>1, <2>2
<1> QED BY <1>3, <1>4, <1>5, <1>6 DEF S, t

\* The lines of a hunk that was extended, but for the context.
Layout(h, p, f, a, b) ==
    /\ Len(p) \in Nat /\ Len(f) \in Nat /\ b - a + 1 \in Nat /\ b - a + 1 > 0
    /\ DOMAIN h.lines = 1..Len(p) + (b - a + 1) + Len(f)
    /\ \A m \in DOMAIN h.lines : h.lines[m].tag \in Tags /\ h.lines[m].line \in 0..MaxLines
    /\ \A q \in 1..b - a + 1 :
           h.lines[Len(p) + q] = [tag |-> script[a + q - 1], line |-> a + q - 1]
    /\ \A m \in DOMAIN h.lines : h.lines[m].tag # " " => m - Len(p) \in 1..b - a + 1

\* Where the lines of the script are in a padded hunk.
LEMMA LinesOfPadded ==
    ASSUME ScriptOK, NEW a, NEW b, Bounds(a, b), NEW h,
           NEW p \in Seq(0..MaxLines), NEW f \in Seq(0..MaxLines), IsPadded(h, p, HunkFrom(a, b), f)
    PROVE  Layout(h, p, f, a, b)
<1> DEFINE g == HunkFrom(a, b)
           n == b - a + 1
           u == g.lines
           w == Padded(p, u, f)
<1>1. a \in Int /\ b \in Int /\ 1 <= a /\ a <= b /\ n \in Nat /\ n > 0
  <2>1. a \in Int /\ b \in Int /\ 1 <= a /\ a <= b
    BY BoundsAre
  <2> QED BY <2>1
<1>2. u \in Seq(HunkLine) /\ Len(u) = n
  BY HunkIs DEF HunkLine
<1>3. u = [k \in 1..n |-> [tag |-> script[a + k - 1], line |-> a + k - 1]]
  BY DEF HunkFrom
<1>4. \A q \in 1..n : u[q] = [tag |-> script[a + q - 1], line |-> a + q - 1]
  <2> HIDE DEF u, n
  <2> QED BY <1>3
<1> HIDE DEF u, n
<1>5. /\ w \in Seq(HunkLine) /\ Len(p) \in Nat /\ Len(f) \in Nat
      /\ Len(w) = Len(p) + Len(u) + Len(f)
      /\ DOMAIN w = 1..Len(p) + Len(u) + Len(f)
      /\ \A k \in 1..Len(p) : w[k].tag = " " /\ w[k].line = p[k]
      /\ \A k \in 1..Len(u) : w[Len(p) + k] = u[k]
      /\ \A k \in 1..Len(f) : w[Len(p) + Len(u) + k].tag = " " /\ w[Len(p) + Len(u) + k].line = f[k]
  <2>1. u \in Seq(HunkLine)
    BY <1>2
  <2> QED BY <2>1, PaddedIs
<1>6. h.lines = w
  BY DEF IsPadded, u
<1> HIDE DEF w
<1>7. \A m \in DOMAIN w : w[m].tag \in Tags /\ w[m].line \in 0..MaxLines
  <2>1. \A m \in 1..Len(w) : w[m] \in HunkLine
    BY <1>5, ElementOfSeq
  <2> QED BY <1>5, <2>1 DEF HunkLine
<1>8. \A m \in DOMAIN w : w[m].tag # " " => m - Len(p) \in 1..n
  <2> SUFFICES ASSUME NEW m \in DOMAIN w, m - Len(p) \notin 1..n
               PROVE  w[m].tag = " "
    OBVIOUS
  <2>1. m \in 1..Len(p) + n + Len(f)
    BY <1>2, <1>5
  <2>2. CASE m \in 1..Len(p)
    BY <1>5, <2>2
  <2>3. CASE m \notin 1..Len(p)
    <3>2. n \in Nat /\ Len(p) \in Nat /\ Len(f) \in Nat
      BY <1>1, <1>5
    <3>0. m \in Int /\ n \in Nat /\ Len(p) \in Nat /\ Len(f) \in Nat
      BY <2>1, <3>2
    <3>1. m - (Len(p) + n) \in 1..Len(f) /\ Len(p) + n + (m - (Len(p) + n)) = m
      BY <2>1, <2>3, <3>0
    <3> QED BY <1>2, <1>5, <3>1
  <2> QED BY <2>2, <2>3
<1>9. \A q \in 1..n : w[Len(p) + q] = [tag |-> script[a + q - 1], line |-> a + q - 1]
  BY <1>2, <1>4, <1>5
<1>10. DOMAIN w = 1..Len(p) + n + Len(f)
  BY <1>2, <1>5
<1>11. /\ DOMAIN h.lines = 1..Len(p) + n + Len(f)
       /\ \A m \in DOMAIN h.lines : h.lines[m].tag \in Tags /\ h.lines[m].line \in 0..MaxLines
       /\ \A q \in 1..n : h.lines[Len(p) + q] = [tag |-> script[a + q - 1], line |-> a + q - 1]
       /\ \A m \in DOMAIN h.lines : h.lines[m].tag # " " => m - Len(p) \in 1..n
  BY <1>6, <1>7, <1>8, <1>9, <1>10
<1> QED BY <1>1, <1>5, <1>11 DEF n, Layout

\* The numbers of h are those of g.
Numbers(h, g) ==
    \E p, f \in Seq(0..MaxLines) : IsPadded(h, p, g, f) /\ h.start2 + Len(p) = g.start2

\* An added line has its number.
LEMMA NumberIs ==
    ASSUME ScriptOK, NEW a, NEW b, Bounds(a, b), NEW h \in Hunks,
           NEW p \in Seq(0..MaxLines), NEW f \in Seq(0..MaxLines), IsPadded(h, p, HunkFrom(a, b), f)
    PROVE  h.start2 + Len(p) = HunkFrom(a, b).start2 =>
               \A q \in 1..b - a + 1 : script[a + q - 1] = "+" =>
                   IsAt(NewFile, h.start2 + Among(Tagging(h, New), 1, Len(p) + q) - 1, a + q - 1)
<1> DEFINE g == HunkFrom(a, b)
           n == b - a + 1
           T == Tagging(h, New)
<1>10. Layout(h, p, f, a, b)
  BY LinesOfPadded
<1>11. /\ Len(p) \in Nat /\ Len(f) \in Nat /\ n \in Nat
       /\ DOMAIN h.lines = 1..Len(p) + n + Len(f)
  BY <1>10 DEF Layout
<1>12. \A k \in 1..b - a + 1 : h.lines[Len(p) + k] = [tag |-> script[a + k - 1], line |-> a + k - 1]
  BY <1>10 DEF Layout
<1>13. g.lines \in Seq(HunkLine) /\ Len(g.lines) = n
  BY HunkIs DEF HunkLine
<1>14. \A k \in 1..Len(g.lines) + 1 : InFront(h, New, Len(p) + k) = Len(p) + InFront(g, New, k)
  <2>1. g.lines \in Seq(HunkLine)
    BY <1>13
  <2> HIDE DEF g
  <2> QED BY <2>1, InFrontOfPadded DEF g
<1>15. \A k \in 1..Len(g.lines) + 1 : InFront(g, New, k) \in Nat
  <2>1. g.lines \in Seq(HunkLine)
    BY <1>13
  <2> HIDE DEF g
  <2> QED BY <2>1, InFrontOfPadded DEF g
<1> SUFFICES ASSUME h.start2 + Len(p) = HunkFrom(a, b).start2, NEW q \in 1..b - a + 1,
                    script[a + q - 1] = "+"
             PROVE  IsAt(NewFile, h.start2 + Among(Tagging(h, New), 1, Len(p) + q) - 1, a + q - 1)
  OBVIOUS
<1> DEFINE m == Len(p) + q
<1>1. /\ Len(p) \in Nat /\ Len(f) \in Nat /\ n \in Nat
      /\ DOMAIN h.lines = 1..Len(p) + n + Len(f)
      /\ h.lines[m] = [tag |-> script[a + q - 1], line |-> a + q - 1]
  BY <1>11, <1>12
<1>2. m \in Int /\ 1 <= m /\ m \in 1..Len(p) + n + Len(f) /\ q \in 1..n
  <2>1. q \in 1..n
    OBVIOUS
  <2> HIDE DEF n
  <2> QED BY <1>1, <2>1
<1>3. m \in T
  <2>1. h.lines[m].tag = "+"
    BY <1>1
  <2> HIDE DEF m
  <2> QED BY <1>1, <1>2, <2>1 DEF Tagging, New
<1>4. InFront(h, New, m) = Among(T, 1, m - 1)
  <2> DEFINE z == Len(p) + n + Len(f)
  <2>1. z \in Nat /\ DOMAIN h.lines = 1..z /\ m \in 1..z + 1
    BY <1>1, <1>2
  <2> HIDE DEF z, m
  <2> QED BY <2>1, InFrontIs
<1>5. InFront(h, New, m) = Len(p) + InFront(g, New, q) /\ InFront(g, New, q) \in Nat
  <2>1. q \in 1..Len(g.lines) + 1
    <3> HIDE DEF g, n
    <3> QED BY <1>1, <1>2, <1>13
  <2> QED BY <1>14, <1>15, <2>1
<1>6. Among(T, 1, m) = Among(T, 1, m - 1) + 1
  <2> DEFINE z == m - 1
             y == z + 1
  <2>1. z \in Int /\ y \in Int /\ y = m /\ 1 <= z + 1 /\ z <= m /\ m <= m + 1 /\ m..m \subseteq T
    BY <1>2, <1>3
  <2> HIDE DEF m, T
  <2>2. Among(T, 1, m) = Among(T, 1, z) + Among(T, z + 1, m)
    <3> HIDE DEF z
    <3> QED BY <1>2, <2>1, AmongSplit
  <2>3. Among(T, m, m) = m - m + 1
    BY <1>2, <2>1, AmongAll
  <2>4. z + 1 = m /\ m - m + 1 = 1
    BY <1>2
  <2> QED BY <2>2, <2>3, <2>4
<1>7. g.lines[q].tag = "+" /\ g.lines[q].line = a + q - 1 /\ g.start2 = StartOf(New, a, b)
  BY HunkIs
<1>8. IsAt(NewFile, StartOf(New, a, b) + InFront(g, New, q), a + q - 1)
  <2>1. g.lines[q].tag \in New
    BY <1>7 DEF New
  <2>2. IsAt(Kept(New), StartOf(New, a, b) + InFront(g, New, q), g.lines[q].line)
    BY <2>1, GivenIsAt
  <2> QED BY <1>7, <2>2 DEF NewFile
<1>9. StartOf(New, a, b) + InFront(g, New, q) = h.start2 + Among(T, 1, m) - 1
  <2>1. h.start2 + Len(p) = StartOf(New, a, b)
    BY <1>7
  <2>2. h.start2 \in Nat
    <3> HIDE DEF g, m, T
    <3> QED BY DEF Hunks
  <2>3. Among(T, 1, m) = Len(p) + InFront(g, New, q) + 1
    BY <1>4, <1>5, <1>6
  <2> HIDE DEF g, m, T
  <2> QED BY <1>1, <1>5, <2>1, <2>2, <2>3
<1> QED BY <1>8, <1>9

\* The hunks that are shown.
ToShow == {k \in DOMAIN patch : /\ Changes(patch[k])
                                /\ k = Len(patch) => Tagged(patch[k], New) # <<>>}

\* The model sees, in order, the hunks that are to be shown.
LEMMA ShownIs ==
    ASSUME patch \in Seq(Hunks)
    PROVE  /\ DOMAIN ShownHunks = DOMAIN Shown /\ DOMAIN Shown = 1..Cardinality(ToShow)
           /\ Cardinality(ToShow) \in Nat
           /\ \A i \in DOMAIN Shown :
                 /\ ShownHunks[i] \in ToShow /\ Among(ToShow, 1, ShownHunks[i]) = i
                 /\ Shown[i].new = Numbered(patch[ShownHunks[i]])
                 /\ Shown[i].old = IF Has(patch[ShownHunks[i]], "-")
                                   THEN Tagged(patch[ShownHunks[i]], Old) ELSE <<>>
                 /\ Shown[i] = [new |-> Shown[i].new, old |-> Shown[i].old]
           /\ \A j \in ToShow : /\ Among(ToShow, 1, j) \in DOMAIN Shown
                                /\ ShownHunks[Among(ToShow, 1, j)] = j
<1> DEFINE S == ToShow
           n == Len(patch)
           x(j) == [new |-> Numbered(patch[j]),
                    old |-> IF Has(patch[j], "-") THEN Tagged(patch[j], Old) ELSE <<>>]
<1>1. n \in Nat /\ S \subseteq 1..n
  BY DEF ToShow
<1>2. ShownHunks = InOrder(S)
  BY DEF ShownHunks, ToShow
<1>3. Cardinality(S) \in 0..n
  <2> HIDE DEF S, n
  <2> QED BY <1>1, InOrderIs
<1>4. /\ InOrder(S) \in Seq(S) /\ Len(InOrder(S)) = Cardinality(S)
      /\ \A i \in 1..Cardinality(S) : InOrder(S)[i] \in S /\ Among(S, 1, InOrder(S)[i]) = i
      /\ \A j \in S : Among(S, 1, j) \in 1..Cardinality(S) /\ InOrder(S)[Among(S, 1, j)] = j
  <2> HIDE DEF S, n
  <2> QED BY <1>1, InOrderIs
<1>5. DOMAIN ShownHunks = 1..Cardinality(S) /\ Cardinality(S) \in Nat
  BY <1>2, <1>3, <1>4
<1>6. Shown = [i \in DOMAIN ShownHunks |-> x(ShownHunks[i])]
  BY DEF Shown
<1>7. \A j : /\ x(j).new = Numbered(patch[j])
             /\ x(j).old = IF Has(patch[j], "-") THEN Tagged(patch[j], Old) ELSE <<>>
             /\ x(j) = [new |-> x(j).new, old |-> x(j).old]
  OBVIOUS
<1> HIDE DEF x
<1>8. DOMAIN Shown = DOMAIN ShownHunks /\ \A i \in DOMAIN ShownHunks : Shown[i] = x(ShownHunks[i])
  BY <1>6
<1> HIDE DEF S
<1>9. \A i \in DOMAIN Shown :
          /\ Shown[i].new = Numbered(patch[ShownHunks[i]])
          /\ Shown[i].old = IF Has(patch[ShownHunks[i]], "-")
                            THEN Tagged(patch[ShownHunks[i]], Old) ELSE <<>>
          /\ Shown[i] = [new |-> Shown[i].new, old |-> Shown[i].old]
  BY <1>7, <1>8
<1>10. \A i \in DOMAIN Shown : ShownHunks[i] \in S /\ Among(S, 1, ShownHunks[i]) = i
  BY <1>2, <1>4, <1>5, <1>8
<1>11. \A j \in S : Among(S, 1, j) \in DOMAIN Shown /\ ShownHunks[Among(S, 1, j)] = j
  BY <1>2, <1>4, <1>5, <1>8
<1> QED BY <1>5, <1>8, <1>9, <1>10, <1>11 DEF S

\* The lines of the new file are numbered from the start of the hunk on.
LEMMA NumberedIs ==
    ASSUME NEW h
    PROVE  /\ DOMAIN Numbered(h) = DOMAIN Tagged(h, New)
           /\ \A i \in DOMAIN Tagged(h, New) :
                 /\ Numbered(h)[i].number = h.start2 + i - 1
                 /\ Numbered(h)[i].text = Tagged(h, New)[i]
                 /\ Numbered(h)[i] = [number |-> h.start2 + i - 1, text |-> Tagged(h, New)[i]]
<1> DEFINE t == Tagged(h, New)
           x(i) == [number |-> h.start2 + i - 1, text |-> t[i]]
<1>1. Numbered(h) = [i \in DOMAIN t |-> x(i)]
  BY DEF Numbered
<1>2. \A i : x(i).number = h.start2 + i - 1 /\ x(i).text = t[i]
  OBVIOUS
<1>3. \A i : x(i) = [number |-> h.start2 + i - 1, text |-> t[i]]
  OBVIOUS
<1> HIDE DEF x, t
<1>4. DOMAIN Numbered(h) = DOMAIN t /\ \A i \in DOMAIN t : Numbered(h)[i] = x(i)
  BY <1>1
<1> QED BY <1>2, <1>3, <1>4 DEF t

\* The hunks keep the numbers of their lines in the new file, and those that add lines
\* are all there.
Kin ==
    /\ patch \in Seq(Hunks) /\ Len(patch) <= Len(GitPatch)
    /\ head_file # <<>> =>
          /\ \A i \in 1..Len(patch) : Numbers(patch[i], GitPatch[i])
          /\ \A i \in 1..Len(GitPatch) : Has(GitPatch[i], "+") => i <= Len(patch)

\* What Kin says of one hunk, in terms of its bounds.
LEMMA KinIs ==
    ASSUME ScriptOK, Kin, head_file # <<>>, NEW i \in 1..Len(patch)
    PROVE  /\ i \in 1..Len(GitPatch) /\ Bounds(Begin(i), End(i)) /\ patch[i] \in Hunks
           /\ \E p, f \in Seq(0..MaxLines) :
                 /\ IsPadded(patch[i], p, HunkFrom(Begin(i), End(i)), f)
                 /\ patch[i].start2 + Len(p) = HunkFrom(Begin(i), End(i)).start2
                 /\ Layout(patch[i], p, f, Begin(i), End(i))
<1>1. i \in 1..Len(GitPatch)
  <2>1. Len(patch) <= Len(GitPatch) /\ Len(patch) \in Nat
    BY DEF Kin
  <2>2. Len(GitPatch) \in 0..MaxLines
    BY HunksAre
  <2> QED BY <2>1, <2>2
<1>2. Bounds(Begin(i), End(i)) /\ GitPatch[i] = HunkFrom(Begin(i), End(i))
  BY <1>1, HunksAre
<1>3. patch[i] \in Hunks
  <2>1. patch \in Seq(Hunks)
    BY DEF Kin
  <2> QED BY <2>1, ElementOfSeq
<1>4. PICK p \in Seq(0..MaxLines), f \in Seq(0..MaxLines) :
        /\ IsPadded(patch[i], p, HunkFrom(Begin(i), End(i)), f)
        /\ patch[i].start2 + Len(p) = HunkFrom(Begin(i), End(i)).start2
  <2>1. Numbers(patch[i], GitPatch[i])
    BY DEF Kin
  <2> QED BY <1>2, <2>1 DEF Numbers
<1>5. Layout(patch[i], p, f, Begin(i), End(i))
  <2>1. IsPadded(patch[i], p, HunkFrom(Begin(i), End(i)), f)
    BY <1>4
  <2> QED BY <1>2, <2>1, LinesOfPadded
<1> QED BY <1>1, <1>2, <1>3, <1>4, <1>5

\* Each added line is shown once, under its number.
LEMMA AddedIsShown ==
    ASSUME ScriptOK, Kin, head_file = NewFile, head_file # <<>>, shown = Shown,
           NEW k \in Lines, script[k] = "+"
    PROVE  \E i \in DOMAIN shown : \E p \in DOMAIN shown[i].new :
              /\ IsAt(head_file, shown[i].new[p].number, k)
              /\ \A i2 \in DOMAIN shown : \A p2 \in DOMAIN shown[i2].new :
                     shown[i2].new[p2].text = [tag |-> "+", line |-> k] <=> i2 = i /\ p2 = p
<1> DEFINE X == [tag |-> "+", line |-> k]
<1>1. patch \in Seq(Hunks) /\ Len(patch) \in Nat /\ DOMAIN patch = 1..Len(patch)
  <2>1. patch \in Seq(Hunks)
    BY DEF Kin
  <2> QED BY <2>1
<1>2. k \in Int
  BY LinesAre
\* The hunk, and the place in it.
<1>3. PICK j \in 1..Len(GitPatch) : k \in Begin(j)..End(j)
  <2>1. InHunk(k)
    <3>1. script[k] # " " /\ k - Context <= k /\ k <= k + Context
      BY <1>2, PatchHunksAssumption
    <3> QED BY <3>1 DEF InHunk
  <2> QED BY <2>1, HunkOfLine
<1> DEFINE a == Begin(j)
           b == End(j)
           h == patch[j]
           N == Tagging(h, New)
<1>4. Bounds(a, b) /\ GitPatch[j] = HunkFrom(a, b)
  BY HunksAre
<1>5. a \in Int /\ b \in Int /\ k - a + 1 \in 1..b - a + 1 /\ a + (k - a + 1) - 1 = k
  <2>1. a \in Int /\ b \in Int
    BY <1>4, BoundsAre
  <2> QED BY <1>2, <1>3, <2>1
<1>6. j \in 1..Len(patch)
  <2> DEFINE g == HunkFrom(a, b)
             q == k - a + 1
  <2>1. DOMAIN g.lines = 1..b - a + 1
    BY <1>4, HunkIs
  <2>2. \A u \in 1..b - a + 1 : g.lines[u].tag = script[a + u - 1]
    BY <1>4, HunkIs
  <2>3. Has(g, "+")
    <3>1. g.lines[q].tag = "+"
      BY <1>5, <2>2
    <3>2. q \in DOMAIN g.lines
      BY <1>5, <2>1
    <3> HIDE DEF g, q
    <3> QED BY <3>1, <3>2 DEF Has
  <2>4. j <= Len(patch)
    BY <1>4, <2>3 DEF Kin
  <2> QED BY <1>1, <2>4
<1>7. PICK p \in Seq(0..MaxLines), f \in Seq(0..MaxLines) :
        /\ IsPadded(h, p, HunkFrom(a, b), f) /\ h.start2 + Len(p) = HunkFrom(a, b).start2
        /\ Layout(h, p, f, a, b)
  BY <1>6, KinIs
<1> DEFINE m == Len(p) + (k - a + 1)
<1>8. m \in DOMAIN h.lines /\ h.lines[m] = X /\ Len(p) \in Nat
  <2>1. /\ Len(p) \in Nat /\ Len(f) \in Nat /\ DOMAIN h.lines = 1..Len(p) + (b - a + 1) + Len(f)
    BY <1>7 DEF Layout
  <2>2. \A q \in 1..b - a + 1 : h.lines[Len(p) + q] = [tag |-> script[a + q - 1], line |-> a + q - 1]
    BY <1>7 DEF Layout
  <2> DEFINE q == k - a + 1
  <2>3. q \in 1..b - a + 1 /\ a + q - 1 = k
    BY <1>5
  <2> HIDE DEF q, h
  <2>4. h.lines[Len(p) + q] = X
    BY <2>2, <2>3
  <2>5. Len(p) + q \in 1..Len(p) + (b - a + 1) + Len(f)
    BY <1>5, <2>1, <2>3
  <2> QED BY <2>1, <2>4, <2>5 DEF q
<1>9. DOMAIN h.lines = 1..Len(h.lines) /\ Len(h.lines) \in Nat
  <2>1. h \in Hunks
    BY <1>6, KinIs
  <2> HIDE DEF h
  <2>2. h.lines \in Seq(HunkLine)
    BY <2>1 DEF Hunks, HunkLine, Tags
  <2> QED BY <2>2
<1>10. m \in N
  <2>1. h.lines[m].tag = "+"
    BY <1>8
  <2> HIDE DEF m, h
  <2> QED BY <1>8, <2>1 DEF Tagging, New
<1> DEFINE P == Among(N, 1, m)
<1>11. P \in DOMAIN Tagged(h, New) /\ Tagged(h, New)[P] = X
  <2>1. \A i \in N : Among(N, 1, i) \in DOMAIN Tagged(h, New)
                     /\ Tagged(h, New)[Among(N, 1, i)] = h.lines[i]
    <3> HIDE DEF h
    <3> QED BY <1>9, TaggedIs
  <2> HIDE DEF h, m, N
  <2> QED BY <1>8, <1>10, <2>1
<1>12. j \in ToShow
  <2>1. Has(h, "+")
    <3>1. h.lines[m].tag = "+"
      BY <1>8
    <3> HIDE DEF m, h
    <3> QED BY <1>8, <3>1 DEF Has
  <2>2. Tagged(h, New) # <<>>
    <3> HIDE DEF P, h
    <3> QED BY <1>11
  <2> QED BY <1>1, <1>6, <2>1, <2>2 DEF ToShow, Changes
<1> DEFINE I == Among(ToShow, 1, j)
<1>13. I \in DOMAIN Shown /\ ShownHunks[I] = j /\ Shown[I].new = Numbered(h)
  <2> HIDE DEF h
  <2>1. I \in DOMAIN Shown /\ ShownHunks[I] = j
    BY <1>1, <1>12, ShownIs
  <2> HIDE DEF I
  <2> QED BY <1>1, <2>1, ShownIs DEF h
<1>14. /\ P \in DOMAIN Shown[I].new /\ Shown[I].new[P].text = X
       /\ Shown[I].new[P].number = h.start2 + P - 1
  <2> HIDE DEF P, h, I, X
  <2> QED BY <1>11, <1>13, NumberedIs
<1>15. IsAt(head_file, Shown[I].new[P].number, k)
  <2> DEFINE q == k - a + 1
  <2>1. h.start2 + Len(p) = HunkFrom(a, b).start2 /\ q \in 1..b - a + 1 /\ a + q - 1 = k
    BY <1>5, <1>7
  <2>2. h.start2 + Len(p) = HunkFrom(a, b).start2 =>
           \A u \in 1..b - a + 1 : script[a + u - 1] = "+" =>
               IsAt(NewFile, h.start2 + Among(Tagging(h, New), 1, Len(p) + u) - 1, a + u - 1)
    <3>1. h \in Hunks /\ IsPadded(h, p, HunkFrom(a, b), f)
      BY <1>6, <1>7, KinIs
    <3> HIDE DEF h, a, b
    <3> QED BY <1>4, <3>1, NumberIs
  <2>3. IsAt(NewFile, h.start2 + Among(Tagging(h, New), 1, Len(p) + q) - 1, k)
    <3> HIDE DEF h, q, a, b
    <3> QED BY <2>1, <2>2
  <2> QED BY <1>14, <2>3
\* Nothing else is that line.
<1>16. ASSUME NEW i2 \in DOMAIN Shown, NEW p2 \in DOMAIN Shown[i2].new,
              Shown[i2].new[p2].text = X
       PROVE  i2 = I /\ p2 = P
  <2> DEFINE j2 == ShownHunks[i2]
             h2 == patch[j2]
  <2>1. j2 \in ToShow /\ Among(ToShow, 1, j2) = i2 /\ Shown[i2].new = Numbered(h2)
    BY <1>1, ShownIs
  <2>2. j2 \in 1..Len(patch)
    BY <1>1, <2>1 DEF ToShow
  <2>3. /\ j2 \in 1..Len(GitPatch)
        /\ \E u, v \in Seq(0..MaxLines) : Layout(h2, u, v, Begin(j2), End(j2))
    <3> HIDE DEF j2
    <3> QED BY <2>2, KinIs
  <2>4. DOMAIN h2.lines = 1..Len(h2.lines) /\ Len(h2.lines) \in Nat
    <3>1. h2 \in Hunks
      <4> HIDE DEF j2
      <4> QED BY <2>2, KinIs
    <3> HIDE DEF h2
    <3>2. h2.lines \in Seq(HunkLine)
      BY <3>1 DEF Hunks, HunkLine, Tags
    <3> QED BY <3>2
  <2>5. PICK m2 \in Tagging(h2, New) : /\ Among(Tagging(h2, New), 1, m2) = p2
                                       /\ h2.lines[m2] = X
    <3>1. p2 \in DOMAIN Tagged(h2, New) /\ Tagged(h2, New)[p2] = X
      <4> HIDE DEF h2, X
      <4> QED BY <1>16, <2>1, NumberedIs DEF X
    <3> HIDE DEF h2, X
    <3> QED BY <2>4, <3>1, TaggedIs
  <2>6. m2 \in DOMAIN h2.lines /\ h2.lines[m2].tag # " " /\ h2.lines[m2].line = k
    <3> HIDE DEF h2
    <3> QED BY <2>5 DEF Tagging
  <2>7. ASSUME NEW c \in Int, NEW e \in Int, NEW u \in Seq(0..MaxLines), NEW v,
               Layout(h2, u, v, c, e)
        PROVE  k \in c..e /\ m2 = Len(u) + (k - c + 1)
    <3> HIDE DEF h2
    <3>1. m2 - Len(u) \in 1..e - c + 1 /\ Len(u) \in Nat /\ e - c + 1 \in Nat
      BY <2>6, <2>7 DEF Layout
    <3>2. m2 \in Int
      <4>1. m2 \in 1..Len(h2.lines)
        BY <2>4, <2>6
      <4> QED BY <2>4, <4>1
    <3> DEFINE q == m2 - Len(u)
    <3>3. Len(u) + q = m2
      BY <3>1, <3>2
    <3>4. h2.lines[Len(u) + q] = [tag |-> script[c + q - 1], line |-> c + q - 1]
      <4> HIDE DEF q
      <4> QED BY <2>7, <3>1 DEF Layout, q
    <3>5. c + q - 1 = k
      <4> HIDE DEF q
      <4>1. h2.lines[m2] = [tag |-> script[c + q - 1], line |-> c + q - 1]
        BY <3>3, <3>4
      <4>2. h2.lines[m2].line = c + q - 1
        BY <4>1
      <4> QED BY <2>6, <4>2
    <3> QED BY <3>1, <3>2, <3>5
  <2>8. j2 = j
    <3>1. PICK u, v \in Seq(0..MaxLines) : Layout(h2, u, v, Begin(j2), End(j2))
      BY <2>3
    <3>2. Begin(j2) \in Int /\ End(j2) \in Int
      <4>1. Bounds(Begin(j2), End(j2))
        BY <2>3, HunksAre
      <4> QED BY <4>1, BoundsAre
    <3>3. k \in Begin(j2)..End(j2)
      <4> HIDE DEF h2, j2
      <4> QED BY <2>7, <3>1, <3>2
    <3> HIDE DEF j2
    <3> QED BY <1>3, <2>3, <3>3, HunksAreApart
  <2>9. m2 = m
    <3>1. Layout(h2, p, f, a, b)
      BY <1>7, <2>8
    <3> HIDE DEF h2, a, b
    <3> QED BY <1>5, <2>7, <3>1
  <2> HIDE DEF m
  <2> QED BY <2>1, <2>5, <2>8, <2>9
<1>17. \A i2 \in DOMAIN Shown : \A p2 \in DOMAIN Shown[i2].new :
           Shown[i2].new[p2].text = X <=> i2 = I /\ p2 = P
  <2> HIDE DEF P, I, X
  <2> QED BY <1>14, <1>16
<1> HIDE DEF P, I
<1> QED BY <1>13, <1>14, <1>15, <1>17

-----------------------------------------------------------------------------
\* The inductive invariant.

\* The types of what the hunks and files do not determine.
TypesOK ==
    /\ before \in Befores \cup {0} /\ after \in Afters \cup {0} /\ dynamic \in Dynamics \cup {0}
    /\ hunk \in 0..MaxLines
    /\ stage \in {"given", "extending", "extended", "pruned", "shown", "raised", "asked"}
    /\ shown \in Seq([new : Seq([number : Nat, text : [tag : New, line : 0..MaxLines]]),
                      old : Seq([tag : Old, line : 0..MaxLines])])
    /\ asked \in [side : {"left", "right"}, start : Nat, end : Nat]
    /\ selected \in Seq(Seq(HunkLine))

\* What is known of the hunks in each stage; GitPatch is what git showed.
Stages ==
    /\ stage \in {"given", "asked"} => patch = GitPatch
    /\ stage = "given" => base_file = OldFile
    /\ stage = "extending" =>
          /\ base_file # <<>> /\ hunk \in 1..Len(GitPatch) /\ Len(patch) = Len(GitPatch)
          /\ \A i \in 1..Len(GitPatch) :
                IF i < hunk THEN Grown(patch[i], GitPatch[i]) ELSE patch[i] = GitPatch[i]
    /\ stage = "extended" =>
          /\ Len(patch) = Len(GitPatch)
          /\ \A i \in 1..Len(GitPatch) : Grown(patch[i], GitPatch[i])
    /\ stage = "shown" => shown = Shown
    /\ stage = "asked" => selected = [i \in DOMAIN patch |-> SelectedIn(patch[i], asked)]

IInv == FilesOK /\ TypesOK /\ Kin /\ Stages

\* The change itself stays, so git's diff of it does.
LEMMA FilesStay ==
    ASSUME UNCHANGED change
    PROVE  /\ GitPatch' = GitPatch /\ OldFile' = OldFile /\ NewFile' = NewFile
           /\ ScriptOK' <=> ScriptOK
<1>1. script' = script /\ func' = func
  BY DEF change
<1>2. Lines' = Lines
  BY <1>1 DEF Lines
<1>3. \A k : InHunk(k)' <=> InHunk(k)
  BY <1>1, <1>2 DEF InHunk
<1>4. HunkStarts' = HunkStarts
  BY <1>2, <1>3 DEF HunkStarts
<1>5. \A a : HunkEnd(a)' = HunkEnd(a)
  BY <1>2, <1>3 DEF HunkEnd
<1>6. \A a, b : HunkFrom(a, b)' = HunkFrom(a, b)
  BY <1>1 DEF HunkFrom, Count
<1>7. GitPatch' = GitPatch
  BY <1>4, <1>5, <1>6 DEF GitPatch
<1>8. OldFile' = OldFile /\ NewFile' = NewFile
  BY <1>1, <1>2 DEF OldFile, NewFile, Kept
<1>9. ScriptOK' <=> ScriptOK
  BY <1>1 DEF ScriptOK
<1> QED BY <1>7, <1>8, <1>9

\* The hunks of the diff as they are given.
LEMMA GivenAre ==
    ASSUME FilesOK
    PROVE  /\ GitPatch \in Seq(Hunks) /\ Len(GitPatch) \in 0..MaxLines
           /\ DOMAIN GitPatch = 1..Len(GitPatch)
           /\ \A i \in 1..Len(GitPatch) :
                 /\ Bounds(Begin(i), End(i)) /\ GitPatch[i] = HunkFrom(Begin(i), End(i))
                 /\ GitPatch[i] \in Hunks /\ Grown(GitPatch[i], GitPatch[i])
                 /\ Numbers(GitPatch[i], GitPatch[i])
<1>1. ScriptOK
  BY DEF FilesOK
<1>2. /\ Len(GitPatch) \in 0..MaxLines /\ DOMAIN GitPatch = 1..Len(GitPatch)
      /\ \A i \in 1..Len(GitPatch) :
             Bounds(Begin(i), End(i)) /\ GitPatch[i] = HunkFrom(Begin(i), End(i))
  BY <1>1, HunksAre
<1>3. \A i \in 1..Len(GitPatch) : GitPatch[i] \in Hunks /\ Grown(GitPatch[i], GitPatch[i])
  <2> SUFFICES ASSUME NEW i \in 1..Len(GitPatch)
               PROVE  GitPatch[i] \in Hunks /\ Grown(GitPatch[i], GitPatch[i])
    OBVIOUS
  <2>1. Bounds(Begin(i), End(i))
    BY <1>2
  <2>2. HunkFrom(Begin(i), End(i)) \in Hunks
    BY <2>1, GivenIsPlaced
  <2>3. Grown(HunkFrom(Begin(i), End(i)), HunkFrom(Begin(i), End(i)))
    BY <2>1, GrownSelf
  <2> QED BY <1>2, <2>2, <2>3
<1>4. \A i \in 1..Len(GitPatch) : Numbers(GitPatch[i], GitPatch[i])
  <2> SUFFICES ASSUME NEW i \in 1..Len(GitPatch)
               PROVE  Numbers(GitPatch[i], GitPatch[i])
    OBVIOUS
  <2> DEFINE g == GitPatch[i]
  <2>1. g \in Hunks
    BY <1>3
  <2> HIDE DEF g
  <2>2. g.lines \in Seq(HunkLine) /\ g.start2 \in Nat
    BY <2>1 DEF Hunks, HunkLine, Tags
  <2>3. IsPadded(g, <<>>, g, <<>>)
    BY <2>2, PaddedWithNothing DEF IsPadded
  <2>4. <<>> \in Seq(0..MaxLines) /\ Len(<<>>) = 0
    OBVIOUS
  <2>5. g.start2 + Len(<<>>) = g.start2
    BY <2>2, <2>4
  <2>6. Numbers(g, g)
    BY <2>3, <2>4, <2>5 DEF Numbers
  <2> QED BY <2>6 DEF g
<1>5. GitPatch \in Seq(Hunks)
  <2>1. GitPatch = [i \in 1..Len(GitPatch) |-> GitPatch[i]]
    <3>1. GitPatch = [i \in DOMAIN HunkStarts |-> HunkFrom(HunkStarts[i], HunkEnd(HunkStarts[i]))]
      BY DEF GitPatch
    <3>2. DOMAIN HunkStarts = DOMAIN GitPatch
      BY <3>1
    <3> QED BY <1>2, <3>1, <3>2
  <2>2. Len(GitPatch) \in Nat
    BY <1>2
  <2>3. [i \in 1..Len(GitPatch) |-> GitPatch[i]] \in Seq(Hunks)
    BY <1>3, <2>2, IsASeq
  <2> QED BY <2>1, <2>3
<1> QED BY <1>2, <1>3, <1>4, <1>5

\* The diff as git gives it is its own kin.
LEMMA KinOfGiven ==
    ASSUME FilesOK, patch = GitPatch
    PROVE  Kin
<1>1. /\ GitPatch \in Seq(Hunks) /\ Len(GitPatch) \in 0..MaxLines
      /\ \A i \in 1..Len(GitPatch) : Numbers(GitPatch[i], GitPatch[i])
  BY GivenAre
<1> QED BY <1>1 DEF Kin

LEMMA InitIsOK ==
    ASSUME Init
    PROVE  IInv
<1>1. /\ script \in Scripts /\ func \in {0} \cup Range(OldFile)
      /\ base_file = OldFile /\ head_file = NewFile /\ patch = GitPatch
      /\ before = 0 /\ after = 0 /\ dynamic = 0 /\ stage = "given" /\ hunk = 0 /\ shown = <<>>
      /\ asked = [side |-> "right", start |-> 0, end |-> 0] /\ selected = <<>>
  BY DEF Init
<1>2. script \in Seq({" ", "+", "-"}) /\ Len(script) \in 0..MaxLines
  <2>1. PICK m \in 0..MaxLines : script \in [1..m -> {" ", "+", "-"}]
    BY <1>1 DEF Scripts, BoundedSeq, SeqOf
  <2>2. m \in Nat
    BY PatchHunksAssumption
  <2>3. \A k \in 1..m : script[k] \in Tags
    BY <2>1 DEF Tags
  <2>7. DOMAIN script = 1..m /\ script = [k \in 1..m |-> script[k]]
    BY <2>1
  <2>4. [k \in 1..m |-> script[k]] \in Seq(Tags)
    BY <2>2, <2>3, IsASeq
  <2>5. script \in Seq(Tags)
    BY <2>4, <2>7
  <2>6. Len(script) = m
    <3>1. DOMAIN script = 1..Len(script) /\ Len(script) \in Nat
      BY <2>5, LenProperties
    <3> QED BY <2>2, <2>7, <3>1
  <2> QED BY <2>5, <2>6 DEF Tags
<1>8. Len(script) \in Nat
  BY <1>2, LenProperties
<1>3. ScriptOK
  <2>1. ASSUME func # 0
        PROVE  func \in 1..Len(script)
    <3>1. PICK i \in DOMAIN OldFile : func = OldFile[i]
      BY <1>1, <2>1 DEF Range
    <3> DEFINE S == {k \in Lines : script[k] \in Old}
    <3>2. S \subseteq 1..Len(script) /\ Len(script) \in Nat
      BY <1>8 DEF Lines
    <3>3. OldFile = InOrder(S)
      BY DEF OldFile, Kept
    <3> HIDE DEF S
    <3>4. /\ InOrder(S) \in Seq(S) /\ Len(InOrder(S)) = Cardinality(S)
          /\ \A j \in 1..Cardinality(S) : InOrder(S)[j] \in S
      BY <3>2, InOrderIs
    <3>5. DOMAIN OldFile = 1..Cardinality(S)
      BY <3>3, <3>4
    <3> QED BY <3>1, <3>2, <3>3, <3>4, <3>5
  <2>2. func \in 0..Len(script)
    BY <1>8, <2>1
  <2> QED BY <1>2, <2>2 DEF ScriptOK
<1>4. FilesOK
  BY <1>1, <1>3 DEF FilesOK
<1>5. Kin
  BY <1>1, <1>4, KinOfGiven
<1>6. TypesOK
  <2>1. MaxLines \in Nat /\ 0 \in 0..MaxLines
    BY PatchHunksAssumption
  <2>2. asked \in [side : {"left", "right"}, start : Nat, end : Nat]
    BY <1>1
  <2>3. shown \in Seq([new : Seq([number : Nat, text : [tag : New, line : 0..MaxLines]]),
                       old : Seq([tag : Old, line : 0..MaxLines])])
    BY <1>1
  <2>4. selected \in Seq(Seq(HunkLine))
    BY <1>1
  <2> QED BY <1>1, <2>1, <2>2, <2>3, <2>4 DEF TypesOK
<1>7. Stages
  BY <1>1 DEF Stages
<1> QED BY <1>4, <1>5, <1>6, <1>7 DEF IInv

\* What does not change.
LEMMA GrownStays ==
    ASSUME UNCHANGED <<change, settings>>
    PROVE  \A h, g : Grown(h, g)' <=> Grown(h, g)
<1>1. UNCHANGED change /\ head_file' = head_file /\ base_file' = base_file /\ after' = after
  BY DEF change, settings
<1>2. OldFile' = OldFile
  BY <1>1, FilesStay
<1>3. \A g : Sure(g)' <=> Sure(g)
  BY <1>1, <1>2 DEF Sure
<1> QED BY <1>1, <1>2, <1>3 DEF Grown

LEMMA FilesStayOK ==
    ASSUME FilesOK, UNCHANGED change, base_file' = base_file
    PROVE  FilesOK'
<1>1. OldFile' = OldFile /\ NewFile' = NewFile /\ (ScriptOK' <=> ScriptOK)
  BY FilesStay
<1>2. head_file' = head_file
  BY DEF change
<1> QED BY <1>1, <1>2 DEF FilesOK

LEMMA KinStays ==
    ASSUME Kin, UNCHANGED change, patch' = patch
    PROVE  Kin'
<1>1. GitPatch' = GitPatch
  BY FilesStay
<1>2. head_file' = head_file
  BY DEF change
<1> QED BY <1>1, <1>2 DEF Kin

\* A given hunk is grown also in the next state.
LEMMA GrownNext ==
    ASSUME NEW g \in Hunks
    PROVE  Grown(g, g)'
<1>1. g.lines \in Seq(HunkLine) /\ g.start1 \in Nat /\ g.start2 \in Nat
  BY DEF Hunks, HunkLine, Tags
<1>2. g.lines = Padded(<<>>, g.lines, <<>>)
  BY <1>1, PaddedWithNothing
<1>3. <<>> \in Seq(0..MaxLines) /\ Len(<<>>) = 0 /\ 1..0 = {}
  OBVIOUS
<1>4. g.start1 + Len(<<>>) = g.start1 /\ g.start2 + Len(<<>>) = g.start2
  BY <1>1, <1>3
<1> QED BY <1>2, <1>3, <1>4 DEF Grown

LEMMA ExtendStep ==
    ASSUME IInv, Extend
    PROVE  IInv'
<1>1. /\ stage = "given" /\ patch # <<>>
      /\ before' \in Befores /\ after' \in Afters /\ dynamic' \in Dynamics
      /\ base_file' = base_file \/ (base_file # <<>> /\ base_file' = <<0>> \o base_file)
      /\ \/ stage' = "extended" /\ hunk' = 0
         \/ stage' = "extending" /\ hunk' = 1 /\ base_file' # <<>>
      /\ UNCHANGED <<change, patch, shown, asked, selected>>
  BY DEF Extend
<1>2. FilesOK /\ TypesOK /\ Kin /\ patch = GitPatch /\ base_file = OldFile
  BY <1>1 DEF IInv, Stages
<1>3. /\ GitPatch' = GitPatch /\ OldFile' = OldFile /\ NewFile' = NewFile /\ ScriptOK'
      /\ head_file' = head_file /\ head_file = NewFile
  BY <1>1, <1>2, FilesStay DEF FilesOK, change
<1>4. FilesOK'
  BY <1>1, <1>2, <1>3 DEF FilesOK
<1>5. Len(GitPatch) \in 1..MaxLines
  <2>1. GitPatch \in Seq(Hunks) /\ Len(GitPatch) \in 0..MaxLines
    BY <1>2, GivenAre
  <2>2. Len(GitPatch) # 0
    BY <1>1, <1>2, <2>1
  <2> QED BY <2>1, <2>2
<1>6. TypesOK'
  <2>1. hunk' \in 0..MaxLines
    <3>1. MaxLines \in Nat /\ MaxLines >= 1
      BY <1>5, PatchHunksAssumption
    <3>2. hunk' = 0 \/ hunk' = 1
      BY <1>1
    <3> QED BY <3>1, <3>2
  <2> QED BY <1>1, <1>2, <2>1 DEF TypesOK
<1>7. Kin'
  BY <1>1, <1>2, KinStays
<1>8. \A i \in 1..Len(GitPatch) : Grown(patch[i], GitPatch[i])'
  <2>1. \A g \in Hunks : Grown(g, g)'
    BY GrownNext
  <2>2. \A i \in 1..Len(GitPatch) : patch'[i] = GitPatch[i] /\ GitPatch'[i] = GitPatch[i]
                                    /\ GitPatch[i] \in Hunks
    BY <1>1, <1>2, <1>3, GivenAre
  <2> QED BY <2>1, <2>2
<1>9. Stages'
  <2>1. Len(patch') = Len(GitPatch') /\ \A i \in 1..Len(GitPatch') : patch'[i] = GitPatch'[i]
    BY <1>1, <1>2, <1>3
  <2>2. \A i \in 1..Len(GitPatch') : Grown(patch[i], GitPatch[i])'
    BY <1>3, <1>8
  <2>3. CASE stage' = "extended"
    BY <2>1, <2>2, <2>3 DEF Stages
  <2>4. CASE stage' = "extending" /\ hunk' = 1 /\ base_file' # <<>>
    <3>1. hunk' \in 1..Len(GitPatch')
      BY <1>3, <1>5, <2>4
    <3>2. \A i \in 1..Len(GitPatch') : ~(i < hunk')
      BY <2>4
    <3> QED BY <2>1, <2>4, <3>1, <3>2 DEF Stages
  <2> QED BY <1>1, <2>3, <2>4
<1> QED BY <1>4, <1>6, <1>7, <1>9 DEF IInv

\* A hunk that was extended keeps the numbers of its lines.
LEMMA NumbersOfGrown ==
    ASSUME NEW h, NEW g, Grown(h, g), head_file # <<>>
    PROVE  Numbers(h, g)
BY DEF Grown, Numbers, IsPadded

\* The next hunk is extended or left alone.
LEMMA ExtendHunkStep ==
    ASSUME IInv, ExtendHunk
    PROVE  IInv'
<1>1. /\ stage = "extending"
      /\ UNCHANGED <<change, settings, shown, asked, selected>>
      /\ IF hunk = Len(patch) THEN stage' = "extended" /\ hunk' = 0
                              ELSE stage' = stage /\ hunk' = hunk + 1
  BY DEF ExtendHunk
<1> DEFINE g == GitPatch[hunk]
           n == Len(GitPatch)
<1>2. /\ FilesOK /\ TypesOK /\ Kin
      /\ base_file # <<>> /\ hunk \in 1..n /\ Len(patch) = n
      /\ \A i \in 1..n : IF i < hunk THEN Grown(patch[i], GitPatch[i]) ELSE patch[i] = GitPatch[i]
  BY <1>1 DEF IInv, Stages
<1>3. /\ base_file' = base_file /\ before' = before /\ after' = after /\ dynamic' = dynamic
      /\ UNCHANGED change /\ shown' = shown /\ asked' = asked /\ selected' = selected
  BY <1>1 DEF settings
<1>4. n \in 0..MaxLines /\ n \in Nat /\ hunk \in Int
  <2>1. n \in 0..MaxLines
    BY <1>2, GivenAre
  <2> HIDE DEF n
  <2>2. n \in Nat
    BY <2>1
  <2> QED BY <1>2, <2>1, <2>2
<1>5. GitPatch' = GitPatch /\ head_file' = head_file
  BY <1>3, FilesStay DEF change
<1>6. after \in Nat /\ before \in Nat /\ dynamic \in Nat
  BY <1>2, PatchHunksAssumption DEF TypesOK
<1>7. patch[hunk] = g
  <2>1. ~(hunk < hunk)
    BY <1>4
  <2> QED BY <1>2, <2>1
<1>8. /\ Bounds(Begin(hunk), End(hunk)) /\ g = HunkFrom(Begin(hunk), End(hunk))
      /\ g \in Hunks /\ Grown(g, g)
  BY <1>2, GivenAre
<1>9. patch \in Seq(Hunks)
  BY <1>2 DEF Kin
\* What becomes of this hunk.
<1>10. \E new \in Hunks : Grown(new, g) /\ patch' = [patch EXCEPT ![hunk] = new]
  <2>1. CASE ~Matches(g)
    <3>1. patch' = patch
      BY <1>7, <2>1 DEF ExtendHunk
    <3>2. [patch EXCEPT ![hunk] = g] = patch
      <4> HIDE DEF g, n
      <4>1. hunk \in 1..Len(patch)
        BY <1>2
      <4>2. patch = [i \in 1..Len(patch) |-> patch[i]]
        BY <1>9
      <4> QED BY <1>7, <4>1, <4>2
    <3> QED BY <1>8, <3>1, <3>2
  <2>2. CASE Matches(g)
    <3>1. PICK wanted \in Wanted(g) : \E aligned \in {Aligned(g, wanted)} :
             \E l \in IF aligned # {} THEN aligned ELSE {g} :
               patch' = [patch EXCEPT ![hunk] = ExtendedTo(g, l)]
      <4> HIDE DEF g
      <4> QED BY <1>7, <2>2 DEF ExtendHunk
    <3>2. PICK l \in IF Aligned(g, wanted) # {} THEN Aligned(g, wanted) ELSE {g} :
             patch' = [patch EXCEPT ![hunk] = ExtendedTo(g, l)]
      <4> HIDE DEF g
      <4> QED BY <3>1
    <3>3. Placed(g)
      <4>1. Placed(HunkFrom(Begin(hunk), End(hunk)))
        BY <1>2, <1>8, GivenIsPlaced
      <4> QED BY <1>8, <4>1
    <3>4. Fits(g, wanted)
      <4> HIDE DEF g
      <4> QED BY <1>6, <3>3, WantedFits
    <3>5. Reached(g, l)
      <4>1. l \in (IF Aligned(g, wanted) # {} THEN Aligned(g, wanted) ELSE {g})
        BY <3>2
      <4> HIDE DEF g
      <4> QED BY <3>3, <3>4, <4>1, AlignedFits
    <3>6. ExtendedTo(g, l) \in Hunks /\ Grown(ExtendedTo(g, l), g)
      <4> DEFINE a == Begin(hunk)
                 b == End(hunk)
      <4>1. Bounds(a, b) /\ Matches(HunkFrom(a, b)) /\ Reached(HunkFrom(a, b), l)
        BY <1>8, <2>2, <3>5
      <4>2. ExtendedTo(HunkFrom(a, b), l) \in Hunks /\ Grown(ExtendedTo(HunkFrom(a, b), l), HunkFrom(a, b))
        <5> HIDE DEF a, b
        <5> QED BY <1>2, <1>6, <4>1, GrownOf
      <4> QED BY <1>8, <4>2
    <3> QED BY <3>2, <3>6
  <2> QED BY <2>1, <2>2
<1>11. PICK new \in Hunks : Grown(new, g) /\ patch' = [patch EXCEPT ![hunk] = new]
  BY <1>10
<1> HIDE DEF g, n
<1>12. /\ patch' \in Seq(Hunks) /\ Len(patch') = n
       /\ \A i \in 1..n : patch'[i] = IF i = hunk THEN new ELSE patch[i]
  <2>1. hunk \in 1..Len(patch)
    BY <1>2
  <2>2. /\ patch' \in Seq(Hunks) /\ Len(patch') = Len(patch)
        /\ \A i \in 1..Len(patch) : patch'[i] = IF i = hunk THEN new ELSE patch[i]
    BY <1>9, <1>11, <2>1, ExceptSeq
  <2> QED BY <1>2, <2>2
<1>13. FilesOK'
  BY <1>2, <1>3, FilesStayOK
<1>14. TypesOK'
  <2>1. hunk' \in 0..MaxLines /\ stage' \in {"extending", "extended"}
    <3>0. MaxLines \in Nat
      BY PatchHunksAssumption
    <3>1. CASE hunk = Len(patch)
      <4>1. 0 \in 0..MaxLines
        BY <3>0
      <4> QED BY <1>1, <3>1, <4>1
    <3>2. CASE hunk # Len(patch)
      <4>1. hunk \in 1..n /\ hunk # n
        BY <1>2, <3>2
      <4>2. hunk + 1 \in 0..MaxLines
        BY <1>4, <3>0, <4>1
      <4> QED BY <1>1, <3>2, <4>2
    <3> QED BY <3>1, <3>2
  <2> QED BY <1>2, <1>3, <2>1 DEF TypesOK
<1>15. Kin'
  <2>1. ASSUME head_file # <<>>
        PROVE  \A i \in 1..n : Numbers(patch'[i], GitPatch[i])
    <3>1. Numbers(new, g)
      BY <1>11, <2>1, NumbersOfGrown
    <3>2. \A i \in 1..n : Numbers(patch[i], GitPatch[i])
      BY <1>2, <2>1 DEF Kin
    <3> QED BY <1>12, <3>1, <3>2 DEF g
  <2>2. \A i \in 1..n : i <= n
    BY <1>4
  <2>3. n <= n /\ n = Len(GitPatch')
    BY <1>4, <1>5 DEF n
  <2>4. Len(patch') <= Len(GitPatch')
    BY <1>12, <2>3
  <2>5. head_file' # <<>> => \A i \in 1..Len(patch') : Numbers(patch[i], GitPatch[i])'
    <3>1. \A h, k : Numbers(h, k)' <=> Numbers(h, k)
      BY DEF Numbers
    <3> QED BY <1>5, <1>12, <2>1, <3>1
  <2>6. \A i \in 1..Len(GitPatch') : i <= Len(patch')
    BY <1>12, <2>2, <2>3
  <2> QED BY <1>12, <2>4, <2>5, <2>6 DEF Kin
<1>16. Stages'
  <2>1. \A h, k : Grown(h, k)' <=> Grown(h, k)
    BY <1>1, GrownStays
  <2>2. \A i \in 1..n : i <= hunk => Grown(patch'[i], GitPatch'[i])
    <3> SUFFICES ASSUME NEW i \in 1..n, i <= hunk
                 PROVE  Grown(patch'[i], GitPatch'[i])
      OBVIOUS
    <3>1. CASE i = hunk
      BY <1>5, <1>11, <1>12, <3>1 DEF g
    <3>2. CASE i # hunk
      <4>1. i < hunk
        BY <1>4, <3>2
      <4> QED BY <1>2, <1>5, <1>12, <3>2, <4>1
    <3> QED BY <3>1, <3>2
  <2>3. \A i \in 1..n : i <= hunk => Grown(patch[i], GitPatch[i])'
    BY <2>1, <2>2
  <2>4. n = Len(GitPatch') /\ Len(patch') = Len(GitPatch')
    BY <1>5, <1>12 DEF n
  <2>5. CASE hunk = Len(patch)
    <3>1. \A i \in 1..n : i <= hunk
      BY <1>2, <1>4, <2>5
    <3> QED BY <1>1, <2>3, <2>4, <2>5, <3>1 DEF Stages
  <2>6. CASE hunk # Len(patch)
    <3>1. stage' = "extending" /\ hunk' = hunk + 1
      BY <1>1, <2>6
    <3>2. hunk' \in 1..n /\ \A i \in 1..n : (i < hunk' <=> i <= hunk) /\ (~(i < hunk') => ~(i < hunk) /\ i # hunk)
      BY <1>2, <1>4, <2>6, <3>1
    <3>3. \A i \in 1..n : ~(i < hunk') => patch'[i] = GitPatch'[i]
      BY <1>2, <1>5, <1>12, <3>2
    <3>4. \A i \in 1..n : IF i < hunk' THEN Grown(patch[i], GitPatch[i])' ELSE patch'[i] = GitPatch'[i]
      BY <2>3, <3>2, <3>3
    <3> QED BY <1>2, <1>3, <2>4, <3>1, <3>2, <3>4 DEF Stages
  <2> QED BY <2>5, <2>6
<1> QED BY <1>13, <1>14, <1>15, <1>16 DEF IInv

\* What is left when hunks that only delete are dropped.
LEMMA PrunedIs ==
    ASSUME NEW hs \in Seq(Hunks)
    PROVE  /\ Pruned(hs) \in Seq(Hunks) /\ Len(Pruned(hs)) \in Nat /\ Len(Pruned(hs)) <= Len(hs)
           /\ \A i \in 1..Len(Pruned(hs)) : Pruned(hs)[i] = hs[i]
           /\ \A i \in 1..Len(hs) : Has(hs[i], "+") => i <= Len(Pruned(hs))
<1> DEFINE S == {0} \cup {k \in DOMAIN hs : Has(hs[k], "+")}
           m == Max(S)
           n == Len(hs)
<1>1. n \in Nat /\ DOMAIN hs = 1..n /\ \A i \in 1..n : hs[i] \in Hunks
  BY LenProperties, ElementOfSeq
<1>2. S \subseteq 0..n /\ 0 \in S /\ \A i \in 1..n : Has(hs[i], "+") => i \in S
  BY <1>1
<1>3. Pruned(hs) = SubSeq(hs, 1, m)
  BY DEF Pruned
<1> HIDE DEF S, n
<1>4. m \in S /\ \A i \in S : m >= i
  BY <1>1, <1>2, MaxIs
<1>5. m \in 0..n
  BY <1>2, <1>4
<1> HIDE DEF m
<1>6. m \in Nat /\ m <= n
  BY <1>1, <1>5
<1>7. \A i \in 1..m : hs[i] \in Hunks
  BY <1>1, <1>6
<1>8. /\ SubSeq(hs, 1, m) \in Seq(Hunks)
      /\ Len(SubSeq(hs, 1, m)) = IF 1 <= m THEN m - 1 + 1 ELSE 0
      /\ \A i \in 1..m - 1 + 1 : SubSeq(hs, 1, m)[i] = hs[1 + i - 1]
  BY <1>6, <1>7, SubSeqProperties
<1>9. Len(SubSeq(hs, 1, m)) = m
  BY <1>6, <1>8
<1>10. \A i \in 1..m : i \in 1..m - 1 + 1 /\ 1 + i - 1 = i
  BY <1>6
<1>11. \A i \in 1..m : SubSeq(hs, 1, m)[i] = hs[i]
  BY <1>8, <1>10
<1>12. \A i \in 1..n : Has(hs[i], "+") => i <= m
  BY <1>1, <1>2, <1>4, <1>6
<1> QED BY <1>3, <1>6, <1>8, <1>9, <1>11, <1>12 DEF n

LEMMA PruneStep ==
    ASSUME IInv, Prune
    PROVE  IInv'
<1>1. /\ stage = "given" /\ stage' = "pruned"
      /\ patch' = IF head_file = <<>> THEN <<>> ELSE Pruned(patch)
      /\ UNCHANGED <<change, settings, hunk, shown, asked, selected>>
  BY DEF Prune
<1>2. FilesOK /\ TypesOK /\ Kin /\ patch = GitPatch
  BY <1>1 DEF IInv, Stages
<1>3. /\ base_file' = base_file /\ before' = before /\ after' = after /\ dynamic' = dynamic
      /\ hunk' = hunk /\ UNCHANGED change /\ shown' = shown /\ asked' = asked
      /\ selected' = selected
  BY <1>1 DEF settings
<1>4. GitPatch' = GitPatch /\ head_file' = head_file
  BY <1>3, FilesStay DEF change
<1>5. FilesOK'
  BY <1>2, <1>3, FilesStayOK
<1>6. TypesOK'
  BY <1>1, <1>2, <1>3 DEF TypesOK
<1>7. Kin'
  <2>1. GitPatch \in Seq(Hunks) /\ Len(GitPatch) \in Nat
    BY <1>2, GivenAre
  <2>2. CASE head_file = <<>>
    <3>1. patch' = <<>>
      BY <1>1, <2>2
    <3>2. patch' \in Seq(Hunks) /\ Len(patch') <= Len(GitPatch')
      BY <1>4, <2>1, <3>1
    <3> QED BY <1>4, <2>2, <3>2 DEF Kin
  <2>3. CASE head_file # <<>>
    <3> DEFINE q == Pruned(GitPatch)
    <3>1. /\ q \in Seq(Hunks) /\ Len(q) \in Nat /\ Len(q) <= Len(GitPatch)
          /\ \A i \in 1..Len(q) : q[i] = GitPatch[i]
          /\ \A i \in 1..Len(GitPatch) : Has(GitPatch[i], "+") => i <= Len(q)
      BY <2>1, PrunedIs
    <3>2. patch' = q
      BY <1>1, <1>2, <2>3
    <3> HIDE DEF q
    <3>3. \A h, k : Numbers(h, k)' <=> Numbers(h, k)
      BY DEF Numbers
    <3>4. \A i \in 1..Len(q) : Numbers(q[i], GitPatch[i])
      <4>1. \A i \in 1..Len(GitPatch) : Numbers(GitPatch[i], GitPatch[i])
        BY <1>2, GivenAre
      <4>2. \A i \in 1..Len(q) : i \in 1..Len(GitPatch)
        BY <2>1, <3>1
      <4> QED BY <3>1, <4>1, <4>2
    <3>5. \A i \in 1..Len(patch') : Numbers(patch[i], GitPatch[i])'
      BY <1>4, <3>2, <3>3, <3>4
    <3>6. \A i \in 1..Len(GitPatch') : Has(GitPatch'[i], "+") => i <= Len(patch')
      BY <1>4, <3>1, <3>2
    <3>7. \A h : Has(h, "+")' <=> Has(h, "+")
      BY DEF Has
    <3> QED BY <1>4, <3>1, <3>2, <3>5, <3>6, <3>7 DEF Kin
  <2> QED BY <2>2, <2>3
<1>8. Stages'
  BY <1>1 DEF Stages
<1> QED BY <1>5, <1>6, <1>7, <1>8 DEF IInv

\* What the model and the user are shown has its type.
LineWith(tags) == [tag : tags, line : 0..MaxLines]

\* The lines of a hunk.
LEMMA LinesHave ==
    ASSUME NEW h \in Hunks
    PROVE  /\ Len(h.lines) \in Nat /\ DOMAIN h.lines = 1..Len(h.lines)
           /\ \A k \in DOMAIN h.lines : h.lines[k] \in HunkLine
<1>1. h.lines \in Seq(HunkLine)
  BY DEF Hunks, HunkLine, Tags
<1> QED BY <1>1, ElementOfSeq

LEMMA TaggedHave ==
    ASSUME NEW h \in Hunks, NEW tags \in {Old, New}
    PROVE  /\ Tagged(h, tags) \in Seq(LineWith(tags))
           /\ DOMAIN Tagged(h, tags) = 1..Len(Tagged(h, tags)) /\ Len(Tagged(h, tags)) \in Nat
<1> DEFINE n == Len(h.lines)
           S == Tagging(h, tags)
           t == Tagged(h, tags)
           c == Cardinality(S)
<1>1. n \in Nat /\ DOMAIN h.lines = 1..n /\ \A k \in DOMAIN h.lines : h.lines[k] \in HunkLine
  BY LinesHave
<1>2. \A m \in S : h.lines[m] \in LineWith(tags)
  <2> SUFFICES ASSUME NEW m \in S
               PROVE  h.lines[m] \in LineWith(tags)
    OBVIOUS
  <2>1. h.lines[m] \in HunkLine /\ h.lines[m].tag \in tags
    BY <1>1 DEF Tagging
  <2> QED BY <2>1 DEF HunkLine, LineWith
<1> HIDE DEF n
<1>3. DOMAIN t = 1..c /\ c \in Nat
  <2> HIDE DEF S
  <2> QED BY <1>1, TaggedIs DEF S
<1>4. \A i \in DOMAIN t : \E m \in S : t[i] = h.lines[m]
  <2>1. \A i \in DOMAIN Tagged(h, tags) : \E m \in Tagging(h, tags) :
            Among(Tagging(h, tags), 1, m) = i /\ Tagged(h, tags)[i] = h.lines[m]
    <3>1. n \in Nat /\ DOMAIN h.lines = 1..n
      BY <1>1
    <3> HIDE DEF S, t, c
    <3> QED BY <3>1, TaggedIs
  <2> QED BY <2>1
<1>7. t = [i \in DOMAIN t |-> t[i]]
  BY DEF Tagged
<1> HIDE DEF S, t, c
<1>5. \A i \in 1..c : t[i] \in LineWith(tags)
  BY <1>2, <1>3, <1>4
<1>6. t \in Seq(LineWith(tags))
  <2>1. [i \in 1..c |-> t[i]] \in Seq(LineWith(tags))
    BY <1>3, <1>5, IsASeq
  <2> QED BY <1>3, <1>7, <2>1
<1>8. DOMAIN t = 1..Len(t) /\ Len(t) \in Nat
  BY <1>6, LenProperties
<1> QED BY <1>6, <1>8 DEF t

NumberedLine == [number : Nat, text : LineWith(New)]
ShownHunk == [new : Seq(NumberedLine), old : Seq(LineWith(Old))]

LEMMA NumberedHave ==
    ASSUME NEW h \in Hunks
    PROVE  Numbered(h) \in Seq(NumberedLine)
<1> DEFINE t == Tagged(h, New)
           x(i) == [number |-> h.start2 + i - 1, text |-> t[i]]
           n == Len(t)
<1>1. t \in Seq(LineWith(New)) /\ DOMAIN t = 1..n /\ n \in Nat
  BY TaggedHave
<1>2. Numbered(h) = [i \in DOMAIN t |-> x(i)]
  BY DEF Numbered
<1>3. h.start2 \in Nat
  BY DEF Hunks
<1> HIDE DEF t, n
<1>4. \A i \in 1..n : t[i] \in LineWith(New)
  <2>1. n = Len(t)
    BY DEF n
  <2> QED BY <1>1, <2>1, ElementOfSeq
<1>5. \A i \in 1..n : h.start2 + i - 1 \in Nat
  BY <1>1, <1>3
<1>6. \A i \in 1..n : x(i) \in NumberedLine
  BY <1>4, <1>5 DEF NumberedLine
<1> HIDE DEF x
<1>7. [i \in 1..n |-> x(i)] \in Seq(NumberedLine)
  BY <1>1, <1>6, IsASeq
<1> QED BY <1>1, <1>2, <1>7

LEMMA ShownHave ==
    ASSUME patch \in Seq(Hunks)
    PROVE  Shown \in Seq(ShownHunk)
<1> DEFINE c == Cardinality(ToShow)
<1>1. DOMAIN Shown = 1..c /\ c \in Nat
  BY ShownIs
<1>2. \A i \in DOMAIN Shown :
          /\ ShownHunks[i] \in ToShow
          /\ Shown[i].new = Numbered(patch[ShownHunks[i]])
          /\ Shown[i].old = IF Has(patch[ShownHunks[i]], "-")
                            THEN Tagged(patch[ShownHunks[i]], Old) ELSE <<>>
          /\ Shown[i] = [new |-> Shown[i].new, old |-> Shown[i].old]
  BY ShownIs
<1>3. \A j \in ToShow : patch[j] \in Hunks
  <2>1. \A j \in 1..Len(patch) : patch[j] \in Hunks
    BY ElementOfSeq
  <2>2. ToShow \subseteq 1..Len(patch)
    BY DEF ToShow
  <2> QED BY <2>1, <2>2
<1> HIDE DEF c
<1>4. \A i \in 1..c : Shown[i] \in ShownHunk
  <2> SUFFICES ASSUME NEW i \in 1..c
               PROVE  Shown[i] \in ShownHunk
    OBVIOUS
  <2> DEFINE h == patch[ShownHunks[i]]
  <2>1. h \in Hunks
    BY <1>1, <1>2, <1>3
  <2> HIDE DEF h
  <2>2. Numbered(h) \in Seq(NumberedLine)
    BY <2>1, NumberedHave
  <2>3. Tagged(h, Old) \in Seq(LineWith(Old))
    BY <2>1, TaggedHave
  <2>4. <<>> \in Seq(LineWith(Old))
    OBVIOUS
  <2>5. Shown[i].new \in Seq(NumberedLine) /\ Shown[i].old \in Seq(LineWith(Old))
    BY <1>1, <1>2, <2>2, <2>3, <2>4 DEF h
  <2>6. Shown[i] = [new |-> Shown[i].new, old |-> Shown[i].old]
    BY <1>1, <1>2
  <2> QED BY <2>5, <2>6 DEF ShownHunk
<1>5. Shown = [i \in 1..c |-> Shown[i]]
  <2>1. Shown = [i \in DOMAIN Shown |-> Shown[i]]
    BY DEF Shown
  <2> QED BY <1>1, <2>1
<1>6. [i \in 1..c |-> Shown[i]] \in Seq(ShownHunk)
  BY <1>1, <1>4, IsASeq
<1> QED BY <1>5, <1>6

LEMMA SelectedHave ==
    ASSUME NEW h \in Hunks, NEW q
    PROVE  SelectedIn(h, q) \in Seq(HunkLine)
<1> DEFINE S == Picked(h, q)
           c == InOrder(S)
           n == Len(h.lines)
           m == Cardinality(S)
<1>1. n \in Nat /\ DOMAIN h.lines = 1..n /\ \A k \in DOMAIN h.lines : h.lines[k] \in HunkLine
  BY LinesHave
<1>2. S \subseteq 1..n
  BY <1>1 DEF Picked
<1>3. SelectedIn(h, q) = IF InReach(h, q) THEN [k \in DOMAIN c |-> h.lines[c[k]]] ELSE <<>>
  BY DEF SelectedIn, Picked
<1>4. Cardinality(S) \in 0..n
  <2> HIDE DEF S, n
  <2> QED BY <1>1, <1>2, InOrderIs
<1>5. /\ InOrder(S) \in Seq(S) /\ Len(InOrder(S)) = Cardinality(S)
      /\ \A i \in 1..Cardinality(S) : InOrder(S)[i] \in S
  <2> HIDE DEF S, n
  <2> QED BY <1>1, <1>2, InOrderIs
<1> HIDE DEF S, n
<1>6. m \in Nat /\ DOMAIN c = 1..m /\ \A i \in 1..m : c[i] \in 1..n
  <2>1. m \in Nat
    BY <1>1, <1>4
  <2>2. DOMAIN c = 1..m
    <3>1. c \in Seq(S) /\ Len(c) = m
      BY <1>5
    <3> HIDE DEF c, m
    <3> QED BY <3>1, LenProperties
  <2>3. \A i \in 1..m : c[i] \in S
    BY <1>5
  <2> HIDE DEF c, m
  <2> QED BY <1>2, <2>1, <2>2, <2>3
<1> HIDE DEF c, m
<1>7. \A i \in 1..m : h.lines[c[i]] \in HunkLine
  BY <1>1, <1>6
<1> DEFINE x(i) == h.lines[c[i]]
<1>8. \A i \in 1..m : x(i) \in HunkLine
  BY <1>7
<1>9. SelectedIn(h, q) = IF InReach(h, q) THEN [k \in 1..m |-> x(k)] ELSE <<>>
  BY <1>3, <1>6
<1> HIDE DEF x
<1>10. [k \in 1..m |-> x(k)] \in Seq(HunkLine)
  BY <1>6, <1>8, IsASeq
<1>11. <<>> \in Seq(HunkLine)
  OBVIOUS
<1> QED BY <1>9, <1>10, <1>11

LEMMA ConvertStep ==
    ASSUME IInv, Convert
    PROVE  IInv'
<1>1. /\ stage \in {"extended", "pruned"}
      /\ \/ stage' = "raised" /\ shown' = shown
         \/ stage' = "shown" /\ shown' = Shown
      /\ UNCHANGED <<change, patch, settings, hunk, asked, selected>>
  BY DEF Convert
<1>2. FilesOK /\ TypesOK /\ Kin
  BY DEF IInv
<1>3. /\ base_file' = base_file /\ before' = before /\ after' = after /\ dynamic' = dynamic
      /\ hunk' = hunk /\ UNCHANGED change /\ asked' = asked
      /\ selected' = selected /\ patch' = patch
  BY <1>1 DEF settings
<1>4. FilesOK'
  BY <1>2, <1>3, FilesStayOK
<1>5. shown' \in Seq([new : Seq([number : Nat, text : [tag : New, line : 0..MaxLines]]),
                      old : Seq([tag : Old, line : 0..MaxLines])])
  <2>1. CASE shown' = shown
    BY <1>2, <2>1 DEF TypesOK
  <2>2. CASE shown' = Shown
    <3>1. patch \in Seq(Hunks)
      BY <1>2 DEF Kin
    <3>2. Shown \in Seq(ShownHunk)
      BY <3>1, ShownHave
    <3> QED BY <2>2, <3>2 DEF ShownHunk, NumberedLine, LineWith
  <2> QED BY <1>1, <2>1, <2>2
<1>6. TypesOK'
  <2>1. stage' \in {"shown", "raised"}
    BY <1>1
  <2> QED BY <1>2, <1>3, <1>5, <2>1 DEF TypesOK
<1>7. Kin'
  BY <1>2, <1>3, KinStays
<1>8. Shown' = Shown
  BY <1>3 DEF Shown, ShownHunks
<1>9. Stages'
  BY <1>1, <1>8 DEF Stages
<1> QED BY <1>4, <1>6, <1>7, <1>9 DEF IInv

LEMMA AskStep ==
    ASSUME IInv, Ask
    PROVE  IInv'
<1>1. /\ stage = "given" /\ stage' = "asked" /\ asked' \in Questions
      /\ selected' = [i \in DOMAIN patch |-> SelectedIn(patch[i], asked')]
      /\ UNCHANGED <<change, patch, settings, hunk, shown>>
  BY DEF Ask
<1>2. FilesOK /\ TypesOK /\ Kin /\ patch = GitPatch
  BY <1>1 DEF IInv, Stages
<1>3. /\ base_file' = base_file /\ before' = before /\ after' = after /\ dynamic' = dynamic
      /\ hunk' = hunk /\ UNCHANGED change /\ shown' = shown /\ patch' = patch
  BY <1>1 DEF settings
<1>4. FilesOK'
  BY <1>2, <1>3, FilesStayOK
<1>5. asked' \in [side : {"left", "right"}, start : Nat, end : Nat]
  BY <1>1, PatchHunksAssumption
<1>6. selected' \in Seq(Seq(HunkLine))
  <2> DEFINE n == Len(patch)
             x(i) == SelectedIn(patch[i], asked')
  <2>1. patch \in Seq(Hunks)
    BY <1>2 DEF Kin
  <2>2. n \in Nat /\ DOMAIN patch = 1..n
    BY <2>1, LenProperties
  <2>3. \A i \in 1..n : patch[i] \in Hunks
    BY <2>1, ElementOfSeq
  <2> HIDE DEF n
  <2>4. \A i \in 1..n : x(i) \in Seq(HunkLine)
    <3> SUFFICES ASSUME NEW i \in 1..n
                 PROVE  x(i) \in Seq(HunkLine)
      OBVIOUS
    <3> DEFINE h == patch[i]
               q == asked'
    <3>1. h \in Hunks
      BY <2>3
    <3> HIDE DEF h, q
    <3>2. SelectedIn(h, q) \in Seq(HunkLine)
      BY <3>1, SelectedHave
    <3> QED BY <3>2 DEF h, q
  <2>5. selected' = [i \in 1..n |-> x(i)]
    BY <1>1, <2>2
  <2> HIDE DEF x
  <2>6. [i \in 1..n |-> x(i)] \in Seq(Seq(HunkLine))
    BY <2>2, <2>4, IsASeq
  <2> QED BY <2>5, <2>6
<1>7. TypesOK'
  BY <1>1, <1>2, <1>3, <1>5, <1>6 DEF TypesOK
<1>8. Kin'
  BY <1>2, <1>3, KinStays
<1>9. patch' = GitPatch'
  BY <1>2, <1>3, FilesStay
<1>10. selected' = [i \in DOMAIN patch' |-> SelectedIn(patch'[i], asked')]
  BY <1>1, <1>3
<1>11. \A h, q : SelectedIn(h, q)' = SelectedIn(h, q)
  BY DEF SelectedIn, Answers, InReach, InFront
<1>12. Stages'
  BY <1>1, <1>9, <1>10, <1>11 DEF Stages
<1> QED BY <1>4, <1>7, <1>8, <1>12 DEF IInv

LEMMA NoStep ==
    ASSUME IInv, UNCHANGED vars
    PROVE  IInv'
<1>1. /\ UNCHANGED <<change, settings>> /\ UNCHANGED change /\ base_file' = base_file
      /\ before' = before /\ after' = after /\ dynamic' = dynamic
      /\ patch' = patch /\ stage' = stage /\ hunk' = hunk /\ shown' = shown
      /\ asked' = asked /\ selected' = selected
  BY DEF vars, change, settings
<1>2. FilesOK' /\ Kin'
  BY <1>1, FilesStayOK, KinStays DEF IInv
<1>3. TypesOK'
  BY <1>1 DEF TypesOK, IInv
<1>4. GitPatch' = GitPatch /\ OldFile' = OldFile
  BY <1>1, FilesStay
<1>5. \A h, g : Grown(h, g)' <=> Grown(h, g)
  BY <1>1, GrownStays
<1>6. Shown' = Shown
  BY <1>1 DEF Shown, ShownHunks
<1>7. Stages'
  BY <1>1, <1>4, <1>5, <1>6 DEF Stages, IInv
<1> QED BY <1>2, <1>3, <1>7 DEF IInv

\* The invariant holds of every state that is reached.
LEMMA Inductive == Spec => []IInv
<1>1. Init => IInv
  BY InitIsOK
<1>2. IInv /\ [Next]_vars => IInv'
  BY ExtendStep, ExtendHunkStep, PruneStep, ConvertStep, AskStep, NoStep DEF Next
<1> QED BY <1>1, <1>2, PTL DEF Spec

-----------------------------------------------------------------------------
\* Theorems.

\* The lines, hunks and numbers keep their types in every stage.
THEOREM PatchTypes == Spec => []TypeOK
<1>1. IInv => TypeOK
  <2> SUFFICES ASSUME IInv
               PROVE  TypeOK
    OBVIOUS
  <2>1. FilesOK /\ TypesOK /\ Kin
    BY DEF IInv
  <2>2. script \in Seq({" ", "+", "-"}) /\ func \in 0..MaxLines
    <3>1. script \in Seq(Tags) /\ Len(script) \in 0..MaxLines /\ func \in 0..Len(script)
      BY <2>1 DEF FilesOK, ScriptOK, Tags
    <3>2. MaxLines \in Nat
      BY PatchHunksAssumption
    <3>3. func \in 0..MaxLines
      BY <3>1, <3>2
    <3> QED BY <3>1, <3>3 DEF Tags
  <2>3. base_file \in Seq(0..MaxLines) /\ head_file \in Seq(1..MaxLines)
    BY <2>1, FilesAre
  <2>4. patch \in Seq(Hunks)
    BY <2>1 DEF Kin
  <2> QED BY <2>1, <2>2, <2>3, <2>4 DEF TypesOK, TypeOK, New, Old, HunkLine, Tags
<1> QED BY <1>1, Inductive, PTL

\* An extended hunk is still a hunk of a diff between the two files: what
\* process_patch_lines and _calc_context_limits put in front of it and behind it is in
\* both files, at the lines its new header names.
THEOREM ExtensionCorrectness == Spec => []ExtendedIsFaithful
<1>1. IInv => ExtendedIsFaithful
  <2> SUFFICES ASSUME IInv, stage = "extended", after <= Context + 1, NEW k \in DOMAIN patch,
                      ~SizeLeftOut(GitPatch[k]),
                      base_file # OldFile => GitPatch[k].lines[1].tag = " "
               PROVE  Faithful(patch[k], OldFile)
    BY DEF ExtendedIsFaithful
  <2>1. FilesOK
    BY DEF IInv
  <2>2. patch \in Seq(Hunks) /\ DOMAIN patch = 1..Len(patch)
    <3>1. patch \in Seq(Hunks)
      BY DEF IInv, Kin
    <3> QED BY <3>1, LenProperties
  <2>3. patch[k] \in Hunks
    BY <2>2, ElementOfSeq
  <2>4. k \in 1..Len(GitPatch) /\ Grown(patch[k], GitPatch[k])
    BY <2>2 DEF IInv, Stages
  <2>5. Bounds(Begin(k), End(k)) /\ GitPatch[k] = HunkFrom(Begin(k), End(k))
    BY <2>1, <2>4, GivenAre
  <2>6. Sure(GitPatch[k])
    BY DEF Sure
  <2> DEFINE h == patch[k]
             a == Begin(k)
             b == End(k)
  <2>7. /\ Bounds(a, b) /\ h \in Hunks /\ Grown(h, HunkFrom(a, b)) /\ Sure(HunkFrom(a, b))
    BY <2>3, <2>4, <2>5, <2>6
  <2> HIDE DEF h, a, b
  <2>8. Faithful(h, OldFile)
    BY <2>1, <2>7, GrownIsFaithful
  <2> QED BY <2>8 DEF h
<1> QED BY <1>1, Inductive, PTL

\* The model is shown every added line once, under its number in the new file, by
\* decouple_and_convert_to_hunks_with_lines_numbers.
THEOREM NumbersCorrectness == Spec => []AdditionsAreNumbered
<1>1. IInv => AdditionsAreNumbered
  <2> SUFFICES ASSUME IInv, stage = "shown", head_file # <<>>, NEW k \in Lines, script[k] = "+"
               PROVE  \E i \in DOMAIN shown : \E p \in DOMAIN shown[i].new :
                         /\ IsAt(head_file, shown[i].new[p].number, k)
                         /\ \A i2 \in DOMAIN shown : \A p2 \in DOMAIN shown[i2].new :
                               shown[i2].new[p2].text = [tag |-> "+", line |-> k]
                                   <=> i2 = i /\ p2 = p
    BY DEF AdditionsAreNumbered
  <2>1. ScriptOK /\ head_file = NewFile /\ Kin /\ shown = Shown
    BY DEF IInv, FilesOK, Stages
  <2> QED BY <2>1, AddedIsShown
<1> QED BY <1>1, Inductive, PTL

\* A question about lines of the new file is given those lines by
\* extract_hunk_lines_from_patch.
THEOREM SelectionCorrectness == Spec => []SelectedIsAsked
<1>1. IInv => SelectedIsAsked
  <2> SUFFICES ASSUME IInv, stage = "asked", asked.side = "right", NEW i \in DOMAIN patch
               PROVE  LET got == {selected[i][p] : p \in DOMAIN selected[i]}
                          new == {k \in DOMAIN patch[i].lines : patch[i].lines[k].tag \in New}
                          wanted == {head_file[n] :
                                        n \in (asked.start..asked.end) \cap DOMAIN head_file}
                      IN /\ \A x \in got : x.tag \in New => x.line \in wanted
                         /\ asked.start \in patch[i].start2..patch[i].start2
                                                + Cardinality(new) - 1 =>
                                \A k \in new : patch[i].lines[k].line \in wanted
                                                   => patch[i].lines[k] \in got
    BY DEF SelectedIsAsked
  <2>1. /\ ScriptOK /\ head_file = NewFile /\ patch = GitPatch /\ FilesOK
        /\ selected = [j \in DOMAIN patch |-> SelectedIn(patch[j], asked)]
        /\ asked \in [side : {"left", "right"}, start : Nat, end : Nat]
    BY DEF IInv, FilesOK, TypesOK, Stages
  <2>2. i \in 1..Len(GitPatch)
    BY <2>1, GivenAre
  <2>3. Bounds(Begin(i), End(i)) /\ GitPatch[i] = HunkFrom(Begin(i), End(i))
    BY <2>1, <2>2, GivenAre
  <2>4. selected[i] = SelectedIn(patch[i], asked) /\ patch[i] = HunkFrom(Begin(i), End(i))
    BY <2>1, <2>3
  <2> DEFINE a == Begin(i)
             b == End(i)
             q == asked
             h == HunkFrom(a, b)
             s == SelectedIn(h, q)
  <2>5. ScriptOK /\ Bounds(a, b) /\ q \in [side : {"left", "right"}, start : Nat, end : Nat]
        /\ q.side = "right"
    BY <2>1, <2>3
  <2> HIDE DEF a, b, q
  <2>6. AnswerIsRight(h, q, NewFile)
    BY <2>5, SelectedOfGiven
  <2>7. patch[i] = h /\ selected[i] = s
    BY <2>4 DEF a, b, q
  <2> HIDE DEF h, s
  <2> QED BY <2>1, <2>6, <2>7 DEF q, s, AnswerIsRight
<1> QED BY <1>1, Inductive, PTL

=============================================================================
