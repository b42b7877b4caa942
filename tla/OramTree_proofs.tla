---------------------------- MODULE OramTree_proofs ----------------------------
(***************************************************************************)
(* The geometry of the tree, for every height: the buckets of a path lie   *)
(* in the tree, two paths that share a bucket share all buckets above it,  *)
(* and leavesForLocation is the range of the leaves below a bucket.        *)
(***************************************************************************)
EXTENDS OramTree, FiniteSetTheorems, WellFoundedInduction, TLAPS

-----------------------------------------------------------------------------
(***************************************************************************)
(* Powers of two.  The provers know little of exponents; what is needed    *)
(* follows from the number of subsets of a finite set.                     *)
(***************************************************************************)
LEMMA LeastNumber ==
  ASSUME NEW S \in SUBSET Nat, S # {}
  PROVE  \E n \in S : \A m \in S : n <= m
<1>1. PICK n \in S : \A m \in S : ~ (<<m, n>> \in OpToRel(<, Nat))
  BY NatLessThanWellFounded, WFMin, Zenon
<1>2. ASSUME NEW m \in S, ~ n <= m PROVE FALSE
  <2>1. <<m, n>> \in OpToRel(<, Nat)
    BY <1>2 DEF OpToRel
  <2> QED BY <1>1, <2>1
<1> QED BY <1>2

\* Induction for the predicate "in S", which needs no operator as a parameter.
LEMMA SetInduction ==
  ASSUME NEW S, 0 \in S, \A n \in Nat : n \in S => n + 1 \in S
  PROVE  Nat \subseteq S
<1> SUFFICES ASSUME Nat \ S # {} PROVE FALSE
  OBVIOUS
<1>1. PICK n \in Nat \ S : \A m \in Nat \ S : n <= m
  BY LeastNumber
<1>2. n - 1 \in Nat /\ n - 1 \notin Nat \ S /\ (n - 1) + 1 = n
  BY <1>1
<1> QED BY <1>1, <1>2

LEMMA TwoToOfSet ==
  ASSUME NEW S, IsFiniteSet(S)
  PROVE  /\ IsFiniteSet(SUBSET S) /\ Cardinality(SUBSET S) = 2 ^ Cardinality(S)
         /\ 2 ^ Cardinality(S) \in Nat \ {0}
<1>1. IsFiniteSet(SUBSET S) /\ Cardinality(SUBSET S) = 2 ^ Cardinality(S)
  BY FS_SUBSET
<1>2. {} \in SUBSET S
  OBVIOUS
<1>3. Cardinality(SUBSET S) \in Nat /\ Cardinality(SUBSET S) # 0
  BY <1>1, <1>2, FS_CardinalityType, FS_EmptySet
<1> QED BY <1>1, <1>3

LEMMA TwoToNat ==
  ASSUME NEW n \in Nat
  PROVE  2 ^ n \in Nat \ {0}
<1>1. IsFiniteSet(1 .. n) /\ Cardinality(1 .. n) = n
  BY FS_Interval
<1> QED BY <1>1, TwoToOfSet

\* Half of the subsets of 1 .. n + 1 have n + 1 in them.
LEMMA TwoToNext ==
  ASSUME NEW n \in Nat
  PROVE  2 ^ (n + 1) = 2 * 2 ^ n
<1> DEFINE A == SUBSET (1 .. n)
           B == {s \cup {n + 1} : s \in A}
<1>1. IsFiniteSet(1 .. n) /\ Cardinality(1 .. n) = n
  BY FS_Interval
<1>2. IsFiniteSet(1 .. n + 1) /\ Cardinality(1 .. n + 1) = n + 1
  BY FS_Interval
<1>3. IsFiniteSet(A) /\ Cardinality(A) = 2 ^ n
  BY <1>1, TwoToOfSet
<1>4. Cardinality(SUBSET (1 .. n + 1)) = 2 ^ (n + 1)
  BY <1>2, TwoToOfSet
<1>5. SUBSET (1 .. n + 1) = A \cup B
  <2>1. 1 .. n + 1 = (1 .. n) \cup {n + 1}
    OBVIOUS
  <2>2. ASSUME NEW s \in SUBSET (1 .. n + 1) PROVE s \in A \cup B
    <3>1. CASE n + 1 \in s
      <4>1. s \ {n + 1} \in A /\ s = (s \ {n + 1}) \cup {n + 1}
        BY <2>1, <3>1
      <4> QED BY <4>1
    <3>2. CASE n + 1 \notin s
      BY <2>1, <3>2
    <3> QED BY <3>1, <3>2
  <2>3. A \cup B \subseteq SUBSET (1 .. n + 1)
    BY <2>1
  <2> QED BY <2>2, <2>3
<1>6. A \cap B = {}
  <2>1. n + 1 \notin 1 .. n
    OBVIOUS
  <2> QED BY <2>1
<1>7. IsFiniteSet(B) /\ Cardinality(B) = Cardinality(A)
  <2> DEFINE f == [s \in A |-> s \cup {n + 1}]
  <2>1. \A s, t \in A : s \cup {n + 1} = t \cup {n + 1} => s = t
    <3>1. n + 1 \notin 1 .. n
      OBVIOUS
    <3>2. \A s \in A : n + 1 \notin s
      BY <3>1
    <3> QED BY <3>2
  <2>2. f \in Bijection(A, B)
    <3>1. f \in [A -> B] /\ \A t \in B : \E s \in A : f[s] = t
      OBVIOUS
    <3>2. \A s, t \in A : f[s] = f[t] => s = t
      BY <2>1
    <3> HIDE DEF f, A, B
    <3> QED BY <3>1, <3>2 DEF Bijection, Injection, Surjection, IsInjective
  <2> QED BY <1>3, <2>2, FS_Bijection DEF ExistsBijection
<1> HIDE DEF A, B
<1>8. Cardinality(A \cup B) = Cardinality(A) + Cardinality(B)
  <2>1. Cardinality(A \cup B) = Cardinality(A) + Cardinality(B) - Cardinality(A \cap B)
    BY <1>3, <1>7, FS_Union
  <2>2. Cardinality(A \cap B) = 0
    BY <1>6, FS_EmptySet
  <2>3. Cardinality(A) \in Nat
    BY <1>3, FS_CardinalityType
  <2> QED BY <1>7, <2>1, <2>2, <2>3
<1>9. 2 ^ n \in Nat
  BY TwoToNat
<1>10. 2 ^ (n + 1) = Cardinality(A) + Cardinality(B)
  BY <1>4, <1>5, <1>8, Zenon
<1>11. Cardinality(A) = 2 ^ n /\ Cardinality(B) = 2 ^ n
  BY <1>3, <1>7
<1> QED BY <1>9, <1>10, <1>11

LEMMA TwoToSum ==
  ASSUME NEW a \in Nat, NEW b \in Nat
  PROVE  2 ^ (a + b) = 2 ^ a * 2 ^ b
<1> DEFINE S == {n \in Nat : 2 ^ (a + n) = 2 ^ a * 2 ^ n}
<1>1. 0 \in S
  <2>1. a + 0 = a /\ 2 ^ 0 = 1 /\ 2 ^ a \in Nat
    BY TwoToNat
  <2>2. 2 ^ (a + 0) = 2 ^ a
    BY <2>1
  <2>3. 2 ^ a * 2 ^ 0 = 2 ^ a
    BY <2>1
  <2> QED BY <2>2, <2>3
<1>2. ASSUME NEW n \in Nat, n \in S PROVE n + 1 \in S
  <2>1. (a + n) + 1 = a + (n + 1) /\ a + n \in Nat
    OBVIOUS
  <2>2. 2 ^ (a + (n + 1)) = 2 * 2 ^ (a + n)
    BY <2>1, TwoToNext
  <2>3. 2 ^ (a + n) = 2 ^ a * 2 ^ n
    BY <1>2
  <2>4. 2 ^ (n + 1) = 2 * 2 ^ n
    BY TwoToNext
  <2>5. 2 ^ a \in Nat /\ 2 ^ n \in Nat
    BY TwoToNat
  <2>6. \A x, y \in Nat : 2 * (x * y) = x * (2 * y)
    OBVIOUS
  <2>7. 2 ^ (a + (n + 1)) = 2 ^ a * 2 ^ (n + 1)
    BY <2>2, <2>3, <2>4, <2>5, <2>6
  <2> QED BY <2>7
<1> HIDE DEF S
<1>3. b \in S
  BY <1>1, <1>2, SetInduction
<1> QED BY <1>3 DEF S

LEMMA TwoToGrows ==
  ASSUME NEW a \in Nat, NEW b \in Nat, a <= b
  PROVE  2 ^ a <= 2 ^ b /\ (a < b => 2 * 2 ^ a <= 2 ^ b)
<1>1. ASSUME NEW m \in Nat, NEW n \in Nat, m <= n PROVE 2 ^ m <= 2 ^ n
  <2>1. n - m \in Nat /\ m + (n - m) = n
    BY <1>1
  <2>2. 2 ^ n = 2 ^ m * 2 ^ (n - m)
    BY <2>1, TwoToSum
  <2>3. 2 ^ m \in Nat \ {0} /\ 2 ^ (n - m) \in Nat \ {0}
    BY <2>1, TwoToNat
  <2>4. \A x, y \in Nat \ {0} : x <= x * y
    OBVIOUS
  <2> QED BY <2>2, <2>3, <2>4
<1>2. a < b => a + 1 <= b
  OBVIOUS
<1> QED BY <1>1, <1>2, TwoToNext

-----------------------------------------------------------------------------
(***************************************************************************)
(* Division.                                                               *)
(***************************************************************************)
LEMMA DivBounds ==
  ASSUME NEW a \in Nat, NEW d \in Nat \ {0}
  PROVE  /\ a \div d \in Nat
         /\ (a \div d) * d <= a /\ a < (a \div d + 1) * d
OBVIOUS

LEMMA DivUnique ==
  ASSUME NEW a \in Nat, NEW d \in Nat \ {0}, NEW q \in Nat, q * d <= a, a < (q + 1) * d
  PROVE  a \div d = q
<1>1. \A x, y \in Nat : x < y => (x + 1) * d <= y * d
  OBVIOUS
<1>2. a \div d \in Nat /\ (a \div d) * d <= a /\ a < (a \div d + 1) * d
  BY DivBounds
<1> QED BY <1>1, <1>2

LEMMA DivDiv ==
  ASSUME NEW a \in Nat, NEW d \in Nat \ {0}, NEW e \in Nat \ {0}
  PROVE  a \div (d * e) = (a \div d) \div e
<1> DEFINE q == a \div d
           r == q \div e
<1>1. q \in Nat /\ q * d <= a /\ a < (q + 1) * d
  BY DivBounds
<1>2. r \in Nat /\ r * e <= q /\ q < (r + 1) * e
  BY <1>1, DivBounds
<1> HIDE DEF q, r
<1>3. \A x, y \in Nat : x <= y => x * d <= y * d
  OBVIOUS
<1>4. (r * e) * d <= q * d
  BY <1>1, <1>2, <1>3
<1>5. q + 1 <= (r + 1) * e
  BY <1>1, <1>2
<1>6. (q + 1) * d <= ((r + 1) * e) * d
  BY <1>1, <1>2, <1>3, <1>5
<1>7. \A x \in Nat : (x * e) * d = x * (d * e)
  OBVIOUS
<1>8. d * e \in Nat \ {0}
  OBVIOUS
<1>9. r * (d * e) <= a /\ a < (r + 1) * (d * e)
  <2>1. (r * e) * d = r * (d * e) /\ ((r + 1) * e) * d = (r + 1) * (d * e)
    BY <1>2, <1>7
  <2>2. r * (d * e) \in Nat /\ (r + 1) * (d * e) \in Nat /\ q * d \in Nat /\ (q + 1) * d \in Nat
    BY <1>1, <1>2, <1>8
  <2> QED BY <1>1, <1>4, <1>6, <2>1, <2>2
<1> QED BY <1>2, <1>8, <1>9, DivUnique DEF r, q

-----------------------------------------------------------------------------
(***************************************************************************)
(* The path to a leaf of the tree.                                         *)
(***************************************************************************)
LEMMA HeightFacts ==
  /\ Height \in Nat /\ Height >= 1 /\ Height - 1 \in Nat
  /\ LeafCount \in Nat \ {0} /\ 2 ^ Height = 2 * LeafCount
  /\ 2 ^ WordBits \in Nat /\ 2 ^ Height <= 2 ^ WordBits
<1>1. Height \in Nat /\ Height >= 1 /\ Height - 1 \in Nat /\ (Height - 1) + 1 = Height
  BY HeightAssumption
<1>2. WordBits \in Nat /\ Height <= WordBits
  BY HeightAssumption, WidthAssumption
<1> QED BY <1>1, <1>2, TwoToNat, TwoToNext, TwoToGrows DEF LeafCount

\* For a leaf of the tree nothing wraps around: its number in the heap, less
\* one binary digit for every level above the last.
LEMMA BucketOfLeaf ==
  ASSUME NEW leaf \in Leaves, NEW level \in Levels
  PROVE  /\ Height - 1 - level \in Nat /\ 2 ^ (Height - 1 - level) \in Nat \ {0}
         /\ leaf + LeafCount \in LeafCount .. 2 ^ Height - 1
         /\ BucketForLevelLeaf(level, leaf)
              = (leaf + LeafCount) \div 2 ^ (Height - 1 - level)
<1>1. Height - 1 - level \in Nat
  BY HeightFacts DEF Levels
<1>2. leaf + LeafCount \in LeafCount .. 2 ^ Height - 1
  BY HeightFacts DEF Leaves
<1>3. (leaf + LeafCount) % 2 ^ WordBits = leaf + LeafCount
  <2>1. leaf + LeafCount \in Nat /\ leaf + LeafCount < 2 ^ WordBits /\ 2 ^ WordBits \in Nat
    BY <1>2, HeightFacts
  <2>2. \A x, w \in Nat : x < w => x % w = x
    OBVIOUS
  <2> QED BY <2>1, <2>2
<1> QED BY <1>1, <1>2, <1>3, TwoToNat DEF BucketForLevelLeaf

\* The bucket on level k is one of the 2^k buckets numbered from 2^k.
LEMMA BucketOnLevel ==
  ASSUME NEW leaf \in Leaves, NEW level \in Levels
  PROVE  BucketForLevelLeaf(level, leaf) \in 2 ^ level .. 2 ^ (level + 1) - 1
<1> DEFINE x == leaf + LeafCount
           d == 2 ^ (Height - 1 - level)
           q == BucketForLevelLeaf(level, leaf)
<1>1. /\ Height - 1 - level \in Nat /\ d \in Nat \ {0}
      /\ x \in LeafCount .. 2 ^ Height - 1 /\ q = x \div d
  BY BucketOfLeaf
<1>2. level \in Nat /\ level + 1 \in Nat /\ 2 ^ level \in Nat /\ 2 ^ (level + 1) \in Nat
  BY HeightFacts, TwoToNat DEF Levels
<1>3. LeafCount = 2 ^ level * d
  <2>1. level + (Height - 1 - level) = Height - 1
    BY <1>2, HeightFacts
  <2>2. 2 ^ (level + (Height - 1 - level)) = 2 ^ level * d
    BY <1>1, <1>2, TwoToSum
  <2> QED BY <2>1, <2>2 DEF LeafCount
<1>4. 2 ^ Height = 2 ^ (level + 1) * d
  <2>1. (level + 1) + (Height - 1 - level) = Height
    BY <1>2, HeightFacts
  <2>2. 2 ^ ((level + 1) + (Height - 1 - level)) = 2 ^ (level + 1) * d
    BY <1>1, <1>2, TwoToSum
  <2> QED BY <2>1, <2>2
<1>5. x \in Nat
  BY <1>1, HeightFacts
<1> HIDE DEF x, d
<1>6. q \in Nat /\ q * d <= x /\ x < (q + 1) * d
  BY <1>1, <1>5, DivBounds
<1> HIDE DEF q
<1>7. \A m, n \in Nat : m * d < n * d => m < n
  BY <1>1
<1>8. 2 ^ level * d < (q + 1) * d /\ q * d < 2 ^ (level + 1) * d
  <2>1. LeafCount <= x /\ x < 2 ^ Height
    BY <1>1, HeightFacts
  <2>2. q * d \in Nat /\ (q + 1) * d \in Nat
    BY <1>1, <1>6
  <2> QED BY <1>3, <1>4, <1>5, <1>6, <2>1, <2>2, HeightFacts
<1>9. 2 ^ level < q + 1 /\ q < 2 ^ (level + 1)
  BY <1>2, <1>6, <1>7, <1>8
<1>10. q \in 2 ^ level .. 2 ^ (level + 1) - 1
  BY <1>2, <1>6, <1>9
<1> QED BY <1>10 DEF q

\* The root is bucket 1 of every path.
LEMMA RootBucket ==
  ASSUME NEW leaf \in Leaves
  PROVE  BucketForLevelLeaf(0, leaf) = 1
<1>1. 0 \in Levels
  BY HeightFacts DEF Levels
<1>2. BucketForLevelLeaf(0, leaf) \in 2 ^ 0 .. 2 ^ (0 + 1) - 1
  BY <1>1, BucketOnLevel
<1>3. 2 ^ 0 = 1 /\ 2 ^ (0 + 1) = 2
  OBVIOUS
<1> QED BY <1>2, <1>3

\* The intervals of two levels do not meet.
LEMMA LevelsApart ==
  ASSUME NEW i \in Nat, NEW j \in Nat, NEW n \in Int,
         2 ^ i <= n, n < 2 ^ (i + 1), 2 ^ j <= n, n < 2 ^ (j + 1)
  PROVE  i = j
<1>1. ASSUME NEW k \in Nat, NEW m \in Nat, k < m, n < 2 ^ (k + 1), 2 ^ m <= n
      PROVE  FALSE
  <2>1. k + 1 \in Nat /\ k + 1 <= m
    BY <1>1
  <2>2. 2 ^ (k + 1) <= 2 ^ m /\ 2 ^ (k + 1) \in Nat /\ 2 ^ m \in Nat
    BY <2>1, TwoToGrows, TwoToNat
  <2> QED BY <1>1, <2>2
<1>2. ~ i < j /\ ~ j < i
  BY <1>1
<1> QED BY <1>2

\* A path has one bucket on each level.
LEMMA BucketsApart ==
  ASSUME NEW a \in Leaves, NEW b \in Leaves, NEW i \in Levels, NEW j \in Levels,
         BucketForLevelLeaf(i, a) = BucketForLevelLeaf(j, b)
  PROVE  i = j
<1> DEFINE n == BucketForLevelLeaf(i, a)
<1>1. i \in Nat /\ j \in Nat
  BY HeightFacts DEF Levels
<1>2. n \in 2 ^ i .. 2 ^ (i + 1) - 1 /\ n \in 2 ^ j .. 2 ^ (j + 1) - 1
  BY BucketOnLevel
<1>3. 2 ^ i \in Nat /\ 2 ^ (i + 1) \in Nat /\ 2 ^ j \in Nat /\ 2 ^ (j + 1) \in Nat
  BY <1>1, TwoToNat
<1> HIDE DEF n
<1> QED BY <1>1, <1>2, <1>3, LevelsApart

\* A path lies in the tree: access to a leaf asks for buckets 1 to 2^Height - 1.
LEMMA PathInTree ==
  ASSUME NEW leaf \in Leaves
  PROVE  Path(leaf) \subseteq 1 .. 2 ^ Height - 1
<1> SUFFICES ASSUME NEW level \in Levels
             PROVE  BucketForLevelLeaf(level, leaf) \in 1 .. 2 ^ Height - 1
  BY DEF Path
<1>1. level \in Nat /\ level + 1 \in Nat /\ level + 1 <= Height
  BY HeightFacts DEF Levels
<1>2. 2 ^ level \in Nat \ {0} /\ 2 ^ (level + 1) \in Nat /\ 2 ^ (level + 1) <= 2 ^ Height
      /\ 2 ^ Height \in Nat
  BY <1>1, HeightFacts, TwoToNat, TwoToGrows
<1> QED BY <1>2, BucketOnLevel

(***************************************************************************)
(* Sharing a bucket.                                                       *)
(***************************************************************************)
\* A bucket is on the path through any bucket below it.
LEMMA BucketAbove ==
  ASSUME NEW leaf \in Nat, NEW low \in Levels, NEW high \in Levels, high <= low
  PROVE  BucketForLevelLeaf(high, leaf) = BucketForLevelLeaf(low, leaf) \div 2 ^ (low - high)
<1> DEFINE x == (leaf + LeafCount) % 2 ^ WordBits
<1>1. Height - 1 - low \in Nat /\ low - high \in Nat
      /\ (Height - 1 - low) + (low - high) = Height - 1 - high
  BY HeightFacts DEF Levels
<1>2. 2 ^ (Height - 1 - high) = 2 ^ (Height - 1 - low) * 2 ^ (low - high)
  <2>1. 2 ^ ((Height - 1 - low) + (low - high)) = 2 ^ (Height - 1 - low) * 2 ^ (low - high)
    BY <1>1, TwoToSum
  <2> QED BY <1>1, <2>1
<1>3. 2 ^ (Height - 1 - low) \in Nat \ {0} /\ 2 ^ (low - high) \in Nat \ {0}
  BY <1>1, TwoToNat
<1>4. x \in Nat
  <2>1. WordBits \in Nat
    BY WidthAssumption
  <2>2. leaf + LeafCount \in Nat /\ 2 ^ WordBits \in Nat \ {0}
    BY <2>1, HeightFacts, TwoToNat
  <2> QED BY <2>2
<1> HIDE DEF x
<1>5. x \div (2 ^ (Height - 1 - low) * 2 ^ (low - high))
        = (x \div 2 ^ (Height - 1 - low)) \div 2 ^ (low - high)
  BY <1>3, <1>4, DivDiv
<1> QED BY <1>2, <1>5 DEF BucketForLevelLeaf, x

\* A bucket that the path to some position, in the tree or not, shares with the
\* path to a leaf is not visited on a higher level as well.
LEMMA SharedBucketVisitedOnce ==
  ASSUME NEW pathLeaf \in Nat, NEW home \in Leaves,
         NEW low \in Levels, NEW high \in Levels, high < low,
         CanInclude(home, pathLeaf, low)
  PROVE  BucketForLevelLeaf(high, pathLeaf) # BucketForLevelLeaf(low, pathLeaf)
<1> DEFINE b == BucketForLevelLeaf(low, pathLeaf)
           d == 2 ^ (low - high)
<1>1. low \in Nat /\ high \in Nat /\ low - high \in Nat /\ low - high >= 1
  BY HeightFacts DEF Levels
<1>2. b \in Nat \ {0}
  <2>1. b = BucketForLevelLeaf(low, home)
    BY DEF CanInclude
  <2>2. b \in 2 ^ low .. 2 ^ (low + 1) - 1
    BY <2>1, BucketOnLevel
  <2>3. 2 ^ low \in Nat \ {0} /\ 2 ^ (low + 1) \in Nat
    BY <1>1, TwoToNat
  <2> HIDE DEF b
  <2> QED BY <2>2, <2>3
<1>3. BucketForLevelLeaf(high, pathLeaf) = b \div d
  BY <1>1, BucketAbove
<1>4. d \in Nat /\ d >= 2
  <2>1. low - high - 1 \in Nat /\ (low - high - 1) + 1 = low - high
    BY <1>1
  <2>2. d = 2 * 2 ^ (low - high - 1) /\ 2 ^ (low - high - 1) \in Nat \ {0}
    BY <2>1, TwoToNat, TwoToNext
  <2> HIDE DEF d
  <2> QED BY <2>2
<1> HIDE DEF b, d
<1>5. (b \div d) * d <= b /\ b \div d \in Nat
  BY <1>2, <1>4, DivBounds
<1>6. b * d >= b + b
  <2>1. b * d = b * (d - 2) + (b + b) /\ b * (d - 2) >= 0
    BY <1>2, <1>4
  <2> QED BY <1>2, <1>4, <2>1
<1>7. b \div d # b
  BY <1>2, <1>4, <1>5, <1>6
<1> QED BY <1>3, <1>7 DEF b

\* Two paths that share their bucket on a level share every bucket above it, so
\* a block that may be placed on a level of the written path may be placed on
\* every higher one (canInclude, oram.cpp:283-289), whatever the positions.
THEOREM PathsShareAPrefix ==
  ASSUME NEW pathLeaf \in Nat, NEW blockPosition \in Nat,
         NEW low \in Levels, NEW high \in Levels, high <= low,
         CanInclude(pathLeaf, blockPosition, low)
  PROVE  CanInclude(pathLeaf, blockPosition, high)
BY BucketAbove DEF CanInclude

-----------------------------------------------------------------------------
(***************************************************************************)
(* The leaves below a bucket.                                              *)
(***************************************************************************)
LEMMA LevelOfLocation ==
  ASSUME NEW location \in 1 .. 2 ^ Height - 1
  PROVE  /\ LevelOf(location) \in Levels
         /\ 2 ^ LevelOf(location) <= location
         /\ location < 2 ^ (LevelOf(location) + 1)
<1> DEFINE S == {n \in Nat : location < 2 ^ (n + 1)}
<1>1. location \in Nat /\ location < 2 ^ Height /\ (Height - 1) + 1 = Height
  BY HeightFacts
<1>2. Height - 1 \in S
  BY <1>1, HeightFacts
<1>3. PICK n \in S : \A m \in S : n <= m
  BY <1>2, LeastNumber
<1>4. 2 ^ n <= location
  <2>1. CASE n = 0
    BY <1>1, <2>1
  <2>2. CASE n # 0
    <3>1. n - 1 \in Nat /\ (n - 1) + 1 = n /\ n - 1 \notin S
      BY <1>3, <2>2
    <3>2. ~ location < 2 ^ n /\ 2 ^ n \in Nat
      BY <3>1, TwoToNat
    <3> QED BY <1>1, <3>2
  <2> QED BY <2>1, <2>2
<1>5. n <= Height - 1
  BY <1>2, <1>3
<1>6. n \in 0 .. Height /\ 2 ^ n <= location /\ location < 2 ^ (n + 1)
  BY <1>3, <1>4, <1>5, HeightFacts
<1>7. LevelOf(location) \in 0 .. Height /\ 2 ^ LevelOf(location) <= location
      /\ location < 2 ^ (LevelOf(location) + 1)
  BY <1>6 DEF LevelOf
<1>8. LevelOf(location) # Height
  BY <1>1, <1>7, HeightFacts
<1> QED BY <1>7, <1>8, HeightFacts DEF Levels

\* A leaf is below a bucket when the shifted numbers of both agree.
LEMMA OnPathByShift ==
  ASSUME NEW location \in 1 .. 2 ^ Height - 1, NEW leaf \in Leaves,
         NEW d, d = 2 ^ (Height - LevelOf(location) - 1)
  PROVE  location \in Path(leaf)
           <=> location * d <= leaf + LeafCount /\ leaf + LeafCount < (location + 1) * d
<1> DEFINE level == LevelOf(location)
           x == leaf + LeafCount
<1>1. level \in Levels /\ level \in Nat /\ 2 ^ level <= location /\ location < 2 ^ (level + 1)
  BY LevelOfLocation, HeightFacts DEF Levels
<1>2. Height - level - 1 = Height - 1 - level
  BY <1>1, HeightFacts
<1>3. d \in Nat \ {0} /\ x \in Nat /\ BucketForLevelLeaf(level, leaf) = x \div d
  BY <1>1, <1>2, BucketOfLeaf, HeightFacts
<1>4. location \in Path(leaf) <=> BucketForLevelLeaf(level, leaf) = location
  <2>1. ASSUME NEW k \in Levels, BucketForLevelLeaf(k, leaf) = location PROVE k = level
    <3>1. k \in Nat /\ location \in Int
      BY HeightFacts DEF Levels
    <3>2. 2 ^ k \in Nat /\ 2 ^ (k + 1) \in Nat /\ location \in 2 ^ k .. 2 ^ (k + 1) - 1
      BY <2>1, <3>1, BucketOnLevel, TwoToNat
    <3>3. 2 ^ k <= location /\ location < 2 ^ (k + 1)
      BY <3>1, <3>2
    <3> HIDE DEF level
    <3> QED BY <1>1, <3>1, <3>3, LevelsApart
  <2> QED BY <1>1, <2>1 DEF Path
<1> HIDE DEF x, level
<1>5. location \in Nat
  BY HeightFacts
<1>6. x \div d = location <=> location * d <= x /\ x < (location + 1) * d
  BY <1>3, <1>5, DivBounds, DivUnique
<1> QED BY <1>3, <1>4, <1>6 DEF x

\* leavesForLocation (oram.cpp:253-262) returns exactly the leaves whose path goes
\* through the bucket, so load may map a block it writes there to any of them.
THEOREM LeavesBelowBucket ==
  ASSUME NEW location \in 1 .. 2 ^ Height - 1
  PROVE  LET range == LeavesForLocation(location)
         IN  /\ range[1] .. range[2] = {leaf \in Leaves : location \in Path(leaf)}
             /\ range[1] \in Int /\ range[2] \in Int /\ range[1] <= range[2]
<1> DEFINE level == LevelOf(location)
           d == 2 ^ (Height - level - 1)
           first == location * d - LeafCount
           last == (location + 1) * d - 1 - LeafCount
<1>1. level \in Levels /\ level \in Nat /\ 2 ^ level <= location /\ location + 1 <= 2 ^ (level + 1)
      /\ Height - level - 1 \in Nat /\ level + 1 \in Nat /\ location \in Nat
  BY LevelOfLocation, HeightFacts, TwoToNat DEF Levels
<1>2. d \in Nat \ {0} /\ 2 ^ level \in Nat /\ 2 ^ (level + 1) \in Nat
  BY <1>1, TwoToNat
<1>3. LeafCount = 2 ^ level * d
  <2>1. level + (Height - level - 1) = Height - 1
    BY <1>1, HeightFacts
  <2>2. 2 ^ (level + (Height - level - 1)) = 2 ^ level * d
    BY <1>1, TwoToSum
  <2> QED BY <2>1, <2>2 DEF LeafCount
<1>4. 2 ^ Height = 2 ^ (level + 1) * d
  <2>1. (level + 1) + (Height - level - 1) = Height
    BY <1>1, HeightFacts
  <2>2. 2 ^ ((level + 1) + (Height - level - 1)) = 2 ^ (level + 1) * d
    BY <1>1, TwoToSum
  <2> QED BY <2>1, <2>2
<1>5. \A leaf \in Leaves :
        location \in Path(leaf)
          <=> location * d <= leaf + LeafCount /\ leaf + LeafCount < (location + 1) * d
  BY OnPathByShift
<1>6. LeavesForLocation(location) = <<first, last>>
  BY DEF LeavesForLocation
<1> HIDE DEF level, d
<1>7. \A m, n \in Nat : m <= n => m * d <= n * d
  BY <1>2
<1>8. LeafCount <= location * d /\ (location + 1) * d <= 2 ^ Height
  BY <1>1, <1>2, <1>3, <1>4, <1>7
<1>9. location * d \in Nat /\ (location + 1) * d = location * d + d
  BY <1>1, <1>2
<1>10. first \in Int /\ last \in Int /\ first <= last
       /\ first .. last \subseteq Leaves
       /\ \A leaf \in Leaves : leaf \in first .. last
            <=> location * d <= leaf + LeafCount /\ leaf + LeafCount < (location + 1) * d
  <2>1. LeafCount \in Nat /\ 2 ^ Height = 2 * LeafCount
    BY HeightFacts
  <2> QED BY <1>2, <1>8, <1>9, <2>1 DEF Leaves
<1> HIDE DEF first, last
<1> QED BY <1>5, <1>6, <1>10
==============================================================================
