---------------------------- MODULE StoryProofs -----------------------------
(* What decides a story: the pairs clustering proposes and the stories it   *)
(* writes, the mentions and the dimension a brief reads with one, the       *)
(* companies it is linked to, the vectors its novelty is of, and its place  *)
(* on the page.                                                             *)
EXTENDS Blocking, Stories, Resolution, Linking, Page,
        FiniteSetTheorems, SequenceTheorems, TLAPS

-----------------------------------------------------------------------------
(* Finite sets and functions.                                              *)

(* An image of a finite set is finite.                                     *)
LEMMA FiniteImage ==
    ASSUME NEW S, IsFiniteSet(S), NEW f
    PROVE  IsFiniteSet({f[x] : x \in S})
<1> DEFINE g == [x \in S |-> f[x]]
           T == {f[x] : x \in S}
<1>1. g \in Surjection(S, T)
    BY DEF Surjection
<1> HIDE DEF g, T
<1> QED
    BY <1>1, FS_Surjection DEF T

(* The members not below one of them: the smallest such set is of the      *)
(* highest.                                                                *)
LEMMA HighMember ==
    ASSUME NEW S, S \subseteq Int, IsFiniteSet(S), S # {}
    PROVE  High(S) \in S /\ \A n \in S : n <= High(S)
<1> DEFINE Above(m) == {n \in S : n >= m}
           G == {Above(m) : m \in S}
<1>1. G \subseteq FiniteSubsetsOf(S) /\ G # {}
    <2>1. G \subseteq SUBSET S /\ G # {}
        OBVIOUS
    <2> QED
        BY <2>1, FS_FiniteSubsetsOfFinite
<1>2. PICK U \in G : \A V \in G : <<V, U>> \notin StrictSubsetOrdering(S)
    BY <1>1, FS_StrictSubsetOrderingWellFounded, WFMin
<1>3. PICK m \in S : U = Above(m)
    OBVIOUS
<1>4. ASSUME NEW n \in S, n > m PROVE FALSE
    <2>1. n \in Int /\ m \in Int
        OBVIOUS
    <2>2. \A k \in Above(n) : k \in Int /\ k \in S /\ k >= n
        OBVIOUS
    <2>5. \A k \in Above(n) : k >= m /\ k # m
        BY <1>4, <2>1, <2>2
    <2>6. m \in Above(m)
        BY <2>1
    <2>3. Above(n) \subseteq Above(m) /\ m \notin Above(n) /\ m \in Above(m)
        BY <2>2, <2>5, <2>6
    <2>4. <<Above(n), U>> \in StrictSubsetOrdering(S)
        BY <1>3, <2>3 DEF StrictSubsetOrdering
    <2> QED
        BY <1>2, <2>4
<1>5. \E x \in S : \A y \in S : x >= y
    <2>1. \A y \in S : m >= y
        BY <1>4
    <2> QED
        BY <2>1
<1>6. High(S) \in S /\ \A y \in S : High(S) >= y
    BY <1>5 DEF High
<1> QED
    BY <1>6

LEMMA LowMember ==
    ASSUME NEW S, S \subseteq Int, IsFiniteSet(S), S # {}
    PROVE  Low(S) \in S /\ \A n \in S : Low(S) <= n
<1> DEFINE f == [x \in S |-> 0 - x]
           N == {f[x] : x \in S}
<1>0. \A x \in S : f[x] = 0 - x /\ f[x] \in Int
    OBVIOUS
<1>1. IsFiniteSet(N) /\ N \subseteq Int /\ N # {}
    <2>1. IsFiniteSet({f[x] : x \in S})
        <3> HIDE DEF f
        <3> QED
            BY FiniteImage
    <2> QED
        BY <1>0, <2>1
<1>2. PICK h \in N : \A n \in N : n <= h
    <2> HIDE DEF N
    <2> QED
        BY <1>1, HighMember
<1>3. PICK m \in S : h = 0 - m
    OBVIOUS
<1>4. \A x \in S : 0 - x \in N
    OBVIOUS
<1>5. \A x \in S : m <= x
    <2> SUFFICES ASSUME NEW x \in S PROVE m <= x
        OBVIOUS
    <2>1. 0 - x <= 0 - m /\ x \in Int /\ m \in Int
        BY <1>2, <1>3, <1>4
    <2> QED
        BY <2>1
<1>6. Low(S) \in S /\ \A y \in S : Low(S) <= y
    BY <1>5 DEF Low
<1> QED
    BY <1>6


(* A function into the naturals is least somewhere.                        *)
LEMMA LeastValue ==
    ASSUME NEW S, S # {}, NEW f, \A x \in S : f[x] \in Nat
    PROVE  \E a \in S : \A b \in S : f[a] <= f[b]
<1>1. PICK x \in S : TRUE
    OBVIOUS
<1> DEFINE T == {f[y] : y \in {z \in S : f[z] <= f[x]}}
<1>2. T \subseteq Int /\ f[x] \in T /\ \A n \in T : n \in 0..f[x]
    BY <1>1
<1>3. IsFiniteSet(T)
    <2>1. IsFiniteSet(0..f[x]) /\ T \in SUBSET (0..f[x])
        BY <1>1, <1>2, FS_Interval
    <2> QED
        BY <2>1, FS_Subset
<1>4. Low(T) \in T /\ \A n \in T : Low(T) <= n
    <2> HIDE DEF T
    <2> QED
        BY <1>2, <1>3, LowMember
<1>5. PICK a \in S : f[a] = Low(T) /\ f[a] <= f[x]
    BY <1>4
<1>6. ASSUME NEW b \in S PROVE f[a] <= f[b]
    <2>1. CASE f[b] <= f[x]
        BY <1>4, <1>5, <2>1
    <2>2. CASE ~ (f[b] <= f[x])
        BY <1>1, <1>5, <2>2
    <2> QED
        BY <2>1, <2>2
<1> QED
    BY <1>6

-----------------------------------------------------------------------------
(* Blocking.                                                               *)

(* The prefix filter loses no pair that the similarity join is to find.     *)
(* Products by a percentage are monotone.                                  *)
LEMMA TimesMonotone ==
    ASSUME NEW p \in Nat, NEW m \in Nat, NEW n \in Nat, m <= n
    PROVE  /\ p * m \in Nat /\ p * n \in Nat
           /\ p * m <= p * n
  <1>1. p * m \in Nat /\ p * n \in Nat
    OBVIOUS
  <1>2. (n - m) \in Nat
    OBVIOUS
  <1>3. p * (n - m) \in Nat
    BY <1>2
  <1>4. p * (n - m) = p * n - p * m
    OBVIOUS
  <1> QED
    BY <1>1, <1>3, <1>4

(* What the ceiling is: the least number of shared tokens that reaches the *)
(* threshold for a set of n.                                               *)
LEMMA CeilingIsLeast ==
    ASSUME NEW p \in 1..100, NEW n \in Nat, n > 0,
           NEW c \in Nat, 100 * c >= p * n
    PROVE  /\ Ceiling(p, n) \in Nat
           /\ Ceiling(p, n) <= c
           /\ Ceiling(p, n) >= 1
           /\ Ceiling(p, n) <= n
  <1> DEFINE product == p * n
  <1>1. product \in Nat
    OBVIOUS
  <1>2. product >= n
    <2>1. 1 * n <= p * n
      BY TimesMonotone, n * 1 \in Nat, n * p \in Nat, n * 1 <= n * p,
         n * 1 = 1 * n, n * p = p * n
    <2> QED
      BY <2>1
  <1>3. product <= 100 * n
    <2>1. n * p <= n * 100
      BY TimesMonotone
    <2> QED
      BY <2>1
  <1> HIDE DEF product
  <1>4. Ceiling(p, n) = (product + 99) \div 100
    BY DEF Ceiling, product
  <1>5. 100 * c >= product
    BY DEF product
  <1> QED
    BY <1>1, <1>2, <1>3, <1>4, <1>5

(* A set that keeps its Keep rarest tokens keeps one of any c tokens of it *)
(* that reach the threshold.                                               *)
LEMMA KeepsAShared ==
    ASSUME NEW A, IsFiniteSet(A), A # {},
           NEW C, C \subseteq A,
           NEW rarer, NEW p \in 1..100,
           100 * Cardinality(C) >= p * Cardinality(A),
           NEW K \in BlockingKeys(A, rarer, p)
    PROVE  C \cap K # {}
  <1> DEFINE n == Cardinality(A)
             c == Cardinality(C)
  <1>1. /\ n \in Nat /\ n > 0
    BY FS_CardinalityType, FS_EmptySet
  <1>2. IsFiniteSet(C) /\ c \in Nat
    BY FS_Subset, FS_CardinalityType
  <1>3. IsFiniteSet(K) /\ K \subseteq A /\ Cardinality(K) = Keep(p, n)
    BY FS_Subset DEF BlockingKeys
  <1>4. /\ Ceiling(p, n) \in Nat
        /\ Ceiling(p, n) <= c
        /\ Ceiling(p, n) <= n
    BY <1>1, <1>2, CeilingIsLeast
  <1>5. Keep(p, n) >= n - Ceiling(p, n) + 1 /\ Keep(p, n) \in Nat
    BY <1>1, <1>4 DEF Keep
  <1>6. SUFFICES ASSUME C \cap K = {}
                 PROVE  FALSE
    OBVIOUS
  <1>7. Cardinality(C \cup K) = c + Cardinality(K)
    <2>1. Cardinality(C \cap K) = 0
      BY <1>6, FS_EmptySet
    <2>2. Cardinality(C \cup K) = c + Cardinality(K) - Cardinality(C \cap K)
      BY <1>2, <1>3, FS_Union
    <2>3. Cardinality(K) \in Nat
      BY <1>3, FS_CardinalityType
    <2> HIDE DEF c
    <2> QED
      BY <1>2, <2>1, <2>2, <2>3
  <1>8. Cardinality(C \cup K) <= n
    BY <1>3, FS_Subset
  <1> QED
    BY <1>1, <1>2, <1>3, <1>4, <1>5, <1>7, <1>8

(* dedup.blocking_keys: "any two sets with Jaccard >= t are then guaranteed*)
(* to share at least one kept token", for all finite token sets, any total*)
(* order of the tokens and any threshold.                                  *)
THEOREM PrefixFilterExact ==
    ASSUME NEW A, NEW B, IsFiniteSet(A), IsFiniteSet(B),
           NEW p \in 1..100, Similar(A, B, p),
           NEW rarer,
           \A x, y \in A \cup B : <<x, y>> \in rarer \/ <<y, x>> \in rarer
                                 \/ x = y,
           NEW K \in BlockingKeys(A, rarer, p),
           NEW L \in BlockingKeys(B, rarer, p)
    PROVE  K \cap L # {}
  <1> DEFINE C == A \cap B
             U == A \cup B
  <1>1. A # {} /\ B # {} /\ 100 * Cardinality(C) >= p * Cardinality(U)
    BY DEF Similar
  <1>2. IsFiniteSet(U) /\ IsFiniteSet(C)
    BY FS_Union, FS_Subset
  <1>3. /\ Cardinality(A) \in Nat /\ Cardinality(B) \in Nat
        /\ Cardinality(U) \in Nat /\ Cardinality(C) \in Nat
    BY <1>2, FS_CardinalityType
  <1>4. Cardinality(A) <= Cardinality(U) /\ Cardinality(B) <= Cardinality(U)
    BY <1>2, FS_Subset
  <1>5. p * Cardinality(A) <= p * Cardinality(U)
        /\ p * Cardinality(B) <= p * Cardinality(U)
    BY <1>3, <1>4, TimesMonotone
  <1>6. /\ p * Cardinality(A) \in Nat /\ p * Cardinality(B) \in Nat
        /\ p * Cardinality(U) \in Nat
    BY <1>3
  <1>7. 100 * Cardinality(C) >= p * Cardinality(A)
    BY <1>1, <1>3, <1>5, <1>6
  <1>8. 100 * Cardinality(C) >= p * Cardinality(B)
    BY <1>1, <1>3, <1>5, <1>6
  <1>9. PICK x \in C : x \in K
    BY <1>1, <1>7, KeepsAShared
  <1>10. PICK y \in C : y \in L
    BY <1>1, <1>8, KeepsAShared
  <1>11. RarestOf(K, A, rarer) /\ RarestOf(L, B, rarer)
    BY DEF BlockingKeys
  <1>12. <<x, y>> \in rarer \/ <<y, x>> \in rarer \/ x = y
    BY <1>9, <1>10
  <1>13. CASE <<x, y>> \in rarer
    BY <1>9, <1>10, <1>11, <1>13 DEF RarestOf
  <1>14. CASE <<y, x>> \in rarer
    BY <1>9, <1>10, <1>11, <1>14 DEF RarestOf
  <1>15. CASE x = y
    BY <1>9, <1>10, <1>15
  <1> QED
    BY <1>12, <1>13, <1>14, <1>15

-----------------------------------------------------------------------------
(* Stories.                                                                *)

(* What a forest of parents means: r is the root of every article, h how   *)
(* far below it an article is at most.                                     *)
Forest(S, parent, r, h) ==
    /\ parent \in [S -> S]
    /\ \A i \in S :
          /\ h[i] \in Nat /\ r[i] \in S /\ parent[r[i]] = r[i]
          /\ parent[i] = i => r[i] = i
          /\ parent[i] # i => r[i] = r[parent[i]] /\ h[parent[i]] < h[i]

IsFind(parent, f) ==
    f = [i \in DOMAIN parent |-> IF parent[i] = i THEN i ELSE f[parent[i]]]

LEMMA LeastNatural ==
    ASSUME NEW T, T \subseteq Nat, T # {}
    PROVE  \E m \in T : \A n \in T : m <= n
<1> DEFINE id == [n \in T |-> n]
<1>1. \A n \in T : id[n] = n /\ id[n] \in Nat
    OBVIOUS
<1> HIDE DEF id
<1>2. PICK m \in T : \A n \in T : id[m] <= id[n]
    BY <1>1, LeastValue
<1> QED
    BY <1>1, <1>2

LEMMA FindIsRoot ==
    ASSUME NEW S, NEW parent, NEW r, NEW h, Forest(S, parent, r, h), NEW x \in S
    PROVE  Find(parent, x) = r[x]
<1> DEFINE g == [i \in S |-> r[i]]
           root == CHOOSE f : IsFind(parent, f)
<1>1. DOMAIN parent = S /\ \A i \in S : parent[i] \in S
    BY DEF Forest
<1>2. IsFind(parent, g)
    <2>1. \A i \in S : g[i] = IF parent[i] = i THEN i ELSE g[parent[i]]
        BY <1>1 DEF Forest
    <2>2. g = [i \in S |-> g[i]]
        OBVIOUS
    <2> HIDE DEF g
    <2>3. g = [i \in S |-> IF parent[i] = i THEN i ELSE g[parent[i]]]
        BY <2>1, <2>2
    <2> QED
        BY <1>1, <2>3 DEF IsFind
<1>3. IsFind(parent, root)
    BY <1>2
<1>4. Find(parent, x) = root[x]
    BY DEF Find, IsFind
<1> HIDE DEF g, root
<1>5. \A i \in S : root[i] = IF parent[i] = i THEN i ELSE root[parent[i]]
    BY <1>1, <1>3 DEF IsFind
<1> DEFINE Wrong == {i \in S : root[i] # r[i]}
<1>6. SUFFICES ASSUME Wrong # {} PROVE FALSE
    BY <1>4
<1>7. PICK a \in Wrong : \A b \in Wrong : h[a] <= h[b]
    <2>1. \A i \in Wrong : h[i] \in Nat
        BY DEF Forest
    <2> HIDE DEF Wrong
    <2> QED
        BY <1>6, <2>1, LeastValue
<1>8. a \in S /\ root[a] # r[a]
    OBVIOUS
<1>9. CASE parent[a] = a
    BY <1>5, <1>8, <1>9 DEF Forest
<1>10. CASE parent[a] # a
    <2>1. parent[a] \in S /\ h[parent[a]] < h[a] /\ r[a] = r[parent[a]]
          /\ h[a] \in Nat /\ h[parent[a]] \in Nat
        BY <1>1, <1>8, <1>10 DEF Forest
    <2>2. parent[a] \notin Wrong
        BY <1>7, <2>1
    <2> QED
        BY <1>5, <1>8, <1>10, <2>1, <2>2
<1> QED
    BY <1>9, <1>10

(* A union hangs one tree under the root of the other.                     *)
LEMMA UnionForest ==
    ASSUME NEW S, NEW parent, NEW r, NEW h, Forest(S, parent, r, h),
           NEW a \in S, NEW b \in S
    PROVE  \E q, g : /\ Forest(S, Union(parent, <<a, b>>), q, g)
                     /\ \A i \in S : q[i] = IF r[i] = r[b] THEN r[a] ELSE r[i]
<1> DEFINE after == [parent EXCEPT ![r[b]] = r[a]]
           q == [i \in S |-> IF r[i] = r[b] THEN r[a] ELSE r[i]]
           g == [i \in S |-> IF r[i] = r[b] /\ r[a] # r[b] THEN h[i] + h[r[a]] + 1
                             ELSE h[i]]
<1>1. Union(parent, <<a, b>>) = after
    <2>1. Find(parent, a) = r[a] /\ Find(parent, b) = r[b]
        BY FindIsRoot
    <2>2. <<a, b>>[1] = a /\ <<a, b>>[2] = b
        OBVIOUS
    <2> QED
        BY <2>1, <2>2 DEF Union
<1>2. /\ parent \in [S -> S] /\ r[a] \in S /\ r[b] \in S
      /\ parent[r[a]] = r[a] /\ parent[r[b]] = r[b]
      /\ r[r[a]] = r[a] /\ r[r[b]] = r[b] /\ h[r[a]] \in Nat
    BY DEF Forest
<1>3. /\ after \in [S -> S]
      /\ \A i \in S : after[i] = IF i = r[b] THEN r[a] ELSE parent[i]
    BY <1>2
<1>4. \A i \in S : /\ h[i] \in Nat /\ r[i] \in S /\ parent[r[i]] = r[i]
                   /\ parent[i] = i => r[i] = i
                   /\ parent[i] # i => r[i] = r[parent[i]] /\ h[parent[i]] < h[i]
                   /\ parent[i] \in S
    BY DEF Forest
<1>5. \A i \in S : /\ q[i] = IF r[i] = r[b] THEN r[a] ELSE r[i]
                   /\ g[i] = IF r[i] = r[b] /\ r[a] # r[b] THEN h[i] + h[r[a]] + 1
                             ELSE h[i]
    OBVIOUS
<1> HIDE DEF after, q, g
<1>6. ASSUME NEW i \in S
      PROVE  /\ g[i] \in Nat /\ q[i] \in S /\ after[q[i]] = q[i]
             /\ after[i] = i => q[i] = i
             /\ after[i] # i => q[i] = q[after[i]] /\ g[after[i]] < g[i]
    <2>1. g[i] \in Nat /\ q[i] \in S
        BY <1>2, <1>4, <1>5
    <2>2. after[q[i]] = q[i]
        <3>1. CASE r[i] = r[b]
            BY <1>2, <1>3, <1>5, <3>1
        <3>2. CASE r[i] # r[b]
            BY <1>3, <1>4, <1>5, <3>2
        <3> QED
            BY <3>1, <3>2
    <2>3. ASSUME after[i] = i PROVE q[i] = i
        <3>1. CASE i = r[b]
            BY <1>2, <1>3, <1>5, <2>3, <3>1
        <3>2. CASE i # r[b]
            BY <1>3, <1>4, <1>5, <2>3, <3>2
        <3> QED
            BY <3>1, <3>2
    <2>4. ASSUME after[i] # i PROVE q[i] = q[after[i]] /\ g[after[i]] < g[i]
        <3>1. CASE i = r[b]
            <4>1. after[i] = r[a] /\ r[a] # r[b]
                BY <1>3, <2>4, <3>1
            <4>2. q[i] = r[a] /\ q[r[a]] = r[a]
                BY <1>2, <1>5, <3>1
            <4>3. g[r[a]] = h[r[a]] /\ g[i] = h[i] + h[r[a]] + 1 /\ h[i] \in Nat
                BY <1>2, <1>4, <1>5, <3>1, <4>1
            <4> QED
                BY <1>2, <4>1, <4>2, <4>3
        <3>2. CASE i # r[b]
            <4>1. /\ after[i] = parent[i] /\ parent[i] # i /\ parent[i] \in S
                  /\ r[i] = r[parent[i]] /\ h[parent[i]] < h[i]
                  /\ h[i] \in Nat /\ h[parent[i]] \in Nat
                BY <1>3, <1>4, <2>4, <3>2
            <4> QED
                BY <1>2, <1>5, <4>1
        <3> QED
            BY <3>1, <3>2
    <2> QED
        BY <2>1, <2>2, <2>3, <2>4
<1>7. Forest(S, after, q, g)
    BY <1>3, <1>6 DEF Forest
<1> QED
    BY <1>1, <1>5, <1>7

(* The roots tell apart what the edges E do not connect: the ends of an    *)
(* edge have one root, and articles with one root are in the same of all   *)
(* sets that no edge leaves or enters.                                     *)
Grouping(S, E, r) ==
    /\ \A e \in E : r[e[1]] = r[e[2]]
    /\ \A T \in SUBSET S : (\A e \in E : (e[1] \in T) <=> (e[2] \in T)) =>
          \A x, y \in S : x \in T /\ r[x] = r[y] => y \in T

LEMMA UnionGroups ==
    ASSUME NEW S, NEW E, E \subseteq S \X S, NEW r, Grouping(S, E, r),
           NEW a \in S, NEW b \in S, NEW q,
           \A i \in S : q[i] = IF r[i] = r[b] THEN r[a] ELSE r[i]
    PROVE  Grouping(S, E \cup {<<a, b>>}, q)
<1>1. ASSUME NEW e \in E \cup {<<a, b>>} PROVE q[e[1]] = q[e[2]]
    <2>1. CASE e \in E
        <3>1. e[1] \in S /\ e[2] \in S /\ r[e[1]] = r[e[2]]
            BY <2>1 DEF Grouping
        <3> QED
            BY <3>1
    <2>2. CASE e = <<a, b>>
        BY <2>2
    <2> QED
        BY <2>1, <2>2
<1>2. ASSUME NEW T \in SUBSET S,
             \A e \in E \cup {<<a, b>>} : (e[1] \in T) <=> (e[2] \in T),
             NEW x \in S, NEW y \in S, x \in T, q[x] = q[y]
      PROVE  y \in T
    <2>1. (a \in T) <=> (b \in T)
        BY <1>2, <<a, b>>[1] = a, <<a, b>>[2] = b
    <2>2. \A u, v \in S : u \in T /\ r[u] = r[v] => v \in T
        BY <1>2 DEF Grouping
    <2>3. CASE r[x] = r[b]
        <3>1. b \in T /\ a \in T
            BY <1>2, <2>1, <2>2, <2>3
        <3>2. r[y] = r[b] \/ r[y] = r[a]
            BY <1>2, <2>3
        <3> QED
            BY <2>2, <3>1, <3>2
    <2>4. CASE r[x] # r[b]
        <3>1. r[y] = r[x] \/ (r[y] = r[b] /\ r[x] = r[a])
            BY <1>2, <2>4
        <3>2. CASE r[y] = r[b] /\ r[x] = r[a]
            <4>1. a \in T /\ b \in T
                BY <1>2, <2>1, <2>2, <3>2
            <4> QED
                BY <2>2, <3>2, <4>1
        <3> QED
            BY <1>2, <2>2, <3>1, <3>2
    <2> QED
        BY <2>3, <2>4
<1> QED
    BY <1>1, <1>2 DEF Grouping

LEMMA FirstEdgeIs ==
    ASSUME NEW E, E \subseteq Nat \X Nat, E # {}
    PROVE  FirstEdge(E) \in E
<1> DEFINE one == [e \in E |-> e[1]]
           two == [e \in E |-> e[2]]
<1>1. \A e \in E : e[1] \in Nat /\ e[2] \in Nat /\ one[e] = e[1] /\ two[e] = e[2]
    OBVIOUS
<1> HIDE DEF one, two
<1>2. PICK a \in E : \A b \in E : one[a] <= one[b]
    BY <1>1, LeastValue
<1> DEFINE F == {e \in E : e[1] = a[1]}
<1>3. PICK p \in F : \A b \in F : two[p] <= two[b]
    <2>1. a \in F /\ \A e \in F : two[e] \in Nat
        BY <1>1
    <2> HIDE DEF F
    <2> QED
        BY <2>1, LeastValue
<1>4. p \in E /\ \A q \in E : p[1] < q[1] \/ (p[1] = q[1] /\ p[2] <= q[2])
    <2>1. p \in E /\ p[1] = a[1]
        OBVIOUS
    <2>2. SUFFICES ASSUME NEW q \in E, ~ (p[1] < q[1])
                   PROVE  p[1] = q[1] /\ p[2] <= q[2]
        BY <2>1
    <2>3. p[1] <= q[1] /\ p[1] \in Nat /\ q[1] \in Nat
        BY <1>1, <1>2, <2>1
    <2>4. p[1] = q[1]
        BY <2>2, <2>3
    <2>5. q \in F
        BY <2>1, <2>4
    <2>6. two[p] <= two[q]
        BY <1>3, <2>5
    <2> QED
        BY <1>1, <2>1, <2>4, <2>6
<1> QED
    BY <1>4 DEF FirstEdge

(* The loop as a function of its turns.                                    *)
Unioned(S, E, n, f) ==
    f = [k \in 0..n |-> IF k = 0 THEN [parent |-> [x \in S |-> x], left |-> E]
                        ELSE Joining(f[k - 1])]

LEMMA UnionedExists ==
    ASSUME NEW S, NEW E
    PROVE  \A n \in Nat : \E f : Unioned(S, E, n, f)
<1> DEFINE Lacking == {n \in Nat : ~ \E f : Unioned(S, E, n, f)}
           base == [parent |-> [x \in S |-> x], left |-> E]
<1>1. SUFFICES ASSUME Lacking # {} PROVE FALSE
    OBVIOUS
<1>2. PICK m \in Lacking : \A n \in Lacking : m <= n
    <2>1. Lacking \subseteq Nat
        OBVIOUS
    <2> HIDE DEF Lacking
    <2> QED
        BY <1>1, <2>1, LeastNatural
<1>3. CASE m = 0
    <2> DEFINE f == [k \in 0..0 |-> base]
    <2>1. f = [k \in 0..m |-> IF k = 0 THEN base ELSE Joining(f[k - 1])]
        BY <1>3
    <2>2. Unioned(S, E, m, f)
        BY <2>1 DEF Unioned
    <2> QED
        BY <2>2
<1>4. CASE m # 0
    <2>1. m - 1 \in Nat /\ m \in Nat /\ ~ (m <= m - 1)
        BY <1>4
    <2>2. PICK g : Unioned(S, E, m - 1, g)
        BY <1>2, <2>1
    <2> DEFINE f == [k \in 0..m |-> IF k < m THEN g[k] ELSE Joining(g[m - 1])]
    <2>4. ASSUME NEW k \in 0..m
          PROVE  f[k] = IF k = 0 THEN base ELSE Joining(f[k - 1])
        <3>1. \A i \in 0..(m - 1) : f[i] = g[i]
            BY <2>1
        <3>2. \A i \in 0..(m - 1) : g[i] = IF i = 0 THEN base ELSE Joining(g[i - 1])
            BY <2>2 DEF Unioned
        <3>3. f[m] = Joining(g[m - 1]) /\ f[m - 1] = g[m - 1]
            BY <2>1, <3>1
        <3> HIDE DEF f, base
        <3>4. CASE k = m
            BY <1>4, <3>3, <3>4
        <3>5. CASE k \in 0..(m - 1)
            <4>1. k = 0 \/ k - 1 \in 0..(m - 1)
                BY <2>1, <3>5
            <4> QED
                BY <3>1, <3>2, <3>5, <4>1
        <3> QED
            BY <2>1, <3>4, <3>5
    <2>5. f = [k \in 0..m |-> f[k]]
        OBVIOUS
    <2> HIDE DEF f
    <2>6. f = [k \in 0..m |-> IF k = 0 THEN base ELSE Joining(f[k - 1])]
        BY <2>4, <2>5
    <2>7. Unioned(S, E, m, f)
        BY <2>6 DEF Unioned
    <2> QED
        BY <2>7
<1> QED
    BY <1>3, <1>4

(* After n turns: the forest of the edges that went, and what is left.     *)
Turned(S, E, n, made) ==
    /\ made = [parent |-> made.parent, left |-> made.left]
    /\ made.left \subseteq E /\ Cardinality(made.left) = Cardinality(E) - n
    /\ \E r, h : Forest(S, made.parent, r, h) /\ Grouping(S, E \ made.left, r)

LEMMA TurnTurns ==
    ASSUME NEW S, S \subseteq Nat, NEW E, E \subseteq S \X S, IsFiniteSet(E),
           NEW n \in Nat, n < Cardinality(E), NEW made, Turned(S, E, n, made)
    PROVE  Turned(S, E, n + 1, Joining(made))
<1> DEFINE e == FirstEdge(made.left)
           next == Joining(made)
<1>1. made.left \subseteq E /\ Cardinality(made.left) = Cardinality(E) - n
      /\ IsFiniteSet(made.left) /\ Cardinality(E) \in Nat
    <2>1. made.left \subseteq E /\ Cardinality(made.left) = Cardinality(E) - n
        BY DEF Turned
    <2> QED
        BY <2>1, FS_Subset, FS_CardinalityType
<1>2. made.left # {}
    <2>1. Cardinality(made.left) # 0
        BY <1>1
    <2> QED
        BY <2>1, FS_EmptySet
<1>3. e \in made.left
    <2>1. made.left \subseteq Nat \X Nat
        BY <1>1
    <2> QED
        BY <1>2, <2>1, FirstEdgeIs
<1> HIDE DEF e
<1>4. PICK a \in S, b \in S : e = <<a, b>>
    <2>1. e \in S \X S
        BY <1>1, <1>3
    <2>2. e = <<e[1], e[2]>> /\ e[1] \in S /\ e[2] \in S
        BY <2>1
    <2> QED
        BY <2>2
<1>5. PICK r, h : Forest(S, made.parent, r, h) /\ Grouping(S, E \ made.left, r)
    BY DEF Turned
<1>6. PICK q, g : /\ Forest(S, Union(made.parent, <<a, b>>), q, g)
                  /\ \A i \in S : q[i] = IF r[i] = r[b] THEN r[a] ELSE r[i]
    BY <1>5, UnionForest
<1>7. Grouping(S, (E \ made.left) \cup {e}, q)
    <2>1. (E \ made.left) \subseteq S \X S
        OBVIOUS
    <2> QED
        BY <1>4, <1>5, <1>6, <2>1, UnionGroups
<1>8. next = [parent |-> Union(made.parent, e), left |-> made.left \ {e}]
    BY DEF Joining, e
<1> HIDE DEF next
<1>9. E \ next.left = (E \ made.left) \cup {e} /\ next.left \subseteq E
    BY <1>1, <1>3, <1>8
<1>10. Cardinality(next.left) = Cardinality(E) - (n + 1)
    <2>1. Cardinality(made.left \ {e}) = Cardinality(made.left) - 1
        BY <1>1, <1>3, FS_RemoveElement
    <2> QED
        BY <1>1, <1>8, <2>1
<1>11. next = [parent |-> next.parent, left |-> next.left]
       /\ next.parent = Union(made.parent, <<a, b>>)
    BY <1>4, <1>8
<1>12. Forest(S, next.parent, q, g) /\ Grouping(S, E \ next.left, q)
    BY <1>6, <1>7, <1>9, <1>11
<1>13. Turned(S, E, n + 1, next)
    BY <1>9, <1>10, <1>11, <1>12 DEF Turned
<1> QED
    BY <1>13 DEF next

LEMMA UnionsGroup ==
    ASSUME NEW S, S \subseteq Nat, NEW E, E \subseteq S \X S, IsFiniteSet(E)
    PROVE  \E r, h : Forest(S, Unions(S, E), r, h) /\ Grouping(S, E, r)
<1> DEFINE N == Cardinality(E)
           made == CHOOSE f : Unioned(S, E, N, f)
           base == [parent |-> [x \in S |-> x], left |-> E]
<1>1. N \in Nat
    BY FS_CardinalityType
<1>2. Unioned(S, E, N, made)
    BY <1>1, UnionedExists
<1>3. Unions(S, E) = made[N].parent
    BY DEF Unions, Unioned
<1>4. \A k \in 0..N : made[k] = IF k = 0 THEN base ELSE Joining(made[k - 1])
    <2> HIDE DEF made
    <2> QED
        BY <1>2 DEF Unioned
<1>5. Turned(S, E, 0, base)
    <2> DEFINE id == [x \in S |-> x]
               zero == [x \in S |-> 0]
    <2>1. Forest(S, id, id, zero)
        BY DEF Forest
    <2>2. Grouping(S, {}, id)
        BY DEF Grouping
    <2>3. base.parent = id /\ base.left = E /\ E \ E = {}
          /\ Cardinality(E) = Cardinality(E) - 0
        BY <1>1
    <2> HIDE DEF id, zero
    <2>4. \E r, h : Forest(S, base.parent, r, h) /\ Grouping(S, E \ base.left, r)
        BY <2>1, <2>2, <2>3
    <2> QED
        BY <2>3, <2>4 DEF Turned
<1> HIDE DEF made, base
<1> DEFINE Wrong == {k \in 0..N : ~ Turned(S, E, k, made[k])}
<1>6. Wrong = {}
    <2>1. SUFFICES ASSUME Wrong # {} PROVE FALSE
        OBVIOUS
    <2>2. PICK k \in Wrong : \A j \in Wrong : k <= j
        <3>1. Wrong \subseteq Nat
            BY <1>1
        <3> HIDE DEF Wrong
        <3> QED
            BY <2>1, <3>1, LeastNatural
    <2>3. k \in 0..N /\ ~ Turned(S, E, k, made[k])
        OBVIOUS
    <2>4. k # 0
        BY <1>1, <1>4, <1>5, <2>3
    <2>5. k - 1 \in 0..N /\ k - 1 \in Nat /\ k - 1 < N /\ (k - 1) + 1 = k /\ ~ (k <= k - 1)
        BY <1>1, <2>3, <2>4
    <2>6. Turned(S, E, k - 1, made[k - 1])
        BY <2>2, <2>5
    <2>7. Turned(S, E, (k - 1) + 1, Joining(made[k - 1]))
        <3> HIDE DEF N
        <3> QED
            BY <2>5, <2>6, TurnTurns DEF N
    <2> QED
        BY <1>4, <2>3, <2>4, <2>5, <2>7
<1>7. Turned(S, E, N, made[N])
    BY <1>1, <1>6
<1>8. made[N].left = {}
    <2>1. made[N].left \subseteq E /\ Cardinality(made[N].left) = 0
        BY <1>1, <1>7 DEF Turned
    <2>2. IsFiniteSet(made[N].left)
        BY <2>1, FS_Subset
    <2> QED
        BY <2>1, <2>2, FS_EmptySet
<1>9. E \ made[N].left = E
    BY <1>8
<1> QED
    BY <1>3, <1>7, <1>9 DEF Turned

(* The order of the tokens is total, and every set of them has a rarest.   *)
RarerIn(A, f) ==
    {p \in A \X A : f[p[1]] < f[p[2]] \/ (f[p[1]] = f[p[2]] /\ p[1] > p[2])}

Ranked(A, f) == A \subseteq Nat /\ \A t \in A : f[t] \in Nat

LEMMA RarestOne ==
    ASSUME NEW A, NEW f, Ranked(A, f), NEW B, B \subseteq A, IsFiniteSet(B), B # {}
    PROVE  \E m \in B : \A t \in B : <<t, m>> \notin RarerIn(A, f)
<1>1. PICK a \in B : \A b \in B : f[a] <= f[b]
    <2>1. \A b \in B : f[b] \in Nat
        BY DEF Ranked
    <2> QED
        BY <2>1, LeastValue
<1> DEFINE E == {b \in B : f[b] = f[a]}
<1>2. E \in SUBSET B /\ a \in E
    OBVIOUS
<1>3. IsFiniteSet(E)
    BY <1>2, FS_Subset
<1>4. E \subseteq Int
    <2>1. E \subseteq Nat
        BY <1>2 DEF Ranked
    <2> HIDE DEF E
    <2> QED
        BY <2>1
<1>5. High(E) \in E /\ \A n \in E : n <= High(E)
    <2> HIDE DEF E
    <2> QED
        BY <1>2, <1>3, <1>4, HighMember
<1> DEFINE m == High(E)
<1>6. m \in B /\ f[m] = f[a] /\ m \in Nat
    BY <1>2, <1>5 DEF Ranked
<1>7. ASSUME NEW t \in B, <<t, m>> \in RarerIn(A, f) PROVE FALSE
    <2> HIDE DEF m
    <2>1. f[t] < f[m] \/ (f[t] = f[m] /\ t > m)
        BY <1>7 DEF RarerIn
    <2>2. f[a] <= f[t] /\ f[t] \in Nat /\ f[m] \in Nat /\ t \in Nat
        BY <1>1, <1>6 DEF Ranked
    <2>3. t \in E /\ t > m
        BY <1>6, <2>1, <2>2
    <2>4. t <= m
        BY <1>5, <2>3 DEF m
    <2> QED
        BY <1>6, <2>2, <2>3, <2>4
<1> QED
    BY <1>6, <1>7

LEMMA RarestMany ==
    ASSUME NEW T, NEW f, Ranked(T, f), NEW A \in SUBSET T, IsFiniteSet(A)
    PROVE  \A k \in 0..Cardinality(A) :
              \E K \in SUBSET A : RarestOf(K, A, RarerIn(T, f)) /\ Cardinality(K) = k
<1> DEFINE Has(k) == \E K \in SUBSET A : RarestOf(K, A, RarerIn(T, f)) /\ Cardinality(K) = k
           Wrong == {k \in 0..Cardinality(A) : ~ Has(k)}
<1>0. Cardinality(A) \in Nat
    BY FS_CardinalityType
<1>1. SUFFICES ASSUME Wrong # {} PROVE FALSE
    OBVIOUS
<1>2. PICK k \in Wrong : \A j \in Wrong : k <= j
    <2>1. Wrong \subseteq Nat
        BY <1>0
    <2> HIDE DEF Wrong
    <2> QED
        BY <1>1, <2>1, LeastNatural
<1>3. k \in 0..Cardinality(A) /\ ~ Has(k)
    OBVIOUS
<1>4. k # 0
    <2>1. Cardinality({}) = 0 /\ RarestOf({}, A, RarerIn(T, f))
        BY FS_EmptySet DEF RarestOf
    <2>2. Has(0)
        BY <2>1
    <2> HIDE DEF Has
    <2> QED
        BY <1>3, <2>2
<1>5. Has(k - 1)
    <2>1. k - 1 \in 0..Cardinality(A) /\ ~ (k <= k - 1)
        BY <1>0, <1>3, <1>4
    <2> HIDE DEF Has
    <2> QED
        BY <1>2, <2>1
<1>6. PICK K \in SUBSET A : RarestOf(K, A, RarerIn(T, f)) /\ Cardinality(K) = k - 1
    BY <1>5
<1>7. A \ K # {}
    <2>1. Cardinality(K) # Cardinality(A)
        BY <1>0, <1>3, <1>6
    <2>2. SUFFICES ASSUME A \ K = {} PROVE FALSE
        OBVIOUS
    <2>3. K = A
        BY <1>6, <2>2
    <2> QED
        BY <2>1, <2>3
<1>8. PICK m \in A \ K : \A t \in A \ K : <<t, m>> \notin RarerIn(T, f)
    <2>1. IsFiniteSet(A \ K)
        BY FS_Subset
    <2>2. (A \ K) \subseteq T
        OBVIOUS
    <2> QED
        BY <1>7, <2>1, <2>2, RarestOne
<1>9. RarestOf(K \cup {m}, A, RarerIn(T, f))
    BY <1>6, <1>8 DEF RarestOf
<1>10. Cardinality(K \cup {m}) = k
    <2>1. IsFiniteSet(K)
        BY <1>6, FS_Subset
    <2>2. Cardinality(K \cup {m}) = Cardinality(K) + 1
        BY <1>8, <2>1, FS_AddElement
    <2> QED
        BY <1>0, <1>3, <1>6, <2>2
<1>11. Has(k)
    BY <1>9, <1>10
<1> QED
    BY <1>3, <1>11

LEMMA RarerIs ==
    ASSUME NEW tokens, IsFiniteSet(DOMAIN tokens),
           \A x \in DOMAIN tokens : tokens[x] \subseteq Nat
    PROVE  \E f : /\ Ranked(UNION {tokens[x] : x \in DOMAIN tokens}, f)
                  /\ Rarer(tokens) = RarerIn(UNION {tokens[x] : x \in DOMAIN tokens}, f)
<1> DEFINE all == UNION {tokens[x] : x \in DOMAIN tokens}
           f == [t \in all |-> Cardinality({x \in DOMAIN tokens : t \in tokens[x]})]
<1>1. \A t \in all : f[t] \in Nat
    <2> TAKE t \in all
    <2>1. IsFiniteSet({x \in DOMAIN tokens : t \in tokens[x]})
        BY FS_Subset
    <2>2. Cardinality({x \in DOMAIN tokens : t \in tokens[x]}) \in Nat
        BY <2>1, FS_CardinalityType
    <2> QED
        BY <2>2
<1>2. Rarer(tokens) = {p \in all \X all :
                          \/ f[p[1]] < f[p[2]]
                          \/ f[p[1]] = f[p[2]] /\ p[1] > p[2]}
    <2>1. \A p \in all \X all :
             /\ f[p[1]] = Cardinality({x \in DOMAIN tokens : p[1] \in tokens[x]})
             /\ f[p[2]] = Cardinality({x \in DOMAIN tokens : p[2] \in tokens[x]})
        OBVIOUS
    <2> HIDE DEF f
    <2> QED
        BY <2>1 DEF Rarer
<1>3. Rarer(tokens) = RarerIn(all, f)
    BY <1>2 DEF RarerIn
<1>4. Ranked(all, f)
    <2>1. all \subseteq Nat
        OBVIOUS
    <2> HIDE DEF f, all
    <2> QED
        BY <1>1, <2>1 DEF Ranked
<1> QED
    BY <1>3, <1>4

(* Two token sets of a window that are as similar as the threshold have a  *)
(* key in common: blocking keys exist, and PrefixFilterExact.              *)
LEMMA SimilarMeet ==
    ASSUME NEW tokens, IsFiniteSet(DOMAIN tokens),
           \A z \in DOMAIN tokens : tokens[z] \subseteq Nat /\ IsFiniteSet(tokens[z]),
           NEW p \in 1..100, NEW x \in DOMAIN tokens, NEW y \in DOMAIN tokens,
           Similar(tokens[x], tokens[y], p)
    PROVE  \E t : /\ t \in UNION BlockingKeys(tokens[x], Rarer(tokens), p)
                  /\ t \in UNION BlockingKeys(tokens[y], Rarer(tokens), p)
<1> DEFINE all == UNION {tokens[z] : z \in DOMAIN tokens}
           A == tokens[x]
           B == tokens[y]
<1>1. PICK f : Ranked(all, f) /\ Rarer(tokens) = RarerIn(all, f)
    BY RarerIs
<1>2. A \subseteq all /\ B \subseteq all /\ all \subseteq Nat /\ A # {} /\ B # {}
    BY DEF Similar
<1>3. IsFiniteSet(A) /\ IsFiniteSet(B)
    OBVIOUS
<1> HIDE DEF all, A, B
<1>4. \A s, t \in A \cup B : <<s, t>> \in RarerIn(all, f) \/ <<t, s>> \in RarerIn(all, f)
                             \/ s = t
    <2> TAKE s, t \in A \cup B
    <2>1. s \in Nat /\ t \in Nat /\ f[s] \in Nat /\ f[t] \in Nat /\ s \in all /\ t \in all
        BY <1>1, <1>2 DEF Ranked
    <2> QED
        BY <2>1 DEF RarerIn
<1>5. \A C : C \subseteq all /\ IsFiniteSet(C) /\ C # {} =>
              \E K : K \in BlockingKeys(C, RarerIn(all, f), p)
    <2> SUFFICES ASSUME NEW C, C \subseteq all, IsFiniteSet(C), C # {}
                 PROVE  \E K : K \in BlockingKeys(C, RarerIn(all, f), p)
        OBVIOUS
    <2> DEFINE n == Cardinality(C)
    <2>1. n \in Nat /\ n > 0
        BY FS_CardinalityType, FS_EmptySet
    <2> HIDE DEF n
    <2>2. p * n \in Nat /\ 100 * n \in Nat /\ 100 * n >= p * n
        <3>1. n * p <= n * 100 /\ n * p \in Nat /\ n * 100 \in Nat
            BY <2>1, TimesMonotone
        <3> QED
            BY <2>1, <3>1
    <2>3. Ceiling(p, n) \in Nat /\ Ceiling(p, n) <= n /\ Ceiling(p, n) >= 1
        BY <2>1, <2>2, CeilingIsLeast
    <2>4. Keep(p, n) \in 0..n
        BY <2>1, <2>3 DEF Keep
    <2>5. \A k \in 0..Cardinality(C) :
             \E K \in SUBSET C : RarestOf(K, C, RarerIn(all, f)) /\ Cardinality(K) = k
        BY <1>1, RarestMany
    <2>6. PICK K \in SUBSET C : RarestOf(K, C, RarerIn(all, f)) /\ Cardinality(K) = Keep(p, n)
        BY <2>4, <2>5 DEF n
    <2> QED
        BY <2>6 DEF BlockingKeys, n
<1>6. PICK K : K \in BlockingKeys(A, RarerIn(all, f), p)
    BY <1>2, <1>3, <1>5
<1>7. PICK L : L \in BlockingKeys(B, RarerIn(all, f), p)
    BY <1>2, <1>3, <1>5
<1>8. K \cap L # {}
    <2>1. Similar(A, B, p)
        BY DEF A, B
    <2> QED
        BY <1>3, <1>4, <1>6, <1>7, <2>1, PrefixFilterExact
<1>9. PICK t : t \in K /\ t \in L
    BY <1>8
<1> QED
    BY <1>1, <1>6, <1>7, <1>9 DEF A, B

(* What can be clustered: articles of the one content there is.            *)
Clusterable(S) == content \in Corpora /\ S \subseteq DOMAIN content

LEMMA ClusterableIs ==
    ASSUME NEW S, Clusterable(S)
    PROVE  /\ S \subseteq Nat /\ IsFiniteSet(S)
           /\ \A x \in S : /\ content[x] \in Content
                           /\ IsFiniteSet(content[x].title)
                           /\ IsFiniteSet(content[x].body)
<1>1. content \in [DOMAIN content -> Content] /\ DOMAIN content \subseteq Articles
    BY StoriesAssumption DEF Clusterable
<1>2. \A x \in DOMAIN content : \A T \in {content[x].title, content[x].body} : IsFiniteSet(T)
    BY StoriesAssumption DEF Clusterable
<1>3. S \in SUBSET Articles /\ IsFiniteSet(Articles) /\ Articles \subseteq Nat
    BY <1>1, StoriesAssumption DEF Clusterable
<1>4. IsFiniteSet(S)
    BY <1>3, FS_Subset
<1>5. S \subseteq DOMAIN content
    BY DEF Clusterable
<1> QED
    BY <1>1, <1>2, <1>3, <1>4, <1>5

LEMMA MeetInBucket ==
    ASSUME NEW S, NEW x \in S, NEW y \in S, NEW k, NEW t,
           <<x, k, t>> \in Index(S), <<y, k, t>> \in Index(S)
    PROVE  \E B \in Buckets(S) : x \in B /\ y \in B
<1> DEFINE i == <<x, k, t>>
           B == {z \in S : <<z, i[2], i[3]>> \in Index(S)}
<1>1. B \in Buckets(S)
    BY DEF Buckets
<1>2. i[2] = k /\ i[3] = t
    OBVIOUS
<1>3. x \in B /\ y \in B
    BY <1>2
<1> QED
    BY <1>1, <1>3

LEMMA IndexHas ==
    ASSUME NEW S, NEW x \in S
    PROVE  /\ \A t \in UNION BlockingKeys(content[x].title, Rarer([y \in S |-> content[y].title]),
                                          TitleJaccard) : <<x, "title", t>> \in Index(S)
           /\ \A t \in UNION BlockingKeys(content[x].body, Rarer([y \in S |-> content[y].body]),
                                          BodyJaccard) : <<x, "body", t>> \in Index(S)
           /\ \A t \in content[x].filings : <<x, "filing", t>> \in Index(S)
<1> DEFINE title == [y \in S |-> content[y].title]
           body == [y \in S |-> content[y].body]
           titles == Rarer(title)
           bodies == Rarer(body)
           T(z) == UNION BlockingKeys(title[z], titles, TitleJaccard)
           U(z) == UNION BlockingKeys(body[z], bodies, BodyJaccard)
           entries(z) == UNION {{z} \X {"title"} \X T(z), {z} \X {"body"} \X U(z),
                                {z} \X {"filing"} \X content[z].filings,
                                {z} \X {"simhash"} \X content[z].bands}
<1>1. Index(S) = UNION {entries(z) : z \in S}
    BY DEF Index
<1>2. title[x] = content[x].title /\ body[x] = content[x].body
    OBVIOUS
<1> HIDE DEF title, body, titles, bodies
<1>3. entries(x) \subseteq Index(S)
    <2> HIDE DEF entries
    <2> QED
        BY <1>1
<1>4. \A t \in T(x) : <<x, "title", t>> \in entries(x)
    OBVIOUS
<1>5. \A t \in U(x) : <<x, "body", t>> \in entries(x)
    OBVIOUS
<1>6. \A t \in content[x].filings : <<x, "filing", t>> \in entries(x)
    OBVIOUS
<1>7. /\ T(x) = UNION BlockingKeys(content[x].title, titles, TitleJaccard)
      /\ U(x) = UNION BlockingKeys(content[x].body, bodies, BodyJaccard)
    BY <1>2
<1> HIDE DEF entries, T, U
<1> QED
    BY <1>3, <1>4, <1>5, <1>6, <1>7 DEF titles, bodies, title, body

Evident(a, b) == SameFiling(a, b) \/ SameTitle(a, b) \/ SameBody(a, b)

(* One key per branch of the decision: whatever is evident is brought up.  *)
LEMMA EvidentMeet ==
    ASSUME NEW S, Clusterable(S), NEW x \in S, NEW y \in S,
           Evident(content[x], content[y])
    PROVE  \E B \in Buckets(S) : x \in B /\ y \in B
<1> DEFINE title == [z \in S |-> content[z].title]
           body == [z \in S |-> content[z].body]
<1>1. /\ DOMAIN title = S /\ DOMAIN body = S /\ IsFiniteSet(S)
      /\ \A z \in S : title[z] = content[z].title /\ body[z] = content[z].body
    BY ClusterableIs
<1>2. \A z \in S : /\ title[z] \subseteq Nat /\ IsFiniteSet(title[z])
                   /\ body[z] \subseteq Nat /\ IsFiniteSet(body[z])
    BY <1>1, ClusterableIs DEF Content
<1>3. TitleJaccard \in 1..100 /\ BodyJaccard \in 1..100
    BY StoriesAssumption
<1> HIDE DEF title, body
<1>4. CASE SameFiling(content[x], content[y])
    <2>1. PICK t : t \in content[x].filings /\ t \in content[y].filings
        BY <1>4 DEF SameFiling
    <2>2. <<x, "filing", t>> \in Index(S) /\ <<y, "filing", t>> \in Index(S)
        BY <2>1, IndexHas
    <2> QED
        BY <2>2, MeetInBucket
<1>5. CASE SameTitle(content[x], content[y])
    <2>1. Similar(title[x], title[y], TitleJaccard)
        BY <1>1, <1>5 DEF SameTitle
    <2>2. PICK t : /\ t \in UNION BlockingKeys(title[x], Rarer(title), TitleJaccard)
                   /\ t \in UNION BlockingKeys(title[y], Rarer(title), TitleJaccard)
        BY <1>1, <1>2, <1>3, <2>1, SimilarMeet
    <2>3. /\ t \in UNION BlockingKeys(content[x].title, Rarer(title), TitleJaccard)
          /\ t \in UNION BlockingKeys(content[y].title, Rarer(title), TitleJaccard)
        BY <1>1, <2>2
    <2>4. <<x, "title", t>> \in Index(S) /\ <<y, "title", t>> \in Index(S)
        BY <2>3, IndexHas DEF title
    <2> QED
        BY <2>4, MeetInBucket
<1>6. CASE SameBody(content[x], content[y])
    <2>1. Similar(body[x], body[y], BodyJaccard)
        BY <1>1, <1>6 DEF SameBody
    <2>2. PICK t : /\ t \in UNION BlockingKeys(body[x], Rarer(body), BodyJaccard)
                   /\ t \in UNION BlockingKeys(body[y], Rarer(body), BodyJaccard)
        BY <1>1, <1>2, <1>3, <2>1, SimilarMeet
    <2>3. /\ t \in UNION BlockingKeys(content[x].body, Rarer(body), BodyJaccard)
          /\ t \in UNION BlockingKeys(content[y].body, Rarer(body), BodyJaccard)
        BY <1>1, <2>2
    <2>4. <<x, "body", t>> \in Index(S) /\ <<y, "body", t>> \in Index(S)
        BY <2>3, IndexHas DEF body
    <2> QED
        BY <2>4, MeetInBucket
<1> QED
    BY <1>4, <1>5, <1>6 DEF Evident

LEMMA DecisionSymmetric ==
    ASSUME NEW a, NEW b
    PROVE  Decide(a, b) <=> Decide(b, a)
<1>1. {a, b} = {b, a} /\ a.title \cap b.title = b.title \cap a.title
      /\ a.title \cup b.title = b.title \cup a.title
      /\ a.body \cap b.body = b.body \cap a.body
      /\ a.body \cup b.body = b.body \cup a.body
    OBVIOUS
<1>2. SameFiling(a, b) <=> SameFiling(b, a)
    BY DEF SameFiling
<1>3. Vetoed(a, b) <=> Vetoed(b, a)
    BY DEF Vetoed
<1>4. SameText(a, b) <=> SameText(b, a)
    BY <1>1 DEF SameText
<1>5. SameTitle(a, b) <=> SameTitle(b, a)
    BY <1>1 DEF SameTitle, Similar
<1>6. SameBody(a, b) <=> SameBody(b, a)
    BY <1>1 DEF SameBody, Similar
<1> QED
    BY <1>2, <1>3, <1>4, <1>5, <1>6 DEF Decide

LEMMA EvidentSymmetric ==
    ASSUME NEW a, NEW b
    PROVE  Evident(a, b) <=> Evident(b, a)
<1>1. {a, b} = {b, a} /\ a.title \cap b.title = b.title \cap a.title
      /\ a.title \cup b.title = b.title \cup a.title
      /\ a.body \cap b.body = b.body \cap a.body
      /\ a.body \cup b.body = b.body \cup a.body
    OBVIOUS
<1>2. SameFiling(a, b) <=> SameFiling(b, a)
    BY DEF SameFiling
<1>5. SameTitle(a, b) <=> SameTitle(b, a)
    BY <1>1 DEF SameTitle, Similar
<1>6. SameBody(a, b) <=> SameBody(b, a)
    BY <1>1 DEF SameBody, Similar
<1> QED
    BY <1>2, <1>5, <1>6 DEF Evident

(* A pair is joined when it is decided for and meets somewhere.            *)
LEMMA JoinedIs ==
    ASSUME NEW S, Clusterable(S), NEW x \in S, NEW y \in S
    PROVE  (<<x, y>> \in Joined(S)) <=> /\ Decide(content[x], content[y])
                                        /\ \E B \in Buckets(S) : x \in B /\ y \in B
<1>1. (<<x, y>> \in Joined(S)) <=> /\ Decide(content[x], content[y])
                                   /\ \/ Evident(content[x], content[y])
                                      \/ \E B \in Buckets(S) : x \in B /\ y \in B
    BY DEF Joined, Evident
<1> QED
    BY <1>1, EvidentMeet

LEMMA JoinedSymmetric ==
    ASSUME NEW S, Clusterable(S), NEW x \in S, NEW y \in S, <<x, y>> \in Joined(S)
    PROVE  <<y, x>> \in Joined(S)
BY JoinedIs, DecisionSymmetric

LEMMA EdgesIn ==
    ASSUME NEW S, Clusterable(S)
    PROVE  /\ Edges(S) \subseteq S \X S /\ IsFiniteSet(Edges(S))
           /\ \A e \in Edges(S) : e \in Joined(S)
<1>1. \A B \in Buckets(S) : B \subseteq S
    BY DEF Buckets
<1>2. ASSUME NEW e \in Edges(S)
      PROVE  e \in S \X S /\ e \in Joined(S)
    <2>1. PICK B \in Buckets(S) : e \in B \X B /\ Decide(content[e[1]], content[e[2]])
        BY DEF Edges, Candidates
    <2>2. e[1] \in B /\ e[2] \in B /\ e = <<e[1], e[2]>> /\ e[1] \in S /\ e[2] \in S
        BY <1>1, <2>1
    <2>3. <<e[1], e[2]>> \in Joined(S)
        BY <2>1, <2>2, JoinedIs
    <2> QED
        BY <2>2, <2>3
<1>3. IsFiniteSet(S \X S)
    BY ClusterableIs, FS_Product
<1>4. Edges(S) \in SUBSET (S \X S)
    BY <1>2
<1> QED
    BY <1>2, <1>3, <1>4, FS_Subset

LEMMA JoinedEdge ==
    ASSUME NEW S, Clusterable(S), \A B \in Buckets(S) : Cardinality(B) <= MaxBlock,
           NEW x \in S, NEW y \in S, x # y, <<x, y>> \in Joined(S)
    PROVE  <<x, y>> \in Edges(S) \/ <<y, x>> \in Edges(S)
<1>1. x \in Nat /\ y \in Nat
    BY ClusterableIs
<1>2. PICK B \in Buckets(S) : x \in B /\ y \in B
    BY JoinedIs
<1>3. Decide(content[x], content[y]) /\ Decide(content[y], content[x])
    BY JoinedIs, DecisionSymmetric
<1>4. \A u, v \in B : u < v => <<u, v>> \in Candidates(S)
    <2> SUFFICES ASSUME NEW u \in B, NEW v \in B, u < v PROVE <<u, v>> \in Candidates(S)
        OBVIOUS
    <2>1. <<u, v>>[1] = u /\ <<u, v>>[2] = v /\ <<u, v>> \in B \X B
        OBVIOUS
    <2>2. <<u, v>> \in {p \in B \X B : p[1] < p[2]}
        BY <2>1
    <2> QED
        BY <2>2 DEF Candidates
<1>5. CASE x < y
    <2>1. <<x, y>> \in Candidates(S)
        BY <1>2, <1>4, <1>5
    <2> QED
        BY <1>3, <2>1 DEF Edges
<1>6. CASE y < x
    <2>1. <<y, x>> \in Candidates(S)
        BY <1>2, <1>4, <1>6
    <2> QED
        BY <1>3, <2>1 DEF Edges
<1> QED
    BY <1>1, <1>5, <1>6

(* Union and find over the edges gives the components of the joined pairs: *)
(* all of them, where every bucket was compared.                           *)
GroupedAs(S, r) == Grouped(S) = {{y \in S : r[y] = r[x]} : x \in S}

LEMMA GroupedIs ==
    ASSUME NEW S, Clusterable(S)
    PROVE  \E r : GroupedAs(S, r) /\ Grouping(S, Edges(S), r)
<1> DEFINE parent == Unions(S, Edges(S))
<1>1. S \subseteq Nat /\ Edges(S) \subseteq S \X S /\ IsFiniteSet(Edges(S))
    BY ClusterableIs, EdgesIn
<1>2. PICK r, h : Forest(S, parent, r, h) /\ Grouping(S, Edges(S), r)
    BY <1>1, UnionsGroup
<1>3. Grouped(S) = {{y \in S : Find(parent, y) = Find(parent, x)} : x \in S}
    BY DEF Grouped
<1> HIDE DEF parent
<1>4. \A x \in S : Find(parent, x) = r[x]
    BY <1>2, FindIsRoot
<1>5. \A x \in S : {y \in S : Find(parent, y) = Find(parent, x)} = {y \in S : r[y] = r[x]}
    BY <1>4
<1>6. Grouped(S) = {{y \in S : r[y] = r[x]} : x \in S}
    BY <1>3, <1>5
<1> QED
    BY <1>2, <1>6 DEF GroupedAs

LEMMA BlockIsComponent ==
    ASSUME NEW S, Clusterable(S), NEW r, Grouping(S, Edges(S), r), NEW x \in S
    PROVE  /\ {y \in S : r[y] = r[x]} \subseteq Component(x, Joined(S), S)
           /\ (\A B \in Buckets(S) : Cardinality(B) <= MaxBlock) =>
                 {y \in S : r[y] = r[x]} = Component(x, Joined(S), S)
<1> DEFINE block == {y \in S : r[y] = r[x]}
           closed(T) == \A p \in Joined(S) : p[1] \in T => p[2] \in T
<1>0. Component(x, Joined(S), S) = {y \in S : \A T \in SUBSET S : x \in T /\ closed(T) => y \in T}
    BY DEF Component
<1>1. ASSUME NEW T \in SUBSET S, x \in T, closed(T), NEW y \in block PROVE y \in T
    <2>1. ASSUME NEW e \in Edges(S) PROVE (e[1] \in T) <=> (e[2] \in T)
        <3>1. e = <<e[1], e[2]>> /\ e[1] \in S /\ e[2] \in S /\ e \in Joined(S)
            BY EdgesIn
        <3>2. <<e[1], e[2]>> \in Joined(S)
            BY <3>1
        <3>3. <<e[2], e[1]>> \in Joined(S)
            BY <3>1, <3>2, JoinedSymmetric
        <3> QED
            BY <1>1, <3>2, <3>3
    <2> QED
        BY <1>1, <2>1 DEF Grouping
<1>2. block \subseteq Component(x, Joined(S), S)
    BY <1>0, <1>1
<1>3. ASSUME \A B \in Buckets(S) : Cardinality(B) <= MaxBlock
      PROVE  Component(x, Joined(S), S) \subseteq block
    <2>1. ASSUME NEW p \in Joined(S), p[1] \in block PROVE p[2] \in block
        <3>1. p = <<p[1], p[2]>> /\ p[1] \in S /\ p[2] \in S
            BY DEF Joined
        <3>2. CASE p[1] # p[2]
            <4>1. <<p[1], p[2]>> \in Edges(S) \/ <<p[2], p[1]>> \in Edges(S)
                BY <1>3, <3>1, <3>2, JoinedEdge
            <4>2. r[p[1]] = r[p[2]]
                BY <4>1 DEF Grouping
            <4> QED
                BY <2>1, <3>1, <4>2
        <3> QED
            BY <2>1, <3>1, <3>2
    <2>2. block \in SUBSET S /\ x \in block /\ closed(block)
        BY <2>1
    <2> HIDE DEF block, closed
    <2> QED
        BY <1>0, <2>2
<1> QED
    BY <1>2, <1>3

(* Stories are told apart: no article is in two, and none is empty.        *)
Partition(groups, S) ==
    /\ UNION groups = S /\ {} \notin groups
    /\ \A G, H \in groups : G \cap H # {} => G = H

LEMMA GroupedPartition ==
    ASSUME NEW S, NEW r, GroupedAs(S, r)
    PROVE  Partition(Grouped(S), S)
<1> DEFINE block(x) == {y \in S : r[y] = r[x]}
<1>1. Grouped(S) = {block(x) : x \in S}
    BY DEF GroupedAs
<1>2. \A x \in S : x \in block(x) /\ block(x) \subseteq S
    OBVIOUS
<1>3. \A x, y \in S : block(x) \cap block(y) # {} => block(x) = block(y)
    OBVIOUS
<1> HIDE DEF block
<1>4. UNION Grouped(S) = S /\ {} \notin Grouped(S)
    BY <1>1, <1>2
<1>5. \A G, H \in Grouped(S) : G \cap H # {} => G = H
    BY <1>1, <1>3
<1> QED
    BY <1>4, <1>5 DEF Partition

LEMMA DissolvedPartition ==
    ASSUME NEW groups, NEW S, Partition(groups, S), NEW n
    PROVE  /\ Partition(Dissolved(groups, n), S)
           /\ \A G \in Dissolved(groups, n) : \E H \in groups : G \subseteq H
<1> DEFINE parts(G) == IF Cardinality(G) > Cap(n) THEN {{x} : x \in G} ELSE {G}
           D == Dissolved(groups, n)
<1>1. D = UNION {parts(G) : G \in groups}
    BY DEF Dissolved
<1>2. \A G : /\ UNION parts(G) = G
             /\ \A P \in parts(G) : P \subseteq G
             /\ G # {} => {} \notin parts(G)
             /\ \A P, Q \in parts(G) : P \cap Q # {} => P = Q
    OBVIOUS
<1> HIDE DEF parts, D
<1>3. \A G \in D : \E H \in groups : G \subseteq H
    BY <1>1, <1>2
<1>4. {} \notin D
    <2>1. SUFFICES ASSUME NEW G \in groups, {} \in parts(G) PROVE FALSE
        BY <1>1
    <2>2. G # {}
        BY DEF Partition
    <2> QED
        BY <1>2, <2>1, <2>2
<1>5. UNION D = S
    <2>1. \A x \in S : \E G \in groups : x \in G
        BY DEF Partition
    <2>2. \A G \in groups : \A x \in G : \E P \in parts(G) : x \in P
        BY <1>2
    <2>3. \A P \in D : P \subseteq S
        BY <1>3 DEF Partition
    <2>4. \A x \in S : \E P \in D : x \in P
        BY <1>1, <2>1, <2>2
    <2> QED
        BY <2>3, <2>4
<1>6. ASSUME NEW P \in D, NEW Q \in D, P \cap Q # {} PROVE P = Q
    <2>1. PICK G \in groups : P \in parts(G)
        BY <1>1
    <2>2. PICK H \in groups : Q \in parts(H)
        BY <1>1
    <2>3. G \cap H # {}
        BY <1>2, <1>6, <2>1, <2>2
    <2>4. G = H
        BY <2>3 DEF Partition
    <2> QED
        BY <1>2, <1>6, <2>1, <2>2, <2>4
<1>7. Partition(D, S)
    BY <1>4, <1>5, <1>6 DEF Partition
<1> QED
    BY <1>3, <1>7 DEF D

(* What a run makes of the articles it kept.                               *)
Result(S) == Dissolved(Grouped(S), Cardinality(S))

LEMMA ResultIs ==
    ASSUME NEW S, Clusterable(S)
    PROVE  Partition(Result(S), S) /\ StoriesOf(Result(S), S)
<1>1. PICK r : GroupedAs(S, r) /\ Grouping(S, Edges(S), r)
    BY GroupedIs
<1> DEFINE small == \A B \in Buckets(S) : Cardinality(B) <= MaxBlock
           block(x) == {y \in S : r[y] = r[x]}
           components == {Component(x, Joined(S), S) : x \in S}
<1>2. Partition(Grouped(S), S) /\ Grouped(S) = {block(x) : x \in S}
    <2>1. Partition(Grouped(S), S)
        BY <1>1, GroupedPartition
    <2>2. Grouped(S) = {block(x) : x \in S}
        BY <1>1 DEF GroupedAs
    <2> HIDE DEF block
    <2> QED
        BY <2>1, <2>2
<1>3. \A x \in S : block(x) \subseteq Component(x, Joined(S), S)
    BY <1>1, BlockIsComponent
<1>4. small => \A x \in S : block(x) = Component(x, Joined(S), S)
    BY <1>1, BlockIsComponent
<1> HIDE DEF block, small, components
<1>5. /\ Partition(Result(S), S)
      /\ \A G \in Result(S) : \E H \in Grouped(S) : G \subseteq H
    <2>1. Partition(Grouped(S), S)
        BY <1>2
    <2>2. \A n : /\ Partition(Dissolved(Grouped(S), n), S)
                /\ \A G \in Dissolved(Grouped(S), n) : \E H \in Grouped(S) : G \subseteq H
        BY <2>1, DissolvedPartition
    <2> QED
        BY <2>2 DEF Result
<1>6. small => Result(S) = Dissolved(components, Cardinality(S))
    <2>1. small => Grouped(S) = components
        BY <1>2, <1>4 DEF components
    <2> QED
        BY <2>1 DEF Result
<1>7. \A G \in Result(S) : \E C \in components : G \subseteq C
    BY <1>2, <1>3, <1>5 DEF components
<1>8. StoriesOf(Result(S), S) <=> IF small THEN Result(S) = Dissolved(components, Cardinality(S))
                                  ELSE \A G \in Result(S) : \E C \in components : G \subseteq C
    BY DEF StoriesOf, small, components
<1> QED
    BY <1>5, <1>6, <1>7, <1>8

(* The head is a member: the most authoritative, of these the earliest, of *)
(* these the least.                                                        *)
LEMMA CanonicalIs ==
    ASSUME NEW S, Clusterable(S), NEW G, G \subseteq S, G # {}
    PROVE  Canonical(G) \in G
<1>1. /\ G \subseteq Nat /\ IsFiniteSet(G)
      /\ \A x \in G : content[x].authority \in Nat /\ content[x].fetched \in Nat
    <2>1. G \in SUBSET S /\ IsFiniteSet(S)
        BY ClusterableIs
    <2>2. IsFiniteSet(G)
        BY <2>1, FS_Subset
    <2> QED
        BY <2>1, <2>2, ClusterableIs DEF Content
<1> DEFINE weight == [x \in G |-> content[x].authority]
           first == [x \in G |-> content[x].fetched]
           weights == {weight[x] : x \in G}
<1>2. \A x \in G : /\ weight[x] = content[x].authority /\ weight[x] \in Nat
                   /\ first[x] = content[x].fetched /\ first[x] \in Nat
    BY <1>1
<1> HIDE DEF weight, first
<1>3. High(weights) \in weights /\ \A n \in weights : n <= High(weights)
    <2>1. IsFiniteSet(weights)
        BY <1>1, FiniteImage
    <2>2. weights # {} /\ weights \subseteq Int
        BY <1>2
    <2> HIDE DEF weights
    <2> QED
        BY <2>1, <2>2, HighMember
<1>4. PICK a \in G : \A x \in G : weight[x] <= weight[a]
    BY <1>3
<1> DEFINE E == {x \in G : weight[x] = weight[a]}
<1>5. PICK b \in E : \A x \in E : first[b] <= first[x]
    <2>1. a \in E /\ \A x \in E : first[x] \in Nat
        BY <1>2
    <2> HIDE DEF E
    <2> QED
        BY <2>1, LeastValue
<1> DEFINE F == {x \in E : first[x] = first[b]}
<1>6. PICK c \in F : \A x \in F : c <= x
    <2>1. b \in F /\ F \subseteq Nat
        BY <1>1
    <2> HIDE DEF F
    <2> QED
        BY <2>1, LeastNatural
<1>7. c \in G /\ weight[c] = weight[a] /\ first[c] = first[b] /\ c \in Nat
    BY <1>1, <1>6
<1>8. ASSUME NEW y \in G \ {c}
      PROVE  \/ weight[c] > weight[y]
             \/ weight[c] = weight[y] /\ first[c] < first[y]
             \/ weight[c] = weight[y] /\ first[c] = first[y] /\ c < y
    <2>0. y \in Nat /\ weight[y] \in Nat /\ weight[c] \in Nat
          /\ first[y] \in Nat /\ first[c] \in Nat
        BY <1>1, <1>2, <1>7
    <2>1. CASE weight[y] # weight[a]
        BY <1>4, <1>7, <2>0, <2>1
    <2>2. CASE weight[y] = weight[a] /\ first[y] # first[b]
        <3>1. y \in E
            BY <2>2
        <3> QED
            BY <1>5, <1>7, <2>0, <2>2, <3>1
    <2>3. CASE weight[y] = weight[a] /\ first[y] = first[b]
        <3>1. y \in F
            BY <2>3
        <3>2. c <= y /\ c # y
            BY <1>6, <3>1
        <3> QED
            BY <1>7, <2>0, <2>3, <3>2
    <2> QED
        BY <2>1, <2>2, <2>3
<1> DEFINE Before(x, y) ==
              \/ content[x].authority > content[y].authority
              \/ content[x].authority = content[y].authority
                 /\ content[x].fetched < content[y].fetched
              \/ /\ content[x].authority = content[y].authority
                 /\ content[x].fetched = content[y].fetched
                 /\ x < y
<1>9. \A y \in G \ {c} : Before(c, y)
    <2> HIDE DEF E, F
    <2> QED
        BY <1>2, <1>7, <1>8
<1>10. Canonical(G) = CHOOSE x \in G : \A y \in G \ {x} : Before(x, y)
    BY DEF Canonical
<1> HIDE DEF Before, E, F
<1> QED
    BY <1>7, <1>9, <1>10

(* The two tables of a run tell its stories: a story by its head and its   *)
(* count, an article by the head of its story.                             *)
LEMMA RowsTell ==
    ASSUME NEW S, Clusterable(S), NEW groups, Partition(groups, S), NEW k, NEW d,
           NEW C, C = ClusterRows(groups, k, d), NEW M, M = MapRows(groups, k, d)
    PROVE  /\ {r.article : r \in M} = S /\ Cardinality(M) = Cardinality(S)
           /\ {{r.article : r \in {s \in M : s.cluster = c.cluster}} : c \in C} = groups
           /\ \A c \in C :
                 LET G == {r.article : r \in {s \in M : s.cluster = c.cluster}}
                 IN  c.count = Cardinality(G) /\ c.cluster = Canonical(G)
<1> DEFINE row(G, x) == [run |-> k, day |-> d, article |-> x, cluster |-> Canonical(G)]
           head(G) == [run |-> k, day |-> d, cluster |-> Canonical(G), count |-> Cardinality(G)]
           under(c) == {r.article : r \in {s \in M : s.cluster = c.cluster}}
<1>1. \A G \in groups : G \subseteq S /\ G # {} /\ Canonical(G) \in G
    <2>1. \A G \in groups : G \subseteq S /\ G # {}
        BY DEF Partition
    <2> QED
        BY <2>1, CanonicalIs
<1>2. \A G, H \in groups : Canonical(G) = Canonical(H) => G = H
    BY <1>1 DEF Partition
<1>3. \A r \in M : \E G \in groups : \E x \in G : r = row(G, x)
    BY DEF MapRows
<1>4. \A G \in groups : \A x \in G : row(G, x) \in M
    BY DEF MapRows
<1>5. \A G, x : row(G, x).article = x /\ row(G, x).cluster = Canonical(G)
    OBVIOUS
<1>6. C = {head(G) : G \in groups}
    BY DEF ClusterRows
<1>7. \A G : head(G).cluster = Canonical(G) /\ head(G).count = Cardinality(G)
    OBVIOUS
<1> HIDE DEF row, head
<1>8. ASSUME NEW G \in groups PROVE under(head(G)) = G
    <2>1. ASSUME NEW x \in G PROVE x \in under(head(G))
        BY <1>4, <1>5, <1>7
    <2>2. ASSUME NEW x \in under(head(G)) PROVE x \in G
        <3>1. PICK r \in M : r.cluster = Canonical(G) /\ r.article = x
            BY <1>7, <2>2
        <3>2. PICK H \in groups : \E y \in H : r = row(H, y)
            BY <1>3
        <3>3. PICK y \in H : r = row(H, y)
            BY <3>2
        <3>4. H = G /\ x = y
            BY <1>2, <1>5, <3>1, <3>3
        <3> QED
            BY <3>4
    <2> HIDE DEF under
    <2> QED
        BY <2>1, <2>2
<1>9. {r.article : r \in M} = S
    <2>1. ASSUME NEW x \in S PROVE \E r \in M : x = r.article
        <3>1. PICK G \in groups : x \in G
            BY DEF Partition
        <3> QED
            BY <1>4, <1>5, <3>1
    <2>2. ASSUME NEW r \in M PROVE r.article \in S
        BY <1>1, <1>3, <1>5
    <2> QED
        BY <2>1, <2>2
<1>10. Cardinality(M) = Cardinality(S)
    <2> DEFINE f == [r \in M |-> r.article]
    <2>1. \A r \in M : f[r] = r.article /\ f[r] \in S
        BY <1>9
    <2>2. ASSUME NEW r \in M, NEW s \in M, r.article = s.article PROVE r = s
        <3>1. PICK G \in groups : \E x \in G : r = row(G, x)
            BY <1>3
        <3>2. PICK H \in groups : \E x \in H : s = row(H, x)
            BY <1>3
        <3>3. PICK x \in G : r = row(G, x)
            BY <3>1
        <3>4. PICK y \in H : s = row(H, y)
            BY <3>2
        <3>5. x = y
            BY <1>5, <2>2, <3>3, <3>4
        <3>6. G = H
            BY <3>5 DEF Partition
        <3> QED
            BY <3>3, <3>4, <3>5, <3>6
    <2>3. \A x \in S : \E r \in M : f[r] = x
        BY <1>9, <2>1
    <2>4. f \in [M -> S]
        BY <2>1
    <2> HIDE DEF f
    <2>5. f \in Bijection(M, S)
        BY <2>1, <2>2, <2>3, <2>4 DEF Bijection, Injection, Surjection, IsInjective
    <2>6. IsFiniteSet(S)
        BY ClusterableIs
    <2>7. ExistsBijection(M, S)
        BY <2>5 DEF ExistsBijection
    <2>8. f \in Injection(M, S)
        BY <2>1, <2>2, <2>4 DEF Injection, IsInjective
    <2>9. IsFiniteSet(M)
        BY <2>6, <2>8, FS_Injection
    <2> QED
        BY <2>7, <2>9, FS_Bijection
<1>11. {under(c) : c \in C} = groups
    <2> HIDE DEF under
    <2> QED
        BY <1>6, <1>8
<1>12. \A c \in C : c.count = Cardinality(under(c)) /\ c.cluster = Canonical(under(c))
    <2> HIDE DEF under
    <2> QED
        BY <1>6, <1>7, <1>8
<1> QED
    BY <1>9, <1>10, <1>11, <1>12

(* A run and what is left of it: the articles it kept of those it read, and*)
(* in each table all of its rows or none, in the partition of its day.     *)
RowsOf(table, k) == {r \in table : r.run = k}

KeptOf(S, read) ==
    /\ S \subseteq read
    /\ \A x \in read : x \in S \/ \E y \in S : content[x].hash = content[y].hash
    /\ \A x, y \in S : content[x].hash = content[y].hash /\ content[x].hash # 0 => x = y

Made(k, S, d) ==
    /\ Clusterable(S) /\ \A x, y \in S : content[x].hash = content[y].hash
                                      /\ content[x].hash # 0 => x = y
    /\ RowsOf(clusters, k) \in {{}, ClusterRows(Result(S), k, d)}
    /\ RowsOf(mapping, k) \in {{}, MapRows(Result(S), k, d)}
    /\ k = job.run => /\ KeptOf(S, job.read) /\ d = job.day
                      /\ job.groups = Result(S)

StoriesInv ==
    /\ content \in Corpora /\ window \subseteq DOMAIN content
    /\ DOMAIN job = {"pc", "run", "day", "read", "groups"} /\ job.run \in Nat
    /\ \A r \in clusters \cup mapping : r.run \in 1..job.run
    /\ \A k \in 1..job.run : \E S, d : Made(k, S, d)
    /\ job.pc # "idle" => job.run # 0

(* Replacing partitions leaves a run all of its rows or none: its own are  *)
(* what it wrote, another run's go with their day or stay.                 *)
LEMMA OverwrittenRows ==
    ASSUME NEW table, NEW written, NEW n, \A r \in written : r.run = n,
           NEW k, NEW all, NEW d, \A r \in all : r.day = d,
           RowsOf(table, k) \in {{}, all}, k = n => written = all
    PROVE  RowsOf(Overwritten(table, written), k) \in {{}, all}
<1> DEFINE kept == RowsOf(Overwritten(table, written), k)
<1>1. \A r : r \in kept <=> (/\ r.run = k
                             /\ (r \in table /\ \A s \in written : r.day # s.day) \/ r \in written)
    BY DEF RowsOf, Overwritten
<1>2. \A r : r \in RowsOf(table, k) <=> (r \in table /\ r.run = k)
    BY DEF RowsOf
<1> HIDE DEF kept
<1>3. CASE k = n
    <2>1. ASSUME NEW r \in kept PROVE r \in all
        BY <1>1, <1>2, <1>3, <2>1
    <2>2. ASSUME NEW r \in all PROVE r \in kept
        BY <1>1, <1>3, <2>2
    <2>3. kept = all
        BY <2>1, <2>2
    <2> QED
        BY <2>3 DEF kept
<1>4. CASE k # n /\ RowsOf(table, k) = {}
    <2>1. ASSUME NEW r \in kept PROVE FALSE
        BY <1>1, <1>2, <1>4, <2>1
    <2>2. kept = {}
        BY <2>1
    <2> QED
        BY <2>2 DEF kept
<1>5. CASE k # n /\ RowsOf(table, k) = all /\ \E s \in written : s.day = d
    <2>1. ASSUME NEW r \in kept PROVE FALSE
        BY <1>1, <1>2, <1>5, <2>1
    <2>2. kept = {}
        BY <2>1
    <2> QED
        BY <2>2 DEF kept
<1>6. CASE k # n /\ RowsOf(table, k) = all /\ \A s \in written : s.day # d
    <2>1. ASSUME NEW r \in kept PROVE r \in all
        BY <1>1, <1>2, <1>6, <2>1
    <2>2. ASSUME NEW r \in all PROVE r \in kept
        BY <1>1, <1>2, <1>6, <2>2
    <2>3. kept = all
        BY <2>1, <2>2
    <2> QED
        BY <2>3 DEF kept
<1> QED
    BY <1>3, <1>4, <1>5, <1>6

LEMMA OverwrittenFrom ==
    ASSUME NEW table, NEW written
    PROVE  \A r \in Overwritten(table, written) : r \in table \/ r \in written
BY DEF Overwritten

LEMMA RowsDatedBy ==
    ASSUME NEW groups, NEW k, NEW d
    PROVE  /\ \A r \in ClusterRows(groups, k, d) : r.run = k /\ r.day = d
           /\ \A r \in MapRows(groups, k, d) : r.run = k /\ r.day = d
BY DEF ClusterRows, MapRows

(* The definitions of a run are about the content, which never changes.    *)
LEMMA NextStoriesInv == StoriesInv /\ [StoriesNext]_storiesVars => StoriesInv'
<1> SUFFICES ASSUME StoriesInv, [StoriesNext]_storiesVars PROVE StoriesInv'
    OBVIOUS
<1>0. /\ content \in Corpora /\ window \subseteq DOMAIN content
      /\ DOMAIN job = {"pc", "run", "day", "read", "groups"} /\ job.run \in Nat
      /\ \A r \in clusters \cup mapping : r.run \in 1..job.run
      /\ \A k \in 1..job.run : \E S, d : Made(k, S, d)
      /\ job.pc # "idle" => job.run # 0
    BY DEF StoriesInv
<1>c. content' = content => /\ \A S : Clusterable(S)' <=> Clusterable(S)
                            /\ \A S : Result(S)' = Result(S)
                            /\ \A S, k, d : /\ ClusterRows(S, k, d)' = ClusterRows(S, k, d)
                                            /\ MapRows(S, k, d)' = MapRows(S, k, d)
    <2> SUFFICES ASSUME content' = content
                 PROVE  /\ \A S : Clusterable(S)' <=> Clusterable(S)
                        /\ \A S : Result(S)' = Result(S)
                        /\ \A S, k, d : /\ ClusterRows(S, k, d)' = ClusterRows(S, k, d)
                                        /\ MapRows(S, k, d)' = MapRows(S, k, d)
        OBVIOUS
    <2>1. \A S : Clusterable(S)' <=> Clusterable(S)
        BY DEF Clusterable
    <2>2. \A S : Index(S)' = Index(S)
        BY DEF Index
    <2>3. \A S : Buckets(S)' = Buckets(S)
        BY <2>2 DEF Buckets
    <2>4. \A S : Edges(S)' = Edges(S)
        BY <2>3 DEF Edges, Candidates
    <2>5. \A S : Result(S)' = Result(S)
        BY <2>4 DEF Result, Grouped
    <2>6. \A G : Canonical(G)' = Canonical(G)
        BY DEF Canonical
    <2>7. \A S, k, d : /\ ClusterRows(S, k, d)' = ClusterRows(S, k, d)
                       /\ MapRows(S, k, d)' = MapRows(S, k, d)
        BY <2>6 DEF ClusterRows, MapRows
    <2> QED
        BY <2>1, <2>5, <2>7
<1>k. content' = content => \A S, W : KeptOf(S, W)' <=> KeptOf(S, W)
    BY DEF KeptOf
(* A step that leaves the rows and what the last run read alone.           *)
<1>u. ASSUME content' = content, clusters' = clusters, mapping' = mapping,
             job'.run = job.run, job'.day = job.day, job'.read = job.read,
             job'.groups = job.groups
      PROVE  \A k \in 1..job'.run : \E S, d : Made(k, S, d)'
    <2>1. SUFFICES ASSUME NEW k \in 1..job.run, NEW S, NEW d, Made(k, S, d)
                   PROVE  Made(k, S, d)'
        BY <1>0, <1>u
    <2>2. RowsOf(clusters, k)' = RowsOf(clusters, k) /\ RowsOf(mapping, k)' = RowsOf(mapping, k)
        BY <1>u DEF RowsOf
    <2>3. Clusterable(S) /\ \A x, y \in S : content[x].hash = content[y].hash
                                         /\ content[x].hash # 0 => x = y
        BY <2>1 DEF Made
    <2>4. /\ RowsOf(clusters, k)' \in {{}, ClusterRows(Result(S), k, d)'}
          /\ RowsOf(mapping, k)' \in {{}, MapRows(Result(S), k, d)'}
        BY <1>c, <1>u, <2>1, <2>2 DEF Made
    <2>5. k = job'.run => /\ KeptOf(S, job'.read) /\ d = job'.day
                          /\ job'.groups = Result(S)
        BY <1>u, <2>1 DEF Made
    <2>6. Clusterable(S)' /\ (\A x, y \in S : content'[x].hash = content'[y].hash
                                           /\ content'[x].hash # 0 => x = y)
        BY <1>c, <1>u, <2>3
    <2>7. k = job'.run => /\ KeptOf(S, job.read)' /\ d = job'.day
                          /\ job'.groups = Result(S)'
        BY <1>c, <1>k, <1>u, <2>5
    <2> QED
        BY <1>u, <2>4, <2>6, <2>7 DEF Made
<1>1. CASE Cluster
    <2>1. PICK kept \in Kept(window), day \in {job.day, job.day + 1} :
             job' = [pc |-> "clusters", run |-> job.run + 1, day |-> day,
                     read |-> window,
                     groups |-> Dissolved(Grouped(kept), Cardinality(kept))]
        BY <1>1 DEF Cluster
    <2>2. /\ content' = content /\ window' = window /\ clusters' = clusters
          /\ mapping' = mapping /\ job.run \in Nat
        BY <1>0, <1>1 DEF Cluster
    <2>3. /\ job'.pc = "clusters" /\ job'.run = job.run + 1 /\ job'.day = day
          /\ job'.read = window /\ job'.groups = Result(kept)
          /\ DOMAIN job' = {"pc", "run", "day", "read", "groups"}
        BY <2>1 DEF Result
    <2>4. KeptOf(kept, window) /\ Clusterable(kept)
        <3>1. kept \subseteq window /\ Clusterable(kept)
            BY <1>0 DEF Kept, Clusterable
        <3> QED
            BY <3>1 DEF Kept, KeptOf
    <2>5. RowsOf(clusters, job.run + 1) = {} /\ RowsOf(mapping, job.run + 1) = {}
        BY <1>0 DEF RowsOf
    <2>6. ASSUME NEW k, k = job'.run PROVE Made(k, kept, day)'
        <3>1. Clusterable(kept)' /\ KeptOf(kept, window)'
            BY <1>c, <1>k, <2>2, <2>4
        <3>2. RowsOf(clusters, k) = {} /\ RowsOf(mapping, k) = {}
            BY <2>3, <2>5, <2>6
        <3>3. RowsOf(clusters, k)' = {} /\ RowsOf(mapping, k)' = {}
            BY <2>2, <3>2 DEF RowsOf
        <3>4. job'.groups = Result(kept)'
            BY <1>c, <2>2, <2>3
        <3>5. KeptOf(kept, job.read)'
            BY <2>2, <2>3, <3>1
        <3>6. \A x, y \in kept : content'[x].hash = content'[y].hash
                                 /\ content'[x].hash # 0 => x = y
            BY <3>1 DEF KeptOf
        <3> QED
            BY <2>3, <3>1, <3>3, <3>4, <3>5, <3>6 DEF Made
    <2>7. ASSUME NEW k \in 1..job.run PROVE \E S, d : Made(k, S, d)'
        <3>1. PICK S, d : Made(k, S, d)
            BY <1>0
        <3>2. RowsOf(clusters, k)' = RowsOf(clusters, k) /\ RowsOf(mapping, k)' = RowsOf(mapping, k)
            BY <2>2 DEF RowsOf
        <3>3. k # job'.run
            BY <2>2, <2>3
        <3>4. /\ RowsOf(clusters, k)' \in {{}, ClusterRows(Result(S), k, d)'}
              /\ RowsOf(mapping, k)' \in {{}, MapRows(Result(S), k, d)'}
            BY <1>c, <2>2, <3>1, <3>2 DEF Made
        <3>5. Clusterable(S)' /\ (\A x, y \in S : content'[x].hash = content'[y].hash
                                               /\ content'[x].hash # 0 => x = y)
            BY <1>c, <2>2, <3>1 DEF Made
        <3> QED
            BY <3>3, <3>4, <3>5 DEF Made
    <2>8. \A k \in 1..job'.run : \E S, d : Made(k, S, d)'
        <3>1. \A k \in 1..job'.run : k \in 1..job.run \/ k = job'.run
            BY <2>2, <2>3
        <3> TAKE k \in 1..job'.run
        <3>3. CASE k = job'.run
            BY <2>6, <3>3
        <3> QED
            BY <2>7, <3>1, <3>3
    <2>9. /\ \A r \in clusters' \cup mapping' : r.run \in 1..job'.run
          /\ job'.run \in Nat /\ job'.run # 0
        BY <1>0, <2>2, <2>3
    <2> QED
        BY <1>0, <2>2, <2>3, <2>8, <2>9 DEF StoriesInv
<1>2. CASE WriteClusters
    <2> DEFINE written == ClusterRows(job.groups, job.run, job.day)
    <2>1. /\ content' = content /\ window' = window /\ mapping' = mapping
          /\ clusters' = Overwritten(clusters, written) /\ job' = [job EXCEPT !.pc = "map"]
          /\ job.run # 0 /\ job.run \in 1..job.run
        BY <1>0, <1>2 DEF WriteClusters
    <2>2. /\ job'.run = job.run /\ job'.day = job.day /\ job'.read = job.read
          /\ job'.groups = job.groups /\ DOMAIN job' = {"pc", "run", "day", "read", "groups"}
        BY <1>0, <2>1
    <2>3. \A r \in written : r.run = job.run /\ r.day = job.day
        BY RowsDatedBy
    <2> HIDE DEF written
    <2>4. ASSUME NEW k \in 1..job.run, NEW S, NEW d, Made(k, S, d) PROVE Made(k, S, d)'
        <3>1. RowsOf(clusters, k) \in {{}, ClusterRows(Result(S), k, d)}
            BY <2>4 DEF Made
        <3>2. RowsOf(clusters', k) \in {{}, ClusterRows(Result(S), k, d)}
            <4> DEFINE all == ClusterRows(Result(S), k, d)
            <4>1. \A r \in all : r.day = d
                BY RowsDatedBy
            <4>2. k = job.run => written = all
                BY <2>4 DEF Made, written
            <4>3. \A r \in written : r.run = job.run
                BY <2>3
            <4>4. RowsOf(clusters, k) \in {{}, all}
                BY <3>1
            <4> HIDE DEF all
            <4>5. RowsOf(Overwritten(clusters, written), k) \in {{}, all}
                BY <4>1, <4>2, <4>3, <4>4, OverwrittenRows, ZenonT(60)
            <4> QED
                BY <2>1, <4>5 DEF all
        <3>3. RowsOf(clusters, k)' = RowsOf(clusters', k) /\ RowsOf(mapping, k)' = RowsOf(mapping, k)
            BY <2>1 DEF RowsOf
        <3>4. /\ RowsOf(clusters, k)' \in {{}, ClusterRows(Result(S), k, d)'}
              /\ RowsOf(mapping, k)' \in {{}, MapRows(Result(S), k, d)'}
            BY <1>c, <2>1, <2>4, <3>2, <3>3 DEF Made
        <3>5. Clusterable(S)' /\ (\A x, y \in S : content'[x].hash = content'[y].hash
                                               /\ content'[x].hash # 0 => x = y)
            BY <1>c, <2>1, <2>4 DEF Made
        <3>6. k = job'.run => /\ KeptOf(S, job'.read) /\ d = job'.day
                              /\ job'.groups = Result(S)
            BY <2>2, <2>4 DEF Made
        <3>7. k = job'.run => /\ KeptOf(S, job.read)' /\ d = job'.day
                              /\ job'.groups = Result(S)'
            BY <1>c, <1>k, <2>1, <2>2, <3>6
        <3> QED
            BY <3>4, <3>5, <3>7 DEF Made
    <2>5. \A r \in clusters' \cup mapping' : r.run \in 1..job'.run
        <3>1. \A r \in Overwritten(clusters, written) : r \in clusters \/ r \in written
            BY OverwrittenFrom
        <3> QED
            BY <1>0, <2>1, <2>2, <2>3, <3>1
    <2>6. \A k \in 1..job'.run : \E S, d : Made(k, S, d)'
        BY <1>0, <2>2, <2>4
    <2> QED
        BY <1>0, <2>1, <2>2, <2>5, <2>6 DEF StoriesInv
<1>3. CASE WriteMap
    <2> DEFINE written == MapRows(job.groups, job.run, job.day)
    <2>1. /\ content' = content /\ window' = window /\ clusters' = clusters
          /\ mapping' = Overwritten(mapping, written) /\ job' = [job EXCEPT !.pc = "idle"]
          /\ job.run # 0 /\ job.run \in 1..job.run
        BY <1>0, <1>3 DEF WriteMap
    <2>2. /\ job'.run = job.run /\ job'.day = job.day /\ job'.read = job.read
          /\ job'.groups = job.groups /\ DOMAIN job' = {"pc", "run", "day", "read", "groups"}
        BY <1>0, <2>1
    <2>3. \A r \in written : r.run = job.run /\ r.day = job.day
        BY RowsDatedBy
    <2> HIDE DEF written
    <2>4. ASSUME NEW k \in 1..job.run, NEW S, NEW d, Made(k, S, d) PROVE Made(k, S, d)'
        <3>1. RowsOf(mapping, k) \in {{}, MapRows(Result(S), k, d)}
            BY <2>4 DEF Made
        <3>2. RowsOf(mapping', k) \in {{}, MapRows(Result(S), k, d)}
            <4> DEFINE all == MapRows(Result(S), k, d)
            <4>1. \A r \in all : r.day = d
                BY RowsDatedBy
            <4>2. k = job.run => written = all
                BY <2>4 DEF Made, written
            <4>3. \A r \in written : r.run = job.run
                BY <2>3
            <4>4. RowsOf(mapping, k) \in {{}, all}
                BY <3>1
            <4> HIDE DEF all
            <4>5. RowsOf(Overwritten(mapping, written), k) \in {{}, all}
                BY <4>1, <4>2, <4>3, <4>4, OverwrittenRows, ZenonT(60)
            <4> QED
                BY <2>1, <4>5 DEF all
        <3>3. RowsOf(mapping, k)' = RowsOf(mapping', k) /\ RowsOf(clusters, k)' = RowsOf(clusters, k)
            BY <2>1 DEF RowsOf
        <3>4. /\ RowsOf(clusters, k)' \in {{}, ClusterRows(Result(S), k, d)'}
              /\ RowsOf(mapping, k)' \in {{}, MapRows(Result(S), k, d)'}
            BY <1>c, <2>1, <2>4, <3>2, <3>3 DEF Made
        <3>5. Clusterable(S)' /\ (\A x, y \in S : content'[x].hash = content'[y].hash
                                               /\ content'[x].hash # 0 => x = y)
            BY <1>c, <2>1, <2>4 DEF Made
        <3>6. k = job'.run => /\ KeptOf(S, job'.read) /\ d = job'.day
                              /\ job'.groups = Result(S)
            BY <2>2, <2>4 DEF Made
        <3>7. k = job'.run => /\ KeptOf(S, job.read)' /\ d = job'.day
                              /\ job'.groups = Result(S)'
            BY <1>c, <1>k, <2>1, <2>2, <3>6
        <3> QED
            BY <3>4, <3>5, <3>7 DEF Made
    <2>5. \A r \in clusters' \cup mapping' : r.run \in 1..job'.run
        <3>1. \A r \in Overwritten(mapping, written) : r \in mapping \/ r \in written
            BY OverwrittenFrom
        <3> QED
            BY <1>0, <2>1, <2>2, <2>3, <3>1
    <2>6. \A k \in 1..job'.run : \E S, d : Made(k, S, d)'
        BY <1>0, <2>2, <2>4
    <2> QED
        BY <1>0, <2>1, <2>2, <2>5, <2>6 DEF StoriesInv
<1>4. CASE ClusterDies
    <2>1. /\ content' = content /\ clusters' = clusters /\ mapping' = mapping
          /\ job'.run = job.run /\ job'.day = job.day /\ job'.read = job.read
          /\ job'.groups = job.groups /\ job.pc # "idle" /\ window' = window
          /\ DOMAIN job' = {"pc", "run", "day", "read", "groups"}
        BY <1>0, <1>4 DEF ClusterDies
    <2>2. \A k \in 1..job'.run : \E S, d : Made(k, S, d)'
        BY <1>u, <2>1
    <2> QED
        BY <1>0, <2>1, <2>2 DEF StoriesInv
<1>5. CASE Age
    <2>1. content' = content /\ clusters' = clusters /\ mapping' = mapping /\ job' = job
          /\ window' \subseteq window
        BY <1>5 DEF Age
    <2>2. \A k \in 1..job'.run : \E S, d : Made(k, S, d)'
        BY <1>u, <2>1
    <2> QED
        BY <1>0, <2>1, <2>2 DEF StoriesInv
<1>6. CASE UNCHANGED storiesVars
    <2>1. content' = content /\ clusters' = clusters /\ mapping' = mapping /\ job' = job
          /\ window' = window
        BY <1>6 DEF storiesVars
    <2>2. \A k \in 1..job'.run : \E S, d : Made(k, S, d)'
        BY <1>u, <2>1
    <2> QED
        BY <1>0, <2>1, <2>2 DEF StoriesInv
<1> QED
    BY <1>1, <1>2, <1>3, <1>4, <1>5, <1>6 DEF StoriesNext

(* The newest rows of a table are of one run, and all of that run.         *)
LEMMA NewestOfRun ==
    ASSUME NEW table, \A r \in table : r.run \in Nat, NEW r \in Newest(table)
    PROVE  Newest(table) = RowsOf(table, r.run)
<1>1. r \in table /\ \A s \in table : s.run <= r.run
    BY DEF Newest
<1>2. ASSUME NEW s \in Newest(table) PROVE s \in RowsOf(table, r.run)
    <2>1. s \in table /\ r.run <= s.run /\ s.run <= r.run /\ s.run \in Nat /\ r.run \in Nat
        BY <1>1 DEF Newest
    <2> QED
        BY <2>1 DEF RowsOf
<1>3. ASSUME NEW s \in RowsOf(table, r.run) PROVE s \in Newest(table)
    BY <1>1, <1>3 DEF RowsOf, Newest
<1> QED
    BY <1>2, <1>3

LEMMA StoriesFromInv == ASSUME StoriesInv PROVE StoriesExact
<1> DEFINE C == Newest(clusters)
           M == Newest(mapping)
           S == {r.article : r \in M}
           under(c) == {r.article : r \in {s \in M : s.cluster = c.cluster}}
           groups == {under(c) : c \in C}
<1>1. SUFFICES ASSUME {r.run : r \in C} = {r.run : r \in M}
               PROVE  /\ Cardinality(M) = Cardinality(S)
                      /\ UNION groups = S /\ {} \notin groups
                      /\ \A c \in C : c.count = Cardinality(under(c))
                                      /\ c.cluster = Canonical(under(c))
                      /\ StoriesOf(groups, S)
                      /\ \A x, y \in S : content[x].hash = content[y].hash
                                         /\ content[x].hash # 0 => x = y
                      /\ \A r \in M : r.run = job.run =>
                            \A x \in job.read :
                               x \in S \/ \E y \in S : content[x].hash = content[y].hash
    BY DEF StoriesExact
<1>2. \A r \in clusters \cup mapping : r.run \in Nat /\ r.run \in 1..job.run
    BY DEF StoriesInv
<1>3. CASE M = {}
    <2>1. C = {} /\ S = {} /\ groups = {}
        BY <1>1, <1>3
    <2>2. StoriesOf({}, {})
        BY DEF StoriesOf, Buckets, Index, Dissolved
    <2> HIDE DEF C, M, groups
    <2> QED
        BY <1>3, <2>1, <2>2
<1>4. CASE M # {}
    <2>1. PICK r \in M, c \in C : r.run = c.run
        BY <1>1, <1>4
    <2> DEFINE k == r.run
    <2>2. M = RowsOf(mapping, k) /\ C = RowsOf(clusters, k)
        BY <1>2, <2>1, NewestOfRun
    <2>3. k \in 1..job.run
        BY <1>2, <2>1 DEF Newest
    <2>4. PICK kept, d : Made(k, kept, d)
        BY <2>3 DEF StoriesInv
    <2>5. C = ClusterRows(Result(kept), k, d) /\ M = MapRows(Result(kept), k, d)
        BY <2>1, <2>2, <2>4 DEF Made
    <2>6. Clusterable(kept) /\ Partition(Result(kept), kept) /\ StoriesOf(Result(kept), kept)
        BY <2>4, ResultIs DEF Made
    <2> HIDE DEF C, M, k
    <2>7. /\ S = kept /\ Cardinality(M) = Cardinality(kept)
          /\ groups = Result(kept)
          /\ \A e \in C : e.count = Cardinality(under(e)) /\ e.cluster = Canonical(under(e))
        BY <2>5, <2>6, RowsTell
    <2>8. ASSUME NEW q \in M, q.run = job.run
          PROVE  \A x \in job.read :
                    x \in kept \/ \E y \in kept : content[x].hash = content[y].hash
        <3>1. k = job.run
            BY <2>2, <2>8 DEF RowsOf
        <3> QED
            BY <2>4, <3>1 DEF Made, KeptOf
    <2>9. \A x, y \in kept : content[x].hash = content[y].hash
                             /\ content[x].hash # 0 => x = y
        BY <2>4 DEF Made
    <2> HIDE DEF S, groups, under
    <2> QED
        BY <2>6, <2>7, <2>8, <2>9 DEF Partition
<1> QED
    BY <1>3, <1>4

(* StoriesExact, for every content of a window, order of the articles and  *)
(* history of runs, deaths and ageing.                                     *)
THEOREM StoriesAreExact == StoriesSpec => []StoriesExact
<1>1. StoriesInit => StoriesInv
    BY DEF StoriesInit, StoriesInv
<1>2. StoriesInv => StoriesExact
    BY StoriesFromInv
<1> QED
    BY <1>1, <1>2, NextStoriesInv, PTL DEF StoriesSpec

(* A run has groups of what it read: none, before the first.               *)
JobTyped ==
    /\ job.pc \in {"idle", "clusters", "map"}
    /\ job.run <= MaxRuns
    /\ job.run = 0 => job.groups = {}
    /\ job.read \subseteq DOMAIN content

LEMMA InitJobTyped == StoriesInit => JobTyped
    BY StoriesAssumption DEF StoriesInit, JobTyped

LEMMA NextJobTyped ==
    ASSUME StoriesInv, JobTyped, [StoriesNext]_storiesVars
    PROVE  JobTyped'
<1>1. /\ window \subseteq DOMAIN content /\ job.run \in Nat /\ MaxRuns \in Nat
      /\ DOMAIN job = {"pc", "run", "day", "read", "groups"}
    BY StoriesAssumption DEF StoriesInv
<1>2. content' = content
    BY DEF StoriesNext, Cluster, WriteClusters, WriteMap, ClusterDies, Age, storiesVars
<1>3. ASSUME Cluster PROVE JobTyped'
    <2>1. PICK kept \in Kept(window), day \in {job.day, job.day + 1} :
              job' = [pc |-> "clusters", run |-> job.run + 1, day |-> day,
                      read |-> window,
                      groups |-> Dissolved(Grouped(kept), Cardinality(kept))]
        BY <1>3 DEF Cluster
    <2>2. job'.pc = "clusters" /\ job'.run = job.run + 1 /\ job'.read = window
        BY <2>1
    <2>3. job.run < MaxRuns
        BY <1>3 DEF Cluster
    <2> QED
        BY <1>1, <1>2, <2>2, <2>3 DEF JobTyped
<1>4. CASE WriteClusters
    <2>1. job' = [job EXCEPT !.pc = "map"]
        BY <1>4 DEF WriteClusters
    <2>2. job'.pc = "map" /\ job'.run = job.run /\ job'.read = job.read /\ job'.groups = job.groups
        BY <1>1, <2>1
    <2> QED
        BY <1>2, <2>2 DEF JobTyped
<1>5. CASE WriteMap \/ ClusterDies
    <2>1. job' = [job EXCEPT !.pc = "idle"]
        BY <1>5 DEF WriteMap, ClusterDies
    <2>2. job'.pc = "idle" /\ job'.run = job.run /\ job'.read = job.read /\ job'.groups = job.groups
        BY <1>1, <2>1
    <2> QED
        BY <1>2, <2>2 DEF JobTyped
<1>6. CASE Age
    BY <1>2, <1>6 DEF Age, JobTyped
<1>7. CASE UNCHANGED storiesVars
    BY <1>7 DEF storiesVars, JobTyped
<1> QED
    BY <1>3, <1>4, <1>5, <1>6, <1>7 DEF StoriesNext

(* What a run writes of its articles.                                      *)
LEMMA RowsTyped ==
    ASSUME NEW S, Clusterable(S), NEW k, NEW d
    PROVE  /\ \A r \in ClusterRows(Result(S), k, d) : r.cluster \in Articles /\ r.count \in Nat \ {0}
           /\ \A r \in MapRows(Result(S), k, d) : {r.article, r.cluster} \subseteq Articles
<1>1. UNION Result(S) = S /\ {} \notin Result(S)
    BY ResultIs DEF Partition
<1>2. S \subseteq Articles /\ IsFiniteSet(S)
    BY StoriesAssumption, ClusterableIs DEF Clusterable
<1> DEFINE groups == Result(S)
<1> HIDE DEF groups
<1>3. ASSUME NEW G \in groups
      PROVE  G \subseteq S /\ Canonical(G) \in Articles /\ Cardinality(G) \in Nat \ {0}
    <2>1. G \subseteq S /\ G # {}
        BY <1>1, <1>3 DEF groups
    <2>2. Canonical(G) \in G
        BY <2>1, CanonicalIs
    <2>3. IsFiniteSet(G)
        BY <1>2, <2>1, FS_Subset
    <2>4. Cardinality(G) \in Nat /\ Cardinality(G) # 0
        BY <2>1, <2>3, FS_CardinalityType, FS_EmptySet
    <2> QED
        BY <1>2, <2>1, <2>2, <2>4
<1>4. \A r \in ClusterRows(groups, k, d) : r.cluster \in Articles /\ r.count \in Nat \ {0}
    BY <1>3 DEF ClusterRows
<1>5. \A r \in MapRows(groups, k, d) : {r.article, r.cluster} \subseteq Articles
    BY <1>2, <1>3 DEF MapRows
<1> QED
    BY <1>4, <1>5 DEF groups

LEMMA StoriesTyped == ASSUME StoriesInv, JobTyped PROVE StoriesTypeOK
<1>1. /\ content \in Corpora /\ window \subseteq DOMAIN content /\ job.run \in Nat
      /\ \A r \in clusters \cup mapping : r.run \in 1..job.run
      /\ \A k \in 1..job.run : \E S, d : Made(k, S, d)
    BY DEF StoriesInv
<1>2. DOMAIN content \subseteq Articles
    BY <1>1, StoriesAssumption
<1>3. ASSUME NEW r \in clusters PROVE r.cluster \in Articles /\ r.count \in Nat \ {0}
    <2>1. PICK S, d : Made(r.run, S, d)
        BY <1>1
    <2>2. r \in RowsOf(clusters, r.run) /\ Clusterable(S)
          /\ RowsOf(clusters, r.run) \in {{}, ClusterRows(Result(S), r.run, d)}
        BY <2>1 DEF RowsOf, Made
    <2>3. r \in ClusterRows(Result(S), r.run, d)
        BY <2>2
    <2> QED
        BY <2>2, <2>3, RowsTyped
<1>4. ASSUME NEW r \in mapping PROVE {r.article, r.cluster} \subseteq Articles
    <2>1. PICK S, d : Made(r.run, S, d)
        BY <1>1
    <2>2. r \in RowsOf(mapping, r.run) /\ Clusterable(S)
          /\ RowsOf(mapping, r.run) \in {{}, MapRows(Result(S), r.run, d)}
        BY <2>1 DEF RowsOf, Made
    <2>3. r \in MapRows(Result(S), r.run, d)
        BY <2>2
    <2> QED
        BY <2>2, <2>3, RowsTyped
<1>5. UNION job.groups \subseteq job.read
    <2>1. CASE job.run = 0
        BY <2>1 DEF JobTyped
    <2>2. CASE job.run # 0
        <3>1. job.run \in 1..job.run
            BY <1>1, <2>2
        <3>2. PICK S, d : Made(job.run, S, d)
            BY <1>1, <3>1
        <3>3. Clusterable(S) /\ S \subseteq job.read /\ job.groups = Result(S)
            BY <3>2 DEF Made, KeptOf
        <3>4. UNION Result(S) = S
            BY <3>3, ResultIs DEF Partition
        <3> QED
            BY <3>3, <3>4
    <2> QED
        BY <2>1, <2>2
<1>6. job.run \in 0..MaxRuns
    BY <1>1, StoriesAssumption DEF JobTyped
<1> QED
    BY <1>1, <1>2, <1>3, <1>4, <1>5, <1>6 DEF StoriesTypeOK, JobTyped

(* The types of the two tables of the stories and of the job that writes   *)
(* them, for every corpus, threshold and cap.                              *)
THEOREM StoriesTypeCorrect == StoriesSpec => []StoriesTypeOK
<1>1. StoriesInit => StoriesInv
    BY DEF StoriesInit, StoriesInv
<1>2. StoriesInv /\ JobTyped /\ [StoriesNext]_storiesVars => StoriesInv' /\ JobTyped'
    BY NextStoriesInv, NextJobTyped
<1>3. StoriesInv /\ JobTyped => StoriesTypeOK
    BY StoriesTyped
<1> QED
    BY <1>1, <1>2, <1>3, InitJobTyped, PTL DEF StoriesSpec

-----------------------------------------------------------------------------
(* Resolution.                                                             *)

(* ResolveTrue, for every window, day, dictionary, set of pages and of      *)
(* entities.                                                                *)
(* Mentions.  The run under way read at some moment u: it holds every page  *)
(* of its window that was resolved before, so the day it rewrites in part   *)
(* loses only what left every window.                                       *)
ReadAt(u) ==
    /\ u \in Nat /\ u <= tick
    /\ \A p \in resolver.read :
          /\ published[p] # Absent
          /\ \E r \in resolver.rows : r.page = p
    /\ \A p \in resolver.read : u - Window <= published[p] /\ published[p] < u
    /\ \A p \in resolved :
          /\ published[p] < u
          /\ u - Window <= published[p] => p \in resolver.read

RowsFaithful ==
    /\ \A r \in resolver.rows : r.page \in resolver.read /\ r.at = published[r.page]
    /\ \A r, q \in resolver.rows : r.page = q.page => r = q

MInv ==
    /\ MentionsTypeOK
    /\ \A m \in mentions : m.at = published[m.page]
    /\ \A m, n \in mentions : m.page = n.page => m = n
    /\ \A p \in resolved :
          /\ published[p] # Absent /\ published[p] < tick
          /\ tick - Window <= published[p] => \E m \in mentions : m.page = p
    /\ resolver.pc = "write" => RowsFaithful /\ \E u \in Nat : ReadAt(u)

(* Dimension.  What a row says its snapshot said; rows are as old as the    *)
(* last load at most; and between its commits a load knows which entities   *)
(* have a current row it must close, or may keep.                           *)
RowsDated ==
    \A r \in rows :
        /\ r.from < r.to /\ r.from <= load.snapshot
        /\ r.name = says[r.from][r.entity]
        /\ r.to = Open \/ r.to <= load.snapshot

Disjoint ==
    \A q, r \in rows : q.entity = r.entity => q = r \/ q.to <= r.from \/ r.to <= q.from

LoadedRead ==
    \A t \in loaded : t <= load.snapshot /\ \A e \in Entities : says[t][e] # Unlisted =>
        \E r \in rows : r.entity = e /\ Covers(r, t) /\ r.name = says[t][e]

LoadPlanned ==
    /\ load.close \subseteq load.insert
    /\ \A e \in load.insert : says[load.snapshot][e] # Unlisted
    /\ \A e \in Entities \ load.insert : says[load.snapshot][e] # Unlisted =>
          \E r \in Current : r.entity = e /\ r.name = says[load.snapshot][e]
    /\ \A r \in Current : r.entity \in load.insert =>
          /\ load.pc = "close" /\ r.entity \in load.close
          /\ r.name # says[load.snapshot][r.entity]

DInv ==
    /\ DimensionTypeOK
    /\ load.snapshot <= newest
    /\ RowsDated /\ Disjoint /\ LoadedRead
    /\ load.pc # "idle" => LoadPlanned

IInv == MInv /\ DInv

-----------------------------------------------------------------------------
(* Mentions: one lemma per action.                                          *)

(* Time passes: what is out of a window stays out.                          *)
LEMMA TickKeeps == MInv /\ MentionsTick => MInv'
<1> SUFFICES ASSUME MInv, MentionsTick PROVE MInv'
  OBVIOUS
<1>1. MentionsTypeOK'
  BY DEF MInv, MentionsTypeOK, MentionsTick
<1>2. \A p \in resolved' :
          /\ published'[p] # Absent /\ published'[p] < tick'
          /\ tick' - Window <= published'[p] => \E m \in mentions' : m.page = p
  BY MentionsAssumption DEF MInv, MentionsTypeOK, MentionsTick, Absent
<1>3. \A u \in Nat : ReadAt(u) => ReadAt(u)'
  BY DEF MInv, MentionsTypeOK, MentionsTick, ReadAt
<1>4. RowsFaithful => RowsFaithful'
  BY DEF MentionsTick, RowsFaithful
<1> QED
  BY <1>1, <1>2, <1>3, <1>4 DEF MInv, MentionsTick

(* An article that arrives was in nobody's window.                          *)
LEMMA NormalizedKeeps == MInv /\ (\E p \in Pages : Normalized(p)) => MInv'
<1> SUFFICES ASSUME MInv, NEW p \in Pages, Normalized(p) PROVE MInv'
  OBVIOUS
<1> PICK t \in 0..(tick + 1) : published' = [published EXCEPT ![p] = t]
  BY DEF Normalized
<1>1. MentionsTypeOK'
  BY DEF MInv, MentionsTypeOK, Normalized
<1>2. \A q \in Pages : published[q] # Absent => published'[q] = published[q]
  BY DEF MInv, MentionsTypeOK, Normalized
<1>3. \A m \in mentions : m.page \in Pages /\ m.at # Absent
  BY DEF MInv, MentionsTypeOK, Absent
<1>4. ASSUME resolver.pc = "write" PROVE RowsFaithful'
  <2>1. RowsFaithful /\ \E u \in Nat : ReadAt(u)
    BY <1>4 DEF MInv
  <2> QED
    BY <2>1, <1>2 DEF MInv, MentionsTypeOK, RowsFaithful, ReadAt, Normalized
<1>5. ASSUME NEW u \in Nat, ReadAt(u) PROVE ReadAt(u)'
  BY <1>2, <1>5 DEF MInv, MentionsTypeOK, ReadAt, Normalized
<1> QED
  BY <1>1, <1>2, <1>3, <1>4, <1>5 DEF MInv, MentionsTypeOK, Normalized

(* Another dictionary changes no row that is there.                         *)
LEMMA DictionaryKeeps == MInv /\ NewDictionary => MInv'
  BY DEF MInv, MentionsTypeOK, NewDictionary, ReadAt, RowsFaithful

(* A run reads now: whatever was resolved and is in a window is in its own. *)
LEMMA ResolveKeeps == MInv /\ Resolve => MInv'
<1> SUFFICES ASSUME MInv, Resolve PROVE MInv'
  OBVIOUS
<1> DEFINE read == {p \in Arrived : InWindow(published[p], tick)}
           new == {[page |-> p, at |-> published[p], dictionary |-> dictionary] : p \in read}
<1>1. resolver' = [pc |-> "write", read |-> read, rows |-> new]
  BY DEF Resolve
<1>2. read \subseteq Pages /\ \A p \in read : published[p] \in Nat
  BY DEF Arrived, MInv, MentionsTypeOK
<1>3. new \subseteq [page : Pages, at : Nat, dictionary : Nat]
  BY <1>2 DEF MInv, MentionsTypeOK
<1>4. MentionsTypeOK'
  <2> HIDE DEF read, new
  <2> QED
    BY <1>1, <1>2, <1>3 DEF MInv, MentionsTypeOK, Resolve
<1>5. RowsFaithful'
  BY <1>1 DEF RowsFaithful, Resolve
<1>6. ReadAt(tick)'
  <2>1. ASSUME NEW p \in read PROVE \E r \in new : r.page = p
    <3> DEFINE r == [page |-> p, at |-> published[p], dictionary |-> dictionary]
    <3> r \in new /\ r.page = p
      OBVIOUS
    <3> QED
      BY DEF new
  <2>2. \A p \in read : /\ published[p] # Absent
                        /\ tick - Window <= published[p] /\ published[p] < tick
    BY DEF Arrived, InWindow
  <2>3. \A p \in resolved :
            published[p] < tick /\ (tick - Window <= published[p] => p \in read)
    BY DEF MInv, MentionsTypeOK, Arrived, InWindow
  <2> HIDE DEF read, new
  <2> QED
    BY <1>1, <2>1, <2>2, <2>3 DEF ReadAt, Resolve, MInv, MentionsTypeOK
<1>7. tick' \in Nat
  BY <1>4 DEF MentionsTypeOK
<1> QED
  BY <1>4, <1>5, <1>6, <1>7 DEF MInv, Resolve

(* Whoever the write drops from a day is rewritten by it, or is older than  *)
(* the window of the run and so than the window of every brief to come.     *)
LEMMA WriteKeeps == MInv /\ WriteMentions => MInv'
<1> SUFFICES ASSUME MInv, WriteMentions PROVE MInv'
  OBVIOUS
<1> DEFINE kept == {m \in mentions : \A r \in resolver.rows : Day(r.at) # Day(m.at)}
<1>1. mentions' = kept \cup resolver.rows
  BY DEF WriteMentions
<1>2. RowsFaithful /\ \E u \in Nat : ReadAt(u)
  BY DEF MInv, WriteMentions
<1>3. /\ resolver'.pc = "idle"
      /\ UNCHANGED <<tick, published, dictionary>>
      /\ resolved' = resolved \cup resolver.read
  BY DEF WriteMentions, MInv, MentionsTypeOK
<1>4. MentionsTypeOK'
  <2>1. resolver' \in [pc : {"idle", "write"}, read : SUBSET Pages,
                       rows : SUBSET [page : Pages, at : Nat, dictionary : Nat]]
    BY DEF WriteMentions, MInv, MentionsTypeOK
  <2> QED
    BY <2>1, <1>1, <1>3 DEF MInv, MentionsTypeOK
<1>5. \A m \in mentions' : m.at = published'[m.page]
  BY <1>1, <1>2, <1>3 DEF MInv, RowsFaithful
<1>6. \A m, n \in mentions' : m.page = n.page => m = n
  <2>1. \A m \in kept, n \in resolver.rows : m.page # n.page
    BY <1>2 DEF MInv, RowsFaithful
  <2> QED
    BY <2>1, <1>1, <1>2 DEF MInv, RowsFaithful
<1>7. ASSUME NEW p \in resolved'
      PROVE  /\ published[p] # Absent /\ published[p] < tick
             /\ tick - Window <= published[p] => \E m \in mentions' : m.page = p
  <2>1. PICK u \in Nat : ReadAt(u)
    BY <1>2
  <2>2. CASE p \in resolver.read
    <3>1. p \in Pages /\ published[p] \in Int /\ tick \in Nat
      BY <2>2 DEF MInv, MentionsTypeOK, Absent
    <3> QED
      BY <2>1, <2>2, <3>1, <1>1 DEF ReadAt
  <2>3. CASE p \in resolved
    <3>1. p \in Pages /\ published[p] \in Int /\ tick \in Nat
      BY <2>3 DEF MInv, MentionsTypeOK, Absent
    <3>2. published[p] # Absent /\ published[p] < tick
      BY <2>3 DEF MInv
    <3>3. tick - Window <= published[p] => p \in resolver.read
      BY <2>1, <2>3, <3>1, MentionsAssumption DEF ReadAt
    <3> QED
      BY <2>2, <3>2, <3>3
  <2> QED
    BY <2>2, <2>3, <1>3
<1> HIDE DEF kept
<1> QED
  BY <1>3, <1>4, <1>5, <1>6, <1>7 DEF MInv

(* A run that dies has written nothing.                                     *)
LEMMA ResolverDiesKeeps == MInv /\ ResolverDies => MInv'
  BY DEF MInv, MentionsTypeOK, ResolverDies

(* The mentions in every state.                                             *)
LEMMA MentionsInductive == MInv /\ MentionsNext => MInv'
  BY TickKeeps, NormalizedKeeps, DictionaryKeeps, ResolveKeeps, WriteKeeps,
     ResolverDiesKeeps DEF MentionsNext

-----------------------------------------------------------------------------
(* The dimension: one lemma per action.                                     *)

(* A snapshot is committed: no row changes.                                 *)
LEMMA SnapshotKeeps == DInv /\ NewSnapshot => DInv'
<1> SUFFICES ASSUME DInv, NewSnapshot PROVE DInv'
  OBVIOUS
<1>1. DimensionTypeOK' /\ (load.snapshot <= newest)'
  BY DimensionAssumption DEF DInv, DimensionTypeOK, NewSnapshot
<1>2. /\ RowsDated' /\ Disjoint' /\ LoadedRead'
      /\ load.pc # "idle" => LoadPlanned'
  BY DEF DInv, NewSnapshot, RowsDated, Disjoint, LoadedRead, LoadPlanned,
         Current, Covers
<1> QED
  BY <1>1, <1>2 DEF DInv, NewSnapshot

(* A load compares: it will close the current rows that say something else, *)
(* and insert for every listed entity without one that says the same.       *)
LEMMA BeginKeeps == DInv /\ BeginLoad => DInv'
<1> SUFFICES ASSUME DInv, BeginLoad PROVE DInv'
  OBVIOUS
<1> DEFINE listed == {e \in Entities : says[newest][e] # Unlisted}
           same == {r.entity : r \in {q \in Current : q.name = says[newest][q.entity]}}
           known == {r.entity : r \in Current}
<1>1. /\ load' = [pc |-> "close", snapshot |-> newest,
                  close |-> (listed \cap known) \ same, insert |-> listed \ same]
      /\ UNCHANGED <<says, newest, rows, loaded>>
  BY DEF BeginLoad
<1>2. Current' = Current /\ Current \subseteq rows
  BY <1>1 DEF Current
<1>3. \A e \in same : \E r \in Current : r.entity = e /\ r.name = says[newest][e]
  OBVIOUS
<1>4. \A r \in Current : r.entity \in known
  OBVIOUS
<1>5. \A r \in Current : r.name = says[newest][r.entity] => r.entity \in same
  OBVIOUS
<1>6. listed = {e \in Entities : says[newest][e] # Unlisted}
  OBVIOUS
<1> HIDE DEF listed, same, known
<1>7. DimensionTypeOK' /\ (load.snapshot <= newest)'
  BY <1>1, <1>6 DEF DInv, DimensionTypeOK
<1>8. RowsDated'
  BY <1>1 DEF DInv, DimensionTypeOK, RowsDated, Rows, Open
<1>9. Disjoint' /\ LoadedRead'
  BY <1>1 DEF DInv, DimensionTypeOK, Disjoint, LoadedRead, Covers
<1>10. LoadPlanned'
  <2>1. \A e \in Entities \ (listed \ same) : says[newest][e] # Unlisted =>
            \E r \in Current : r.entity = e /\ r.name = says[newest][e]
    BY <1>3, <1>6
  <2>2. \A r \in Current : r.entity \in listed \ same =>
            r.entity \in (listed \cap known) \ same /\ r.name # says[newest][r.entity]
    BY <1>4, <1>5
  <2> QED
    BY <1>1, <1>2, <1>6, <2>1, <2>2 DEF LoadPlanned
<1> QED
  BY <1>7, <1>8, <1>9, <1>10 DEF DInv

(* What is closed said something else, so its snapshot is an older one: it  *)
(* ends after it began, and the reads before its end still find it.         *)
LEMMA CloseKeeps == DInv /\ Close => DInv'
<1> SUFFICES ASSUME DInv, Close PROVE DInv'
  OBVIOUS
<1> DEFINE Ended(r) == r \in Current /\ r.entity \in load.close
           After(r) == IF Ended(r) THEN [entity |-> r.entity, name |-> r.name,
                                         from |-> r.from, to |-> load.snapshot]
                       ELSE r
<1>1. /\ rows' = {After(r) : r \in rows}
      /\ load' = [pc |-> "append", snapshot |-> load.snapshot,
                  close |-> load.close, insert |-> load.insert]
      /\ UNCHANGED <<says, newest, loaded>>
      /\ load.pc = "close"
  BY DEF Close
<1>2. /\ DimensionTypeOK /\ LoadPlanned /\ RowsDated /\ Disjoint /\ LoadedRead
      /\ load.snapshot \in 1..MaxSnapshot /\ rows \subseteq Rows
      /\ load.snapshot <= newest
  BY <1>1 DEF DInv, DimensionTypeOK
<1>3. ASSUME NEW r \in rows
      PROVE  /\ After(r) \in Rows
             /\ After(r).entity = r.entity /\ After(r).name = r.name
             /\ After(r).from = r.from
             /\ ~ Ended(r) => After(r) = r
             /\ Ended(r) => /\ After(r).to = load.snapshot /\ r.to = Open
                            /\ r.name # says[load.snapshot][r.entity]
                            /\ r.from < load.snapshot
  <2>1. CASE Ended(r)
    <3>1. After(r) = [entity |-> r.entity, name |-> r.name, from |-> r.from,
                      to |-> load.snapshot]
      BY <2>1
    <3>2. r.to = Open /\ r.name # says[load.snapshot][r.entity]
      BY <1>2, <2>1 DEF LoadPlanned, Current
    <3>3. r.from < load.snapshot
      BY <1>2, <3>2 DEF RowsDated, Rows
    <3> HIDE DEF After, Ended
    <3>4. After(r) \in Rows
      <4>1. /\ r.entity \in Entities /\ r.name \in Names /\ r.from \in 1..MaxSnapshot
            /\ load.snapshot \in 1..(MaxSnapshot + 1)
        BY <1>2, DimensionAssumption DEF Rows
      <4> QED
        BY <3>1, <4>1 DEF Rows
    <3> QED
      BY <2>1, <3>1, <3>2, <3>3, <3>4
  <2>2. CASE ~ Ended(r)
    BY <1>2, <2>2
  <2> QED
    BY <2>1, <2>2
<1>4. \A s \in rows' : \E r \in rows : s = After(r)
  BY <1>1
<1>5. \A r \in rows : After(r) \in rows'
  BY <1>1
<1>6. \A r \in rows : ~ Ended(r) => r \notin Current \/ r.entity \notin load.close
  OBVIOUS
<1>7. \A r \in rows : Ended(r) => r.entity \in load.close
  OBVIOUS
<1> HIDE DEF After, Ended
<1>8. DimensionTypeOK'
  <2>1. rows' \subseteq Rows
    BY <1>3, <1>4
  <2> QED
    BY <1>1, <1>2, <2>1 DEF DimensionTypeOK
<1>9. RowsDated'
  <2> SUFFICES ASSUME NEW s \in rows'
               PROVE  /\ s.from < s.to /\ s.from <= load.snapshot
                      /\ s.name = says[s.from][s.entity]
                      /\ s.to = Open \/ s.to <= load.snapshot
    BY <1>1 DEF RowsDated, Open
  <2> PICK r \in rows : s = After(r)
    BY <1>4
  <2> QED
    BY <1>2, <1>3 DEF RowsDated, Rows
<1>10. Disjoint'
  <2> SUFFICES ASSUME NEW s \in rows', NEW z \in rows', s.entity = z.entity
               PROVE  s = z \/ s.to <= z.from \/ z.to <= s.from
    BY DEF Disjoint
  <2>1. PICK q \in rows : s = After(q)
    BY <1>4
  <2>2. PICK r \in rows : z = After(r)
    BY <1>4
  <2>3. q = r \/ q.to <= r.from \/ r.to <= q.from
    BY <1>2, <1>3, <2>1, <2>2 DEF Disjoint
  <2>4. s.to <= q.to /\ z.to <= r.to
    BY <1>2, <1>3, <2>1, <2>2 DEF Rows, Open
  <2>5. s.from = q.from /\ z.from = r.from
    BY <1>3, <2>1, <2>2
  <2>6. /\ q \in Rows /\ r \in Rows /\ s \in Rows /\ z \in Rows
    BY <1>2, <1>3, <2>1, <2>2
  <2> QED
    BY <2>1, <2>2, <2>3, <2>4, <2>5, <2>6 DEF Rows
<1>11. LoadedRead'
  <2> SUFFICES ASSUME NEW t \in loaded, NEW e \in Entities, says[t][e] # Unlisted
               PROVE  \E s \in rows' : s.entity = e /\ Covers(s, t) /\ s.name = says[t][e]
    BY <1>1, <1>2 DEF LoadedRead, Covers
  <2>1. PICK r \in rows : r.entity = e /\ Covers(r, t) /\ r.name = says[t][e]
    BY <1>2 DEF LoadedRead
  <2>2. t <= load.snapshot /\ t \in 1..MaxSnapshot
    BY <1>2 DEF LoadedRead, DimensionTypeOK
  <2>3. Covers(After(r), t)
    <3>1. CASE Ended(r)
      <4>1. t < load.snapshot
        BY <1>2, <1>3, <2>1, <2>2, <3>1
      <4> QED
        BY <1>3, <2>1, <3>1, <4>1 DEF Covers
    <3>2. CASE ~ Ended(r)
      BY <1>3, <2>1, <3>2
    <3> QED
      BY <3>1, <3>2
  <2> QED
    BY <1>3, <1>5, <2>1, <2>3
<1>12. LoadPlanned'
  <2>1. \A e \in Entities \ load.insert : says[load.snapshot][e] # Unlisted =>
            \E s \in Current' : s.entity = e /\ s.name = says[load.snapshot][e]
    <3> SUFFICES ASSUME NEW e \in Entities \ load.insert, says[load.snapshot][e] # Unlisted
                 PROVE  \E s \in Current' : s.entity = e /\ s.name = says[load.snapshot][e]
      OBVIOUS
    <3>1. PICK r \in Current : r.entity = e /\ r.name = says[load.snapshot][e]
      BY <1>2 DEF LoadPlanned
    <3>2. r \in rows /\ r.to = Open /\ ~ Ended(r)
      BY <1>2, <1>7, <3>1 DEF LoadPlanned, Current
    <3>3. r \in rows'
      BY <1>3, <1>5, <3>2
    <3> QED
      BY <3>1, <3>2, <3>3 DEF Current
  <2>2. \A s \in Current' : s.entity \notin load.insert
    <3> SUFFICES ASSUME NEW s \in rows', s.to = Open, s.entity \in load.insert
                 PROVE  FALSE
      BY DEF Current, Open
    <3>1. PICK r \in rows : s = After(r)
      BY <1>4
    <3>2. ~ Ended(r)
      BY <1>2, <1>3, <3>1, DimensionAssumption DEF Open
    <3>3. r \in Current /\ r.entity \in load.insert
      BY <1>3, <3>1, <3>2 DEF Current
    <3> QED
      BY <1>2, <1>6, <3>2, <3>3 DEF LoadPlanned
  <2> QED
    BY <1>1, <1>2, <2>1, <2>2 DEF LoadPlanned
<1> QED
  BY <1>1, <1>2, <1>8, <1>9, <1>10, <1>11, <1>12 DEF DInv

(* What is appended follows rows that have ended, and from there the table  *)
(* says what the snapshot said.                                             *)
LEMMA AppendKeeps == DInv /\ AppendRows => DInv'
<1> SUFFICES ASSUME DInv, AppendRows PROVE DInv'
  OBVIOUS
<1> DEFINE latest == load.snapshot
           new == {NewRow(e, says[latest][e], latest) : e \in load.insert}
<1>1. /\ rows' = rows \cup new
      /\ load' = [pc |-> "idle", snapshot |-> latest, close |-> {}, insert |-> {}]
      /\ loaded' = loaded \cup {latest}
      /\ UNCHANGED <<says, newest>>
      /\ load.pc = "append"
  BY DEF AppendRows
<1>2. /\ DimensionTypeOK /\ LoadPlanned /\ RowsDated /\ Disjoint /\ LoadedRead
      /\ latest \in 1..MaxSnapshot /\ rows \subseteq Rows /\ latest <= newest
      /\ load.insert \subseteq Entities
  BY <1>1 DEF DInv, DimensionTypeOK
<1>3. \A r \in new : /\ r.entity \in load.insert /\ r.from = latest /\ r.to = Open
                     /\ r.name = says[latest][r.entity]
                     /\ r = NewRow(r.entity, says[latest][r.entity], latest)
  BY DEF NewRow
<1>4. \A e \in load.insert : NewRow(e, says[latest][e], latest) \in new
  OBVIOUS
<1>5. new \subseteq Rows
  BY <1>2, DimensionAssumption DEF DimensionTypeOK, LoadPlanned, NewRow, Rows, Open
<1>6. \A r \in rows : r.entity \in load.insert => r.to <= latest
  BY <1>1, <1>2 DEF LoadPlanned, RowsDated, Current
<1>7. latest < Open /\ latest \in Int /\ Open \in Int
  BY <1>2, DimensionAssumption DEF Open
<1> HIDE DEF new
<1>8. DimensionTypeOK'
  BY <1>1, <1>2, <1>5 DEF DimensionTypeOK
<1>9. RowsDated'
  BY <1>1, <1>2, <1>3, <1>7 DEF RowsDated, Open
<1>10. Disjoint'
  BY <1>1, <1>2, <1>3, <1>6 DEF Disjoint
<1>11. LoadedRead'
  <2> SUFFICES ASSUME NEW t \in loaded'
               PROVE  /\ t <= latest
                      /\ \A e \in Entities : says[t][e] # Unlisted =>
                            \E r \in rows' : r.entity = e /\ Covers(r, t)
                                             /\ r.name = says[t][e]
    BY <1>1 DEF LoadedRead, Covers
  <2>1. CASE t \in loaded
    BY <1>1, <1>2, <2>1 DEF LoadedRead
  <2>2. CASE t = latest
    <3> SUFFICES ASSUME NEW e \in Entities, says[latest][e] # Unlisted
                 PROVE  \E r \in rows' : r.entity = e /\ Covers(r, latest)
                                         /\ r.name = says[latest][e]
      BY <1>7, <2>2
    <3>1. CASE e \in load.insert
      <4> DEFINE r == NewRow(e, says[latest][e], latest)
      <4>1. r \in rows'
        BY <1>1, <1>4, <3>1
      <4>2. r.entity = e /\ Covers(r, latest) /\ r.name = says[latest][e]
        BY <1>7 DEF NewRow, Covers
      <4> HIDE DEF r
      <4> QED
        BY <4>1, <4>2
    <3>2. CASE e \notin load.insert
      <4>1. PICK r \in Current : r.entity = e /\ r.name = says[latest][e]
        BY <1>2, <3>2 DEF LoadPlanned
      <4>2. r \in rows /\ r.to = Open
        BY DEF Current
      <4> QED
        BY <1>1, <1>2, <1>7, <4>1, <4>2 DEF RowsDated, Covers
    <3> QED
      BY <3>1, <3>2
  <2> QED
    BY <1>1, <2>1, <2>2
<1> QED
  BY <1>1, <1>2, <1>8, <1>9, <1>10, <1>11 DEF DInv

(* A load that dies leaves rows closed, or not.                             *)
LEMMA LoadDiesKeeps == DInv /\ LoadDies => DInv'
  BY DEF DInv, DimensionTypeOK, LoadDies, RowsDated, Disjoint, LoadedRead, Covers, Open

(* The dimension in every state.                                            *)
LEMMA DimensionInductive == DInv /\ DimensionNext => DInv'
  BY SnapshotKeeps, BeginKeeps, CloseKeeps, AppendKeeps, LoadDiesKeeps
     DEF DimensionNext

-----------------------------------------------------------------------------

LEMMA ResolutionBase == ResolutionInit => IInv
<1> SUFFICES ASSUME ResolutionInit PROVE IInv
  OBVIOUS
<1>1. MInv
  BY DEF ResolutionInit, MentionsInit, MInv, MentionsTypeOK, Absent, Idle
<1>2. DInv
  BY DimensionAssumption
     DEF ResolutionInit, DimensionInit, DInv, DimensionTypeOK, RowsDated,
         Disjoint, LoadedRead
<1> QED
  BY <1>1, <1>2 DEF IInv

LEMMA ResolutionInductive == IInv /\ [ResolutionNext]_resolutionVars => IInv'
<1> SUFFICES ASSUME IInv, [ResolutionNext]_resolutionVars PROVE IInv'
  OBVIOUS
<1>1. ASSUME UNCHANGED mentionsVars PROVE MInv'
  BY <1>1 DEF IInv, MInv, MentionsTypeOK, RowsFaithful, ReadAt, mentionsVars
<1>2. ASSUME UNCHANGED dimensionVars PROVE DInv'
  BY <1>2 DEF IInv, DInv, DimensionTypeOK, RowsDated, Disjoint, LoadedRead,
              LoadPlanned, Current, Covers, dimensionVars
<1> QED
  BY <1>1, <1>2, MentionsInductive, DimensionInductive
     DEF IInv, ResolutionNext, resolutionVars

(* Type correctness of the mentions and of the dimension.                   *)
THEOREM ResolutionTypeCorrect == ResolutionSpec => []ResolutionTypeOK
<1>1. IInv => ResolutionTypeOK
  BY DEF IInv, MInv, DInv, ResolutionTypeOK
<1> QED
  BY ResolutionBase, ResolutionInductive, <1>1, PTL DEF ResolutionSpec

(* A brief finds the mentions of every article of its window that was ever  *)
(* resolved, and an as-of read finds what the snapshot of its day said,     *)
(* whatever resolve.py was interrupted in and whatever arrived late.        *)
THEOREM ResolutionTrue == ResolutionSpec => []ResolveTrue
<1>1. IInv => MentionsStay
  BY DEF IInv, MInv, MentionsTypeOK, MentionsStay, Wanted, Readable
<1>2. IInv => HistoryTrue
  <2> SUFFICES ASSUME DInv PROVE HistoryTrue
    BY DEF IInv
  <2>1. \A q, r \in rows : \A t \in 1..(MaxSnapshot + 1) :
            q.entity = r.entity /\ Covers(q, t) /\ Covers(r, t) => q = r
    BY DEF DInv, DimensionTypeOK, Disjoint, Covers, Rows
  <2> QED
    BY <2>1 DEF DInv, LoadedRead, HistoryTrue
<1>3. IInv => ResolveTrue
  BY <1>1, <1>2 DEF ResolveTrue
<1> QED
  BY ResolutionBase, ResolutionInductive, <1>3, PTL DEF ResolutionSpec

-----------------------------------------------------------------------------
(* Linking.                                                                *)

(* A proposal that can be weighed in dictionary d, its alias no longer than*)
(* top.                                                                    *)
Weighed(d, x, top) ==
    /\ x.confidence \in Int /\ x.confidence <= 100
    /\ x.alias \in Int /\ x.alias <= top
    /\ Prominence(d, x.id) \in Nat
    /\ x.order \in Nat

LEMMA StrongerIs ==
    ASSUME NEW d, NEW top \in Int, NEW a, NEW b, Weighed(d, a, top), Weighed(d, b, top)
    PROVE  Stronger(d, a, b) <=>
              \/ a.confidence > b.confidence
              \/ a.confidence = b.confidence /\ a.alias > b.alias
              \/ /\ a.confidence = b.confidence /\ a.alias = b.alias
                 /\ Prominence(d, a.id) < Prominence(d, b.id)
              \/ /\ a.confidence = b.confidence /\ a.alias = b.alias
                 /\ Prominence(d, a.id) = Prominence(d, b.id) /\ a.order <= b.order
<1> DEFINE Weight(x) == <<-x.confidence, -x.alias, Prominence(d, x.id), x.order>>
           ka == Weight(a)
           kb == Weight(b)
<1>1. Stronger(d, a, b) <=>
          ka = kb \/ \E i \in 1..4 : ka[i] < kb[i] /\ \A j \in 1..(i - 1) : ka[j] = kb[j]
    BY DEF Stronger
<1>2. /\ ka[1] = -a.confidence /\ ka[2] = -a.alias
      /\ ka[3] = Prominence(d, a.id) /\ ka[4] = a.order
      /\ kb[1] = -b.confidence /\ kb[2] = -b.alias
      /\ kb[3] = Prominence(d, b.id) /\ kb[4] = b.order
    OBVIOUS
<1>3. ka = kb <=> /\ ka[1] = kb[1] /\ ka[2] = kb[2] /\ ka[3] = kb[3] /\ ka[4] = kb[4]
    OBVIOUS
<1> HIDE DEF ka, kb
<1>4. (\E i \in 1..4 : ka[i] < kb[i] /\ \A j \in 1..(i - 1) : ka[j] = kb[j]) <=>
          \/ ka[1] < kb[1]
          \/ ka[2] < kb[2] /\ ka[1] = kb[1]
          \/ ka[3] < kb[3] /\ ka[1] = kb[1] /\ ka[2] = kb[2]
          \/ ka[4] < kb[4] /\ ka[1] = kb[1] /\ ka[2] = kb[2] /\ ka[3] = kb[3]
    <2>1. 1..4 = {1, 2, 3, 4} /\ 1..(1 - 1) = {} /\ 1..(2 - 1) = {1}
          /\ 1..(3 - 1) = {1, 2} /\ 1..(4 - 1) = {1, 2, 3}
        OBVIOUS
    <2>2. (\E i \in {1, 2, 3, 4} : ka[i] < kb[i] /\ \A j \in 1..(i - 1) : ka[j] = kb[j]) <=>
             \/ ka[1] < kb[1] /\ \A j \in 1..(1 - 1) : ka[j] = kb[j]
             \/ ka[2] < kb[2] /\ \A j \in 1..(2 - 1) : ka[j] = kb[j]
             \/ ka[3] < kb[3] /\ \A j \in 1..(3 - 1) : ka[j] = kb[j]
             \/ ka[4] < kb[4] /\ \A j \in 1..(4 - 1) : ka[j] = kb[j]
        BY Zenon
    <2> QED
        BY <2>1, <2>2
<1> QED
    BY <1>1, <1>2, <1>3, <1>4 DEF Weighed

(* Something is strongest among any proposals whose aliases have a bound.  *)
LEMMA BestIs ==
    ASSUME NEW d, NEW S, S # {}, NEW top \in Int, \A x \in S : Weighed(d, x, top)
    PROVE  Best(d, S) \in S /\ \A b \in S : Stronger(d, Best(d, S), b)
<1> DEFINE c == [x \in S |-> 100 - x.confidence]
           l == [x \in S |-> top - x.alias]
           p == [x \in S |-> Prominence(d, x.id)]
           o == [x \in S |-> x.order]
<1>1. \A x \in S : /\ c[x] = 100 - x.confidence /\ l[x] = top - x.alias
                   /\ p[x] = Prominence(d, x.id) /\ o[x] = x.order
    OBVIOUS
<1>2. \A x \in S : c[x] \in Nat /\ l[x] \in Nat /\ p[x] \in Nat /\ o[x] \in Nat
    BY <1>1 DEF Weighed
<1> HIDE DEF c, l, p, o
<1>3. PICK w \in S : \A x \in S : c[w] <= c[x]
    BY <1>2, LeastValue
<1> DEFINE S1 == {x \in S : c[x] = c[w]}
<1>4. PICK v \in S1 : \A x \in S1 : l[v] <= l[x]
    BY <1>2, LeastValue, w \in S1
<1> DEFINE S2 == {x \in S1 : l[x] = l[v]}
<1>5. PICK u \in S2 : \A x \in S2 : p[u] <= p[x]
    BY <1>2, LeastValue, v \in S2
<1> DEFINE S3 == {x \in S2 : p[x] = p[u]}
<1>6. PICK a \in S3 : \A x \in S3 : o[a] <= o[x]
    BY <1>2, LeastValue, u \in S3
<1>7. ASSUME NEW b \in S PROVE Stronger(d, a, b)
    <2>1. c[a] < c[b] \/ (c[a] = c[b] /\ b \in S1)
        BY <1>2, <1>3, <1>6
    <2>2. b \in S1 => l[a] < l[b] \/ (l[a] = l[b] /\ b \in S2)
        BY <1>2, <1>4, <1>6
    <2>3. b \in S2 => p[a] < p[b] \/ (p[a] = p[b] /\ b \in S3)
        BY <1>2, <1>5, <1>6
    <2>4. b \in S3 => o[a] <= o[b]
        BY <1>6
    <2>5. \/ c[a] < c[b]
          \/ c[a] = c[b] /\ l[a] < l[b]
          \/ c[a] = c[b] /\ l[a] = l[b] /\ p[a] < p[b]
          \/ c[a] = c[b] /\ l[a] = l[b] /\ p[a] = p[b] /\ o[a] <= o[b]
        BY <2>1, <2>2, <2>3, <2>4
    <2>6. Weighed(d, a, top) /\ Weighed(d, b, top) /\ a \in S
        BY <1>6
    <2>7. /\ c[a] = 100 - a.confidence /\ l[a] = top - a.alias
          /\ p[a] = Prominence(d, a.id) /\ o[a] = a.order
          /\ c[b] = 100 - b.confidence /\ l[b] = top - b.alias
          /\ p[b] = Prominence(d, b.id) /\ o[b] = b.order
        BY <1>1, <2>6
    <2>8. \/ a.confidence > b.confidence
          \/ a.confidence = b.confidence /\ a.alias > b.alias
          \/ /\ a.confidence = b.confidence /\ a.alias = b.alias
             /\ Prominence(d, a.id) < Prominence(d, b.id)
          \/ /\ a.confidence = b.confidence /\ a.alias = b.alias
             /\ Prominence(d, a.id) = Prominence(d, b.id) /\ a.order <= b.order
        BY <2>5, <2>6, <2>7 DEF Weighed
    <2> QED
        BY <2>6, <2>8, StrongerIs
<1> QED
    BY <1>6, <1>7 DEF Best

(* The letters of a name can be counted, and a longer beginning of it has  *)
(* no fewer.                                                               *)
LettersOf(s) == UNION {{i} \X (1..Letters[s[i]]) : i \in DOMAIN s}

LEMMA LettersFinite ==
    ASSUME NEW s \in Seq(DOMAIN Letters)
    PROVE  IsFiniteSet(LettersOf(s)) /\ Size(s) \in Nat
<1> DEFINE f == [i \in DOMAIN s |-> {i} \X (1..Letters[s[i]])]
<1>1. \A i \in DOMAIN s : IsFiniteSet(f[i])
    <2> TAKE i \in DOMAIN s
    <2>1. Letters[s[i]] \in Nat
        <3>1. s[i] \in DOMAIN Letters
            OBVIOUS
        <3> QED
            BY <3>1, LinkingAssumption DEF LinkingAssumption
    <2>2. IsFiniteSet({i})
        BY FS_Singleton
    <2>3. IsFiniteSet(1..Letters[s[i]])
        <3>1. \A n \in Nat : IsFiniteSet(1..n)
            BY FS_Interval
        <3> QED
            BY <2>1, <3>1
    <2> QED
        BY <2>2, <2>3, FS_Product
<1>2. IsFiniteSet(DOMAIN s)
    <2>1. DOMAIN s = 1..Len(s) /\ Len(s) \in Nat
        OBVIOUS
    <2> QED
        BY <2>1, FS_Interval
<1>3. LettersOf(s) = UNION {f[i] : i \in DOMAIN s}
    BY DEF LettersOf
<1>4. IsFiniteSet(LettersOf(s))
    <2> HIDE DEF f
    <2>1. IsFiniteSet({f[i] : i \in DOMAIN s})
        BY <1>2, FiniteImage
    <2> QED
        BY <1>1, <1>3, <2>1, FS_UNION
<1> QED
    BY <1>4, FS_CardinalityType DEF Size, LettersOf

LEMMA SizeOfBeginning ==
    ASSUME NEW s \in Seq(DOMAIN Letters),
           NEW k \in 0..Len(s), NEW n \in 0..k
    PROVE  Size(SubSeq(s, 1, n)) <= Size(SubSeq(s, 1, k))
<1>1. /\ SubSeq(s, 1, n) \in Seq(DOMAIN Letters) /\ SubSeq(s, 1, k) \in Seq(DOMAIN Letters)
      /\ DOMAIN SubSeq(s, 1, n) = 1..n /\ DOMAIN SubSeq(s, 1, k) = 1..k
      /\ \A i \in 1..n : SubSeq(s, 1, n)[i] = s[i]
      /\ \A i \in 1..k : SubSeq(s, 1, k)[i] = s[i]
    OBVIOUS
<1>2. \A i \in 1..n : i \in 1..k
    OBVIOUS
<1>3. LettersOf(SubSeq(s, 1, n)) \subseteq LettersOf(SubSeq(s, 1, k))
    <2> DEFINE Lines(q) == {{i} \X (1..Letters[q[i]]) : i \in DOMAIN q}
               a == SubSeq(s, 1, n)
               b == SubSeq(s, 1, k)
    <2>1. \A i \in DOMAIN a : i \in DOMAIN b /\ a[i] = b[i]
        BY <1>1, <1>2
    <2>2. Lines(a) \subseteq Lines(b)
        <3> HIDE DEF a, b
        <3> QED
            BY <2>1
    <2> QED
        BY <2>2 DEF LettersOf
<1> QED
    BY <1>1, <1>3, LettersFinite, FS_Subset, FS_CardinalityType DEF Size, LettersOf

-----------------------------------------------------------------------------
(* The dictionary.                                                         *)

(* A company of dictionary d is listed, or bears an id no listed one has.  *)
Listing(r, i) ==
    [id |-> <<r[i].ticker>>, cik |-> r[i].cik, rank |-> i, names |-> {r[i].name}]

DictionaryOK(d, r) ==
    /\ IsFiniteSet(d)
    /\ \A e \in d :
          \/ \E i \in DOMAIN r : /\ e.id = <<r[i].ticker>> /\ e.cik = r[i].cik
                                 /\ e.rank = i
                                 /\ \A k \in 1..(i - 1) : r[k].cik # r[i].cik
          \/ /\ e.cik = Unknown /\ e.rank = Unknown
             /\ \A i \in DOMAIN r : e.id # <<r[i].ticker>>
    /\ \A i \in DOMAIN r : (\A k \in 1..(i - 1) : r[k].cik # r[i].cik) =>
          \E e \in d : e.id = <<r[i].ticker>> /\ e.cik = r[i].cik

(* The images of the members of a sequence are finite.                     *)
LEMMA FiniteOfSequence ==
    ASSUME NEW T, NEW s \in Seq(T), NEW D, D \subseteq DOMAIN s, NEW f
    PROVE  IsFiniteSet({f[i] : i \in D})
<1>1. DOMAIN s = 1..Len(s) /\ Len(s) \in Nat
    OBVIOUS
<1>2. IsFiniteSet(D)
    <2>1. IsFiniteSet(1..Len(s)) /\ D \in SUBSET (1..Len(s))
        BY <1>1, FS_Interval
    <2> QED
        BY <2>1, FS_Subset
<1> QED
    BY <1>2, FiniteImage

LEMMA DictionaryMade ==
    ASSUME NEW r \in Registers, NEW g \in Gazettes
    PROVE  DictionaryOK(Merged(r, g), r)
<1> DEFINE listed == Listed(r)
           items == Seen(g)
           Same(row) == Denoted(listed, row.label)
           Parent(row) == UNION {Denoted(listed, p.label) :
                                    p \in {q \in items : q.item = row.parent}}
           Extra(e) ==
               UNION {row.aliases : row \in {x \in items : e.id \in Same(x)}}
               \cup UNION {NamesOf(row) : row \in {x \in items :
                                            Same(x) = {} /\ e.id \in Parent(x)}}
           Taken(e) == [e EXCEPT !.names = @ \cup Extra(e)]
           own == {x \in items : Same(x) = {} /\ Parent(x) = {}}
           Itself(row) == [id |-> Stripped(row.label), cik |-> Unknown,
                           rank |-> Unknown, names |-> NamesOf(row)]
<1>1. Merged(r, g) = {Taken(e) : e \in listed} \cup {Itself(row) : row \in own}
    BY DEF Merged
<1>2. r \in Seq({r[i] : i \in DOMAIN r}) /\ g \in Seq({g[i] : i \in DOMAIN g})
    BY LinkingAssumption DEF LinkingAssumption
<1> DEFINE heads == {j \in DOMAIN r : \A k \in 1..(j - 1) : r[k].cik # r[j].cik}
           firsts == {j \in DOMAIN g : \A k \in 1..(j - 1) : g[k].item # g[j].item}
<1>3. listed = {Listing(r, i) : i \in heads} /\ items = {g[j] : j \in firsts}
    BY DEF Listed, Seen, Listing
<1>4. IsFiniteSet(listed) /\ IsFiniteSet(items)
    <2> DEFINE f == [i \in heads |-> Listing(r, i)]
    <2>1. {f[i] : i \in heads} = listed
        BY <1>3
    <2>2. IsFiniteSet({f[i] : i \in heads})
        <3> HIDE DEF f
        <3> QED
            BY <1>2, FiniteOfSequence
    <2>3. IsFiniteSet({g[j] : j \in firsts})
        BY <1>2, FiniteOfSequence
    <2> QED
        BY <1>3, <2>1, <2>2, <2>3
<1>5. IsFiniteSet({Taken(e) : e \in listed}) /\ IsFiniteSet({Itself(row) : row \in own})
    <2> DEFINE f == [e \in listed |-> Taken(e)]
               h == [row \in own |-> Itself(row)]
    <2>1. IsFiniteSet(own)
        BY <1>4, FS_Subset
    <2>2. {f[e] : e \in listed} = {Taken(e) : e \in listed}
          /\ {h[row] : row \in own} = {Itself(row) : row \in own}
        <3> HIDE DEF Taken, Itself, listed, own
        <3> QED
            OBVIOUS
    <2>3. IsFiniteSet({f[e] : e \in listed}) /\ IsFiniteSet({h[row] : row \in own})
        <3> HIDE DEF f, h, own, listed
        <3> QED
            BY <1>4, <2>1, FiniteImage
    <2> QED
        BY <2>2, <2>3
<1>6. IsFiniteSet(Merged(r, g))
    <2> HIDE DEF Taken, Itself, listed, own
    <2> QED
        BY <1>1, <1>5, FS_Union
<1>7. ASSUME NEW i \in heads
      PROVE  /\ Taken(Listing(r, i)).id = <<r[i].ticker>>
             /\ Taken(Listing(r, i)).cik = r[i].cik /\ Taken(Listing(r, i)).rank = i
    <2> HIDE DEF Extra
    <2> QED
        BY DEF Listing
<1>8. ASSUME NEW row \in own
      PROVE  /\ Itself(row).cik = Unknown /\ Itself(row).rank = Unknown
             /\ \A i \in DOMAIN r : Itself(row).id # <<r[i].ticker>>
    <2>1. PICK j \in DOMAIN g : row = g[j]
        <3>1. row \in items
            OBVIOUS
        <3> QED
            BY <1>3, <3>1
    <2>2. Itself(row).id = Stripped(row.label)
        OBVIOUS
    <2>3. \A i \in DOMAIN r : Stripped(g[j].label) # <<r[i].ticker>>
        BY LinkingAssumption DEF LinkingAssumption
    <2> QED
        BY <2>1, <2>2, <2>3
<1>9. ASSUME NEW e \in Merged(r, g)
      PROVE  \/ \E i \in heads : e.id = <<r[i].ticker>> /\ e.cik = r[i].cik /\ e.rank = i
             \/ /\ e.cik = Unknown /\ e.rank = Unknown
                /\ \A i \in DOMAIN r : e.id # <<r[i].ticker>>
    <2> HIDE DEF Taken, Itself, listed, own, heads
    <2> QED
        BY <1>1, <1>3, <1>7, <1>8
<1>10. ASSUME NEW i \in heads
       PROVE  \E e \in Merged(r, g) : e.id = <<r[i].ticker>> /\ e.cik = r[i].cik
    <2> HIDE DEF Taken, Itself, listed, own, heads
    <2> QED
        BY <1>1, <1>3, <1>7
<1> HIDE DEF Taken, Itself, listed, own
<1> QED
    BY <1>6, <1>9, <1>10 DEF DictionaryOK

LEMMA ProminenceTyped ==
    ASSUME NEW d, NEW r, NEW T, r \in Seq(T), DictionaryOK(d, r), NEW id
    PROVE  Prominence(d, id) \in Nat
<1>1. CASE \E e \in d : e.id = id /\ e.rank # Unknown
    <2> DEFINE c == CHOOSE e \in d : e.id = id
    <2>1. c \in d /\ c.id = id
        BY <1>1
    <2>2. PICK i \in DOMAIN r : id = <<r[i].ticker>>
        BY <1>1 DEF DictionaryOK
    <2>3. c.rank \in DOMAIN r
        <3> HIDE DEF c
        <3> QED
            BY <2>1, <2>2 DEF DictionaryOK
    <2> QED
        BY <1>1, <2>3 DEF Prominence
<1>2. CASE ~ \E e \in d : e.id = id /\ e.rank # Unknown
    BY <1>2 DEF Prominence
<1> QED
    BY <1>1, <1>2

(* Who holds a CIK is decided by SEC's register alone.                     *)
LEMMA HolderIs ==
    ASSUME NEW d, NEW r, NEW T, r \in Seq(T), DictionaryOK(d, r), NEW cik,
           \A i \in DOMAIN r : r[i].cik # Unknown
    PROVE  LET listings == {i \in DOMAIN r : r[i].cik = cik}
           IN  /\ listings = {} => Holder(d, cik) = {}
               /\ listings # {} => Holder(d, cik) = {<<r[First(listings)].ticker>>}
<1> DEFINE listings == {i \in DOMAIN r : r[i].cik = cik}
<1>1. CASE listings = {}
    <2>1. \A e \in d : ~ (cik # Unknown /\ e.cik = cik)
        BY <1>1 DEF DictionaryOK
    <2> QED
        BY <1>1, <2>1 DEF Holder
<1>2. CASE listings # {}
    <2> DEFINE f == [i \in listings |-> i]
               one == First(listings)
    <2>0. DOMAIN r = 1..Len(r) /\ Len(r) \in Nat
        OBVIOUS
    <2>1. one \in listings /\ \A j \in listings : one <= j
        <3>1. \A i \in listings : f[i] \in Nat /\ f[i] = i
            BY <2>0
        <3>2. \E i \in listings : \A j \in listings : f[i] <= f[j]
            <4> HIDE DEF f, listings
            <4> QED
                BY <1>2, <3>1, LeastValue
        <3> QED
            BY <3>1, <3>2 DEF First
    <2> HIDE DEF one
    <2>2. \A k \in 1..(one - 1) : r[k].cik # r[one].cik
        <3> SUFFICES ASSUME NEW k \in 1..(one - 1), r[k].cik = r[one].cik PROVE FALSE
            OBVIOUS
        <3>1. k \in listings
            BY <2>0, <2>1
        <3> QED
            BY <2>0, <2>1, <3>1
    <2>3. cik # Unknown /\ r[one].cik = cik
        BY <2>1
    <2>4. PICK e \in d : e.id = <<r[one].ticker>> /\ e.cik = cik
        BY <2>1, <2>2, <2>3 DEF DictionaryOK
    <2>5. ASSUME NEW h \in d, h.cik = cik PROVE h.id = <<r[one].ticker>>
        <3>1. PICK i \in DOMAIN r : /\ h.id = <<r[i].ticker>> /\ h.cik = r[i].cik
                                    /\ \A k \in 1..(i - 1) : r[k].cik # r[i].cik
            BY <2>3, <2>5 DEF DictionaryOK
        <3>2. i \in listings
            BY <2>5, <3>1
        <3>3. i = one
            BY <2>0, <2>1, <2>3, <3>1, <3>2
        <3> QED
            BY <3>1, <3>3
    <2>6. Holder(d, cik) = {<<r[one].ticker>>}
        BY <2>3, <2>4, <2>5 DEF Holder
    <2> QED
        BY <1>2, <2>6 DEF one
<1> QED
    BY <1>1, <1>2

-----------------------------------------------------------------------------
(* What is proposed.                                                       *)

(* What is decided of: a span, with a dictionary.                          *)
Decidable(d, m) ==
    /\ IsFiniteSet(d) /\ \A id : Prominence(d, id) \in Nat
    /\ m.span \in Seq(DOMAIN Letters)

(* The first n words of a span are the whole name of one company alone.    *)
Heads(d, m, n, id) ==
    /\ n \in 1..Len(m.span)
    /\ Completes(d, SubSeq(m.span, 1, n)) = {id}
    /\ Size(SubSeq(m.span, 1, n)) >= MinAliasLetters
    /\ n = 1 => m.span[1] \notin CommonWords

LEMMA GramTyped ==
    ASSUME NEW s \in Seq(DOMAIN Letters), NEW g \in Grams(s),
           NEW gram, gram = SubSeq(s, g[1], g[2])
    PROVE  /\ g[1] \in 1..Len(s) /\ g[2] \in 1..Len(s) /\ g[1] <= g[2]
           /\ Len(gram) = g[2] - g[1] + 1 /\ gram[1] = s[g[1]]
           /\ Size(gram) \in Nat /\ Alias(gram) \in Nat
<1>1. g[1] \in 1..Len(s) /\ g[2] \in 1..Len(s) /\ g[1] <= g[2]
    BY DEF Grams
<1>2. \A a, b \in 1..Len(s) : a <= b =>
          /\ SubSeq(s, a, b) \in Seq(DOMAIN Letters) /\ Len(SubSeq(s, a, b)) = b - a + 1
          /\ SubSeq(s, a, b)[1] = s[a]
    OBVIOUS
<1>3. /\ gram \in Seq(DOMAIN Letters)
      /\ Len(gram) = g[2] - g[1] + 1 /\ gram[1] = s[g[1]]
    BY <1>1, <1>2
<1>4. Size(gram) \in Nat
    BY <1>3, LettersFinite
<1>5. Len(gram) >= 1 /\ Len(gram) \in Nat
    BY <1>1, <1>3
<1> QED
    BY <1>1, <1>3, <1>4, <1>5 DEF Alias

(* One of a finite set is one alone.                                       *)
LEMMA OneAlone ==
    ASSUME NEW d, IsFiniteSet(d), NEW gram, Cardinality(Completes(d, gram)) = 1
    PROVE  \E id : Completes(d, gram) = {id}
<1> DEFINE those == {f \in d : \E n \in f.names : Stripped(n) = gram}
           f == [e \in those |-> e.id]
<1>1. IsFiniteSet(those)
    BY FS_Subset
<1>2. Completes(d, gram) = {f[e] : e \in those}
    BY DEF Completes
<1>3. IsFiniteSet(Completes(d, gram))
    <2> HIDE DEF f, those
    <2> QED
        BY <1>1, <1>2, FiniteImage
<1> QED
    BY <1>3, FS_Singleton

LEMMA ProposedIs ==
    ASSUME NEW d, NEW m, NEW gram, NEW from
    PROVE  /\ \A p \in Proposed(d, m, gram, from) :
                 /\ p.id \in Candidate(d, gram) /\ p.alias = Alias(gram)
                 /\ p.confidence = Evidence(d, m, gram, from, p.id)
                 /\ p.order = 1 + from + (Len(m.span) - Len(gram)) * Len(m.span)
           /\ \A id \in Candidate(d, gram) : \E p \in Proposed(d, m, gram, from) :
                 p.alias = Alias(gram) /\ p.confidence = Evidence(d, m, gram, from, id)
<1> DEFINE order == 1 + from + (Len(m.span) - Len(gram)) * Len(m.span)
           row == [id \in Candidate(d, gram) |->
                      [id |-> id, alias |-> Alias(gram),
                       confidence |-> Evidence(d, m, gram, from, id), order |-> order]]
<1>1. \A id \in Candidate(d, gram) :
          /\ row[id].id = id /\ row[id].alias = Alias(gram)
          /\ row[id].confidence = Evidence(d, m, gram, from, id)
          /\ row[id].order = order
    <2> HIDE DEF order
    <2> QED
        OBVIOUS
<1>2. Proposed(d, m, gram, from) = {row[id] : id \in Candidate(d, gram)}
    <2>1. \A id \in Candidate(d, gram) :
              row[id] = [id |-> id, alias |-> Alias(gram),
                         confidence |-> Evidence(d, m, gram, from, id), order |-> order]
        <3> HIDE DEF order
        <3> QED
            OBVIOUS
    <2> HIDE DEF row
    <2> QED
        BY <2>1, Zenon DEF Proposed
<1> HIDE DEF row
<1> QED
    BY <1>1, <1>2

LEMMA ProposalIs ==
    ASSUME NEW d, NEW m, NEW gram, NEW from, NEW p \in Proposed(d, m, gram, from)
    PROVE  /\ p.id \in Candidate(d, gram) /\ p.alias = Alias(gram)
           /\ p.confidence = Evidence(d, m, gram, from, p.id)
           /\ p.order = 1 + from + (Len(m.span) - Len(gram)) * Len(m.span)
    BY ProposedIs

LEMMA NameWeighed ==
    ASSUME NEW d, NEW m, Decidable(d, m),
           NEW p \in ByName(d, m)
    PROVE  /\ p.confidence \in Int /\ p.confidence <= 90 /\ p.order \in Nat
           /\ \E g \in Grams(m.span) : \E gram :
                 /\ gram = SubSeq(m.span, g[1], g[2]) /\ Size(gram) >= MinAliasLetters
                 /\ p \in Proposed(d, m, gram, g[1]) /\ p.alias = Alias(gram)
<1>0. m.span \in Seq(DOMAIN Letters)
    BY DEF Decidable
<1>1. PICK g \in Grams(m.span) :
          /\ Size(SubSeq(m.span, g[1], g[2])) >= MinAliasLetters
          /\ p \in Proposed(d, m, SubSeq(m.span, g[1], g[2]), g[1])
    BY DEF ByName
<1>2. PICK gram : gram = SubSeq(m.span, g[1], g[2])
    OBVIOUS
<1>3. /\ g[1] \in 1..Len(m.span) /\ g[2] \in 1..Len(m.span)
      /\ Len(gram) = g[2] - g[1] + 1 /\ g[1] <= g[2]
    BY <1>0, <1>2, GramTyped
<1>4. /\ p.alias = Alias(gram) /\ p.confidence = Evidence(d, m, gram, g[1], p.id)
      /\ p.order = 1 + g[1] + (Len(m.span) - Len(gram)) * Len(m.span)
    <2>1. p \in Proposed(d, m, gram, g[1])
        BY <1>1, <1>2
    <2> QED
        BY <2>1, ProposalIs
<1>5. p.confidence \in Int /\ p.confidence <= 90
    BY <1>4 DEF NameConfidence, Evidence
<1>6. p.order \in Nat
    <2>1. Len(m.span) - Len(gram) \in Nat /\ Len(m.span) \in Nat /\ g[1] \in Nat
        BY <1>0, <1>3
    <2>2. \A a, b, c \in Nat : 1 + c + a * b \in Nat
        OBVIOUS
    <2> QED
        BY <1>4, <2>1, <2>2
<1> QED
    BY <1>1, <1>2, <1>4, <1>5, <1>6

(* What a name can propose at or above the floor: the head of the span, or  *)
(* a common word that the context spells out.                              *)
LEMMA NameEarned ==
    ASSUME NEW d, NEW m, Decidable(d, m), NEW p \in ByName(d, m), p.confidence >= FLOOR
    PROVE  \/ /\ p.confidence = 85
              /\ \E i \in DOMAIN m.span : /\ m.span[i] \in CommonWords
                                          /\ Corroborated(d, m.context, p.id)
           \/ \E n \in 1..Len(m.span) :
                 /\ Heads(d, m, n, p.id)
                 /\ p.confidence = IF n = 1 THEN 80 ELSE 90
                 /\ p.alias = Size(SubSeq(m.span, 1, n)) + n - 1
<1>0. m.span \in Seq(DOMAIN Letters)
    BY DEF Decidable
<1>g. PICK g \in Grams(m.span) : \E gram :
          /\ gram = SubSeq(m.span, g[1], g[2]) /\ Size(gram) >= MinAliasLetters
          /\ p \in Proposed(d, m, gram, g[1])
    BY NameWeighed
<1>1. PICK gram :
          /\ gram = SubSeq(m.span, g[1], g[2]) /\ Size(gram) >= MinAliasLetters
          /\ p \in Proposed(d, m, gram, g[1])
    BY <1>g
<1>2. /\ g[1] \in 1..Len(m.span) /\ g[2] \in 1..Len(m.span) /\ g[1] <= g[2]
      /\ Len(gram) = g[2] - g[1] + 1 /\ gram[1] = m.span[g[1]]
    BY <1>0, <1>1, GramTyped
<1>3. /\ p.id \in Candidate(d, gram) /\ p.alias = Alias(gram)
      /\ p.confidence = Evidence(d, m, gram, g[1], p.id)
    BY <1>1, ProposalIs
<1>4. CASE Len(gram) = 1 /\ gram[1] \in CommonWords
    <2>1. p.confidence = 85 /\ Corroborated(d, m.context, p.id)
        BY <1>3, <1>4 DEF FLOOR, Evidence
    <2>2. g[1] \in DOMAIN m.span
        BY <1>0, <1>2
    <2> QED
        BY <1>2, <1>4, <2>1, <2>2
<1>5. CASE ~ (Len(gram) = 1 /\ gram[1] \in CommonWords)
    <2>1. p.confidence = NameConfidence(d, gram, g[1]) /\ p.confidence >= 72
        BY <1>3, <1>5 DEF Evidence, FLOOR
    <2>2. /\ Completes(d, gram) # {} /\ ~ (g[1] > 1)
          /\ p.confidence = IF Len(gram) = 1 THEN 80 ELSE 90
        BY <2>1 DEF NameConfidence
    <2>3. Cardinality(Completes(d, gram)) = 1 /\ p.id \in Completes(d, gram)
        BY <1>3, <2>2 DEF Candidate
    <2>4. Completes(d, gram) = {p.id}
        BY <2>3, OneAlone DEF Decidable
    <2>5. g[1] = 1 /\ Len(gram) = g[2]
        BY <1>2, <2>2
    <2>6. Heads(d, m, g[2], p.id)
        BY <1>1, <1>2, <1>5, <2>4, <2>5 DEF Heads
    <2> QED
        BY <1>1, <1>2, <1>3, <2>2, <2>5, <2>6 DEF Alias
<1> QED
    BY <1>4, <1>5

(* And whoever the span begins with is proposed.                           *)
LEMMA HeadProposed ==
    ASSUME NEW d, NEW m, Decidable(d, m),
           NEW n, NEW id, Heads(d, m, n, id), n > 1
    PROVE  \E p \in ByName(d, m) :
              /\ p.confidence = 90
              /\ p.alias = Size(SubSeq(m.span, 1, n)) + n - 1
<1>0. m.span \in Seq(DOMAIN Letters)
    BY DEF Decidable
<1>1. PICK g : g = <<1, n>>
    OBVIOUS
<1>2. g \in Grams(m.span) /\ g[1] = 1 /\ g[2] = n
    BY <1>1 DEF Heads, Grams
<1>3. PICK gram : gram = SubSeq(m.span, g[1], g[2])
    OBVIOUS
<1>4. Len(gram) = n /\ n \in Nat
    <2>1. Len(gram) = g[2] - g[1] + 1
        BY <1>0, <1>2, <1>3, GramTyped
    <2> QED
        BY <1>2, <2>1 DEF Heads
<1>5. Completes(d, gram) = {id} /\ Size(gram) >= MinAliasLetters
    BY <1>2, <1>3 DEF Heads
<1>6. Candidate(d, gram) = {id}
    <2>1. Cardinality({id}) = 1
        BY FS_Singleton
    <2> QED
        BY <1>5, <2>1 DEF Candidate
<1>7. Evidence(d, m, gram, g[1], id) = 90
    BY <1>2, <1>4, <1>5 DEF NameConfidence, Evidence
<1>8. PICK p \in Proposed(d, m, gram, g[1]) :
          p.alias = Size(gram) + Len(gram) - 1 /\ p.confidence = 90
    <2>1. id \in Candidate(d, gram)
        BY <1>6
    <2>2. PICK p \in Proposed(d, m, gram, g[1]) :
              p.alias = Alias(gram) /\ p.confidence = Evidence(d, m, gram, g[1], id)
        BY <2>1, ProposedIs
    <2> QED
        BY <1>7, <2>2 DEF Alias
<1>9. p \in ByName(d, m)
    BY <1>2, <1>3, <1>5, <1>8 DEF ByName
<1> QED
    BY <1>2, <1>3, <1>4, <1>8, <1>9

LEMMA MintedIs ==
    ASSUME NEW m, m.span \in Seq(DOMAIN Letters), NEW p \in Minted(m)
    PROVE  /\ p.confidence = 75 /\ p.order \in Nat
           /\ p.alias = Alias(Stripped(m.span)) /\ p.alias \in Int
           /\ HasLegalForm(m.span) /\ p.id = Stripped(m.span)
<1>1. /\ p.confidence = 75 /\ p.alias = Alias(Stripped(m.span))
      /\ p.order = 1 + Len(m.span) * (Len(m.span) + 1)
      /\ HasLegalForm(m.span) /\ p.id = Stripped(m.span)
    BY DEF Minted, Alias
<1>2. p.order \in Nat
    <2>1. \A a, b \in Nat : a * b \in Nat
        OBVIOUS
    <2> QED
        BY <1>1, <2>1, Len(m.span) \in Nat, Len(m.span) + 1 \in Nat
<1>3. Stripped(m.span) \in Seq(DOMAIN Letters)
    <2> DEFINE F == FormAt(m.span)
               f == [i \in F |-> i]
    <2>1. \A i \in F : f[i] = i /\ f[i] \in Nat /\ i \in 1..Len(m.span)
        BY DEF FormAt
    <2>2. CASE F = {}
        BY <2>2 DEF Stripped
    <2>3. CASE F # {}
        <3>1. \E i \in F : \A j \in F : f[i] <= f[j]
            <4> HIDE DEF F, f
            <4> QED
                BY <2>1, <2>3, LeastValue
        <3>2. First(F) \in F
            BY <2>1, <3>1 DEF First
        <3>3. SubSeq(m.span, 1, First(F) - 1) \in Seq(DOMAIN Letters)
            <4> HIDE DEF F
            <4> QED
                BY <2>1, <3>2
        <3> QED
            BY <3>3 DEF Stripped
    <2> QED
        BY <2>2, <2>3
<1>4. Size(Stripped(m.span)) \in Nat
    BY <1>3, LettersFinite
<1>5. Len(Stripped(m.span)) \in Nat
    BY <1>3
<1> QED
    BY <1>1, <1>2, <1>4, <1>5 DEF Alias

-----------------------------------------------------------------------------
(* The decision.                                                           *)

(* The proposals for a span can all be weighed.                            *)
LEMMA ProposalsWeighed ==
    ASSUME NEW d, NEW m, Decidable(d, m)
    PROVE  \E top \in Int : \A p \in Proposals(d, m) : Weighed(d, p, top)
<1>0. m.span \in Seq(DOMAIN Letters)
    BY DEF Decidable
<1> DEFINE f == [g \in Grams(m.span) |-> Alias(SubSeq(m.span, g[1], g[2]))]
           A == {f[g] : g \in Grams(m.span)} \cup {p.alias : p \in Minted(m)} \cup {10}
<1>1. IsFiniteSet({f[g] : g \in Grams(m.span)})
    <2>1. IsFiniteSet(1..Len(m.span))
        BY <1>0, FS_Interval, Len(m.span) \in Nat
    <2>2. IsFiniteSet((1..Len(m.span)) \X (1..Len(m.span)))
        BY <2>1, FS_Product
    <2>3. Grams(m.span) \in SUBSET ((1..Len(m.span)) \X (1..Len(m.span)))
        BY DEF Grams
    <2>4. IsFiniteSet(Grams(m.span))
        BY <2>2, <2>3, FS_Subset
    <2> HIDE DEF f
    <2> QED
        BY <2>4, FiniteImage
<1>2. IsFiniteSet({p.alias : p \in Minted(m)})
    <2>1. {p.alias : p \in Minted(m)} \in SUBSET {Alias(Stripped(m.span))}
        BY <1>0, MintedIs
    <2>2. IsFiniteSet({Alias(Stripped(m.span))})
        BY FS_Singleton
    <2> QED
        BY <2>1, <2>2, FS_Subset
<1>3. IsFiniteSet(A)
    <2>1. IsFiniteSet({10})
        BY FS_Singleton
    <2> HIDE DEF f
    <2> QED
        BY <1>1, <1>2, <2>1, FS_Union
<1>4. \A g \in Grams(m.span) : f[g] \in Int
    <2> TAKE g \in Grams(m.span)
    <2>1. f[g] = Alias(SubSeq(m.span, g[1], g[2]))
        OBVIOUS
    <2>2. Alias(SubSeq(m.span, g[1], g[2])) \in Nat
        BY <1>0, GramTyped
    <2> QED
        BY <2>1, <2>2
<1>5. A \subseteq Int
    <2> HIDE DEF f
    <2> QED
        BY <1>0, <1>4, MintedIs
<1>6. High(A) \in Int /\ \A n \in A : n <= High(A)
    <2>1. A # {}
        OBVIOUS
    <2> HIDE DEF A
    <2> QED
        BY <1>3, <1>5, <2>1, HighMember
<1>7. \A id : Prominence(d, id) \in Nat
    BY DEF Decidable
<1>8. ASSUME NEW p \in Proposals(d, m) PROVE Weighed(d, p, High(A))
    <2>1. CASE p \in ByName(d, m)
        <3>0. p.confidence \in Int /\ p.confidence <= 90 /\ p.order \in Nat
            BY <2>1, NameWeighed
        <3>1. PICK g \in Grams(m.span) : p.alias = Alias(SubSeq(m.span, g[1], g[2]))
            <4>1. PICK g \in Grams(m.span) : \E gram :
                      gram = SubSeq(m.span, g[1], g[2]) /\ p.alias = Alias(gram)
                BY <2>1, NameWeighed
            <4> QED
                BY <4>1
        <3>2. p.alias = f[g] /\ f[g] \in A
            BY <3>1
        <3> HIDE DEF A, f
        <3> QED
            BY <1>4, <1>6, <1>7, <3>0, <3>1, <3>2 DEF Weighed
    <2>2. CASE p \in Minted(m)
        <3>1. p.confidence = 75 /\ p.order \in Nat /\ p.alias \in Int
            BY <1>0, <2>2, MintedIs
        <3>2. p.alias \in A
            BY <2>2
        <3> HIDE DEF A
        <3> QED
            BY <1>6, <1>7, <3>1, <3>2 DEF Weighed
    <2>3. CASE p \in {[id |-> id, alias |-> 10, confidence |-> 100, order |-> 0] :
                         id \in Holder(d, m.cik)}
        <3>1. p.confidence = 100 /\ p.order = 0 /\ p.alias = 10
            BY <2>3
        <3>2. 10 \in A
            OBVIOUS
        <3> HIDE DEF A
        <3> QED
            BY <1>6, <1>7, <3>1, <3>2 DEF Weighed
    <2> QED
        BY <2>1, <2>2, <2>3 DEF Proposals
<1> QED
    BY <1>6, <1>8

(* What is decided is what the strongest proposal says.                    *)
LEMMA DecisionIs ==
    ASSUME NEW d, NEW m, Decidable(d, m),
           ~ Noise(m), ~ Person(d, m), Proposals(d, m) # {}
    PROVE  \E best \in Proposals(d, m) :
              /\ Decision(d, m) = IF best.confidence >= FLOOR THEN best.id ELSE Unknown
              /\ \A b \in Proposals(d, m) :
                    /\ b.confidence <= best.confidence
                    /\ b.confidence = best.confidence => b.alias <= best.alias
              /\ best.confidence \in Int /\ best.alias \in Int
<1>1. PICK top \in Int : \A p \in Proposals(d, m) : Weighed(d, p, top)
    BY ProposalsWeighed
<1> DEFINE best == Best(d, Proposals(d, m))
<1>2. best \in Proposals(d, m) /\ \A b \in Proposals(d, m) : Stronger(d, best, b)
    BY <1>1, BestIs
<1>3. ASSUME NEW b \in Proposals(d, m)
      PROVE  /\ b.confidence <= best.confidence
             /\ b.confidence = best.confidence => b.alias <= best.alias
    <2>1. Weighed(d, best, top) /\ Weighed(d, b, top) /\ Stronger(d, best, b)
        BY <1>1, <1>2
    <2> HIDE DEF best
    <2>2. \/ best.confidence > b.confidence
          \/ best.confidence = b.confidence /\ best.alias >= b.alias
        BY <2>1, StrongerIs DEF Weighed
    <2> QED
        BY <2>1, <2>2 DEF Weighed
<1>4. Decision(d, m) = IF best.confidence >= FLOOR THEN best.id ELSE Unknown
    BY DEF Decision
<1>5. best.confidence \in Int /\ best.alias \in Int
    BY <1>1, <1>2 DEF Weighed
<1> HIDE DEF best
<1> QED
    BY <1>2, <1>3, <1>4, <1>5

(* A CIK that a listed company has decides.                                *)
LEMMA HeldDecides ==
    ASSUME NEW d, NEW m, Decidable(d, m), ~ Noise(m),
           NEW id, Holder(d, m.cik) = {id}
    PROVE  Decision(d, m) = id
<1>0. m.span \in Seq(DOMAIN Letters)
    BY DEF Decidable
<1>1. PICK held : held = [id |-> id, alias |-> 10, confidence |-> 100, order |-> 0]
    OBVIOUS
<1>2. held \in Proposals(d, m) /\ held.confidence = 100
    BY <1>1 DEF Proposals
<1>3. ~ Person(d, m)
    BY DEF Person
<1>4. PICK best \in Proposals(d, m) :
          /\ Decision(d, m) = IF best.confidence >= FLOOR THEN best.id ELSE Unknown
          /\ held.confidence <= best.confidence /\ best.confidence \in Int
    BY <1>2, <1>3, DecisionIs
<1>5. best \notin ByName(d, m) /\ best \notin Minted(m)
    BY <1>0, <1>2, <1>4, NameWeighed, MintedIs
<1>6. best.id = id
    BY <1>5 DEF Proposals
<1> QED
    BY <1>2, <1>4, <1>6 DEF FLOOR

(* The longest head of several words decides, when no CIK is stated.       *)
LEMMA HeadDecides ==
    ASSUME NEW d, NEW m, Decidable(d, m), ~ Noise(m), m.cik = Unknown,
           NEW n, NEW id, Heads(d, m, n, id), n > 1,
           \A k, o : Heads(d, m, k, o) => k <= n
    PROVE  Decision(d, m) = id
<1>0. m.span \in Seq(DOMAIN Letters)
    BY DEF Decidable
<1>1. PICK p \in ByName(d, m) :
          p.confidence = 90 /\ p.alias = Size(SubSeq(m.span, 1, n)) + n - 1
    BY HeadProposed
<1>2. p \in Proposals(d, m) /\ ~ Person(d, m) /\ Holder(d, m.cik) = {}
    BY <1>1 DEF Proposals, Person, Holder
<1>3. PICK best \in Proposals(d, m) :
          /\ Decision(d, m) = IF best.confidence >= FLOOR THEN best.id ELSE Unknown
          /\ p.confidence <= best.confidence
          /\ p.confidence = best.confidence => p.alias <= best.alias
          /\ best.confidence \in Int /\ best.alias \in Int
    BY <1>2, DecisionIs
<1>4. best \in ByName(d, m) \cup Minted(m)
    BY <1>2 DEF Proposals
<1>5. best \in ByName(d, m)
    BY <1>0, <1>1, <1>3, <1>4, MintedIs
<1>6. best.confidence = 90
    <2>1. best.confidence <= 90
        BY <1>5, NameWeighed
    <2> QED
        BY <1>1, <1>3, <2>1
<1>7. PICK k \in 1..Len(m.span) :
          /\ Heads(d, m, k, best.id) /\ best.confidence = IF k = 1 THEN 80 ELSE 90
          /\ best.alias = Size(SubSeq(m.span, 1, k)) + k - 1
    <2>1. best.confidence >= FLOOR /\ best.confidence # 85
        BY <1>6 DEF FLOOR
    <2> QED
        BY <1>5, <2>1, NameEarned
<1>8. k <= n /\ n \in 1..Len(m.span)
    BY <1>7 DEF Heads
<1>9. k = n
    <2> SUFFICES ASSUME k < n PROVE FALSE
        BY <1>8
    <2>1. Size(SubSeq(m.span, 1, k)) <= Size(SubSeq(m.span, 1, n))
        BY <1>0, <1>8, SizeOfBeginning
    <2>2. Size(SubSeq(m.span, 1, k)) \in Nat /\ Size(SubSeq(m.span, 1, n)) \in Nat
        <3>1. \A i \in 1..Len(m.span) : SubSeq(m.span, 1, i) \in Seq(DOMAIN Letters)
            BY <1>0
        <3> QED
            BY <1>8, <3>1, LettersFinite
    <2>3. p.alias <= best.alias
        BY <1>1, <1>3, <1>6
    <2> QED
        BY <1>1, <1>7, <1>8, <2>1, <2>2, <2>3
<1>10. best.id = id
    BY <1>7, <1>9 DEF Heads
<1> QED
    BY <1>3, <1>6, <1>10 DEF FLOOR

(* Any other link is earned.                                               *)
LEMMA LinkEarned ==
    ASSUME NEW d, NEW m, Decidable(d, m), Holder(d, m.cik) = {},
           Decision(d, m) # Unknown
    PROVE  \/ \E n \in 1..Len(m.span) : Heads(d, m, n, Decision(d, m))
           \/ \E i \in DOMAIN m.span : /\ m.span[i] \in CommonWords
                                       /\ Corroborated(d, m.context, Decision(d, m))
           \/ HasLegalForm(m.span) /\ Decision(d, m) = Stripped(m.span)
<1>0. m.span \in Seq(DOMAIN Letters)
    BY DEF Decidable
<1>1. ~ Noise(m) /\ ~ Person(d, m) /\ Proposals(d, m) # {}
    BY DEF Decision
<1>2. PICK best \in Proposals(d, m) :
          Decision(d, m) = IF best.confidence >= FLOOR THEN best.id ELSE Unknown
    BY <1>1, DecisionIs
<1>3. best.confidence >= FLOOR /\ Decision(d, m) = best.id
    BY <1>2
<1>4. CASE best \in ByName(d, m)
    BY <1>3, <1>4, NameEarned
<1>5. CASE best \in Minted(m)
    BY <1>0, <1>3, <1>5, MintedIs
<1> QED
    BY <1>4, <1>5 DEF Proposals

-----------------------------------------------------------------------------

LinkingInv ==
    /\ register \in Registers /\ gazette \in Gazettes
    /\ companies = Merged(register, gazette)
    /\ span # Unknown => span \in Spans /\ link = Decision(companies, span)

LEMMA NextLinkingInv == LinkingInv /\ [LinkingNext]_linkingVars => LinkingInv'
    BY DEF LinkingInv, LinkingNext, ResolveSpan, linkingVars

LEMMA LinksFromInv == ASSUME LinkingInv PROVE LinksEarned
<1> SUFFICES ASSUME span # Unknown PROVE LinksEarned
    BY DEF LinksEarned
<1> DEFINE listings == {i \in DOMAIN register : register[i].cik = span.cik}
           long == {n \in HeadNames(span) : n > 1}
<1>1. /\ register \in Seq({register[i] : i \in DOMAIN register})
      /\ \A i \in DOMAIN register : register[i].cik # Unknown
      /\ DictionaryOK(companies, register) /\ Decidable(companies, span)
      /\ span.span \in Seq(DOMAIN Letters) /\ link = Decision(companies, span)
    <2>1. DictionaryOK(companies, register)
        BY DictionaryMade DEF LinkingInv
    <2>2. /\ register \in Seq({register[i] : i \in DOMAIN register})
          /\ \A i \in DOMAIN register : register[i].cik # Unknown
          /\ span.span \in Seq(DOMAIN Letters) /\ link = Decision(companies, span)
        BY LinkingAssumption DEF LinkingInv, LinkingAssumption
    <2>3. IsFiniteSet(companies) /\ \A id : Prominence(companies, id) \in Nat
        BY <2>1, <2>2, ProminenceTyped DEF DictionaryOK
    <2> QED
        BY <2>1, <2>2, <2>3 DEF Decidable
<1>2. /\ listings = {} => Holder(companies, span.cik) = {}
      /\ listings # {} =>
            Holder(companies, span.cik) = {<<register[First(listings)].ticker>>}
    BY <1>1, HolderIs
<1>3. ~ Noise(span) /\ listings # {} => link = <<register[First(listings)].ticker>>
    BY <1>1, <1>2, HeldDecides
<1>4. span.cik # Unknown /\ listings = {} /\ ~ HasLegalForm(span.span) => link = Unknown
    BY <1>1, <1>2 DEF Decision, Person
<1>5. \A n : n \in HeadNames(span) <=> \E id : Heads(companies, span, n, id)
    BY DEF HeadNames, Heads, Sole
<1>6. \A n, id : Heads(companies, span, n, id) => id \in Sole(SubSeq(span.span, 1, n))
    BY DEF Heads, Sole
<1>7. ASSUME ~ Noise(span), span.cik = Unknown, long # {}
      PROVE  link \in Sole(SubSeq(span.span, 1, CHOOSE n \in long : \A k \in long : n >= k))
    <2> DEFINE n == CHOOSE x \in long : \A k \in long : x >= k
    <2>1. IsFiniteSet(long) /\ long \subseteq Int
        <3>1. long \in SUBSET (1..Len(span.span)) /\ Len(span.span) \in Nat
            BY <1>1 DEF HeadNames
        <3>2. IsFiniteSet(1..Len(span.span))
            BY <3>1, FS_Interval
        <3> QED
            BY <3>1, <3>2, FS_Subset
    <2>2. n \in long /\ \A k \in long : n >= k
        <3>1. \E x \in long : \A k \in long : x >= k
            <4>1. High(long) \in long /\ \A k \in long : k <= High(long)
                <5> HIDE DEF long
                <5> QED
                    BY <1>7, <2>1, HighMember
            <4>2. \A k \in long : High(long) >= k
                BY <2>1, <4>1
            <4> QED
                BY <4>1, <4>2
        <3> HIDE DEF long
        <3> QED
            BY <3>1
    <2>3. PICK id : Heads(companies, span, n, id)
        <3> HIDE DEF n
        <3> QED
            BY <1>5, <2>2
    <2>4. n > 1 /\ n \in Int
        BY <2>1, <2>2
    <2> HIDE DEF n
    <2>5. ASSUME NEW k, NEW o, Heads(companies, span, k, o) PROVE k <= n
        <3>1. k \in HeadNames(span) /\ k \in Int
            <4>1. k \in 1..Len(span.span)
                BY <2>5 DEF Heads
            <4> QED
                BY <1>5, <2>5, <4>1
        <3>2. CASE k > 1
            BY <2>2, <2>4, <3>1, <3>2
        <3>3. CASE ~ (k > 1)
            BY <2>4, <3>1, <3>3
        <3> QED
            BY <3>2, <3>3
    <2>6. link = id
        BY <1>1, <1>7, <2>3, <2>4, <2>5, HeadDecides
    <2>7. link \in Sole(SubSeq(span.span, 1, n))
        BY <1>6, <2>3, <2>6
    <2> QED
        BY <2>7 DEF n
<1>8. ASSUME link # Unknown, listings = {}
      PROVE  \/ \E n \in HeadNames(span) : link \in Sole(SubSeq(span.span, 1, n))
             \/ \E i \in DOMAIN span.span : /\ span.span[i] \in CommonWords
                                            /\ Corroborated(companies, span.context, link)
             \/ HasLegalForm(span.span) /\ link = Stripped(span.span)
    <2>1. \/ \E n \in 1..Len(span.span) : Heads(companies, span, n, link)
          \/ \E i \in DOMAIN span.span : /\ span.span[i] \in CommonWords
                                         /\ Corroborated(companies, span.context, link)
          \/ HasLegalForm(span.span) /\ link = Stripped(span.span)
        BY <1>1, <1>2, <1>8, LinkEarned
    <2> QED
        BY <1>5, <1>6, <2>1
<1> QED
    BY <1>3, <1>4, <1>7, <1>8 DEF LinksEarned

(* A link is to the company whose CIK is stated, or whose whole name the   *)
(* span begins with, or is otherwise earned, and never to one of a person's*)
(* CIK: for every register, Wikidata, span, context and word list.         *)
THEOREM LinksAreEarned == LinkingSpec => []LinksEarned
<1>1. LinkingInit => LinkingInv
    BY DEF LinkingInit, LinkingInv
<1>2. LinkingInv => LinksEarned
    BY LinksFromInv
<1> QED
    BY <1>1, <1>2, NextLinkingInv, PTL DEF LinkingSpec

(* Nothing is linked before there is a span.                               *)
LinkTyped ==
    /\ span \in Spans \cup {Unknown}
    /\ link # Unknown => span \in Spans /\ link = Decision(companies, span)

LEMMA NextLinkTyped == LinkTyped /\ [LinkingNext]_linkingVars => LinkTyped'
    BY DEF LinkTyped, LinkingNext, ResolveSpan, linkingVars

(* A link is to a company of the dictionary, or is the span's own name.    *)
LEMMA LinkingTyped == ASSUME LinkingInv, LinkTyped PROVE LinkingTypeOK
<1> DEFINE ids == {e.id : e \in companies}
<1>1. \A i \in DOMAIN register : register[i].cik # Unknown
    BY LinkingAssumption DEF LinkingInv, LinkingAssumption
<1>2. /\ register \in Seq({register[i] : i \in DOMAIN register})
      /\ DictionaryOK(companies, register)
    <2>1. DictionaryOK(companies, register)
        BY DictionaryMade DEF LinkingInv
    <2>2. register \in Seq({register[i] : i \in DOMAIN register})
        BY LinkingAssumption DEF LinkingInv, LinkingAssumption
    <2> QED
        BY <2>1, <2>2
<1>3. DOMAIN register \subseteq Nat /\ Unknown \notin Nat
    BY <1>2, LinkingAssumption
<1>4. ASSUME NEW e \in companies PROVE (e.rank = Unknown) = (e.cik = Unknown)
    <2>1. \/ \E i \in DOMAIN register : e.cik = register[i].cik /\ e.rank = i
          \/ e.cik = Unknown /\ e.rank = Unknown
        BY <1>2 DEF DictionaryOK
    <2>2. CASE \E i \in DOMAIN register : e.cik = register[i].cik /\ e.rank = i
        BY <1>1, <1>3, <2>2
    <2>3. CASE e.cik = Unknown /\ e.rank = Unknown
        BY <2>3
    <2> QED
        BY <2>1, <2>2, <2>3
<1>5. \A gram : Completes(companies, gram) \subseteq ids
    BY DEF Completes
<1>6. link \in ids \cup {Stripped(m.span) : m \in Spans} \cup {Unknown}
    <2>1. CASE link = Unknown
        BY <2>1
    <2>2. CASE link # Unknown
        <3>1. span \in Spans /\ link = Decision(companies, span)
            BY <2>2 DEF LinkTyped
        <3>2. span.span \in Seq(DOMAIN Letters)
            BY <3>1, LinkingAssumption DEF LinkingAssumption
        <3>3. IsFiniteSet(companies) /\ \A id : Prominence(companies, id) \in Nat
            BY <1>2, ProminenceTyped DEF DictionaryOK
        <3>4. Decidable(companies, span)
            BY <3>2, <3>3 DEF Decidable
        <3>5. CASE Holder(companies, span.cik) = {}
            <4>1. \/ \E n \in 1..Len(span.span) : Heads(companies, span, n, link)
                  \/ \E i \in DOMAIN span.span : Corroborated(companies, span.context, link)
                  \/ link = Stripped(span.span)
                BY <2>2, <3>1, <3>4, <3>5, LinkEarned
            <4>2. CASE \E n \in 1..Len(span.span) : Heads(companies, span, n, link)
                BY <1>5, <4>2 DEF Heads
            <4>3. CASE \E i \in DOMAIN span.span : Corroborated(companies, span.context, link)
                BY <1>5, <4>3 DEF Corroborated
            <4>4. CASE link = Stripped(span.span)
                BY <3>1, <4>4
            <4> QED
                BY <4>1, <4>2, <4>3, <4>4
        <3>6. CASE Holder(companies, span.cik) # {}
            <4> DEFINE listings == {i \in DOMAIN register : register[i].cik = span.cik}
            <4>1. /\ listings = {} => Holder(companies, span.cik) = {}
                  /\ listings # {} =>
                        Holder(companies, span.cik) = {<<register[First(listings)].ticker>>}
                BY <1>1, <1>2, HolderIs
            <4>2. PICK id : Holder(companies, span.cik) = {id}
                BY <3>6, <4>1
            <4>3. id \in ids
                BY <4>2 DEF Holder
            <4>4. ~ Noise(span)
                BY <2>2, <3>1 DEF Decision
            <4>5. link = id
                BY <3>1, <3>4, <4>2, <4>4, HeldDecides
            <4> QED
                BY <4>3, <4>5
        <3> QED
            BY <3>5, <3>6
    <2> QED
        BY <2>1, <2>2
<1> QED
    BY <1>4, <1>6 DEF LinkingTypeOK, LinkingInv, LinkTyped

(* A link has a company of the dictionary, or the name it was minted from. *)
THEOREM LinksTypeCorrect == LinkingSpec => []LinkingTypeOK
<1>1. LinkingInit => LinkingInv /\ LinkTyped
    BY DEF LinkingInit, LinkingInv, LinkTyped
<1>2. LinkingInv /\ LinkTyped /\ [LinkingNext]_linkingVars => LinkingInv' /\ LinkTyped'
    BY NextLinkingInv, NextLinkTyped
<1>3. LinkingInv /\ LinkTyped => LinkingTypeOK
    BY LinkingTyped
<1> QED
    BY <1>1, <1>2, <1>3, PTL DEF LinkingSpec

-----------------------------------------------------------------------------
(* Embeddings.                                                             *)

(* A cache that holds of every title what its encoder answers.             *)
Honest(cache) == \A k \in DOMAIN cache : cache[k] = Vector(k[1], k[2])

(* The titles of T are held for the encoder of the page, or asked for.     *)
Covered(r, T, A) == \A t \in T : Key(t, r.encoder) \in DOMAIN r.held \/ t \in A

PageFields == {"pc", "encoder", "history", "heads", "held", "asked", "fresh", "attempt"}

PageOK(r) ==
    r.pc \in {"history", "heads", "save", "writing", "scored"} =>
        /\ DOMAIN r = PageFields
        /\ IsFiniteSet(r.history) /\ IsFiniteSet(r.heads)
        /\ Honest(r.held)
        /\ r.asked \in Seq(r.history \cup r.heads)
        /\ r.fresh \in Seq({Vector(t, r.encoder) : t \in r.history \cup r.heads})
        /\ Len(r.fresh) <= Len(r.asked)
        /\ \A i \in 1..Len(r.fresh) : r.fresh[i] = Vector(r.asked[i], r.encoder)
        /\ Covered(r, r.history, IF r.pc = "history" THEN ToSet(r.asked) ELSE {})
        /\ r.pc # "history" =>
              Covered(r, r.heads, IF r.pc = "heads" THEN ToSet(r.asked) ELSE {})

CacheOK ==
    /\ file # Torn => Honest(file)
    /\ build = [b \in Builds |-> build[b]]
    /\ \A b \in Builds : PageOK(build[b])

(* The titles that are not held are asked for in some order.               *)
LEMMA SequenceOfSet ==
    ASSUME NEW S, IsFiniteSet(S)
    PROVE  SetToSeq(S) \in Seq(S) /\ S \subseteq ToSet(SetToSeq(S))
<1> DEFINE n == Cardinality(S)
<1>1. n \in Nat /\ ExistsBijection(1..n, S)
    BY FS_CardinalityType
<1>2. \E f \in [1..n -> S] : IsInjective(f)
    BY <1>1 DEF ExistsBijection, Bijection, Injection
<1>3. SetToSeq(S) \in [1..n -> S] /\ IsInjective(SetToSeq(S))
    BY <1>2 DEF SetToSeq
<1>4. SetToSeq(S) \in Injection(1..n, S)
    BY <1>3 DEF Injection
<1>5. Cardinality(1..n) = n
    BY <1>1, FS_Interval
<1>6. SetToSeq(S) \in Surjection(1..n, S)
    BY <1>4, <1>5, FS_Injection
<1> QED
    BY <1>1, <1>3, <1>6 DEF Surjection, ToSet

(* A build that asks for titles keeps its cache and covers those titles.   *)
LEMMA AskingOK ==
    ASSUME NEW r, NEW pc, NEW T, IsFiniteSet(T), T \subseteq r.history \cup r.heads,
           DOMAIN r = PageFields
    PROVE  LET q == Asking(r, pc, T)
           IN  /\ DOMAIN q = PageFields
               /\ q.pc = pc /\ q.encoder = r.encoder /\ q.history = r.history
               /\ q.heads = r.heads /\ q.held = r.held /\ q.fresh = <<>>
               /\ q.asked \in Seq(r.history \cup r.heads)
               /\ Covered(r, T, ToSet(q.asked))
<1> DEFINE S == {t \in T : Key(t, r.encoder) \notin DOMAIN r.held}
           q == Asking(r, pc, T)
           s == SetToSeq(S)
<1>1. IsFiniteSet(S)
    BY FS_Subset
<1>2. q = [r EXCEPT !.pc = pc, !.fresh = <<>>, !.attempt = 0, !.asked = s]
    BY DEF Asking
<1>3. s \in Seq(S) /\ S \subseteq ToSet(s)
    BY <1>1, SequenceOfSet
<1>4. s \in Seq(r.history \cup r.heads) /\ Covered(r, T, ToSet(s))
    BY <1>3 DEF Covered
<1> HIDE DEF q, S, s
<1>5. /\ DOMAIN q = PageFields
      /\ q.pc = pc /\ q.encoder = r.encoder /\ q.history = r.history
      /\ q.heads = r.heads /\ q.held = r.held /\ q.fresh = <<>>
      /\ q.asked = s
    BY <1>2 DEF PageFields
<1> QED
    BY <1>4, <1>5 DEF q

(* ... and is as it should be: at every stage it holds the titles of the   *)
(* stages before.                                                          *)
LEMMA AskingPage ==
    ASSUME NEW r, DOMAIN r = PageFields, Honest(r.held),
           IsFiniteSet(r.history), IsFiniteSet(r.heads),
           NEW pc, NEW T,
           \/ pc = "history" /\ T = r.history
           \/ pc = "heads" /\ T = r.heads /\ Covered(r, r.history, {})
           \/ /\ pc = "save" /\ T = {}
              /\ Covered(r, r.history, {}) /\ Covered(r, r.heads, {})
    PROVE  PageOK(Asking(r, pc, T))
<1> DEFINE q == Asking(r, pc, T)
<1>1. IsFiniteSet(T) /\ T \subseteq r.history \cup r.heads
    BY FS_EmptySet
<1>2. /\ DOMAIN q = PageFields
      /\ q.pc = pc /\ q.encoder = r.encoder /\ q.history = r.history
      /\ q.heads = r.heads /\ q.held = r.held /\ q.fresh = <<>>
      /\ q.asked \in Seq(r.history \cup r.heads)
      /\ Covered(r, T, ToSet(q.asked))
    BY <1>1, AskingOK
<1> HIDE DEF q
<1>3. /\ pc = "history" => Covered(q, q.history, ToSet(q.asked))
      /\ pc # "history" => Covered(q, q.history, {})
      /\ pc = "heads" => Covered(q, q.heads, ToSet(q.asked))
      /\ pc = "save" => Covered(q, q.heads, {})
    BY <1>2 DEF Covered
<1>4. Len(q.fresh) = 0 /\ q.fresh \in Seq({Vector(t, q.encoder) : t \in q.history \cup q.heads})
    BY <1>2
<1>5. Len(q.asked) \in Nat /\ Len(q.fresh) <= Len(q.asked)
    BY <1>2, <1>4
<1>6. PageOK(q)
    BY <1>2, <1>3, <1>4, <1>5 DEF PageOK
<1> QED
    BY <1>6 DEF q

(* No file, and nobody has begun.                                          *)
LEMMA InitCacheOK == EmbeddingsInit => CacheOK
    BY DEF EmbeddingsInit, CacheOK, PageOK, NoPage, Honest

LEMMA NextCacheOK == CacheOK /\ [EmbeddingsNext]_embeddingsVars => CacheOK'
<1> SUFFICES ASSUME CacheOK, [EmbeddingsNext]_embeddingsVars PROVE CacheOK'
    OBVIOUS
<1>1. ASSUME NEW b \in Builds, NEW r,
             build' = [build EXCEPT ![b] = r], PageOK(r), file' # Torn => Honest(file')
      PROVE  CacheOK'
    <2>1. build' = [c \in Builds |-> IF c = b THEN r ELSE build[c]]
        BY <1>1 DEF CacheOK
    <2> QED
        BY <1>1, <2>1 DEF CacheOK
<1>2. ASSUME NEW b \in Builds, Load(b) PROVE CacheOK'
    <2>1. PICK w \in Windows : build' = [build EXCEPT ![b] =
             IF file = Torn THEN [pc |-> "failed"]
             ELSE Asking([pc |-> "history", encoder |-> encoder,
                          history |-> w.history, heads |-> w.heads, held |-> file,
                          asked |-> <<>>, fresh |-> <<>>, attempt |-> 0],
                         "history", w.history)]
        BY <1>2 DEF Load
    <2>2. PageOK([pc |-> "failed"])
        BY DEF PageOK
    <2> DEFINE p == [pc |-> "history", encoder |-> encoder,
                     history |-> w.history, heads |-> w.heads, held |-> file,
                     asked |-> <<>>, fresh |-> <<>>, attempt |-> 0]
               q == Asking(p, "history", w.history)
    <2>3. file # Torn => PageOK(q)
        <3>1. /\ DOMAIN p = PageFields /\ p.history = w.history /\ p.heads = w.heads
              /\ p.held = file
            BY DEF PageFields
        <3>2. IsFiniteSet(p.history) /\ IsFiniteSet(p.heads)
            BY <3>1, EmbeddingsAssumption
        <3> HIDE DEF p
        <3> QED
            BY <3>1, <3>2, AskingPage DEF CacheOK
    <2>4. file' = file
        BY <1>2 DEF Load
    <2> HIDE DEF p, q
    <2>5. build' = [build EXCEPT ![b] = IF file = Torn THEN [pc |-> "failed"] ELSE q]
        BY <2>1 DEF p, q
    <2> QED
        BY <1>1, <2>2, <2>3, <2>4, <2>5 DEF CacheOK
<1>3. ASSUME NEW b \in Builds, BatchAnswers(b) PROVE CacheOK'
    <2> DEFINE r == build[b]
               chunk == Chunk(r)
               more == [i \in 1..Len(chunk) |-> Vector(chunk[i], r.encoder)]
               q == [r EXCEPT !.attempt = 0, !.fresh = r.fresh \o more]
    <2>1. build' = [build EXCEPT ![b] = q] /\ file' = file
        BY <1>3 DEF BatchAnswers, CacheOK
    <2>2. PageOK(r) /\ r.pc \in {"history", "heads"} /\ Len(r.fresh) < Len(r.asked)
        BY <1>3 DEF BatchAnswers, Asked, Embedding, CacheOK
    <2> DEFINE n == Len(r.fresh)
               m == IF n + Batch < Len(r.asked) THEN n + Batch ELSE Len(r.asked)
               T == r.history \cup r.heads
    <2>3. /\ r.asked \in Seq(T) /\ r.fresh \in Seq({Vector(t, r.encoder) : t \in T})
          /\ n \in Nat /\ m \in Nat /\ n < m /\ m <= Len(r.asked) /\ Len(r.asked) \in Nat
        BY <2>2, EmbeddingsAssumption DEF PageOK
    <2>4. /\ chunk \in Seq(T) /\ Len(chunk) = m - n
          /\ \A i \in 1..(m - n) : chunk[i] = r.asked[n + i]
        BY <2>3, SubSeqProperties, SMTT(30) DEF Chunk
    <2>5. /\ more \in Seq({Vector(t, r.encoder) : t \in T}) /\ Len(more) = m - n
          /\ \A i \in 1..(m - n) : more[i] = Vector(r.asked[n + i], r.encoder)
        <3> HIDE DEF chunk, T, n, m
        <3>1. Len(chunk) \in Nat /\ \A i \in 1..Len(chunk) : chunk[i] \in T
            BY <2>4
        <3>2. more \in [1..Len(chunk) -> {Vector(t, r.encoder) : t \in T}]
            BY <3>1
        <3>3. \A i \in 1..(m - n) : more[i] = Vector(r.asked[n + i], r.encoder)
            BY <2>4
        <3> HIDE DEF more
        <3> QED
            BY <2>4, <3>1, <3>2, <3>3
    <2> HIDE DEF chunk, more, n, m
    <2> DEFINE f == r.fresh \o more
    <2>6. /\ f \in Seq({Vector(t, r.encoder) : t \in T}) /\ Len(f) = m
          /\ \A i \in 1..m : f[i] = Vector(r.asked[i], r.encoder)
        <3> DEFINE V == {Vector(t, r.encoder) : t \in T}
        <3>1. /\ r.fresh \in Seq(V) /\ more \in Seq(V) /\ Len(r.fresh) = n
              /\ Len(more) = m - n /\ n \in Nat /\ m \in Nat /\ n < m
            BY <2>3, <2>5 DEF n
        <3>2. /\ \A i \in 1..n : r.fresh[i] = Vector(r.asked[i], r.encoder)
              /\ \A i \in 1..(m - n) : more[i] = Vector(r.asked[n + i], r.encoder)
            BY <2>2, <2>5 DEF PageOK, n
        <3> HIDE DEF V, T, r
        <3>3. f \in Seq(V) /\ Len(f) = m
            BY <3>1
        <3>4. ASSUME NEW i \in 1..m PROVE f[i] = Vector(r.asked[i], r.encoder)
            <4>1. CASE i <= n
                <5>1. f[i] = r.fresh[i]
                    BY <3>1, <4>1
                <5> QED
                    BY <3>1, <3>2, <4>1, <5>1
            <4>2. CASE i > n
                <5>1. i - n \in 1..(m - n) /\ n + (i - n) = i
                    BY <3>1, <4>2
                <5>2. f[i] = more[i - n]
                    BY <3>1, <4>2
                <5> QED
                    BY <3>2, <5>1, <5>2
            <4> QED
                BY <3>1, <4>1, <4>2
        <3> QED
            BY <3>3, <3>4 DEF V
    <2>7. /\ DOMAIN q = PageFields /\ q.pc = r.pc /\ q.encoder = r.encoder
          /\ q.history = r.history /\ q.heads = r.heads /\ q.held = r.held
          /\ q.asked = r.asked /\ q.fresh = f
        BY <2>2 DEF PageOK, PageFields
    <2> HIDE DEF q, f
    <2>8. PageOK(q)
        BY <2>2, <2>3, <2>6, <2>7 DEF PageOK, Covered
    <2> HIDE DEF r
    <2> QED
        BY <1>1, <2>1, <2>8 DEF CacheOK
<1>4. ASSUME NEW b \in Builds, BatchFails(b) PROVE CacheOK'
    <2> DEFINE r == build[b]
               q == [r EXCEPT !.attempt = @ + 1]
    <2>1. /\ build' = [build EXCEPT ![b] = q] \/ build' = [build EXCEPT ![b] = [pc |-> "unscored"]]
          /\ file' = file
        BY <1>4 DEF BatchFails, CacheOK
    <2>2. PageOK(r) /\ r.pc \in {"history", "heads"}
        BY <1>4 DEF BatchFails, Asked, Embedding, CacheOK
    <2>3. /\ DOMAIN q = PageFields /\ q.pc = r.pc /\ q.encoder = r.encoder
          /\ q.history = r.history /\ q.heads = r.heads /\ q.held = r.held
          /\ q.asked = r.asked /\ q.fresh = r.fresh
        BY <2>2 DEF PageOK, PageFields
    <2> HIDE DEF q
    <2>4. PageOK(q)
        BY <2>2, <2>3 DEF PageOK, Covered
    <2>5. PageOK([pc |-> "unscored"])
        BY DEF PageOK
    <2> HIDE DEF r
    <2> QED
        BY <1>1, <2>1, <2>4, <2>5 DEF CacheOK
<1>5. ASSUME NEW b \in Builds, CallReturns(b) PROVE CacheOK'
    <2> DEFINE r == build[b]
               new == {Key(r.asked[i], r.encoder) : i \in DOMAIN r.asked}
               held == [k \in DOMAIN r.held \cup new |->
                      IF k \in new
                      THEN r.fresh[CHOOSE i \in DOMAIN r.asked :
                                     Key(r.asked[i], r.encoder) = k]
                      ELSE r.held[k]]
               p == [r EXCEPT !.held = held]
    <2>1. /\ build' = [build EXCEPT ![b] =
                          IF r.pc = "history" THEN Asking(p, "heads", r.heads)
                          ELSE Asking(p, "save", {})]
          /\ file' = file
        BY <1>5 DEF CallReturns
    <2>2. /\ PageOK(r) /\ r.pc \in {"history", "heads"}
          /\ Len(r.fresh) = Len(r.asked) /\ DOMAIN r.asked = 1..Len(r.fresh)
        <3>1. PageOK(r) /\ r.pc \in {"history", "heads"} /\ ~ (Len(r.fresh) < Len(r.asked))
            BY <1>5 DEF CallReturns, Asked, Embedding, CacheOK
        <3>2. /\ Len(r.fresh) \in Nat /\ Len(r.asked) \in Nat
              /\ Len(r.fresh) <= Len(r.asked) /\ DOMAIN r.asked = 1..Len(r.asked)
            BY <3>1 DEF PageOK
        <3> QED
            BY <3>1, <3>2
    <2>3. Honest(held)
        <3> SUFFICES ASSUME NEW k \in DOMAIN r.held \cup new
                     PROVE  held[k] = Vector(k[1], k[2])
            BY DEF Honest
        <3>1. CASE k \in new
            <4> DEFINE i == CHOOSE i \in DOMAIN r.asked : Key(r.asked[i], r.encoder) = k
            <4>1. i \in DOMAIN r.asked /\ Key(r.asked[i], r.encoder) = k
                BY <3>1
            <4>2. held[k] = r.fresh[i]
                BY <3>1
            <4> HIDE DEF i, held, new
            <4> QED
                BY <2>2, <4>1, <4>2 DEF PageOK, Key
        <3>2. CASE k \notin new
            BY <2>2, <3>2 DEF PageOK, Honest
        <3> QED
            BY <3>1, <3>2
    <2>4. /\ \A t : Key(t, r.encoder) \in DOMAIN r.held => Key(t, r.encoder) \in DOMAIN held
          /\ \A i \in DOMAIN r.asked : Key(r.asked[i], r.encoder) \in DOMAIN held
        OBVIOUS
    <2> HIDE DEF held
    <2>5. /\ DOMAIN p = PageFields /\ p.pc = r.pc /\ p.encoder = r.encoder
          /\ p.history = r.history /\ p.heads = r.heads /\ p.held = held
        BY <2>2 DEF PageOK, PageFields
    <2> HIDE DEF p
    <2>6. Covered(p, p.history, {}) /\ (r.pc = "heads" => Covered(p, p.heads, {}))
        BY <2>2, <2>4, <2>5 DEF PageOK, Covered, ToSet
    <2>7. IsFiniteSet(p.history) /\ IsFiniteSet(p.heads) /\ Honest(p.held)
        BY <2>2, <2>3, <2>5 DEF PageOK
    <2>8. PageOK(IF r.pc = "history" THEN Asking(p, "heads", r.heads)
                 ELSE Asking(p, "save", {}))
        <3>1. PageOK(Asking(p, "heads", p.heads))
            BY <2>5, <2>6, <2>7, AskingPage
        <3>2. r.pc = "heads" => PageOK(Asking(p, "save", {}))
            BY <2>5, <2>6, <2>7, AskingPage
        <3> QED
            BY <2>2, <2>5, <3>1, <3>2
    <2> HIDE DEF r
    <2> QED
        BY <1>1, <2>1, <2>8 DEF CacheOK
<1>6. ASSUME NEW b \in Builds, OpenFile(b) \/ WriteFile(b) PROVE CacheOK'
    <2> DEFINE r == build[b]
    <2>1. PICK pc \in {"writing", "scored"} : build' = [build EXCEPT ![b].pc = pc]
        BY <1>6 DEF OpenFile, WriteFile
    <2>2. PageOK(r) /\ r.pc \in {"save", "writing"} /\ file' \in {Torn, r.held}
        BY <1>6 DEF OpenFile, WriteFile, CacheOK
    <2> DEFINE q == [r EXCEPT !.pc = pc]
    <2>3. build' = [build EXCEPT ![b] = q]
        BY <2>1 DEF CacheOK
    <2>4. /\ DOMAIN q = PageFields /\ q.pc = pc /\ q.encoder = r.encoder
          /\ q.history = r.history /\ q.heads = r.heads /\ q.held = r.held
          /\ q.asked = r.asked /\ q.fresh = r.fresh
        BY <2>2 DEF PageOK, PageFields
    <2> HIDE DEF q
    <2>5. PageOK(q)
        BY <2>2, <2>4 DEF PageOK, Covered
    <2>6. file' # Torn => Honest(file')
        BY <2>2 DEF PageOK
    <2> HIDE DEF r
    <2> QED
        BY <1>1, <2>3, <2>5, <2>6
<1>7. ASSUME NEW b \in Builds, PageDies(b) PROVE CacheOK'
    <2>1. PageOK(NoPage)
        BY DEF PageOK, NoPage
    <2> QED
        BY <1>1, <1>7, <2>1 DEF PageDies, CacheOK
<1>8. CASE Configure \/ FileRemoved \/ UNCHANGED embeddingsVars
    BY <1>8 DEF Configure, FileRemoved, embeddingsVars, CacheOK, Honest
<1> QED
    BY <1>2, <1>3, <1>4, <1>5, <1>6, <1>7, <1>8 DEF EmbeddingsNext

(* What a page is scored by is what the encoder of its build answers, for  *)
(* any number of builds, titles and retries.                               *)
THEOREM EmbeddingsCacheUnseen == EmbeddingsSpec => []CacheUnseen
<1>1. CacheOK => CacheUnseen
    <2> SUFFICES ASSUME CacheOK, NEW b \in Builds, build[b].pc = "scored",
                        NEW t \in build[b].history \cup build[b].heads
                 PROVE  build[b].held[Key(t, build[b].encoder)] = Vector(t, build[b].encoder)
        BY DEF CacheUnseen
    <2>1. Key(t, build[b].encoder) \in DOMAIN build[b].held /\ Honest(build[b].held)
        BY DEF CacheOK, PageOK, Covered
    <2> QED
        BY <2>1 DEF Honest, Key
<1> QED
    BY <1>1, InitCacheOK, NextCacheOK, PTL DEF EmbeddingsSpec

(* What a process is at, and the attempts of the request it waits for.     *)
Waits(r) == r.pc \in {"history", "heads"} => r.attempt \in Nat /\ r.attempt < Retries

BuildTyped(r) ==
    /\ r.pc \in {"idle", "history", "heads", "save", "writing", "scored", "unscored", "failed"}
    /\ Waits(r)

BuildsTyped ==
    /\ encoder \in Encoders /\ built \in 0..MaxBuilds
    /\ \A b \in Builds : BuildTyped(build[b])

LEMMA InitBuildsTyped == EmbeddingsInit => BuildsTyped
    BY EmbeddingsAssumption DEF EmbeddingsInit, BuildsTyped, BuildTyped, Waits, NoPage

(* A call begins with no attempt made.                                     *)
LEMMA AskingTyped ==
    ASSUME NEW r, DOMAIN r = PageFields, NEW pc \in {"history", "heads", "save"}, NEW T
    PROVE  BuildTyped(Asking(r, pc, T))
<1> DEFINE s == SetToSeq({t \in T : Key(t, r.encoder) \notin DOMAIN r.held})
           q == [r EXCEPT !.pc = pc, !.fresh = <<>>, !.attempt = 0, !.asked = s]
<1>1. Asking(r, pc, T) = q
    BY DEF Asking
<1> HIDE DEF s
<1>2. q.pc = pc /\ q.attempt = 0
    BY DEF PageFields
<1> HIDE DEF q
<1>3. Retries \in Nat /\ Retries # 0
    BY EmbeddingsAssumption
<1>4. BuildTyped(q)
    BY <1>2, <1>3 DEF BuildTyped, Waits
<1> QED
    BY <1>1, <1>4

LEMMA NextBuildsTyped ==
    ASSUME CacheOK, BuildsTyped, [EmbeddingsNext]_embeddingsVars
    PROVE  BuildsTyped'
<1>1. ASSUME NEW b \in Builds, NEW r, build' = [build EXCEPT ![b] = r], BuildTyped(r),
             encoder' = encoder, built' \in 0..MaxBuilds
      PROVE  BuildsTyped'
    <2>1. build' = [c \in Builds |-> IF c = b THEN r ELSE build[c]]
        BY <1>1 DEF CacheOK
    <2>2. \A c \in Builds : BuildTyped(build'[c])
        BY <1>1, <2>1 DEF BuildsTyped
    <2> QED
        BY <1>1, <2>2 DEF BuildsTyped
<1>2. built \in 0..MaxBuilds /\ MaxBuilds \in Nat /\ Retries \in Nat
    BY EmbeddingsAssumption DEF BuildsTyped
<1>3. ASSUME NEW b \in Builds, Load(b) PROVE BuildsTyped'
    <2>1. PICK w \in Windows : build' = [build EXCEPT ![b] =
             IF file = Torn THEN [pc |-> "failed"]
             ELSE Asking([pc |-> "history", encoder |-> encoder,
                          history |-> w.history, heads |-> w.heads, held |-> file,
                          asked |-> <<>>, fresh |-> <<>>, attempt |-> 0],
                         "history", w.history)]
        BY <1>3 DEF Load
    <2> DEFINE p == [pc |-> "history", encoder |-> encoder,
                     history |-> w.history, heads |-> w.heads, held |-> file,
                     asked |-> <<>>, fresh |-> <<>>, attempt |-> 0]
    <2>2. DOMAIN p = PageFields
        BY DEF PageFields
    <2> HIDE DEF p
    <2>3. BuildTyped(Asking(p, "history", w.history))
        BY <2>2, AskingTyped
    <2>4. BuildTyped([pc |-> "failed"])
        BY DEF BuildTyped, Waits
    <2>5. built' \in 0..MaxBuilds /\ encoder' = encoder
        BY <1>2, <1>3 DEF Load
    <2>6. PICK q : build' = [build EXCEPT ![b] = q] /\ BuildTyped(q)
        BY <2>1, <2>3, <2>4 DEF p
    <2> QED
        BY <1>1, <2>5, <2>6
<1>4. ASSUME NEW b \in Builds, BatchAnswers(b) PROVE BuildsTyped'
    <2>1. DOMAIN build[b] = PageFields /\ build[b].pc \in {"history", "heads"}
        BY <1>4 DEF CacheOK, PageOK, BatchAnswers, Asked, Embedding
    <2>2. PICK v : build' = [build EXCEPT ![b].attempt = 0, ![b].fresh = v]
        BY <1>4 DEF BatchAnswers
    <2> DEFINE q == [build[b] EXCEPT !.attempt = 0, !.fresh = v]
    <2>3. build' = [build EXCEPT ![b] = q]
        BY <2>2 DEF CacheOK
    <2>4. q.pc \in {"history", "heads"} /\ q.attempt = 0
        BY <2>1 DEF PageFields
    <2> HIDE DEF q
    <2>5. BuildTyped(q)
        BY <2>4, EmbeddingsAssumption DEF BuildTyped, Waits
    <2>6. built' \in 0..MaxBuilds /\ encoder' = encoder
        BY <1>2, <1>4 DEF BatchAnswers
    <2> QED
        BY <1>1, <2>3, <2>5, <2>6
<1>5. ASSUME NEW b \in Builds, BatchFails(b) PROVE BuildsTyped'
    <2>1. DOMAIN build[b] = PageFields /\ build[b].pc \in {"history", "heads"}
        BY <1>5 DEF CacheOK, PageOK, BatchFails, Asked, Embedding
    <2>2. built' \in 0..MaxBuilds /\ encoder' = encoder
        BY <1>2, <1>5 DEF BatchFails
    <2>3. CASE build' = [build EXCEPT ![b] = [pc |-> "unscored"]]
        <3>1. BuildTyped([pc |-> "unscored"])
            BY DEF BuildTyped, Waits
        <3> QED
            BY <1>1, <2>2, <2>3, <3>1
    <2>4. CASE build' = [build EXCEPT ![b].attempt = @ + 1] /\ build[b].attempt + 1 < Retries
        <3> DEFINE q == [build[b] EXCEPT !.attempt = @ + 1]
        <3>1. build' = [build EXCEPT ![b] = q]
            BY <2>4 DEF CacheOK
        <3>2. q.pc \in {"history", "heads"} /\ q.attempt = build[b].attempt + 1
            BY <2>1 DEF PageFields
        <3>3. build[b].attempt \in Nat
            BY <2>1 DEF BuildsTyped, BuildTyped, Waits
        <3> HIDE DEF q
        <3>4. BuildTyped(q)
            BY <2>4, <3>2, <3>3 DEF BuildTyped, Waits
        <3> QED
            BY <1>1, <2>2, <3>1, <3>4
    <2> QED
        BY <1>5, <2>3, <2>4 DEF BatchFails
<1>6. ASSUME NEW b \in Builds, CallReturns(b) PROVE BuildsTyped'
    <2>1. DOMAIN build[b] = PageFields /\ build[b].pc \in {"history", "heads"}
        BY <1>6 DEF CacheOK, PageOK, CallReturns, Embedding
    <2>2. PICK held : build' = [build EXCEPT ![b] =
              IF build[b].pc = "history"
              THEN Asking([build[b] EXCEPT !.held = held], "heads", build[b].heads)
              ELSE Asking([build[b] EXCEPT !.held = held], "save", {})]
        BY <1>6 DEF CallReturns
    <2> DEFINE p == [build[b] EXCEPT !.held = held]
    <2>3. DOMAIN p = PageFields
        BY <2>1
    <2> HIDE DEF p
    <2>4. BuildTyped(Asking(p, "heads", build[b].heads)) /\ BuildTyped(Asking(p, "save", {}))
        BY <2>3, AskingTyped
    <2>5. built' \in 0..MaxBuilds /\ encoder' = encoder
        BY <1>2, <1>6 DEF CallReturns
    <2>6. PICK q : build' = [build EXCEPT ![b] = q] /\ BuildTyped(q)
        BY <2>2, <2>4 DEF p
    <2> QED
        BY <1>1, <2>5, <2>6
<1>7. ASSUME NEW b \in Builds, OpenFile(b) \/ WriteFile(b) PROVE BuildsTyped'
    <2>1. DOMAIN build[b] = PageFields
        BY <1>7 DEF CacheOK, PageOK, OpenFile, WriteFile
    <2>2. PICK pc \in {"writing", "scored"} : build' = [build EXCEPT ![b].pc = pc]
        BY <1>7 DEF OpenFile, WriteFile
    <2> DEFINE q == [build[b] EXCEPT !.pc = pc]
    <2>3. build' = [build EXCEPT ![b] = q]
        BY <2>2 DEF CacheOK
    <2>4. q.pc = pc
        BY <2>1 DEF PageFields
    <2> HIDE DEF q
    <2>5. BuildTyped(q)
        BY <2>4 DEF BuildTyped, Waits
    <2>6. built' \in 0..MaxBuilds /\ encoder' = encoder
        BY <1>2, <1>7 DEF OpenFile, WriteFile
    <2> QED
        BY <1>1, <2>3, <2>5, <2>6
<1>8. ASSUME NEW b \in Builds, PageDies(b) PROVE BuildsTyped'
    <2>1. BuildTyped(NoPage)
        BY DEF BuildTyped, Waits, NoPage
    <2>2. built' \in 0..MaxBuilds /\ encoder' = encoder
        BY <1>2, <1>8 DEF PageDies
    <2> QED
        BY <1>1, <1>8, <2>1, <2>2 DEF PageDies
<1>9. CASE Configure \/ FileRemoved \/ UNCHANGED embeddingsVars
    BY <1>9 DEF Configure, FileRemoved, embeddingsVars, BuildsTyped
<1> QED
    BY <1>3, <1>4, <1>5, <1>6, <1>7, <1>8, <1>9 DEF EmbeddingsNext

LEMMA EmbeddingsTyped == ASSUME CacheOK, BuildsTyped PROVE EmbeddingsTypeOK
<1>1. ASSUME NEW b \in Builds, Embedding(b)
      PROVE  build[b].attempt < Retries /\ Len(build[b].fresh) <= Len(build[b].asked)
    <2>1. build[b].pc \in {"history", "heads"}
        BY <1>1 DEF Embedding
    <2> QED
        BY <2>1 DEF CacheOK, PageOK, BuildsTyped, BuildTyped, Waits
<1> QED
    BY <1>1 DEF EmbeddingsTypeOK, BuildsTyped, BuildTyped

(* What a build is at, and that it never tries a request once too often.   *)
THEOREM EmbeddingsTypeCorrect == EmbeddingsSpec => []EmbeddingsTypeOK
<1>1. CacheOK /\ BuildsTyped /\ [EmbeddingsNext]_embeddingsVars => CacheOK' /\ BuildsTyped'
    BY NextCacheOK, NextBuildsTyped
<1>2. CacheOK /\ BuildsTyped => EmbeddingsTypeOK
    BY EmbeddingsTyped
<1> QED
    BY <1>1, <1>2, InitCacheOK, InitBuildsTyped, PTL DEF EmbeddingsSpec

-----------------------------------------------------------------------------
(* Ranking.                                                                *)

(* High of a set that has a member no other exceeds.                       *)
LEMMA HighIs ==
    ASSUME NEW S, S \subseteq Int, NEW m \in S, \A n \in S : n <= m
    PROVE  High(S) = m
<1>1. \A n \in S : m >= n
    OBVIOUS
<1>2. High(S) \in S /\ \A n \in S : High(S) >= n
    BY <1>1 DEF High
<1>3. m >= High(S) /\ High(S) >= m /\ m \in Int /\ High(S) \in Int
    BY <1>1, <1>2
<1> QED
    BY <1>3

(* What a score is computed with keeps the order.                          *)
LEMMA QuotientMonotone ==
    ASSUME NEW x \in Int, NEW y \in Int, NEW d \in Nat \ {0}, y <= x
    PROVE  x \div d \in Int /\ y \div d \in Int /\ y \div d <= x \div d
    OBVIOUS

LEMMA ClampTyped ==
    ASSUME NEW x \in Int, NEW top \in Nat
    PROVE  Clamp(x, top) \in Int /\ Clamp(x, top) >= 0 /\ Clamp(x, top) <= top
    BY DEF Clamp

LEMMA ClampMonotone ==
    ASSUME NEW x \in Int, NEW y \in Int, NEW top \in Nat, y <= x
    PROVE  Clamp(x, top) \in 0..top /\ Clamp(y, top) <= Clamp(x, top)
    BY DEF Clamp

-----------------------------------------------------------------------------

WorldOK == world.wire \in Wires /\ world.board \in Boards

LEMMA WorldTyped ==
    ASSUME WorldOK
    PROVE  /\ \A r \in Reports :
                 /\ r \in Nat /\ world.wire[r].at \in Nat /\ world.wire[r].topics \in Nat
                 /\ \A f \in Firms : world.wire[r].firms[f] \in Nat
                 /\ \A q \in Reports :
                       Likeness(world.wire[r].title, world.wire[q].title) \in 0..100
           /\ \A f \in Firms : f \in Nat /\ world.board[f] \in Nat
    BY RankingAssumption DEF WorldOK

(* What a row of a story says of itself.                                   *)
StoryOK(s) ==
    /\ s.window \in Nat /\ s.id \in Reports
    /\ s.title = world.wire[s.id].title /\ s.topics = world.wire[s.id].topics
    /\ s.publishers \in Nat /\ s.seen \in Nat

(* The rows T say which reports the stories S are of.                      *)
ReportsIn(T, id) == {m.report : m \in {n \in T : n.id = id}}
Describes(T, S, wire) ==
    \A s \in S :
        /\ ReportsIn(T, s.id) # {}
        /\ s.publishers = Cardinality({wire[r].publisher : r \in ReportsIn(T, s.id)})
        /\ s.seen = High({wire[r].at : r \in ReportsIn(T, s.id)})

TablesOK ==
    /\ now \in Nat /\ WorldOK
    /\ IsFiniteSet(stories) /\ IsFiniteSet(members) /\ IsFiniteSet(clustering)
    /\ \A s \in stories : StoryOK(s) /\ s.window <= now
    /\ \A s, t \in stories : s.window = t.window /\ s.id = t.id => s = t
    /\ \A m \in members \cup clustering :
          /\ m.window \in Nat /\ m.id \in Reports /\ m.report \in Reports
          /\ m.window <= NewestWindow(stories)
    /\ \A c \in clustering : c.window = NewestWindow(stories)
    /\ clustering # {} =>
          /\ Describes(clustering, Latest(stories), world.wire)
          /\ \A m \in members : m.window < NewestWindow(stories)
    /\ NewestWindow(members) = NewestWindow(stories) =>
          Describes(Latest(members), Latest(stories), world.wire)
    /\ \A m \in measured : m.at \in Nat /\ m.at <= now /\ m.score \in Int
    /\ \A k \in marked : k.mark \in {-1, 1}

(* What each read finds.                                                   *)
EntitiesRead ==
    {e \in {<<id, firm, Mentioned(id, firm, reader.at)>> :
               id \in ReadIds, firm \in Firms} : e[3] > 0}

SlopesRead ==
    UNION {{<<id, s>> : s \in FastestSlope(id, reader.at - Span)} : id \in ReadIds}

MarksRead ==
    /\ \A p \in reader.marks : p[2] \in Marks(p[1], reader.at)
    /\ \A id \in Reports : Marks(id, reader.at) # {} => \E p \in reader.marks : p[1] = id

NoveltyRead ==
    {<<c.id, Novelty(Nearest(c.title, PriorTitles(reader.at)))>> : c \in reader.clusters}

Phases == <<"entities", "velocity", "feedback", "novelty", "rank">>
From(i) == {Phases[k] : k \in i..5}

(* Whatever the reads met, a score can be taken.                           *)
ReadsTyped ==
    /\ reader.at = now
    /\ IsFiniteSet(reader.clusters)
    /\ \A c \in reader.clusters : StoryOK(c)
    /\ \A c, d \in reader.clusters : c.window = d.window /\ (c.id = d.id => c = d)
    /\ IsFiniteSet(reader.entities)
    /\ \A e \in reader.entities : e[2] \in Firms /\ e[3] \in Nat
    /\ \A p \in reader.slopes : p[2] \in Int
    /\ \A p \in reader.marks : p[2] \in {-1, 1}
    /\ \A p \in reader.novelty : p[2] \in 0..120
    /\ reader.pc # "rank" => reader.novelty = {}

(* If they met no commit, they found what the tables still say.            *)
ReadsTrue ==
    /\ reader.clusters = Latest(stories)
    /\ NewestWindow(stories) = NewestWindow(members)
    /\ reader.pc \in From(2) => reader.entities = EntitiesRead
    /\ reader.pc \in From(3) => reader.slopes = SlopesRead
    /\ reader.pc \in From(4) => MarksRead
    /\ reader.pc \in From(5) => reader.novelty \in {{}, NoveltyRead}

ReaderOK ==
    /\ DOMAIN reader = DOMAIN NoReader
    /\ reader.pc \in From(1) => ReadsTyped /\ (reader.quiet => ReadsTrue)

-----------------------------------------------------------------------------
(* The components of a score.                                              *)

LEMMA ValueTyped ==
    ASSUME NEW P, NEW id, NEW T, NEW default \in T, \A p \in P : p[2] \in T
    PROVE  Value(P, id, default) \in T
<1>1. CASE \E p \in P : p[1] = id
    <2>1. (CHOOSE p \in P : p[1] = id) \in P
        BY <1>1
    <2> QED
        BY <1>1, <2>1 DEF Value
<1>2. CASE ~ \E p \in P : p[1] = id
    BY <1>2 DEF Value
<1> QED
    BY <1>1, <1>2

(* The subject is one of the companies.                                    *)
LEMMA SubjectIsOne ==
    ASSUME NEW E, E # {}, \A e \in E : e[1] \in Firms /\ e[2] \in Nat, IsFiniteSet(E)
    PROVE  Subject(E) \in Firms
<1> DEFINE counts == {e[2] : e \in E}
           most == High(counts)
           firms == {e[1] : e \in {f \in E : f[2] = most}}
<1>1. counts # {} /\ counts \subseteq Int
    OBVIOUS
<1>2. IsFiniteSet(counts)
    <2> DEFINE f == [e \in E |-> e[2]]
    <2>1. IsFiniteSet({f[e] : e \in E})
        <3> HIDE DEF f
        <3> QED
            BY FiniteImage
    <2>2. counts = {f[e] : e \in E}
        OBVIOUS
    <2> QED
        BY <2>1, <2>2
<1>3. most \in counts
    <2> HIDE DEF counts
    <2> QED
        BY <1>1, <1>2, HighMember
<1> HIDE DEF most
<1>4. firms # {} /\ firms \subseteq Firms
    BY <1>3
<1>5. Firms \subseteq Int /\ IsFiniteSet(firms) /\ firms \subseteq Int
    <2>1. IsFiniteSet(Firms) /\ Firms \subseteq Nat
        BY RankingAssumption
    <2>2. IsFiniteSet(firms)
        <3> HIDE DEF firms
        <3> QED
            BY <1>4, <2>1, FS_Subset
    <2> HIDE DEF firms
    <2> QED
        BY <1>4, <2>1, <2>2
<1>6. Low(firms) \in firms
    <2> HIDE DEF firms
    <2> QED
        BY <1>4, <1>5, LowMember
<1>7. Subject(E) = Low(firms)
    BY DEF Subject, most
<1> QED
    BY <1>4, <1>6, <1>7

LEMMA EntitiesFinite ==
    ASSUME NEW id, IsFiniteSet(reader.entities)
    PROVE  IsFiniteSet(EntitiesOf(id))
<1> DEFINE S == {e \in reader.entities : e[1] = id}
           f == [e \in S |-> <<e[2], e[3]>>]
<1>1. IsFiniteSet(S)
    BY FS_Subset
<1>2. EntitiesOf(id) = {f[e] : e \in S}
    BY DEF EntitiesOf
<1> HIDE DEF f, S
<1> QED
    BY <1>1, <1>2, FiniteImage

(* Whatever the reads met, a score is a number.                            *)
LEMMA ScoreTyped ==
    ASSUME TablesOK, ReadsTyped, NEW c \in reader.clusters
    PROVE  /\ Score(c) \in Int
           /\ Value(reader.marks, c.id, 0) \in Int /\ Value(reader.novelty, c.id, 0) \in Int
           /\ Relevance(EntitiesOf(c.id), c.topics) \in Int
           /\ Velocity(c.id) \in Int /\ Corroboration(EntitiesOf(c.id)) \in Int
<1> DEFINE E == EntitiesOf(c.id)
<1>0. IsFiniteSet(E)
    BY EntitiesFinite DEF ReadsTyped
<1>1. c.topics \in Nat /\ c.publishers \in Nat /\ c.seen \in Nat /\ reader.at \in Nat
    BY WorldTyped DEF TablesOK, ReadsTyped, StoryOK
<1>2. Saturation \in Nat \ {0} /\ DayTicks \in Nat \ {0}
    BY RankingAssumption
<1>3. \A x \in Int : \A top \in Nat : Clamp(x, top) \in Int
    BY DEF Clamp
<1>4. Relevance(E, c.topics) \in Int
    BY <1>1, <1>3 DEF Relevance
<1>5. Velocity(c.id) \in Int
    <2>1. Value(reader.slopes, c.id, 0) \in Int
        BY ValueTyped DEF ReadsTyped
    <2>2. Value(reader.slopes, c.id, 0) \div Saturation \in Int
        BY <1>2, <2>1, QuotientMonotone
    <2> QED
        BY <1>3, <2>2 DEF Velocity
<1>6. Corroboration(E) \in Int
    <2>1. CASE E = {}
        BY <2>1 DEF Corroboration
    <2>2. CASE E # {}
        <3>1. \A e \in E : e[1] \in Firms /\ e[2] \in Nat
            BY DEF EntitiesOf, ReadsTyped
        <3>2. Subject(E) \in Firms
            BY <1>0, <2>2, <3>1, SubjectIsOne
        <3>3. world.board[Subject(E)] \in Nat
            BY <3>2, WorldTyped DEF TablesOK
        <3> QED
            BY <1>3, <2>2, <3>3 DEF Corroboration
    <2> QED
        BY <2>1, <2>2
<1>7. Value(reader.marks, c.id, 0) \in Int
    BY ValueTyped DEF ReadsTyped
<1>8. Value(reader.novelty, c.id, 0) \in Int
    BY ValueTyped DEF ReadsTyped
<1>9. Clamp((c.publishers - 1) * 40, 120) \in Int
    <2>1. (c.publishers - 1) * 40 \in Int
        BY <1>1
    <2> QED
        BY <1>3, <2>1
<1>10. Clamp(120 - ((reader.at - c.seen) * 120) \div DayTicks, 120) \in Int
    <2>1. ((reader.at - c.seen) * 120) \in Int
        BY <1>1
    <2>2. ((reader.at - c.seen) * 120) \div DayTicks \in Int
        BY <1>2, <2>1, QuotientMonotone
    <2> QED
        BY <1>3, <2>2
<1> HIDE DEF E
<1>11. Score(c) \in Int
    BY <1>4, <1>5, <1>6, <1>7, <1>8, <1>9, <1>10 DEF Score, E
<1> QED
    BY <1>4, <1>5, <1>6, <1>7, <1>8, <1>11 DEF E

(* The slopes of a thread are numbers, at most one.                        *)
LEMMA SlopesTyped ==
    ASSUME TablesOK, NEW item, NEW since
    PROVE  IsFiniteSet(Slopes(item, since)) /\ Slopes(item, since) \subseteq Int
<1> DEFINE seen == {m \in measured : m.item = item /\ m.at >= since}
           ticks == {m.at : m \in seen}
           ScoreAt(t) == (CHOOSE m \in seen : m.at = t).score
           rise == (ScoreAt(High(ticks)) - ScoreAt(Low(ticks))) * 120
           run == High(ticks) - Low(ticks)
<1>1. CASE Cardinality(ticks) < 2
    <2>1. Slopes(item, since) = {}
        BY <1>1 DEF Slopes
    <2> QED
        BY <2>1, FS_EmptySet
<1>2. CASE ~ (Cardinality(ticks) < 2)
    <2>1. Slopes(item, since) = {rise \div run}
        BY <1>2 DEF Slopes
    <2>2. ticks \subseteq 0..now /\ now \in Nat
        BY DEF TablesOK
    <2>3. IsFiniteSet(ticks) /\ ticks \subseteq Int
        <3> HIDE DEF ticks
        <3>0. 0 \in Int /\ now \in Int /\ 0..now \subseteq Int
            BY <2>2
        <3>1. IsFiniteSet(0..now)
            BY <3>0, FS_Interval
        <3>2. IsFiniteSet(ticks)
            BY <2>2, <3>1, FS_Subset
        <3> QED
            BY <2>2, <3>0, <3>2
    <2>4. ticks # {}
        <3>1. Cardinality({}) = 0
            BY FS_EmptySet
        <3> HIDE DEF ticks
        <3> QED
            BY <1>2, <3>1
    <2>5. /\ High(ticks) \in ticks /\ \A n \in ticks : n <= High(ticks)
          /\ Low(ticks) \in ticks /\ \A n \in ticks : Low(ticks) <= n
        <3> HIDE DEF ticks
        <3> QED
            BY <2>3, <2>4, HighMember, LowMember
    <2>6. High(ticks) # Low(ticks)
        <3> SUFFICES ASSUME High(ticks) = Low(ticks) PROVE FALSE
            OBVIOUS
        <3> HIDE DEF ticks
        <3>1. \A n \in ticks : n = Low(ticks)
            <4> SUFFICES ASSUME NEW n \in ticks PROVE n = Low(ticks)
                OBVIOUS
            <4>1. n \in Int /\ Low(ticks) \in Int /\ n <= Low(ticks) /\ Low(ticks) <= n
                BY <2>3, <2>5
            <4> QED
                BY <4>1
        <3>2. ticks = {Low(ticks)}
            BY <2>5, <3>1
        <3>3. Cardinality({Low(ticks)}) = 1
            BY FS_Singleton
        <3> QED
            BY <1>2, <3>2, <3>3
    <2>7. run \in Nat \ {0}
        <3> HIDE DEF ticks
        <3>1. High(ticks) \in Int /\ Low(ticks) \in Int /\ Low(ticks) <= High(ticks)
            BY <2>3, <2>5
        <3> QED
            BY <2>6, <3>1
    <2>8. \A t \in ticks : ScoreAt(t) \in Int
        <3> SUFFICES ASSUME NEW t \in ticks PROVE ScoreAt(t) \in Int
            OBVIOUS
        <3>1. (CHOOSE m \in seen : m.at = t) \in seen
            OBVIOUS
        <3> QED
            BY <3>1 DEF TablesOK
    <2>9. rise \in Int
        <3> HIDE DEF ticks, ScoreAt
        <3> QED
            BY <2>5, <2>8
    <2> HIDE DEF rise, run
    <2>10. rise \div run \in Int
        BY <2>7, <2>9, QuotientMonotone
    <2> QED
        BY <2>1, <2>10, FS_Singleton
<1> QED
    BY <1>1, <1>2

(* The slopes of the reports of a story.                                   *)
Climbing(id) == UNION {Slopes(world.wire[r].item, reader.at - Span) : r \in ReportsOf(id)}

LEMMA ReportsThere ==
    ASSUME TablesOK, NEW id
    PROVE  /\ ReportsOf(id) \subseteq Reports /\ IsFiniteSet(ReportsOf(id))
           /\ ReadIds \subseteq Reports /\ IsFiniteSet(ReadIds)
           /\ ReportsOf(id) = ReportsIn(Latest(members), id)
<1>1. ReportsOf(id) \subseteq Reports /\ ReadIds \subseteq Reports
    BY DEF TablesOK, ReportsOf, ReadIds, Latest
<1>2. IsFiniteSet(Reports)
    BY RankingAssumption
<1>3. ReportsOf(id) = ReportsIn(Latest(members), id)
    BY DEF ReportsOf, ReportsIn
<1> QED
    BY <1>1, <1>2, <1>3, FS_Subset

LEMMA ClimbingTyped ==
    ASSUME TablesOK, NEW id
    PROVE  IsFiniteSet(Climbing(id)) /\ Climbing(id) \subseteq Int
<1> DEFINE R == ReportsOf(id)
           f == [r \in R |-> Slopes(world.wire[r].item, reader.at - Span)]
           all == {f[r] : r \in R}
<1>1. IsFiniteSet(R)
    BY ReportsThere
<1>2. Climbing(id) = UNION all
    BY DEF Climbing
<1>3. \A S \in all : IsFiniteSet(S) /\ S \subseteq Int
    BY SlopesTyped
<1>4. IsFiniteSet(all)
    <2> HIDE DEF f, R
    <2> QED
        BY <1>1, FiniteImage
<1> HIDE DEF all
<1> QED
    BY <1>2, <1>3, <1>4, FS_UNION

(* The velocity of a cluster is that of its fastest report, from zero up.  *)
LEMMA VelocityIsPace ==
    ASSUME TablesOK, NEW id \in ReadIds, reader.slopes = SlopesRead
    PROVE  Pace(id) \in Int /\ Velocity(id) = Clamp(Pace(id) \div Saturation, 120)
<1> DEFINE all == Climbing(id)
<1>1. IsFiniteSet(all) /\ all \subseteq Int
    BY ClimbingTyped
<1>2. Pace(id) = High({0} \cup all)
    BY DEF Pace, Climbing
<1>3. FastestSlope(id, reader.at - Span) = IF all = {} THEN {} ELSE {High(all)}
    BY DEF FastestSlope, Climbing
<1>4. Saturation \in Nat \ {0}
    BY RankingAssumption
<1> HIDE DEF all
<1>5. CASE all = {}
    <2>1. \A p \in reader.slopes : p[1] # id
        BY <1>3, <1>5 DEF SlopesRead
    <2>2. Value(reader.slopes, id, 0) = 0
        BY <2>1 DEF Value
    <2>3. Pace(id) = 0
        BY <1>2, <1>5, HighIs
    <2> QED
        BY <2>2, <2>3 DEF Velocity
<1>6. CASE all # {}
    <2> DEFINE top == High(all)
    <2>1. top \in all /\ \A n \in all : n <= top
        BY <1>1, <1>6, HighMember
    <2>2. <<id, top>> \in reader.slopes /\ \A p \in reader.slopes : p[1] = id => p[2] = top
        <3>1. FastestSlope(id, reader.at - Span) = {top}
            BY <1>3, <1>6
        <3> HIDE DEF top
        <3>2. <<id, top>> \in SlopesRead
            BY <3>1 DEF SlopesRead
        <3>3. \A p \in SlopesRead : p[1] = id => p[2] = top
            BY <3>1 DEF SlopesRead
        <3> QED
            BY <3>2, <3>3
    <2> HIDE DEF top
    <2>3. Value(reader.slopes, id, 0) = top
        BY <2>2 DEF Value
    <2>4. top \in Int
        BY <1>1, <2>1
    <2>5. CASE top >= 0
        <3>1. {0} \cup all \subseteq Int /\ top \in {0} \cup all
            BY <1>1, <2>1
        <3>2. \A n \in {0} \cup all : n <= top
            BY <2>1, <2>5
        <3>3. Pace(id) = top
            BY <1>2, <3>1, <3>2, HighIs
        <3> QED
            BY <2>3, <2>4, <3>3 DEF Velocity
    <2>6. CASE top < 0
        <3>0. {0} \cup all \subseteq Int /\ 0 \in {0} \cup all
            BY <1>1
        <3>4. \A n \in {0} \cup all : n <= 0
            <4> SUFFICES ASSUME NEW n \in all PROVE n <= 0
                OBVIOUS
            <4> QED
                BY <1>1, <2>1, <2>4, <2>6
        <3>1. Pace(id) = 0
            BY <1>2, <3>0, <3>4, HighIs
        <3>2. 0 \div Saturation = 0 /\ top \div Saturation \in Int /\ top \div Saturation <= 0
            BY <1>4, <2>4, <2>6
        <3>3. Clamp(top \div Saturation, 120) = 0 /\ Clamp(0 \div Saturation, 120) = 0
            BY <3>2 DEF Clamp
        <3> QED
            BY <2>3, <3>1, <3>3 DEF Velocity
    <2> QED
        BY <2>4, <2>5, <2>6
<1> QED
    BY <1>5, <1>6

(* Of a story whose reports are read, the companies are those it mentions. *)
LEMMA EntitiesAreAbout ==
    ASSUME NEW id \in ReadIds, reader.entities = EntitiesRead
    PROVE  EntitiesOf(id) = About(id)
<1>1. ASSUME NEW e \in About(id) PROVE e \in EntitiesOf(id)
    <2>1. PICK f \in Firms : e = <<f, Mentioned(id, f, reader.at)>> /\ e[2] > 0
        BY DEF About
    <2>2. <<id, f, Mentioned(id, f, reader.at)>> \in reader.entities
        BY <2>1 DEF EntitiesRead
    <2> QED
        BY <2>1, <2>2 DEF EntitiesOf
<1>2. ASSUME NEW e \in EntitiesOf(id) PROVE e \in About(id)
    <2>1. PICK g \in reader.entities : g[1] = id /\ e = <<g[2], g[3]>>
        BY DEF EntitiesOf
    <2>2. PICK i \in ReadIds, f \in Firms : g = <<i, f, Mentioned(i, f, reader.at)>> /\ g[3] > 0
        BY <2>1 DEF EntitiesRead
    <2>3. e = <<f, Mentioned(id, f, reader.at)>> /\ e[2] > 0
        BY <2>1, <2>2
    <2> QED
        BY <2>3 DEF About
<1> QED
    BY <1>1, <1>2

(* Corroboration grows with how the company of the story moved.            *)
LEMMA StirMonotone ==
    ASSUME TablesOK, NEW a, NEW b,
           \A i \in {a, b} : /\ IsFiniteSet(About(i))
                             /\ \A e \in About(i) : e[1] \in Firms /\ e[2] \in Nat,
           Stir(b) >= Stir(a)
    PROVE  Corroboration(About(b)) >= Corroboration(About(a))
<1>1. \A i \in {a, b} : About(i) # {} =>
          /\ world.board[Subject(About(i))] \in Nat
          /\ Stir(i) = world.board[Subject(About(i))]
          /\ Corroboration(About(i)) = Clamp((world.board[Subject(About(i))] - 3) * 40, 120)
    <2> SUFFICES ASSUME NEW i \in {a, b}, About(i) # {}
                 PROVE  /\ world.board[Subject(About(i))] \in Nat
                        /\ Stir(i) = world.board[Subject(About(i))]
                        /\ Corroboration(About(i)) =
                              Clamp((world.board[Subject(About(i))] - 3) * 40, 120)
        OBVIOUS
    <2>1. Subject(About(i)) \in Firms
        BY SubjectIsOne
    <2> QED
        BY <2>1, WorldTyped DEF TablesOK, Stir, Corroboration
<1>2. \A i \in {a, b} : About(i) = {} => Stir(i) = -1 /\ Corroboration(About(i)) = 0
    BY DEF Stir, Corroboration
<1>3. CASE About(a) = {} /\ About(b) = {}
    BY <1>2, <1>3
<1>4. CASE About(a) = {} /\ About(b) # {}
    <2> DEFINE y == (world.board[Subject(About(b))] - 3) * 40
    <2>1. y \in Int
        BY <1>1, <1>4
    <2> HIDE DEF y
    <2>2. Clamp(y, 120) \in Int /\ Clamp(y, 120) >= 0
        BY <2>1, ClampTyped
    <2>3. Corroboration(About(b)) = Clamp(y, 120) /\ Corroboration(About(a)) = 0
        BY <1>1, <1>2, <1>4 DEF y
    <2> QED
        BY <2>2, <2>3
<1>5. CASE About(a) # {} /\ About(b) = {}
    BY <1>1, <1>2, <1>5
<1>6. CASE About(a) # {} /\ About(b) # {}
    <2> DEFINE x == world.board[Subject(About(a))]
               y == world.board[Subject(About(b))]
    <2>1. x \in Nat /\ y \in Nat /\ x <= y
        BY <1>1, <1>6
    <2>2. Corroboration(About(a)) = Clamp((x - 3) * 40, 120)
          /\ Corroboration(About(b)) = Clamp((y - 3) * 40, 120)
        BY <1>1, <1>6
    <2> HIDE DEF x, y
    <2>3. (x - 3) * 40 \in Int /\ (y - 3) * 40 \in Int /\ (x - 3) * 40 <= (y - 3) * 40
        BY <2>1
    <2>4. Clamp((x - 3) * 40, 120) <= Clamp((y - 3) * 40, 120)
        BY <2>3, ClampMonotone
    <2>5. Clamp((x - 3) * 40, 120) \in Int /\ Clamp((y - 3) * 40, 120) \in Int
        BY <2>3, ClampTyped
    <2> QED
        BY <2>2, <2>4, <2>5
<1> QED
    BY <1>3, <1>4, <1>5, <1>6

(* The mark that counts is one of those given.                             *)
LEMMA MarkIsLiked ==
    ASSUME MarksRead, NEW id \in Reports
    PROVE  Value(reader.marks, id, 0) \in Liking(id)
<1>1. CASE \E p \in reader.marks : p[1] = id
    <2> DEFINE p == CHOOSE p \in reader.marks : p[1] = id
    <2>1. p \in reader.marks /\ p[1] = id
        BY <1>1
    <2>2. Value(reader.marks, id, 0) = p[2]
        BY <1>1 DEF Value
    <2> HIDE DEF p
    <2>3. p[2] \in Marks(id, reader.at)
        BY <2>1 DEF MarksRead
    <2> QED
        BY <2>2, <2>3 DEF Liking
<1>2. CASE ~ \E p \in reader.marks : p[1] = id
    <2>1. Marks(id, reader.at) = {}
        BY <1>2 DEF MarksRead
    <2> QED
        BY <1>2, <2>1 DEF Value, Liking
<1> QED
    BY <1>1, <1>2

(* The newest window is that of a row, and no row is of a later one.       *)
LEMMA NewestIs ==
    ASSUME NEW T, IsFiniteSet(T), \A r \in T : r.window \in Nat
    PROVE  /\ NewestWindow(T) \in Int
           /\ \A r \in T : r.window <= NewestWindow(T)
           /\ T # {} => \E r \in T : r.window = NewestWindow(T)
           /\ T = {} => NewestWindow(T) = -1
<1> DEFINE f == [r \in T |-> r.window]
           W == {f[r] : r \in T}
           S == W \cup {-1}
<1>1. IsFiniteSet(W)
    <2> HIDE DEF f
    <2> QED
        BY FiniteImage
<1>2. W = {r.window : r \in T} /\ W \subseteq Nat
    OBVIOUS
<1>3. NewestWindow(T) = High(S)
    BY <1>2 DEF NewestWindow
<1>4. \A r \in T : r.window \in W
    OBVIOUS
<1>5. \A w \in W : \E r \in T : r.window = w
    OBVIOUS
<1>9. T = {} => W = {}
    OBVIOUS
<1>10. T # {} => W # {}
    OBVIOUS
<1> HIDE DEF f, W
<1>6. S \subseteq Int /\ IsFiniteSet(S) /\ S # {}
    <2>1. IsFiniteSet({-1})
        BY FS_Singleton
    <2>2. IsFiniteSet(W \cup {-1})
        BY <1>1, <2>1, FS_Union
    <2> QED
        BY <1>2, <2>2
<1>7. High(S) \in S /\ \A n \in S : n <= High(S)
    <2> HIDE DEF S
    <2> QED
        BY <1>6, HighMember
<1>8. W # {} => High(S) \in W
    <2> SUFFICES ASSUME NEW w \in W, High(S) = -1 PROVE FALSE
        BY <1>7
    <2> QED
        BY <1>2, <1>7
<1>11. T = {} => High(S) = -1
    BY <1>7, <1>9
<1> QED
    BY <1>3, <1>4, <1>5, <1>6, <1>7, <1>8, <1>10, <1>11

(* The history a page reads is the titles of the windows before its own.   *)
LEMMA EarlierIsPrior ==
    ASSUME TablesOK
    PROVE  /\ Earlier = PriorTitles(reader.at)
           /\ \A t \in Earlier : \E r \in Reports : t = world.wire[r].title
           /\ IsFiniteSet(Earlier)
<1>1. /\ NewestWindow(stories) \in Int
      /\ \A r \in stories : r.window \in Nat /\ r.window <= NewestWindow(stories)
      /\ stories # {} => \E r \in stories : r.window = NewestWindow(stories)
    BY NewestIs DEF TablesOK, StoryOK
<1>2. \A r \in stories : (\E q \in stories : q.window > r.window)
                         <=> r.window < NewestWindow(stories)
    <2> SUFFICES ASSUME NEW r \in stories
                 PROVE (\E q \in stories : q.window > r.window) <=> r.window < NewestWindow(stories)
        OBVIOUS
    <2>1. ASSUME NEW q \in stories, q.window > r.window PROVE r.window < NewestWindow(stories)
        <3>1. q.window \in Int /\ r.window \in Int /\ q.window <= NewestWindow(stories)
              /\ NewestWindow(stories) \in Int
            BY <1>1
        <3> QED
            BY <2>1, <3>1
    <2>2. ASSUME r.window < NewestWindow(stories) PROVE \E q \in stories : q.window > r.window
        BY <1>1, <2>2
    <2> QED
        BY <2>1, <2>2
<1>3. Earlier = PriorTitles(reader.at)
    BY <1>2 DEF Earlier, PriorTitles
<1>4. \A t \in Earlier : \E r \in Reports : t = world.wire[r].title
    BY DEF TablesOK, StoryOK, Earlier
<1>5. IsFiniteSet(Earlier)
    <2> DEFINE f == [s \in stories |-> s.title]
               W == {f[s] : s \in stories}
    <2>1. IsFiniteSet(W)
        <3> HIDE DEF f
        <3> QED
            BY FiniteImage DEF TablesOK
    <2>2. Earlier \subseteq W
        BY DEF Earlier
    <2> HIDE DEF W
    <2> QED
        BY <2>1, <2>2, FS_Subset
<1> QED
    BY <1>3, <1>4, <1>5

(* The likeness the novelty is of is that to the nearest of them.          *)
LEMMA EchoIsNearest ==
    ASSUME TablesOK, NEW c, StoryOK(c)
    PROVE  Echo(c.id) = Nearest(c.title, PriorTitles(reader.at)) /\ Echo(c.id) \in 0..100
<1> DEFINE mine == world.wire[c.id].title
           f == [t \in Earlier |-> Likeness(mine, t)]
           L == {f[t] : t \in Earlier}
           S == {0} \cup L
<1>1. L = {Likeness(mine, t) : t \in Earlier}
    OBVIOUS
<1>2. \A x \in L : x \in 0..100
    <2> SUFFICES ASSUME NEW t \in Earlier PROVE Likeness(mine, t) \in 0..100
        OBVIOUS
    <2>1. PICK r \in Reports : t = world.wire[r].title
        BY EarlierIsPrior
    <2>2. c.id \in Reports
        BY DEF StoryOK
    <2> QED
        BY <2>1, <2>2, WorldTyped DEF TablesOK
<1>3. IsFiniteSet(L)
    <2>1. IsFiniteSet(Earlier)
        BY EarlierIsPrior
    <2> HIDE DEF f
    <2> QED
        BY <2>1, FiniteImage
<1>4. Echo(c.id) = High(S)
    BY <1>1 DEF Echo
<1>5. Nearest(c.title, PriorTitles(reader.at)) = High(S)
    <2>1. c.title = mine /\ PriorTitles(reader.at) = Earlier
        BY EarlierIsPrior DEF StoryOK
    <2>2. {Likeness(c.title, t) : t \in PriorTitles(reader.at)} \cup {0} = S
        BY <1>1, <2>1
    <2> QED
        BY <2>2 DEF Nearest
<1> HIDE DEF L
<1>6. S \subseteq Int /\ IsFiniteSet(S) /\ S # {}
    <2>1. IsFiniteSet({0})
        BY FS_Singleton
    <2>2. IsFiniteSet({0} \cup L)
        BY <1>3, <2>1, FS_Union
    <2> QED
        BY <1>2, <2>2
<1>7. High(S) \in S
    <2> HIDE DEF S
    <2> QED
        BY <1>6, HighMember
<1> QED
    BY <1>2, <1>4, <1>5, <1>7

(* Novelty falls with likeness, and a headline that is there has none.     *)
LEMMA NoveltyFalls ==
    ASSUME NEW x \in 0..100, NEW y \in 0..100, y <= x
    PROVE  /\ Novelty(x) \in Int /\ Novelty(y) \in Int /\ Novelty(x) <= Novelty(y)
           /\ x = 100 /\ y < 100 => Novelty(x) < Novelty(y)
    BY DEF Novelty, Clamp

LEMMA NoveltyTyped ==
    ASSUME NEW x \in 0..100
    PROVE  Novelty(x) \in 0..120
    BY DEF Novelty, Clamp

(* A story gets the novelty of its own headline, or no story has one.      *)
LEMMA NoveltyIs ==
    ASSUME TablesOK, ReadsTyped, NEW c \in reader.clusters,
           reader.novelty \in {{}, NoveltyRead}
    PROVE  /\ reader.novelty # {} => Value(reader.novelty, c.id, 0) = Novelty(Echo(c.id))
           /\ reader.novelty = {} => Value(reader.novelty, c.id, 0) = 0
<1>1. reader.novelty = {} => Value(reader.novelty, c.id, 0) = 0
    BY DEF Value
<1>2. ASSUME reader.novelty = NoveltyRead
      PROVE  Value(reader.novelty, c.id, 0) = Novelty(Echo(c.id))
    <2> DEFINE pair == <<c.id, Novelty(Nearest(c.title, PriorTitles(reader.at)))>>
    <2>1. pair \in reader.novelty
        BY <1>2 DEF NoveltyRead
    <2>2. \A p \in reader.novelty : p[1] = c.id => p = pair
        BY <1>2 DEF NoveltyRead, ReadsTyped
    <2>3. pair[1] = c.id
        OBVIOUS
    <2>4. pair[2] = Novelty(Echo(c.id))
        <3>1. Echo(c.id) = Nearest(c.title, PriorTitles(reader.at))
            BY EchoIsNearest DEF ReadsTyped
        <3> QED
            BY <3>1
    <2> HIDE DEF pair
    <2>5. (CHOOSE p \in reader.novelty : p[1] = c.id) = pair
        BY <2>1, <2>2, <2>3
    <2> QED
        BY <2>1, <2>3, <2>4, <2>5 DEF Value
<1> QED
    BY <1>1, <1>2


(* All six reads are done and met no commit.                               *)
ReadWhole ==
    /\ reader.clusters = Latest(stories)
    /\ NewestWindow(stories) = NewestWindow(members)
    /\ reader.entities = EntitiesRead
    /\ reader.slopes = SlopesRead
    /\ MarksRead
    /\ reader.novelty \in {{}, NoveltyRead}

(* What a row says of a story is what its reports say.                     *)
LEMMA RowsDescribe ==
    ASSUME TablesOK, ReadsTyped, ReadWhole, NEW c \in reader.clusters
    PROVE  /\ c.id \in ReadIds /\ c.id \in Reports
           /\ c.publishers = Publishers(c.id) /\ c.publishers \in Nat
           /\ c.seen = NewestReport(c.id) /\ c.seen \in Nat
           /\ c.topics = world.wire[c.id].topics
           /\ IsFiniteSet(About(c.id))
           /\ \A e \in About(c.id) : e[1] \in Firms /\ e[2] \in Nat
           /\ EntitiesOf(c.id) = About(c.id)
<1>1. Describes(Latest(members), Latest(stories), world.wire) /\ c \in Latest(stories)
    BY DEF ReadWhole, TablesOK
<1>2. ReportsOf(c.id) # {} /\ c.publishers = Publishers(c.id) /\ c.seen = NewestReport(c.id)
    BY <1>1, ReportsThere DEF Describes, Publishers, NewestReport
<1>3. c.id \in ReadIds
    BY <1>2 DEF ReportsOf, ReadIds
<1>4. StoryOK(c)
    BY DEF ReadsTyped
<1>5. EntitiesOf(c.id) = About(c.id)
    BY <1>3, EntitiesAreAbout DEF ReadWhole
<1>6. IsFiniteSet(EntitiesOf(c.id))
    BY EntitiesFinite DEF ReadsTyped
<1>7. \A e \in EntitiesOf(c.id) : e[1] \in Firms /\ e[2] \in Nat
    BY DEF EntitiesOf, ReadsTyped
<1> QED
    BY <1>2, <1>3, <1>4, <1>5, <1>6, <1>7 DEF StoryOK

(* Every component of a score grows with what it is about, so a story      *)
(* worth no less scores no less; and a repeated headline costs.            *)
LEMMA WorthIsScore ==
    ASSUME TablesOK, ReadsTyped, ReadWhole,
           NEW a \in reader.clusters, NEW b \in reader.clusters, Worth(b.id, a.id)
    PROVE  /\ Score(b) >= Score(a)
           /\ reader.novelty # {} /\ Echo(a.id) = 100 /\ Echo(b.id) < 100
                 => Score(b) > Score(a)
<1> DEFINE Spread(c) == Clamp((c.publishers - 1) * 40, 120)
           Fresh(c) == Clamp(120 - ((reader.at - c.seen) * 120) \div DayTicks, 120)
           Rel(c) == Relevance(EntitiesOf(c.id), c.topics)
           Vel(c) == Velocity(c.id)
           Cor(c) == Corroboration(EntitiesOf(c.id))
           Mark(c) == Value(reader.marks, c.id, 0)
           Nov(c) == Value(reader.novelty, c.id, 0)
<1>1. reader.at \in Nat /\ Saturation \in Nat \ {0} /\ DayTicks \in Nat \ {0}
    BY RankingAssumption DEF TablesOK, ReadsTyped
<1>2. /\ a.publishers \in Nat /\ b.publishers \in Nat /\ b.publishers >= a.publishers
      /\ a.seen \in Nat /\ b.seen \in Nat /\ b.seen >= a.seen
    BY RowsDescribe DEF Worth
<1>3. Spread(a) \in Int /\ Spread(b) \in Int /\ Spread(a) <= Spread(b)
    <2>1. (a.publishers - 1) * 40 \in Int /\ (b.publishers - 1) * 40 \in Int
          /\ (a.publishers - 1) * 40 <= (b.publishers - 1) * 40
        BY <1>2
    <2> QED
        BY <2>1, ClampTyped, ClampMonotone
<1>4. Fresh(a) \in Int /\ Fresh(b) \in Int /\ Fresh(a) <= Fresh(b)
    <2> DEFINE x == (reader.at - a.seen) * 120
               y == (reader.at - b.seen) * 120
    <2>1. x \in Int /\ y \in Int /\ y <= x
        BY <1>1, <1>2
    <2> HIDE DEF x, y
    <2>2. x \div DayTicks \in Int /\ y \div DayTicks \in Int /\ y \div DayTicks <= x \div DayTicks
        BY <1>1, <2>1, QuotientMonotone
    <2> DEFINE u == 120 - x \div DayTicks
               v == 120 - y \div DayTicks
    <2>3. u \in Int /\ v \in Int /\ u <= v
        BY <2>2
    <2>4. Fresh(a) = Clamp(u, 120) /\ Fresh(b) = Clamp(v, 120)
        BY DEF x, y
    <2> HIDE DEF u, v, Fresh
    <2> QED
        BY <2>3, <2>4, ClampTyped, ClampMonotone
<1>5. Rel(a) \in Int /\ Rel(b) \in Int /\ Rel(a) <= Rel(b)
    <2>1. Rel(a) = Interest(a.id) /\ Rel(b) = Interest(b.id)
        BY RowsDescribe DEF Interest
    <2>2. Interest(b.id) >= Interest(a.id)
        BY DEF Worth
    <2>3. Rel(a) \in Int /\ Rel(b) \in Int
        BY ScoreTyped
    <2> QED
        BY <2>1, <2>2, <2>3
<1>6. Vel(a) \in Int /\ Vel(b) \in Int /\ Vel(a) <= Vel(b)
    <2> DEFINE x == Pace(a.id)
               y == Pace(b.id)
    <2>1. /\ x \in Int /\ Vel(a) = Clamp(x \div Saturation, 120)
          /\ y \in Int /\ Vel(b) = Clamp(y \div Saturation, 120)
        BY RowsDescribe, VelocityIsPace DEF ReadWhole
    <2>2. x <= y
        BY <2>1 DEF Worth
    <2> HIDE DEF x, y
    <2>3. x \div Saturation \in Int /\ y \div Saturation \in Int
          /\ x \div Saturation <= y \div Saturation
        BY <1>1, <2>1, <2>2, QuotientMonotone
    <2> QED
        BY <2>1, <2>3, ClampTyped, ClampMonotone
<1>7. Cor(a) \in Int /\ Cor(b) \in Int /\ Cor(a) <= Cor(b)
    <2>1. EntitiesOf(a.id) = About(a.id) /\ EntitiesOf(b.id) = About(b.id)
        BY RowsDescribe
    <2>2. \A i \in {a.id, b.id} : /\ IsFiniteSet(About(i))
                                  /\ \A e \in About(i) : e[1] \in Firms /\ e[2] \in Nat
        BY RowsDescribe
    <2>3. Stir(b.id) >= Stir(a.id)
        BY DEF Worth
    <2>4. Corroboration(About(b.id)) >= Corroboration(About(a.id))
        BY <2>2, <2>3, StirMonotone
    <2>5. Cor(a) \in Int /\ Cor(b) \in Int
        BY ScoreTyped
    <2> QED
        BY <2>1, <2>4, <2>5
<1>8. Mark(a) \in Int /\ Mark(b) \in Int /\ Mark(a) <= Mark(b)
    <2>1. Mark(a) \in Liking(a.id) /\ Mark(b) \in Liking(b.id)
        BY MarkIsLiked, RowsDescribe DEF ReadWhole
    <2>2. Mark(b) >= Mark(a)
        BY <2>1 DEF Worth
    <2>3. Mark(a) \in Int /\ Mark(b) \in Int
        BY ScoreTyped
    <2> QED
        BY <2>2, <2>3
<1>9. /\ Nov(a) \in Int /\ Nov(b) \in Int /\ Nov(a) <= Nov(b)
      /\ reader.novelty # {} /\ Echo(a.id) = 100 /\ Echo(b.id) < 100 => Nov(a) < Nov(b)
    <2>1. Nov(a) \in Int /\ Nov(b) \in Int
        BY ScoreTyped
    <2>2. CASE reader.novelty = {}
        <3>1. Nov(a) = 0 /\ Nov(b) = 0
            BY <2>2, NoveltyIs DEF ReadWhole
        <3> QED
            BY <2>2, <3>1
    <2>3. CASE reader.novelty # {}
        <3>1. Nov(a) = Novelty(Echo(a.id)) /\ Nov(b) = Novelty(Echo(b.id))
            BY <2>3, NoveltyIs DEF ReadWhole
        <3>2. Echo(a.id) \in 0..100 /\ Echo(b.id) \in 0..100
            BY EchoIsNearest DEF ReadsTyped
        <3>3. Echo(b.id) <= Echo(a.id)
            BY DEF Worth
        <3> DEFINE x == Echo(a.id)
                   y == Echo(b.id)
        <3> HIDE DEF Nov, x, y
        <3>4. /\ Novelty(x) \in Int /\ Novelty(y) \in Int /\ Novelty(x) <= Novelty(y)
              /\ x = 100 /\ y < 100 => Novelty(x) < Novelty(y)
            <4>1. x \in 0..100 /\ y \in 0..100 /\ y <= x
                BY <3>2, <3>3 DEF x, y
            <4> QED
                BY <4>1, NoveltyFalls
        <3> QED
            BY <3>1, <3>4 DEF x, y
    <2> QED
        BY <2>1, <2>2, <2>3
<1>10. \A c : Score(c) = 5 * Spread(c) + 20 * Fresh(c) + 25 * Rel(c) + 10 * Vel(c)
                         + 10 * Cor(c) + 10 * 120 * Mark(c) + 20 * Nov(c)
    BY DEF Score
<1> HIDE DEF Spread, Fresh, Rel, Vel, Cor, Mark, Nov
<1> QED
    BY <1>3, <1>4, <1>5, <1>6, <1>7, <1>8, <1>9, <1>10

(* The order is one: of two clusters one is ahead, and never both.         *)
LEMMA AheadIsOrder ==
    ASSUME TablesOK, ReadsTyped
    PROVE  /\ \A c \in reader.clusters : ~Ahead(c, c)
           /\ \A c, d \in reader.clusters : c = d \/ Ahead(c, d) \/ Ahead(d, c)
           /\ \A c, d, e \in reader.clusters : Ahead(c, d) /\ Ahead(d, e) => Ahead(c, e)
<1>1. \A c \in reader.clusters : Score(c) \in Int /\ c.id \in Int
    <2> SUFFICES ASSUME NEW c \in reader.clusters PROVE Score(c) \in Int /\ c.id \in Int
        OBVIOUS
    <2>1. c.id \in Reports
        BY DEF ReadsTyped, StoryOK
    <2>2. Score(c) \in Int
        BY ScoreTyped
    <2>3. c.id \in Nat
        BY <2>1, WorldTyped DEF TablesOK
    <2> QED
        BY <2>2, <2>3
<1>2. \A c, d \in reader.clusters : c.id = d.id => c = d
    BY DEF ReadsTyped
<1> QED
    BY <1>1, <1>2 DEF Ahead

Leaders(c) == {d \in reader.clusters : Ahead(d, c)}
RankOf(c) == 1 + Cardinality(Leaders(c))

(* Who is ahead has the smaller rank.                                      *)
LEMMA RanksFollow ==
    ASSUME TablesOK, ReadsTyped, NEW c \in reader.clusters, NEW d \in reader.clusters,
           Ahead(c, d)
    PROVE  RankOf(c) \in Nat /\ RankOf(d) \in Nat /\ RankOf(c) < RankOf(d)
<1>1. IsFiniteSet(Leaders(c)) /\ IsFiniteSet(Leaders(d))
    BY FS_Subset DEF Leaders, ReadsTyped
<1>2. Leaders(c) \subseteq Leaders(d) /\ c \in Leaders(d) /\ c \notin Leaders(c)
    BY AheadIsOrder DEF Leaders
<1>3. /\ Cardinality(Leaders(c)) \in Nat /\ Cardinality(Leaders(d)) \in Nat
      /\ Cardinality(Leaders(c)) < Cardinality(Leaders(d))
    <2>1. Cardinality(Leaders(c)) \in Nat /\ Cardinality(Leaders(d)) \in Nat
        BY <1>1, FS_CardinalityType
    <2>2. Cardinality(Leaders(c)) <= Cardinality(Leaders(d))
          /\ (Cardinality(Leaders(c)) = Cardinality(Leaders(d)) => Leaders(c) = Leaders(d))
        BY <1>1, <1>2, FS_Subset
    <2> QED
        BY <1>2, <2>1, <2>2
<1> QED
    BY <1>3 DEF RankOf


(* What the warehouse says of a story is of its tables.                    *)
LEMMA SameWarehouse ==
    ASSUME UNCHANGED <<world, stories, members, measured, marked>>, reader'.at = reader.at
    PROVE  \A i, j : (Worth(i, j)' <=> Worth(i, j)) /\ Echo(i)' = Echo(i)
<1>1. \A i : ReportsOf(i)' = ReportsOf(i)
    BY DEF ReportsOf, Latest, NewestWindow
<1>2. \A i : Publishers(i)' = Publishers(i) /\ NewestReport(i)' = NewestReport(i)
    BY <1>1 DEF Publishers, NewestReport
<1>3. \A i : About(i)' = About(i)
    <2>1. \A i, f : Mentioned(i, f, reader.at)' = Mentioned(i, f, reader.at)
        BY <1>1 DEF Mentioned
    <2> QED
        BY <2>1 DEF About
<1>4. \A i : Interest(i)' = Interest(i) /\ Stir(i)' = Stir(i)
    BY <1>3 DEF Interest, Stir, Relevance, Subject
<1>5. \A i : Pace(i)' = Pace(i)
    <2>1. \A i : Slopes(i, reader.at - Span)' = Slopes(i, reader.at - Span)
        BY DEF Slopes
    <2>2. \A r : Slopes(world.wire[r].item, reader.at - Span)'
                   = Slopes(world.wire[r].item, reader.at - Span)
        BY <2>1
    <2> QED
        BY <1>1, <2>2 DEF Pace
<1>6. \A i : Liking(i)' = Liking(i)
    BY DEF Liking, Marks
<1>7. \A i : Echo(i)' = Echo(i)
    BY DEF Echo, Earlier
<1> QED
    BY <1>2, <1>4, <1>5, <1>6, <1>7 DEF Worth

(* The page, from reads that found what the tables say.                    *)
LEMMA PageMade ==
    ASSUME TablesOK, ReadsTyped, reader.quiet => ReadWhole, Rank,
           UNCHANGED <<now, world, stories, members, clustering, measured, marked, events>>
    PROVE  PageOrdered'
<1> DEFINE Line(c) == [cluster |-> c, score |-> Score(c), rank |-> RankOf(c)]
           chosen == reader.clusters
<1>0. \A c : Line(c).cluster = c /\ Line(c).score = Score(c) /\ Line(c).rank = RankOf(c)
    OBVIOUS
<1>1. /\ reader'.page = {Line(c) : c \in chosen}
      /\ reader'.clusters = chosen /\ reader'.quiet = reader.quiet
      /\ reader'.at = reader.at /\ reader'.novelty = reader.novelty
    BY DEF Rank, RankOf, Leaders
<1>2. Cardinality({p.rank : p \in reader'.page}) = Cardinality(chosen)
    <2> DEFINE f == [c \in chosen |-> RankOf(c)]
               ranks == {RankOf(c) : c \in chosen}
    <2>1. {p.rank : p \in reader'.page} = ranks
        <3> HIDE DEF Line, chosen
        <3> QED
            BY <1>1, <1>0
    <2>2. \A c, d \in chosen : RankOf(c) = RankOf(d) => c = d
        <3> SUFFICES ASSUME NEW c \in chosen, NEW d \in chosen, RankOf(c) = RankOf(d), c # d
                     PROVE FALSE
            OBVIOUS
        <3>1. CASE Ahead(c, d)
            <4>1. RankOf(c) \in Nat /\ RankOf(d) \in Nat /\ RankOf(c) < RankOf(d)
                BY <3>1, RanksFollow
            <4> QED
                BY <4>1
        <3>2. CASE Ahead(d, c)
            <4>1. RankOf(c) \in Nat /\ RankOf(d) \in Nat /\ RankOf(d) < RankOf(c)
                BY <3>2, RanksFollow
            <4> QED
                BY <4>1
        <3> QED
            BY <3>1, <3>2, AheadIsOrder
    <2>3. f \in Bijection(chosen, ranks)
        <3>1. f \in Injection(chosen, ranks)
            BY <2>2 DEF Injection, IsInjective
        <3>2. f \in Surjection(chosen, ranks)
            BY DEF Surjection
        <3> QED
            BY <3>1, <3>2 DEF Bijection
    <2>4. ExistsBijection(chosen, ranks)
        BY <2>3 DEF ExistsBijection
    <2>5. IsFiniteSet(chosen)
        BY DEF ReadsTyped
    <2> QED
        BY <2>1, <2>4, <2>5, FS_Bijection
<1>3. Cardinality({p.cluster.window : p \in reader'.page}) <= 1
    <2> DEFINE W == {c.window : c \in chosen}
    <2>1. {p.cluster.window : p \in reader'.page} = W
        <3> HIDE DEF Line, chosen
        <3> QED
            BY <1>1, <1>0
    <2>2. \A v, w \in W : v = w
        BY DEF ReadsTyped
    <2> HIDE DEF W
    <2>3. ASSUME W = {} PROVE Cardinality(W) <= 1
        <3> QED
            BY <2>3, FS_EmptySet
    <2>4. ASSUME W # {} PROVE Cardinality(W) <= 1
        <3>1. PICK w \in W : W = {w}
            BY <2>2, <2>4
        <3>2. Cardinality({w}) = 1
            BY FS_Singleton
        <3> QED
            BY <3>1, <3>2
    <2>5. Cardinality(W) <= 1
        BY <2>3, <2>4
    <2>6. Cardinality({p.cluster.window : p \in reader'.page}) = Cardinality(W)
        BY <2>1, Zenon
    <2> QED
        BY <2>5, <2>6
<1>4. ASSUME reader.quiet, NEW p \in reader'.page, NEW q \in reader'.page,
             p.cluster.id # q.cluster.id, p.rank < q.rank, Worth(q.cluster.id, p.cluster.id)
      PROVE  /\ p.score = q.score /\ p.cluster.id < q.cluster.id
             /\ reader.novelty # {} => ~(Echo(p.cluster.id) = 100 /\ Echo(q.cluster.id) < 100)
    <2>1. PICK a \in chosen, b \in chosen : p = Line(a) /\ q = Line(b)
        BY <1>1
    <2>2. a # b /\ RankOf(a) < RankOf(b) /\ Worth(b.id, a.id) /\ p.cluster = a /\ q.cluster = b
          /\ p.score = Score(a) /\ q.score = Score(b)
        BY <1>4, <2>1
    <2>3. Score(a) \in Int /\ Score(b) \in Int
        BY ScoreTyped
    <2>4. ~Ahead(b, a)
        <3> SUFFICES ASSUME Ahead(b, a) PROVE FALSE
            OBVIOUS
        <3>1. RankOf(b) \in Nat /\ RankOf(a) \in Nat /\ RankOf(b) < RankOf(a)
            BY RanksFollow
        <3> QED
            BY <2>2, <3>1
    <2>5. Ahead(a, b)
        BY <2>2, <2>4, AheadIsOrder
    <2>6. /\ Score(b) >= Score(a)
          /\ reader.novelty # {} /\ Echo(a.id) = 100 /\ Echo(b.id) < 100 => Score(b) > Score(a)
        BY <1>4, <2>2, WorthIsScore
    <2>7. Score(a) = Score(b) /\ a.id < b.id
        BY <2>3, <2>5, <2>6 DEF Ahead
    <2> QED
        BY <2>2, <2>3, <2>6, <2>7
<1>5. \A i, j : (Worth(i, j)' <=> Worth(i, j)) /\ Echo(i)' = Echo(i)
    BY <1>1, SameWarehouse
<1> QED
    BY <1>1, <1>2, <1>3, <1>4, <1>5 DEF PageOrdered


-----------------------------------------------------------------------------
(* The tables.                                                             *)

(* The rows T replace a window that is later than every other.             *)
LEMMA NewestReplaced ==
    ASSUME NEW S, NEW R, NEW w \in Nat, R # {}, IsFiniteSet(S), IsFiniteSet(R),
           \A r \in S : r.window \in Nat /\ r.window < w, \A r \in R : r.window = w
    PROVE  /\ NewestWindow(DayReplaced(S, R)) = w
           /\ Latest(DayReplaced(S, R)) = R
           /\ IsFiniteSet(DayReplaced(S, R))
           /\ \A r \in DayReplaced(S, R) : r \in S \/ r \in R
           /\ R \subseteq DayReplaced(S, R)
<1> DEFINE T == DayReplaced(S, R)
           kept == {r \in S : \A q \in R : DayOf(r.window) # DayOf(q.window)}
<1>1. T = kept \cup R
    BY DEF DayReplaced
<1>2. IsFiniteSet(T)
    <2>1. IsFiniteSet(kept)
        BY FS_Subset
    <2> HIDE DEF kept
    <2> QED
        BY <1>1, <2>1, FS_Union
<1>3. \A r \in T : r \in S \/ r \in R
    BY <1>1
<1>4. R \subseteq T
    BY <1>1
<1> HIDE DEF T
<1>5. \A r \in T : r.window \in Nat /\ r.window <= w
    BY <1>3
<1>6. NewestWindow(T) = w
    <2>1. PICK r \in R : r \in T
        BY <1>4
    <2>2. NewestWindow(T) \in Int /\ r.window <= NewestWindow(T)
          /\ \E q \in T : q.window = NewestWindow(T)
        BY <1>2, <1>5, <2>1, NewestIs
    <2> QED
        BY <1>5, <2>1, <2>2
<1>7. Latest(T) = R
    <2>1. \A r \in T : r.window = w <=> r \in R
        BY <1>3
    <2> QED
        BY <1>4, <1>6, <2>1 DEF Latest
<1> QED
    BY <1>2, <1>3, <1>4, <1>6, <1>7 DEF T

(* The members of a grouping.                                              *)
MemberRows(G) == {[window |-> now, id |-> Low(G), report |-> r] : r \in G}

LEMMA GroupsApart ==
    ASSUME NEW S, S \subseteq Reports, NEW P \in Groupings(S)
    PROVE  /\ IsFiniteSet(P)
           /\ \A G \in P : G # {} /\ G \subseteq Reports /\ IsFiniteSet(G) /\ Low(G) \in G
           /\ \A G, H \in P : Low(G) = Low(H) => G = H
<1>1. IsFiniteSet(Reports) /\ Reports \subseteq Nat
    BY RankingAssumption
<1>2. P \subseteq SUBSET Reports
    BY DEF Groupings
<1>3. IsFiniteSet(P)
    BY <1>1, <1>2, FS_SUBSET, FS_Subset
<1>4. \A G \in P : G # {}
    BY DEF Groupings
<1>5. ASSUME NEW G \in P PROVE G \subseteq Reports /\ IsFiniteSet(G) /\ Low(G) \in G
    <2>1. G \subseteq Reports /\ G # {}
        BY <1>2, <1>4
    <2>2. IsFiniteSet(G)
        BY <1>1, <2>1, FS_Subset
    <2>3. G \subseteq Int
        BY <1>1, <2>1
    <2> QED
        BY <2>1, <2>2, <2>3, LowMember
<1>6. \A G, H \in P : G # H => G \cap H = {}
    BY DEF Groupings
<1>7. \A G, H \in P : Low(G) = Low(H) => G = H
    <2> SUFFICES ASSUME NEW G \in P, NEW H \in P, Low(G) = Low(H), G # H PROVE FALSE
        OBVIOUS
    <2>1. Low(G) \in G /\ Low(H) \in H
        BY <1>5
    <2> QED
        BY <1>6, <2>1
<1> QED
    BY <1>3, <1>4, <1>5, <1>7

(* The row of a group says what its reports say.                           *)
LEMMA StoryRowOK ==
    ASSUME TablesOK, NEW G, G # {}, G \subseteq Reports, IsFiniteSet(G), Low(G) \in G
    PROVE  /\ StoryOK(StoryRow(G))
           /\ StoryRow(G).window = now /\ StoryRow(G).id = Low(G)
           /\ StoryRow(G).publishers = Cardinality({world.wire[r].publisher : r \in G})
           /\ StoryRow(G).seen = High({world.wire[r].at : r \in G})
<1>1. Low(G) \in Reports
    OBVIOUS
<1>2. Cardinality({world.wire[r].publisher : r \in G}) \in Nat
    <2> DEFINE f == [r \in G |-> world.wire[r].publisher]
    <2>1. {world.wire[r].publisher : r \in G} = {f[r] : r \in G}
        OBVIOUS
    <2> HIDE DEF f
    <2>2. IsFiniteSet({f[r] : r \in G})
        BY FiniteImage
    <2>3. Cardinality({f[r] : r \in G}) \in Nat
        BY <2>2, FS_CardinalityType
    <2> QED
        BY <2>1, <2>3
<1>3. High({world.wire[r].at : r \in G}) \in Nat
    <2> DEFINE f == [r \in G |-> world.wire[r].at]
               W == {f[r] : r \in G}
    <2>1. {world.wire[r].at : r \in G} = W
        OBVIOUS
    <2>2. W \subseteq Nat /\ W # {}
        BY WorldTyped DEF TablesOK
    <2>3. IsFiniteSet(W)
        <3> HIDE DEF f
        <3> QED
            BY FiniteImage
    <2> HIDE DEF W
    <2>5. W \subseteq Int
        BY <2>2
    <2>4. High(W) \in W
        BY <2>2, <2>3, <2>5, HighMember
    <2> QED
        BY <2>1, <2>2, <2>4
<1>4. now \in Nat
    BY DEF TablesOK
<1> QED
    BY <1>1, <1>2, <1>3, <1>4 DEF StoryRow, StoryOK

(* The new window is the newest, and the members to come are its groups.   *)
LEMMA StoriesCommitted ==
    ASSUME TablesOK, CommitStories
    PROVE  TablesOK'
<1> DEFINE S == {r \in Reports : now - Span <= world.wire[r].at /\ world.wire[r].at < now}
<1>1. PICK P \in Groupings(S) :
          /\ P # {}
          /\ stories' = DayReplaced(stories, {StoryRow(G) : G \in P})
          /\ clustering' = UNION {MemberRows(G) : G \in P}
    BY DEF CommitStories, MemberRows
<1>2. /\ NewestWindow(stories) < now /\ clustering = {}
      /\ UNCHANGED <<now, world, members, measured, marked>>
    BY DEF CommitStories, Commit
<1>3. /\ IsFiniteSet(P)
      /\ \A G \in P : G # {} /\ G \subseteq Reports /\ IsFiniteSet(G) /\ Low(G) \in G
      /\ \A G, H \in P : Low(G) = Low(H) => G = H
    <2> S \subseteq Reports
        OBVIOUS
    <2> HIDE DEF S
    <2> QED
        BY GroupsApart
<1> HIDE DEF S
<1> DEFINE R == {StoryRow(G) : G \in P}
<1>4. \A G \in P : /\ StoryOK(StoryRow(G))
                   /\ StoryRow(G).window = now /\ StoryRow(G).id = Low(G)
                   /\ StoryRow(G).publishers = Cardinality({world.wire[r].publisher : r \in G})
                   /\ StoryRow(G).seen = High({world.wire[r].at : r \in G})
    BY <1>3, StoryRowOK
<1>5. IsFiniteSet(R) /\ R # {}
    <2> DEFINE f == [G \in P |-> StoryRow(G)]
    <2>1. R = {f[G] : G \in P}
        OBVIOUS
    <2> HIDE DEF f
    <2>2. IsFiniteSet({f[G] : G \in P})
        BY <1>3, FiniteImage
    <2> QED
        BY <1>1, <2>1, <2>2
<1>6. \A r \in R : StoryOK(r) /\ r.window = now
    BY <1>4
<1>7. \A r \in stories : r.window \in Nat /\ r.window < now
    <2> SUFFICES ASSUME NEW r \in stories PROVE r.window \in Nat /\ r.window < now
        OBVIOUS
    <2>1. \A q \in stories : q.window \in Nat
        BY DEF TablesOK, StoryOK
    <2>2. NewestWindow(stories) \in Int /\ r.window <= NewestWindow(stories)
        BY <2>1, NewestIs DEF TablesOK
    <2> QED
        BY <1>2, <2>1, <2>2 DEF TablesOK
<1>8. /\ NewestWindow(stories') = now /\ Latest(stories') = R
      /\ IsFiniteSet(stories')
      /\ \A r \in stories' : r \in stories \/ r \in R
    <2>1. now \in Nat /\ IsFiniteSet(stories)
        BY DEF TablesOK
    <2> HIDE DEF R
    <2>2. stories' = DayReplaced(stories, R)
        BY <1>1 DEF R
    <2> QED
        BY <1>5, <1>6, <1>7, <2>1, <2>2, NewestReplaced
<1>9. \A m \in clustering' : \E G \in P : m \in MemberRows(G)
    BY <1>1
<1>10. \A m \in clustering' : m.window = now /\ m.id \in Reports /\ m.report \in Reports
    BY <1>3, <1>9 DEF MemberRows
<1>11. \A G \in P : ReportsIn(clustering', Low(G)) = G
    <2> SUFFICES ASSUME NEW G \in P PROVE ReportsIn(clustering', Low(G)) = G
        OBVIOUS
    <2>1. ASSUME NEW r \in G PROVE r \in ReportsIn(clustering', Low(G))
        <3> DEFINE m == [window |-> now, id |-> Low(G), report |-> r]
        <3>1. m \in clustering'
            BY <1>1 DEF MemberRows
        <3> QED
            BY <3>1 DEF ReportsIn
    <2>2. ASSUME NEW r \in ReportsIn(clustering', Low(G)) PROVE r \in G
        <3>1. PICK m \in clustering' : m.id = Low(G) /\ m.report = r
            BY DEF ReportsIn
        <3>2. PICK H \in P : m \in MemberRows(H)
            BY <1>9
        <3>3. m.id = Low(H) /\ m.report \in H
            BY <3>2 DEF MemberRows
        <3> QED
            BY <1>3, <3>1, <3>3
    <2> QED
        BY <2>1, <2>2
<1>12. Describes(clustering, Latest(stories), world.wire)'
    <2> SUFFICES ASSUME NEW s \in Latest(stories')
                 PROVE  /\ ReportsIn(clustering', s.id) # {}
                        /\ s.publishers = Cardinality({world'.wire[r].publisher :
                                                         r \in ReportsIn(clustering', s.id)})
                        /\ s.seen = High({world'.wire[r].at : r \in ReportsIn(clustering', s.id)})
        BY DEF Describes
    <2>1. PICK G \in P : s = StoryRow(G)
        BY <1>8
    <2>2. ReportsIn(clustering', s.id) = G
        BY <1>4, <1>11, <2>1
    <2>3. /\ s.publishers = Cardinality({world.wire[r].publisher : r \in G})
          /\ s.seen = High({world.wire[r].at : r \in G})
        BY <1>4, <2>1
    <2>4. G # {} /\ world' = world
        BY <1>2, <1>3
    <2> QED
        BY <2>2, <2>3, <2>4
<1>13. IsFiniteSet(clustering')
    <2> DEFINE D == Reports \X Reports
               f == [p \in D |-> [window |-> now, id |-> p[1], report |-> p[2]]]
               W == {f[p] : p \in D}
    <2>1. IsFiniteSet(D)
        BY RankingAssumption, FS_Product
    <2>2. clustering' \subseteq W
        <3> SUFFICES ASSUME NEW m \in clustering' PROVE m \in W
            OBVIOUS
        <3>0. PICK G \in P : m \in MemberRows(G)
            BY <1>9
        <3>1. PICK r \in G : m = [window |-> now, id |-> Low(G), report |-> r]
            BY <3>0 DEF MemberRows
        <3>2. <<Low(G), r>> \in D
            BY <1>3
        <3>3. m = f[<<Low(G), r>>]
            BY <3>1, <3>2
        <3> QED
            BY <3>2, <3>3
    <2>3. IsFiniteSet(W)
        <3> HIDE DEF f, D
        <3> QED
            BY <2>1, FiniteImage
    <2> HIDE DEF W
    <2> QED
        BY <2>2, <2>3, FS_Subset
<1>14. \A s \in stories' : s.window <= now /\ s.window \in Nat /\ StoryOK(s)
    <2> HIDE DEF R
    <2>1. \A s \in stories : StoryOK(s) /\ s.window <= now
        BY DEF TablesOK
    <2> QED
        BY <1>6, <1>8, <2>1 DEF TablesOK, StoryOK
<1>15. \A s, t \in stories' : s.window = t.window /\ s.id = t.id => s = t
    <2> SUFFICES ASSUME NEW s \in stories', NEW t \in stories', s.window = t.window, s.id = t.id
                 PROVE  s = t
        OBVIOUS
    <2>1. CASE s \in stories /\ t \in stories
        BY <2>1 DEF TablesOK
    <2>2. CASE s \in R /\ t \in R
        <3>1. PICK G \in P, H \in P : s = StoryRow(G) /\ t = StoryRow(H)
            BY <2>2
        <3>2. StoryRow(G).id = Low(G) /\ StoryRow(H).id = Low(H)
            BY <1>4
        <3>3. G = H
            BY <1>3, <3>1, <3>2
        <3> QED
            BY <3>1, <3>3
    <2>3. now \in Nat
        BY DEF TablesOK
    <2> HIDE DEF R
    <2> QED
        BY <1>6, <1>7, <1>8, <2>1, <2>2, <2>3
<1>16. \A m \in members : m.window \in Nat /\ m.window < now /\ m.id \in Reports /\ m.report \in Reports
    <2> SUFFICES ASSUME NEW m \in members
                 PROVE m.window \in Nat /\ m.window < now /\ m.id \in Reports /\ m.report \in Reports
        OBVIOUS
    <2>1. m.window \in Nat /\ m.id \in Reports /\ m.report \in Reports
          /\ m.window <= NewestWindow(stories)
        BY DEF TablesOK
    <2>2. NewestWindow(stories) \in Int
        <3>1. \A q \in stories : q.window \in Nat
            BY DEF TablesOK, StoryOK
        <3> QED
            BY <3>1, NewestIs DEF TablesOK
    <2> QED
        BY <1>2, <2>1, <2>2 DEF TablesOK
<1>17. NewestWindow(members) # now
    <2>1. /\ members = {} => NewestWindow(members) = -1
          /\ members # {} => \E m \in members : m.window = NewestWindow(members)
        BY <1>16, NewestIs DEF TablesOK
    <2>2. now \in Nat
        BY DEF TablesOK
    <2> QED
        BY <1>16, <2>1, <2>2
<1> HIDE DEF R
<1>20. (now \in Nat /\ WorldOK)' /\ NewestWindow(stories)' = now /\ NewestWindow(members)' = NewestWindow(members)
    BY <1>2, <1>8 DEF TablesOK, WorldOK, NewestWindow
<1>21. (\A s \in stories : StoryOK(s) /\ s.window <= now)'
    BY <1>2, <1>14 DEF StoryOK
<1>22. (\A m \in members \cup clustering :
          /\ m.window \in Nat /\ m.id \in Reports /\ m.report \in Reports
          /\ m.window <= NewestWindow(stories))'
    <2>1. now \in Nat /\ members' = members
        BY <1>2 DEF TablesOK
    <2> QED
        BY <1>10, <1>16, <1>20, <2>1
<1>23. (\A c \in clustering : c.window = NewestWindow(stories))'
    BY <1>10, <1>20
<1>24. (clustering # {} => /\ Describes(clustering, Latest(stories), world.wire)
                          /\ \A m \in members : m.window < NewestWindow(stories))'
    BY <1>2, <1>12, <1>16, <1>20
<1>25. (NewestWindow(members) = NewestWindow(stories) =>
           Describes(Latest(members), Latest(stories), world.wire))'
    BY <1>17, <1>20
<1>26. (\A m \in measured : m.at \in Nat /\ m.at <= now /\ m.score \in Int)'
       /\ (\A k \in marked : k.mark \in {-1, 1})'
    BY <1>2 DEF TablesOK
<1>27. (IsFiniteSet(stories) /\ IsFiniteSet(members) /\ IsFiniteSet(clustering))'
    BY <1>2, <1>8, <1>13 DEF TablesOK
<1> QED
    BY <1>15, <1>20, <1>21, <1>22, <1>23, <1>24, <1>25, <1>26, <1>27 DEF TablesOK


(* The second commit brings the members of the stories that are there.     *)
LEMMA MembersCommitted ==
    ASSUME TablesOK, CommitMembers
    PROVE  TablesOK'
<1> DEFINE w == NewestWindow(stories)
<1>1. /\ members' = DayReplaced(members, clustering) /\ clustering' = {} /\ clustering # {}
      /\ UNCHANGED <<now, world, stories, measured, marked>>
    BY DEF CommitMembers
<1>2. /\ \A c \in clustering : c.window = w /\ c.window \in Nat
      /\ \A m \in members : m.window \in Nat /\ m.window < w
    BY <1>1 DEF TablesOK
<1>3. w \in Nat
    BY <1>1, <1>2
<1> HIDE DEF w
<1>4. NewestWindow(members') = w /\ Latest(members') = clustering /\ IsFiniteSet(members')
      /\ \A m \in members' : m \in members \/ m \in clustering
    <2>1. IsFiniteSet(members) /\ IsFiniteSet(clustering)
        BY DEF TablesOK
    <2> QED
        BY <1>1, <1>2, <1>3, <2>1, NewestReplaced
<1>5. Describes(clustering, Latest(stories), world.wire)
    BY <1>1 DEF TablesOK
<1>6. Latest(stories)' = Latest(stories) /\ NewestWindow(stories)' = w
      /\ NewestWindow(members)' = w /\ Latest(members)' = clustering
    BY <1>1, <1>4 DEF Latest, NewestWindow, w
<1>7. Describes(Latest(members), Latest(stories), world.wire)'
    BY <1>1, <1>5, <1>6
<1>8. (\A m \in members \cup clustering :
          /\ m.window \in Nat /\ m.id \in Reports /\ m.report \in Reports
          /\ m.window <= NewestWindow(stories))'
    <2>1. \A m \in members \cup clustering :
              m.window \in Nat /\ m.id \in Reports /\ m.report \in Reports /\ m.window <= w
        BY DEF TablesOK, w
    <2> QED
        BY <1>1, <1>4, <1>6, <2>1
<1>9. (\A s \in stories : StoryOK(s) /\ s.window <= now)'
    BY <1>1 DEF TablesOK, StoryOK
<1>10. (now \in Nat /\ WorldOK)'
    BY <1>1 DEF TablesOK, WorldOK
<1>11. (\A s, t \in stories : s.window = t.window /\ s.id = t.id => s = t)'
       /\ (\A m \in measured : m.at \in Nat /\ m.at <= now /\ m.score \in Int)'
       /\ (\A k \in marked : k.mark \in {-1, 1})'
    BY <1>1 DEF TablesOK
<1>12. (IsFiniteSet(stories) /\ IsFiniteSet(members) /\ IsFiniteSet(clustering))'
    BY <1>1, <1>4, FS_EmptySet DEF TablesOK
<1>13. (\A c \in clustering : c.window = NewestWindow(stories))'
       /\ (clustering # {} => /\ Describes(clustering, Latest(stories), world.wire)
                             /\ \A m \in members : m.window < NewestWindow(stories))'
    BY <1>1
<1> QED
    BY <1>7, <1>8, <1>9, <1>10, <1>11, <1>12, <1>13 DEF TablesOK

(* The cluster tables and the time stay, or only time passes.              *)
LEMMA TablesKept ==
    ASSUME TablesOK, UNCHANGED <<world, stories, members>>,
           clustering' = clustering \/ clustering' = {},
           now' \in Nat, now <= now',
           \A m \in measured' : m \in measured \/ (m.at = now /\ m.score \in Int),
           \A k \in marked' : k \in marked \/ k.mark \in {-1, 1}
    PROVE  TablesOK'
<1>1. NewestWindow(stories)' = NewestWindow(stories) /\ NewestWindow(members)' = NewestWindow(members)
      /\ Latest(stories)' = Latest(stories) /\ Latest(members)' = Latest(members)
    BY DEF NewestWindow, Latest
<1>2. (now \in Nat /\ WorldOK)'
    BY DEF TablesOK, WorldOK
<1>3. (\A s \in stories : StoryOK(s) /\ s.window <= now)'
    <2> SUFFICES ASSUME NEW s \in stories PROVE StoryOK(s)' /\ s.window <= now'
        OBVIOUS
    <2>1. StoryOK(s) /\ s.window <= now /\ s.window \in Nat /\ now \in Nat
        BY DEF TablesOK, StoryOK
    <2>2. StoryOK(s)'
        BY <2>1 DEF StoryOK
    <2> QED
        BY <2>1, <2>2
<1>5. (NewestWindow(members) = NewestWindow(stories)
          => Describes(Latest(members), Latest(stories), world.wire))'
    BY DEF TablesOK
<1>6. (clustering # {} => /\ Describes(clustering, Latest(stories), world.wire)
                         /\ \A m \in members : m.window < NewestWindow(stories))'
    BY DEF TablesOK
<1>7. (\A m \in members \cup clustering :
          /\ m.window \in Nat /\ m.id \in Reports /\ m.report \in Reports
          /\ m.window <= NewestWindow(stories))'
      /\ (\A c \in clustering : c.window = NewestWindow(stories))'
    BY <1>1 DEF TablesOK
<1>8. (IsFiniteSet(stories) /\ IsFiniteSet(members) /\ IsFiniteSet(clustering))'
    BY FS_EmptySet DEF TablesOK
<1>9. (\A s, t \in stories : s.window = t.window /\ s.id = t.id => s = t)'
    BY DEF TablesOK
<1>10. (\A m \in measured : m.at \in Nat /\ m.at <= now /\ m.score \in Int)'
    <2> SUFFICES ASSUME NEW m \in measured'
                 PROVE m.at \in Nat /\ m.at <= now' /\ m.score \in Int
        OBVIOUS
    <2>1. now \in Nat
        BY DEF TablesOK
    <2> QED
        BY <2>1 DEF TablesOK
<1>11. (\A k \in marked : k.mark \in {-1, 1})'
    BY DEF TablesOK
<1> QED
    BY <1>2, <1>3, <1>5, <1>6, <1>7, <1>8, <1>9, <1>10, <1>11 DEF TablesOK

-----------------------------------------------------------------------------
(* The reader.                                                             *)

LEMMA PhasesAre ==
    /\ From(1) = {"entities", "velocity", "feedback", "novelty", "rank"}
    /\ From(2) = {"velocity", "feedback", "novelty", "rank"}
    /\ From(3) = {"feedback", "novelty", "rank"}
    /\ From(4) = {"novelty", "rank"}
    /\ From(5) = {"rank"}
<1>1. 1..5 = {1, 2, 3, 4, 5} /\ 2..5 = {2, 3, 4, 5} /\ 3..5 = {3, 4, 5} /\ 4..5 = {4, 5}
      /\ 5..5 = {5}
    OBVIOUS
<1>2. /\ Phases[1] = "entities" /\ Phases[2] = "velocity" /\ Phases[3] = "feedback"
      /\ Phases[4] = "novelty" /\ Phases[5] = "rank"
    BY DEF Phases
<1> HIDE DEF Phases
<1> QED
    BY <1>1, <1>2 DEF From

(* A commit: what was read need not be what is there.                      *)
LEMMA NoLongerQuiet ==
    ASSUME TablesOK, ReaderOK, PageOrdered,
           reader' = [reader EXCEPT !.quiet = FALSE], UNCHANGED <<now, world>>
    PROVE  ReaderOK' /\ PageOrdered'
<1>1. /\ DOMAIN reader' = DOMAIN NoReader
      /\ reader'.pc = reader.pc /\ reader'.at = reader.at /\ reader'.quiet = FALSE
      /\ reader'.clusters = reader.clusters /\ reader'.entities = reader.entities
      /\ reader'.slopes = reader.slopes /\ reader'.marks = reader.marks
      /\ reader'.novelty = reader.novelty /\ reader'.page = reader.page
    BY DEF ReaderOK, NoReader
<1>2. ReadsTyped => ReadsTyped'
    BY <1>1 DEF ReadsTyped, StoryOK
<1>3. reader.pc \in From(1) => reader'.pc \in From(1)
    BY <1>1
<1>4. ReaderOK'
    BY <1>1, <1>2 DEF ReaderOK, From, Phases, NoReader
<1>5. PageOrdered'
    BY <1>1 DEF PageOrdered
<1> QED
    BY <1>4, <1>5

(* What the reads find is of their tables.                                 *)
LEMMA SameReads ==
    ASSUME UNCHANGED <<world, stories, members, measured, marked>>,
           reader'.at = reader.at, reader'.clusters = reader.clusters
    PROVE  /\ EntitiesRead' = EntitiesRead /\ SlopesRead' = SlopesRead
           /\ NoveltyRead' = NoveltyRead
           /\ reader'.marks = reader.marks => (MarksRead' <=> MarksRead)
           /\ Latest(stories)' = Latest(stories)
           /\ NewestWindow(stories)' = NewestWindow(stories)
           /\ NewestWindow(members)' = NewestWindow(members)
<1>1. \A i : ReportsOf(i)' = ReportsOf(i)
    BY DEF ReportsOf, Latest, NewestWindow
<1>2. ReadIds' = ReadIds
    BY DEF ReadIds, Latest, NewestWindow
<1>3. EntitiesRead' = EntitiesRead
    <2>1. \A i, f : Mentioned(i, f, reader.at)' = Mentioned(i, f, reader.at)
        BY <1>1 DEF Mentioned
    <2> QED
        BY <1>2, <2>1 DEF EntitiesRead
<1>4. SlopesRead' = SlopesRead
    <2>1. \A i : Slopes(i, reader.at - Span)' = Slopes(i, reader.at - Span)
        BY DEF Slopes
    <2>2. \A i : Climbing(i)' = Climbing(i)
        BY <1>1, <2>1 DEF Climbing
    <2>3. \A i : FastestSlope(i, reader.at - Span)' = FastestSlope(i, reader.at - Span)
        BY <2>2 DEF FastestSlope, Climbing
    <2> QED
        BY <1>2, <2>3 DEF SlopesRead
<1>5. reader'.marks = reader.marks => (MarksRead' <=> MarksRead)
    BY DEF MarksRead, Marks
<1>6. NoveltyRead' = NoveltyRead
    BY DEF NoveltyRead, PriorTitles, NewestWindow
<1>7. Latest(stories)' = Latest(stories) /\ NewestWindow(stories)' = NewestWindow(stories)
      /\ NewestWindow(members)' = NewestWindow(members)
    BY DEF Latest, NewestWindow
<1> QED
    BY <1>3, <1>4, <1>5, <1>6, <1>7

(* Nothing that is read changes, nor what was.                             *)
LEMMA ReaderWaits ==
    ASSUME TablesOK, ReaderOK, PageOrdered,
           UNCHANGED <<now, world, stories, members, measured, marked, reader>>
    PROVE  ReaderOK' /\ PageOrdered'
<1>1. ReadsTyped => ReadsTyped'
    BY DEF ReadsTyped, StoryOK
<1>2. ReadsTrue => ReadsTrue'
    <2>1. /\ EntitiesRead' = EntitiesRead /\ SlopesRead' = SlopesRead
          /\ (MarksRead' <=> MarksRead) /\ NoveltyRead' = NoveltyRead
        BY SameReads
    <2> QED
        BY <2>1 DEF ReadsTrue, From, Phases
<1>3. ReaderOK'
    BY <1>1, <1>2 DEF ReaderOK, From, Phases, NoReader
<1>4. \A i, j : (Worth(i, j)' <=> Worth(i, j)) /\ Echo(i)' = Echo(i)
    BY SameWarehouse
<1>5. PageOrdered'
    BY <1>4 DEF PageOrdered
<1> QED
    BY <1>3, <1>5

(* What the reads find has its type.                                       *)
LEMMA MentionedTyped ==
    ASSUME TablesOK, NEW id, NEW firm \in Firms, NEW at
    PROVE  Mentioned(id, firm, at) \in Nat
<1> DEFINE R == {r \in ReportsOf(id) : at - Span <= world.wire[r].at}
           f == [r \in R |-> {r} \X (1..world.wire[r].firms[firm])]
           all == {f[r] : r \in R}
<1>1. IsFiniteSet(R) /\ R \subseteq Reports
    <2>1. IsFiniteSet(ReportsOf(id)) /\ ReportsOf(id) \subseteq Reports
        BY ReportsThere
    <2> QED
        BY <2>1, FS_Subset
<1>2. \A S \in all : IsFiniteSet(S)
    <2> SUFFICES ASSUME NEW r \in R PROVE IsFiniteSet({r} \X (1..world.wire[r].firms[firm]))
        OBVIOUS
    <2>1. world.wire[r].firms[firm] \in Nat
        BY <1>1, WorldTyped DEF TablesOK
    <2>2. IsFiniteSet(1..world.wire[r].firms[firm])
        BY <2>1, FS_Interval
    <2>3. IsFiniteSet({r})
        BY FS_Singleton
    <2> QED
        BY <2>2, <2>3, FS_Product
<1>3. IsFiniteSet(all)
    <2> HIDE DEF f, R
    <2> QED
        BY <1>1, FiniteImage
<1>4. Cardinality(UNION all) \in Nat
    <2> HIDE DEF all
    <2> QED
        BY <1>2, <1>3, FS_UNION, FS_CardinalityType
<1>5. UNION all = UNION {{r} \X (1..world.wire[r].firms[firm]) : r \in R}
    OBVIOUS
<1>6. Mentioned(id, firm, at) = IF "entity_mentions" \in world.tables
                                THEN Cardinality(UNION all) ELSE 0
    BY <1>5 DEF Mentioned
<1> QED
    BY <1>4, <1>6

LEMMA EntitiesReadTyped ==
    ASSUME TablesOK
    PROVE  IsFiniteSet(EntitiesRead) /\ \A e \in EntitiesRead : e[2] \in Firms /\ e[3] \in Nat
<1> DEFINE D == ReadIds \X Firms
           f == [p \in D |-> <<p[1], p[2], Mentioned(p[1], p[2], reader.at)>>]
           W == {f[p] : p \in D}
<1>1. IsFiniteSet(D)
    <2>1. IsFiniteSet(ReadIds)
        BY ReportsThere
    <2>2. IsFiniteSet(Firms)
        BY RankingAssumption
    <2> QED
        BY <2>1, <2>2, FS_Product
<1>2. IsFiniteSet(W)
    <2> HIDE DEF f, D
    <2> QED
        BY <1>1, FiniteImage
<1>3. ASSUME NEW e \in EntitiesRead PROVE e \in W /\ e[2] \in Firms /\ e[3] \in Nat
    <2>1. PICK id \in ReadIds, firm \in Firms : e = <<id, firm, Mentioned(id, firm, reader.at)>>
        BY DEF EntitiesRead
    <2>2. <<id, firm>> \in D /\ f[<<id, firm>>] = e
        BY <2>1
    <2>3. Mentioned(id, firm, reader.at) \in Nat
        BY MentionedTyped
    <2> QED
        BY <2>1, <2>2, <2>3
<1> HIDE DEF W
<1>4. EntitiesRead \subseteq W
    BY <1>3
<1> QED
    BY <1>2, <1>3, <1>4, FS_Subset

LEMMA SlopesReadTyped ==
    ASSUME TablesOK
    PROVE  \A p \in SlopesRead : p[2] \in Int
<1> SUFFICES ASSUME NEW p \in SlopesRead PROVE p[2] \in Int
    OBVIOUS
<1>1. PICK id \in ReadIds : \E s \in FastestSlope(id, reader.at - Span) : p = <<id, s>>
    BY DEF SlopesRead
<1>2. PICK s \in FastestSlope(id, reader.at - Span) : p = <<id, s>>
    BY <1>1
<1>3. Climbing(id) # {} /\ s = High(Climbing(id))
    BY <1>2 DEF FastestSlope, Climbing
<1>4. IsFiniteSet(Climbing(id)) /\ Climbing(id) \subseteq Int
    BY ClimbingTyped
<1>5. High(Climbing(id)) \in Climbing(id)
    BY <1>3, <1>4, HighMember
<1> QED
    BY <1>2, <1>3, <1>4, <1>5

(* One read, of tables that stand still while it runs.                     *)
LEMMA ReadPreserves ==
    ASSUME TablesOK, ReaderOK, PageOrdered, Reading
    PROVE  ReaderOK' /\ PageOrdered'
<1>1. UNCHANGED <<now, world, stories, members, clustering, measured, marked, events>>
    BY DEF Reading
<1>2. \A c : StoryOK(c) => StoryOK(c)'
    BY <1>1 DEF StoryOK
<1>3. DOMAIN reader = DOMAIN NoReader
    BY DEF ReaderOK
<1>4. CASE ReadClusters
    <2>1. /\ DOMAIN reader' = DOMAIN NoReader /\ reader'.pc = "entities"
          /\ reader'.at = now /\ reader'.clusters = Latest(stories)
          /\ reader'.quiet = (NewestWindow(stories) = NewestWindow(members))
          /\ reader'.entities = {} /\ reader'.slopes = {} /\ reader'.marks = {}
          /\ reader'.novelty = {}
        BY <1>4 DEF ReadClusters, NoReader
    <2>2. IsFiniteSet(Latest(stories))
        BY FS_Subset DEF TablesOK, Latest
    <2>3. \A c \in Latest(stories) : c \in stories /\ c.window = NewestWindow(stories)
        BY DEF Latest
    <2>4. ReadsTyped'
        BY <1>1, <1>2, <2>1, <2>2, <2>3, FS_EmptySet DEF ReadsTyped, TablesOK
    <2>5. reader'.quiet => ReadsTrue'
        BY <1>1, <2>1, PhasesAre DEF ReadsTrue
    <2> QED
        BY <2>1, <2>4, <2>5 DEF ReaderOK, PageOrdered, NoReader
<1>5. CASE ReadEntities
    <2>1. /\ DOMAIN reader' = DOMAIN NoReader /\ reader.pc = "entities" /\ reader'.pc = "velocity"
          /\ reader'.at = reader.at /\ reader'.clusters = reader.clusters
          /\ reader'.quiet = reader.quiet
          /\ reader'.entities = EntitiesRead /\ reader'.slopes = reader.slopes
          /\ reader'.marks = reader.marks /\ reader'.novelty = reader.novelty
        BY <1>3, <1>5 DEF ReadEntities, EntitiesRead
    <2>2. ReadsTyped /\ (reader.quiet => ReadsTrue)
        BY <2>1, PhasesAre DEF ReaderOK
    <2>3. ReadsTyped'
        BY <1>1, <1>2, <2>1, <2>2, EntitiesReadTyped DEF ReadsTyped
    <2>4. EntitiesRead' = EntitiesRead
        BY <1>1, <2>1, SameReads
    <2>5. reader'.quiet => ReadsTrue'
        BY <1>1, <2>1, <2>2, <2>4, PhasesAre DEF ReadsTrue
    <2> QED
        BY <2>1, <2>3, <2>5 DEF ReaderOK, PageOrdered, NoReader
<1>6. CASE ReadVelocity
    <2>1. /\ DOMAIN reader' = DOMAIN NoReader /\ reader.pc = "velocity" /\ reader'.pc = "feedback"
          /\ reader'.at = reader.at /\ reader'.clusters = reader.clusters
          /\ reader'.quiet = reader.quiet
          /\ reader'.entities = reader.entities /\ reader'.slopes = SlopesRead
          /\ reader'.marks = reader.marks /\ reader'.novelty = reader.novelty
        BY <1>3, <1>6 DEF ReadVelocity, SlopesRead
    <2>2. ReadsTyped /\ (reader.quiet => ReadsTrue)
        BY <2>1, PhasesAre DEF ReaderOK
    <2>3. ReadsTyped'
        BY <1>1, <1>2, <2>1, <2>2, SlopesReadTyped DEF ReadsTyped
    <2>4. EntitiesRead' = EntitiesRead /\ SlopesRead' = SlopesRead
        BY <1>1, <2>1, SameReads
    <2>5. reader'.quiet => ReadsTrue'
        BY <1>1, <2>1, <2>2, <2>4, PhasesAre DEF ReadsTrue
    <2> QED
        BY <2>1, <2>3, <2>5 DEF ReaderOK, PageOrdered, NoReader
<1>7. CASE ReadFeedback
    <2> DEFINE ids == {k.id : k \in {m \in marked : Marks(m.id, reader.at) # {}}}
    <2>0. PICK last \in [ids -> {-1, 1}] :
              /\ \A id \in ids : last[id] \in Marks(id, reader.at)
              /\ reader' = [reader EXCEPT !.pc = "novelty",
                                          !.marks = {<<id, last[id]>> : id \in ids}]
        BY <1>7 DEF ReadFeedback
    <2>1. /\ DOMAIN reader' = DOMAIN NoReader /\ reader.pc = "feedback" /\ reader'.pc = "novelty"
          /\ reader'.at = reader.at /\ reader'.clusters = reader.clusters
          /\ reader'.quiet = reader.quiet
          /\ reader'.entities = reader.entities /\ reader'.slopes = reader.slopes
          /\ reader'.marks = {<<id, last[id]>> : id \in ids}
          /\ reader'.novelty = reader.novelty
        <3> DEFINE marks == {<<id, last[id]>> : id \in ids}
        <3>1. reader.pc = "feedback"
            BY <1>7 DEF ReadFeedback
        <3>2. reader' = [reader EXCEPT !.pc = "novelty", !.marks = marks]
            BY <2>0
        <3> HIDE DEF marks
        <3>3. /\ DOMAIN reader' = DOMAIN NoReader /\ reader'.pc = "novelty"
              /\ reader'.at = reader.at /\ reader'.clusters = reader.clusters
              /\ reader'.quiet = reader.quiet
              /\ reader'.entities = reader.entities /\ reader'.slopes = reader.slopes
              /\ reader'.marks = marks
              /\ reader'.novelty = reader.novelty
            BY <1>3, <3>2
        <3> QED
            BY <3>1, <3>3 DEF marks
    <2>2. ReadsTyped /\ (reader.quiet => ReadsTrue)
        BY <2>1, PhasesAre DEF ReaderOK
    <2>6. \A id : Marks(id, reader.at) # {} => id \in ids
        <3> SUFFICES ASSUME NEW id, Marks(id, reader.at) # {} PROVE id \in ids
            OBVIOUS
        <3>1. PICK k \in marked : k.id = id
            BY DEF Marks
        <3> QED
            BY <3>1
    <2> HIDE DEF ids
    <2>7. \A p \in reader'.marks : p[2] \in {-1, 1} /\ p[2] \in Marks(p[1], reader.at)
        BY <2>0, <2>1
    <2>8. \A id : Marks(id, reader.at) # {} => \E p \in reader'.marks : p[1] = id
        <3> SUFFICES ASSUME NEW id, Marks(id, reader.at) # {}
                     PROVE \E p \in reader'.marks : p[1] = id
            OBVIOUS
        <3>1. <<id, last[id]>> \in reader'.marks
            BY <2>1, <2>6
        <3> QED
            BY <3>1
    <2>9. \A id : Marks(id, reader.at)' = Marks(id, reader.at)
        BY <1>1, <2>1 DEF Marks
    <2>10. MarksRead'
        BY <2>1, <2>7, <2>8, <2>9 DEF MarksRead
    <2>3. ReadsTyped'
        BY <1>1, <1>2, <2>1, <2>2, <2>7 DEF ReadsTyped
    <2>4. EntitiesRead' = EntitiesRead /\ SlopesRead' = SlopesRead
        BY <1>1, <2>1, SameReads
    <2>5. reader'.quiet => ReadsTrue'
        BY <1>1, <2>1, <2>2, <2>4, <2>10, PhasesAre DEF ReadsTrue
    <2> QED
        BY <2>1, <2>3, <2>5 DEF ReaderOK, PageOrdered, NoReader
<1>8. CASE ReadNovelty
    <2>1. /\ DOMAIN reader' = DOMAIN NoReader /\ reader.pc = "novelty" /\ reader'.pc = "rank"
          /\ reader'.at = reader.at /\ reader'.clusters = reader.clusters
          /\ reader'.quiet = reader.quiet
          /\ reader'.entities = reader.entities /\ reader'.slopes = reader.slopes
          /\ reader'.marks = reader.marks
          /\ reader'.novelty \in {reader.novelty, NoveltyRead}
        <3>1. reader.pc = "novelty"
            BY <1>8 DEF ReadNovelty
        <3>2. \/ reader' = [reader EXCEPT !.pc = "rank", !.novelty = NoveltyRead]
              \/ reader' = [reader EXCEPT !.pc = "rank"]
            BY <1>8 DEF ReadNovelty, NoveltyRead
        <3>3. CASE reader' = [reader EXCEPT !.pc = "rank", !.novelty = NoveltyRead]
            BY <1>3, <3>1, <3>3
        <3>4. CASE reader' = [reader EXCEPT !.pc = "rank"]
            BY <1>3, <3>1, <3>4
        <3> QED
            BY <3>2, <3>3, <3>4
    <2>2. ReadsTyped /\ (reader.quiet => ReadsTrue) /\ reader.novelty = {}
        BY <2>1, PhasesAre DEF ReaderOK, ReadsTyped
    <2>6. \A p \in NoveltyRead : p[2] \in 0..120
        <3> SUFFICES ASSUME NEW c \in reader.clusters
                     PROVE Novelty(Nearest(c.title, PriorTitles(reader.at))) \in 0..120
            BY DEF NoveltyRead
        <3>1. Nearest(c.title, PriorTitles(reader.at)) \in 0..100
            BY <2>2, EchoIsNearest DEF ReadsTyped
        <3> QED
            BY <3>1, NoveltyTyped
    <2>3. ReadsTyped'
        BY <1>1, <1>2, <2>1, <2>2, <2>6 DEF ReadsTyped
    <2>4. /\ EntitiesRead' = EntitiesRead /\ SlopesRead' = SlopesRead
          /\ (MarksRead' <=> MarksRead) /\ NoveltyRead' = NoveltyRead
        BY <1>1, <2>1, SameReads
    <2>5. reader'.quiet => ReadsTrue'
        BY <1>1, <2>1, <2>2, <2>4, PhasesAre DEF ReadsTrue
    <2> QED
        BY <2>1, <2>3, <2>5 DEF ReaderOK, PageOrdered, NoReader
<1>9. CASE Rank
    <2>1. /\ DOMAIN reader' = DOMAIN NoReader /\ reader.pc = "rank" /\ reader'.pc = "page"
        BY <1>3, <1>9 DEF Rank
    <2>2. ReadsTyped /\ (reader.quiet => ReadWhole)
        BY <2>1, PhasesAre DEF ReaderOK, ReadsTrue, ReadWhole
    <2>3. PageOrdered'
        BY <1>1, <1>9, <2>2, PageMade
    <2> QED
        BY <2>1, <2>3, PhasesAre DEF ReaderOK, NoReader
<1>10. CASE ReadFails
    <2>1. reader' = NoReader /\ reader'.pc = "idle"
        BY <1>10 DEF ReadFails, NoReader
    <2> QED
        BY <2>1, PhasesAre DEF ReaderOK, PageOrdered, NoReader
<1> QED
    BY <1>4, <1>5, <1>6, <1>7, <1>8, <1>9, <1>10 DEF Reading

RankingInv == TablesOK /\ ReaderOK /\ PageOrdered

LEMMA RankingStarts == RankingInit => RankingInv
<1> SUFFICES ASSUME RankingInit PROVE RankingInv
    OBVIOUS
<1>1. /\ now = 0 /\ stories = {} /\ members = {} /\ clustering = {} /\ measured = {}
      /\ marked = {} /\ reader = NoReader /\ WorldOK
    BY DEF RankingInit, WorldOK
<1>2. IsFiniteSet({})
    BY FS_EmptySet
<1>3. Latest({}) = {}
    BY DEF Latest
<1>4. TablesOK
    BY <1>1, <1>2, <1>3 DEF TablesOK, Describes
<1>5. NoReader.pc = "idle"
    BY DEF NoReader
<1> QED
    BY <1>1, <1>4, <1>5, PhasesAre DEF RankingInv, ReaderOK, PageOrdered

LEMMA RankingPreserves == RankingInv /\ [RankingNext]_rankingVars => RankingInv'
<1> SUFFICES ASSUME RankingInv, [RankingNext]_rankingVars PROVE RankingInv'
    OBVIOUS
<1>0. TablesOK /\ ReaderOK /\ PageOrdered /\ now \in Nat
    BY DEF RankingInv, TablesOK
<1>1. CASE TimePasses
    <2>1. /\ reader.pc = "idle" /\ now' = now + 1
          /\ UNCHANGED <<world, stories, members, clustering, measured, marked, reader>>
        BY <1>1 DEF TimePasses
    <2>2. now' \in Nat /\ now <= now'
        BY <1>0, <2>1
    <2>3. TablesOK'
        BY <1>0, <2>1, <2>2, TablesKept
    <2> QED
        BY <1>0, <2>1, <2>3, PhasesAre DEF RankingInv, ReaderOK, PageOrdered
<1>2. CASE CommitStories
    <2>1. TablesOK'
        BY <1>0, <1>2, StoriesCommitted
    <2>2. reader' = [reader EXCEPT !.quiet = FALSE] /\ UNCHANGED <<now, world>>
        BY <1>2 DEF CommitStories, Commit
    <2> QED
        BY <1>0, <2>1, <2>2, NoLongerQuiet DEF RankingInv
<1>3. CASE CommitMembers
    <2>1. TablesOK'
        BY <1>0, <1>3, MembersCommitted
    <2>2. reader' = [reader EXCEPT !.quiet = FALSE] /\ UNCHANGED <<now, world>>
        BY <1>3 DEF CommitMembers
    <2> QED
        BY <1>0, <2>1, <2>2, NoLongerQuiet DEF RankingInv
<1>4. CASE RunDies
    <2>1. clustering' = {}
          /\ UNCHANGED <<now, world, stories, members, measured, marked, reader>>
        BY <1>4 DEF RunDies
    <2>2. TablesOK'
        BY <1>0, <2>1, TablesKept
    <2> QED
        BY <1>0, <2>1, <2>2, ReaderWaits DEF RankingInv
<1>5. ASSUME NEW item, NEW score \in Scores, Measured(item, score) PROVE RankingInv'
    <2>1. /\ measured' = measured \cup {[item |-> item, score |-> score, at |-> now]}
          /\ reader' = [reader EXCEPT !.quiet = FALSE]
          /\ UNCHANGED <<now, world, stories, members, clustering, marked>>
        BY <1>5 DEF Measured, Commit
    <2>2. score \in Int
        BY RankingAssumption
    <2>3. \A m \in measured' : m \in measured \/ (m.at = now /\ m.score \in Int)
        BY <2>1, <2>2
    <2>4. TablesOK'
        BY <1>0, <2>1, <2>3, TablesKept
    <2> QED
        BY <1>0, <2>1, <2>4, NoLongerQuiet DEF RankingInv
<1>6. ASSUME NEW id, NEW mark \in {-1, 1}, MarkGiven(id, mark) PROVE RankingInv'
    <2>1. /\ marked' = marked \cup {[id |-> id, mark |-> mark, day |-> DayOf(now)]}
          /\ reader' = [reader EXCEPT !.quiet = FALSE]
          /\ UNCHANGED <<now, world, stories, members, clustering, measured>>
        BY <1>6 DEF MarkGiven, Commit
    <2>2. \A k \in marked' : k \in marked \/ k.mark \in {-1, 1}
        BY <2>1
    <2>3. TablesOK'
        BY <1>0, <2>1, <2>2, TablesKept
    <2> QED
        BY <1>0, <2>1, <2>3, NoLongerQuiet DEF RankingInv
<1>7. CASE Reading
    <2>1. UNCHANGED <<now, world, stories, members, clustering, measured, marked>>
        BY <1>7 DEF Reading
    <2>2. TablesOK'
        BY <1>0, <2>1, TablesKept
    <2> QED
        BY <1>0, <1>7, <2>2, ReadPreserves DEF RankingInv
<1>8. CASE UNCHANGED rankingVars
    <2>1. UNCHANGED <<now, world, stories, members, clustering, measured, marked, reader>>
        BY <1>8 DEF rankingVars
    <2>2. TablesOK'
        BY <1>0, <2>1, TablesKept
    <2> QED
        BY <1>0, <2>1, <2>2, ReaderWaits DEF RankingInv
<1> QED
    BY <1>1, <1>2, <1>3, <1>4, <1>5, <1>6, <1>7, <1>8 DEF RankingNext

(* The order of a page whose reads met no commit is that of what the       *)
(* warehouse says of its stories, for every wire, board, likeness and      *)
(* interleaving of the reads with the jobs.                                *)
THEOREM PageIsOrdered == RankingSpec => []PageOrdered
<1>1. RankingInv => PageOrdered
    BY DEF RankingInv
<1> QED
    BY <1>1, RankingStarts, RankingPreserves, PTL DEF RankingSpec

(* The rows of the tables a brief reads.                                   *)
RowsTypedTo(last) ==
    /\ \A s \in stories : s.window \in 0..last
    /\ clustering \subseteq [window : 0..last, id : Reports, report : Reports]
    /\ members \subseteq [window : 0..last, id : Reports, report : Reports]
    /\ measured \subseteq [item : {world.wire[r].item : r \in Reports} \ {NoItem},
                           score : Scores, at : 0..last]
    /\ marked \subseteq [id : Reports, mark : {-1, 1}, day : 0..DayOf(last)]

PageRest ==
    /\ now <= LastTick /\ events \in 0..MaxEvents
    /\ world.tables \subseteq Optional
    /\ RowsTypedTo(LastTick)
    /\ reader.quiet \in BOOLEAN
    /\ \A c \in reader.clusters : c.window <= reader.at
    /\ \A p \in reader.novelty : p[2] \in 0..120

LEMMA InitPageRest == RankingInit => PageRest
<1> SUFFICES ASSUME RankingInit PROVE PageRest
    OBVIOUS
<1>1. /\ now = 0 /\ events = 0 /\ stories = {} /\ members = {} /\ clustering = {}
      /\ measured = {} /\ marked = {} /\ world.tables \in {{}, Optional}
      /\ reader.quiet = FALSE /\ reader.clusters = {} /\ reader.novelty = {}
    BY DEF RankingInit, NoReader
<1>2. RowsTypedTo(LastTick)
    BY <1>1 DEF RowsTypedTo
<1>3. LastTick \in Nat /\ MaxEvents \in Nat
    BY RankingAssumption
<1>4. now <= LastTick /\ events \in 0..MaxEvents
    BY <1>1, <1>3
<1> QED
    BY <1>1, <1>2, <1>4 DEF PageRest

LEMMA RankingTyped == ASSUME RankingInv, PageRest PROVE RankingTypeOK
<1>1. now \in Nat /\ LastTick \in Nat /\ \A s \in stories : s.id \in Reports
    BY RankingAssumption DEF RankingInv, TablesOK, StoryOK
<1>2. now \in 0..LastTick
    BY <1>1 DEF PageRest
<1> QED
    BY <1>1, <1>2 DEF PageRest, RowsTypedTo, RankingTypeOK

(* What replaces the rows of a day is what is left and what is new.        *)
LEMMA ReplacedFrom ==
    ASSUME NEW table, NEW new
    PROVE  \A r \in DayReplaced(table, new) : r \in table \/ r \in new
    BY DEF DayReplaced

(* The same reads, whatever is no longer quiet about them.                 *)
LEMMA ReaderKept ==
    ASSUME ReaderOK, PageRest,
           reader' = [reader EXCEPT !.quiet = FALSE] \/ reader' = reader
    PROVE  /\ reader'.quiet \in BOOLEAN
           /\ \A c \in reader'.clusters : c.window <= reader'.at
           /\ \A p \in reader'.novelty : p[2] \in 0..120
<1>1. DOMAIN reader = DOMAIN NoReader
    BY DEF ReaderOK
<1>2. /\ reader'.quiet = FALSE \/ reader'.quiet = reader.quiet
      /\ reader'.clusters = reader.clusters /\ reader'.at = reader.at
      /\ reader'.novelty = reader.novelty
    BY <1>1 DEF NoReader
<1> QED
    BY <1>2 DEF PageRest

LEMMA ReadRest ==
    ASSUME RankingInv, RankingInv', PageRest, Reading
    PROVE  /\ reader'.quiet \in BOOLEAN
           /\ \A c \in reader'.clusters : c.window <= reader'.at
           /\ \A p \in reader'.novelty : p[2] \in 0..120
<1>1. DOMAIN reader = DOMAIN NoReader
    BY DEF RankingInv, ReaderOK
<1>2. CASE ReadClusters
    <2>1. /\ reader'.at = now /\ reader'.clusters = Latest(stories)
          /\ reader'.quiet = (NewestWindow(stories) = NewestWindow(members))
          /\ reader'.novelty = {}
        BY <1>2 DEF ReadClusters, NoReader
    <2>2. \A c \in Latest(stories) : c.window <= now
        BY DEF RankingInv, TablesOK, Latest
    <2>3. reader'.quiet \in BOOLEAN
        BY <2>1
    <2> QED
        BY <2>1, <2>2, <2>3
<1>3. CASE ReadEntities \/ ReadVelocity \/ ReadFeedback \/ Rank
    <2>1. PICK pc, e, s, m, page :
              reader' = [reader EXCEPT !.pc = pc, !.entities = e, !.slopes = s,
                                       !.marks = m, !.page = page]
        <3>1. CASE ReadEntities
            <4> DEFINE e == {x \in {<<id, firm, Mentioned(id, firm, reader.at)>> :
                                       id \in ReadIds, firm \in Firms} : x[3] > 0}
            <4>1. reader' = [reader EXCEPT !.pc = "velocity", !.entities = e]
                BY <3>1 DEF ReadEntities
            <4> HIDE DEF e
            <4>2. reader' = [reader EXCEPT !.pc = "velocity", !.entities = e,
                                           !.slopes = reader.slopes,
                                           !.marks = reader.marks, !.page = reader.page]
                BY <1>1, <4>1 DEF NoReader
            <4> QED
                BY <4>2
        <3>2. CASE ReadVelocity
            <4>1. PICK s : reader' = [reader EXCEPT !.pc = "feedback", !.slopes = s]
                BY <3>2 DEF ReadVelocity
            <4>2. reader' = [reader EXCEPT !.pc = "feedback", !.entities = reader.entities,
                                           !.slopes = s,
                                           !.marks = reader.marks, !.page = reader.page]
                BY <1>1, <4>1 DEF NoReader
            <4> QED
                BY <4>2
        <3>3. CASE ReadFeedback
            <4>1. PICK m : reader' = [reader EXCEPT !.pc = "novelty", !.marks = m]
                BY <3>3 DEF ReadFeedback
            <4>2. reader' = [reader EXCEPT !.pc = "novelty", !.entities = reader.entities,
                                           !.slopes = reader.slopes,
                                           !.marks = m, !.page = reader.page]
                BY <1>1, <4>1 DEF NoReader
            <4> QED
                BY <4>2
        <3>4. CASE Rank
            <4>1. PICK page : reader' = [reader EXCEPT !.pc = "page", !.page = page]
                BY <3>4 DEF Rank
            <4>2. reader' = [reader EXCEPT !.pc = "page", !.entities = reader.entities,
                                           !.slopes = reader.slopes,
                                           !.marks = reader.marks, !.page = page]
                BY <1>1, <4>1 DEF NoReader
            <4> QED
                BY <4>2
        <3> QED
            BY <1>3, <3>1, <3>2, <3>3, <3>4
    <2>2. /\ reader'.quiet = reader.quiet /\ reader'.clusters = reader.clusters
          /\ reader'.at = reader.at /\ reader'.novelty = reader.novelty
        BY <1>1, <2>1 DEF NoReader
    <2> QED
        BY <2>2 DEF PageRest
<1>4. CASE ReadNovelty
    <2>1. reader'.pc = "rank" /\ reader'.quiet = reader.quiet
          /\ reader'.clusters = reader.clusters /\ reader'.at = reader.at
        <3>1. \/ \E v : reader' = [reader EXCEPT !.pc = "rank", !.novelty = v]
              \/ reader' = [reader EXCEPT !.pc = "rank"]
            BY <1>4 DEF ReadNovelty
        <3>2. CASE \E v : reader' = [reader EXCEPT !.pc = "rank", !.novelty = v]
            BY <1>1, <3>2 DEF NoReader
        <3>3. CASE reader' = [reader EXCEPT !.pc = "rank"]
            BY <1>1, <3>3 DEF NoReader
        <3> QED
            BY <3>1, <3>2, <3>3
    <2>2. ReadsTyped'
        BY <2>1, PhasesAre DEF RankingInv, ReaderOK, From, Phases
    <2> QED
        BY <2>1, <2>2 DEF PageRest, ReadsTyped
<1>5. CASE ReadFails
    <2>1. reader'.quiet = FALSE /\ reader'.clusters = {} /\ reader'.novelty = {}
        BY <1>5 DEF ReadFails, NoReader
    <2> QED
        BY <2>1
<1> QED
    BY <1>2, <1>3, <1>4, <1>5 DEF Reading

LEMMA NextPageRest ==
    ASSUME RankingInv, RankingInv', PageRest, [RankingNext]_rankingVars
    PROVE  PageRest'
<1> DEFINE ReaderRest == /\ reader.quiet \in BOOLEAN
                         /\ \A c \in reader.clusters : c.window <= reader.at
                         /\ \A p \in reader.novelty : p[2] \in 0..120
<1>0. /\ now \in Nat /\ LastTick \in Nat /\ MaxEvents \in Nat /\ events \in 0..MaxEvents
      /\ now <= LastTick /\ ReaderOK /\ now \in 0..LastTick
      /\ \A s \in stories : s.id \in Reports
    BY RankingAssumption DEF RankingInv, TablesOK, StoryOK, PageRest
<1>1. RowsTypedTo(LastTick) /\ world.tables \subseteq Optional
    BY DEF PageRest
<1>r. ReaderRest
    BY DEF PageRest
<1>2. ASSUME now' <= LastTick, events' \in 0..MaxEvents, world' = world,
             RowsTypedTo(LastTick)', ReaderRest'
      PROVE  PageRest'
    BY <1>1, <1>2 DEF PageRest
<1>c. Commit => events' \in 0..MaxEvents /\ now' = now /\ world' = world
                /\ reader' = [reader EXCEPT !.quiet = FALSE]
    BY <1>0 DEF Commit
<1>k. reader' = [reader EXCEPT !.quiet = FALSE] \/ reader' = reader => ReaderRest'
    BY <1>0, ReaderKept
<1> HIDE DEF ReaderRest
<1>3. CASE TimePasses
    <2>1. /\ now < LastTick /\ now' = now + 1
          /\ UNCHANGED <<world, stories, members, clustering, measured, marked, reader, events>>
        BY <1>3 DEF TimePasses
    <2>2. now' <= LastTick
        BY <1>0, <2>1
    <2>3. RowsTypedTo(LastTick)'
        BY <1>1, <2>1 DEF RowsTypedTo, DayOf
    <2> QED
        BY <1>0, <1>2, <1>k, <2>1, <2>2, <2>3
<1>4. CASE CommitStories
    <2> DEFINE S == {r \in Reports : now - Span <= world.wire[r].at /\ world.wire[r].at < now}
    <2>1. PICK P \in Groupings(S) :
              /\ stories' = DayReplaced(stories, {StoryRow(G) : G \in P})
              /\ clustering' = UNION {{[window |-> now, id |-> Low(G), report |-> r] :
                                          r \in G} : G \in P}
        BY <1>4 DEF CommitStories
    <2>2. Commit /\ UNCHANGED <<members, measured, marked>>
        BY <1>4 DEF CommitStories
    <2> HIDE DEF S
    <2>3. \A G \in P : G \subseteq Reports /\ Low(G) \in G
        <3>1. S \subseteq Reports
            BY DEF S
        <3> QED
            BY <3>1, GroupsApart
    <2>4. clustering' \subseteq [window : 0..LastTick, id : Reports, report : Reports]
        <3> SUFFICES ASSUME NEW G \in P, NEW r \in G
                     PROVE [window |-> now, id |-> Low(G), report |-> r]
                              \in [window : 0..LastTick, id : Reports, report : Reports]
            BY <2>1
        <3> QED
            BY <1>0, <2>3
    <2>5. \A s \in stories' : s.window \in 0..LastTick
        <3>1. \A G \in P : StoryRow(G).window = now
            BY DEF StoryRow
        <3>2. \A s \in stories' : s \in stories \/ s \in {StoryRow(G) : G \in P}
            BY <2>1, ReplacedFrom
        <3> QED
            BY <1>0, <1>1, <3>1, <3>2 DEF RowsTypedTo
    <2>6. RowsTypedTo(LastTick)'
        BY <1>1, <1>c, <2>2, <2>4, <2>5 DEF RowsTypedTo, DayOf
    <2> QED
        BY <1>0, <1>2, <1>c, <1>k, <2>2, <2>6
<1>5. CASE CommitMembers
    <2>1. /\ members' = DayReplaced(members, clustering) /\ clustering' = {}
          /\ reader' = [reader EXCEPT !.quiet = FALSE]
          /\ UNCHANGED <<now, world, stories, measured, marked, events>>
        BY <1>5 DEF CommitMembers
    <2>2. \A m \in members' : m \in members \/ m \in clustering
        BY <2>1, ReplacedFrom
    <2>3. RowsTypedTo(LastTick)'
        BY <1>1, <2>1, <2>2 DEF RowsTypedTo, DayOf
    <2> QED
        BY <1>0, <1>2, <1>k, <2>1, <2>3
<1>6. CASE RunDies
    <2>1. /\ clustering' = {}
          /\ UNCHANGED <<now, world, stories, members, measured, marked, reader, events>>
        BY <1>6 DEF RunDies
    <2>2. RowsTypedTo(LastTick)'
        BY <1>1, <2>1 DEF RowsTypedTo, DayOf
    <2> QED
        BY <1>0, <1>2, <1>k, <2>1, <2>2
<1>7. ASSUME NEW item \in {world.wire[r].item : r \in Reports} \ {NoItem},
             NEW score \in Scores, Measured(item, score)
      PROVE  PageRest'
    <2>1. /\ measured' = measured \cup {[item |-> item, score |-> score, at |-> now]}
          /\ Commit /\ UNCHANGED <<stories, members, clustering, marked>>
        BY <1>7 DEF Measured
    <2>2. [item |-> item, score |-> score, at |-> now]
             \in [item : {world.wire[r].item : r \in Reports} \ {NoItem},
                  score : Scores, at : 0..LastTick]
        BY <1>0
    <2>3. RowsTypedTo(LastTick)'
        BY <1>1, <1>c, <2>1, <2>2 DEF RowsTypedTo, DayOf
    <2> QED
        BY <1>0, <1>2, <1>c, <1>k, <2>1, <2>3
<1>8. ASSUME NEW id \in {s.id : s \in stories}, NEW mark \in {-1, 1}, MarkGiven(id, mark)
      PROVE  PageRest'
    <2>1. /\ marked' = marked \cup {[id |-> id, mark |-> mark, day |-> DayOf(now)]}
          /\ Commit /\ UNCHANGED <<stories, members, clustering, measured>>
        BY <1>8 DEF MarkGiven
    <2>2. DayOf(now) \in 0..DayOf(LastTick)
        <3>1. DayTicks \in Nat \ {0} /\ now \in Int /\ LastTick \in Int
            BY <1>0, RankingAssumption
        <3>2. now \div DayTicks >= 0
            BY <1>0, <3>1
        <3> QED
            BY <1>0, <3>1, <3>2, QuotientMonotone DEF DayOf
    <2>3. id \in Reports
        BY <1>0
    <2>4. [id |-> id, mark |-> mark, day |-> DayOf(now)]
             \in [id : Reports, mark : {-1, 1}, day : 0..DayOf(LastTick)]
        BY <2>2, <2>3
    <2>5. RowsTypedTo(LastTick)'
        BY <1>1, <1>c, <2>1, <2>4 DEF RowsTypedTo, DayOf
    <2> QED
        BY <1>0, <1>2, <1>c, <1>k, <2>1, <2>5
<1>9. CASE Reading
    <2>1. UNCHANGED <<now, world, stories, members, clustering, measured, marked, events>>
        BY <1>9 DEF Reading
    <2>2. ReaderRest'
        BY <1>9, ReadRest DEF ReaderRest
    <2>3. RowsTypedTo(LastTick)'
        BY <1>1, <2>1 DEF RowsTypedTo, DayOf
    <2> QED
        BY <1>0, <1>2, <2>1, <2>2, <2>3
<1>10. CASE UNCHANGED rankingVars
    <2>1. UNCHANGED <<now, world, stories, members, clustering, measured, marked, reader, events>>
        BY <1>10 DEF rankingVars
    <2>2. RowsTypedTo(LastTick)'
        BY <1>1, <2>1 DEF RowsTypedTo, DayOf
    <2> QED
        BY <1>0, <1>2, <1>k, <2>1, <2>2
<1> QED
    BY <1>3, <1>4, <1>5, <1>6, <1>7, <1>8, <1>9, <1>10 DEF RankingNext

(* The types of what a brief reads and of what it has read.                *)
THEOREM PageTypeCorrect == RankingSpec => []RankingTypeOK
<1>1. RankingInv /\ PageRest /\ [RankingNext]_rankingVars => RankingInv' /\ PageRest'
    BY RankingPreserves, NextPageRest
<1>2. RankingInv /\ PageRest => RankingTypeOK
    BY RankingTyped
<1> QED
    BY <1>1, <1>2, RankingStarts, InitPageRest, PTL DEF RankingSpec

(* A page on which both the order and the vectors are true, whatever runs  *)
(* beside the build of it.                                                 *)
THEOREM PageIsTrue == PageSpec => []PageTrue
<1>1. PageInit => RankingInit /\ EmbeddingsInit
    BY DEF PageInit
<1>2. [PageNext]_pageVars => [RankingNext]_rankingVars /\ [EmbeddingsNext]_embeddingsVars
    BY DEF PageNext, pageVars
<1>3. PageOrdered /\ CacheUnseen => PageTrue
    BY DEF PageTrue
<1> QED
    BY <1>1, <1>2, <1>3, PageIsOrdered, EmbeddingsCacheUnseen, PTL
       DEF PageSpec, RankingSpec, EmbeddingsSpec

=============================================================================
