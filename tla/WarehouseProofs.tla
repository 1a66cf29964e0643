-------------------------- MODULE WarehouseProofs ---------------------------
(* What the jobs of the warehouse leave behind, for every table, hour, day  *)
(* and interleaving: stories of comments, verdicts on sources, articles,    *)
(* maintenance rows, restated figures and the days there was a brief.       *)
EXTENDS StoryProofs, MCTables

(* A finite set of integers has a largest member: of the sets of members    *)
(* not below one of them a smallest exists, by the well-foundedness of      *)
(* inclusion.                                                               *)
LEMMA LargestMember ==
    ASSUME NEW S, S \subseteq Int, IsFiniteSet(S), S # {}
    PROVE  \E m \in S : \A n \in S : n <= m
<1> DEFINE Above(m) == {n \in S : n >= m}
           G == {Above(m) : m \in S}
<1>1. G \subseteq FiniteSubsetsOf(S) /\ G # {}
    <2>1. G \subseteq SUBSET S /\ G # {}
        OBVIOUS
    <2> QED
        BY <2>1, FS_FiniteSubsetsOfFinite
<1>2. PICK U \in G : \A V \in G : <<V, U>> \notin StrictSubsetOrdering(S)
    BY <1>1, FS_StrictSubsetOrderingWellFounded, WFMin
<1>3. PICK m \in S : U = Above(m)
    OBVIOUS
<1>4. ASSUME NEW n \in S, n > m PROVE FALSE
    <2>1. n \in Int /\ m \in Int
        OBVIOUS
    <2>2. Above(n) \subseteq Above(m) /\ m \notin Above(n) /\ m \in Above(m)
        <3>1. \A k \in Above(n) : k \in Int /\ k \in S /\ k >= n
            OBVIOUS
        <3>2. \A k \in Above(n) : k >= m /\ k # m
            BY <1>4, <2>1, <3>1
        <3>3. m \in Above(m)
            BY <2>1
        <3> QED
            BY <3>1, <3>2, <3>3
    <2>3. <<Above(n), U>> \in StrictSubsetOrdering(S)
        BY <1>3, <2>2 DEF StrictSubsetOrdering
    <2> QED
        BY <1>2, <2>3
<1> QED
    BY <1>4

LEMMA SmallestMember ==
    ASSUME NEW T, T \subseteq Nat, T # {}
    PROVE  \E m \in T : \A n \in T : m <= n
<1>1. PICK top \in T : TRUE
    OBVIOUS
<1> DEFINE Down == {d \in Int : 0 - d \in T /\ 0 - d <= top}
<1>2. Down \subseteq Int /\ 0 - top \in Down
    BY <1>1, 0 - (0 - top) = top
<1>3. IsFiniteSet(Down)
    <2>1. Down \in SUBSET ((0 - top)..0)
        BY <1>1
    <2>2. IsFiniteSet((0 - top)..0)
        BY <1>1, FS_Interval
    <2> QED
        BY <2>1, <2>2, FS_Subset
<1>4. PICK d \in Down : \A e \in Down : e <= d
    <2> HIDE DEF Down
    <2> QED
        BY <1>2, <1>3, LargestMember
<1>5. PICK m \in T : m <= top /\ d = 0 - m
    BY d = 0 - (0 - d)
<1>6. ASSUME NEW n \in T PROVE m <= n
    <2>1. CASE n <= top
        <3>1. 0 - n \in Down
            BY <2>1, 0 - (0 - n) = n
        <3> QED
            BY <1>4, <1>5, <3>1
    <2> QED
        BY <1>5, <2>1, n \in Nat, m \in Nat, top \in Nat
<1> QED
    BY <1>6

LEMMA MaxMember ==
    ASSUME NEW S, S \subseteq Int, IsFiniteSet(S), S # {}
    PROVE  Max(S) \in S /\ \A n \in S : n <= Max(S)
<1>1. \E m \in S : \A n \in S : m >= n
    <2>1. PICK m \in S : \A n \in S : n <= m
        BY LargestMember
    <2>2. \A n \in S : m >= n
        BY <2>1
    <2> QED
        BY <2>2
<1>2. Max(S) \in S /\ \A n \in S : Max(S) >= n
    BY <1>1 DEF Max
<1> QED
    BY <1>2

LEMMA MinMember ==
    ASSUME NEW S, S \subseteq Nat, S # {}
    PROVE  Min(S) \in S /\ \A n \in S : Min(S) <= n
<1>1. \E m \in S : \A n \in S : m <= n
    BY SmallestMember
<1> QED
    BY <1>1 DEF Min

LEMMA MaxOfMember ==
    ASSUME NEW S, S \subseteq Int, NEW m \in S, \A n \in S : n <= m
    PROVE  Max(S) = m
<1>1. \A n \in S : m >= n
    OBVIOUS
<1>2. Max(S) \in S /\ \A n \in S : Max(S) >= n
    BY <1>1 DEF Max
<1>3. m >= Max(S) /\ Max(S) >= m /\ m \in Int /\ Max(S) \in Int
    BY <1>1, <1>2
<1> QED
    BY <1>3

-----------------------------------------------------------------------------
(* Threads.                                                                *)

(* The climb as the join of the loop computes it, hop after hop.           *)
Hop(p, known, story) == IF story \in known THEN p[story] ELSE story

Hops(p, known, c, n) ==
    CHOOSE after : after = [hops \in 0..n |-> IF hops = 0 THEN p[c]
                                            ELSE Hop(p, known, after[hops - 1])]

HopsThere(p, known, c, n) ==
    \E f : f = [h \in 0..n |-> IF h = 0 THEN p[c] ELSE Hop(p, known, f[h - 1])]

(* A recursive function over an interval exists: the smallest interval     *)
(* without one would extend the function of the interval before it.        *)
LEMMA HopsExist ==
    ASSUME NEW p, NEW known, NEW c
    PROVE  \A n \in Nat : HopsThere(p, known, c, n)
<1> DEFINE Lacking == {n \in Nat : ~ HopsThere(p, known, c, n)}
<1>1. SUFFICES ASSUME Lacking # {} PROVE FALSE
    OBVIOUS
<1>2. PICK m \in Lacking : \A n \in Lacking : m <= n
    <2>1. Lacking \subseteq Nat
        OBVIOUS
    <2> HIDE DEF Lacking
    <2> QED
        BY <1>1, <2>1, SmallestMember
<1>3. CASE m = 0
    <2> DEFINE f == [h \in 0..0 |-> p[c]]
    <2>1. f = [h \in 0..m |-> IF h = 0 THEN p[c] ELSE Hop(p, known, f[h - 1])]
        BY <1>3
    <2>2. HopsThere(p, known, c, m)
        BY <2>1 DEF HopsThere
    <2> QED
        BY <2>2
<1>4. CASE m # 0
    <2>1. m - 1 \in Nat /\ m \in Nat /\ ~ (m <= m - 1)
        BY <1>4
    <2>2. HopsThere(p, known, c, m - 1)
        BY <1>2, <2>1
    <2>3. PICK g : g = [h \in 0..(m - 1) |-> IF h = 0 THEN p[c]
                                            ELSE Hop(p, known, g[h - 1])]
        BY <2>2 DEF HopsThere
    <2> DEFINE f == [h \in 0..m |-> IF h < m THEN g[h] ELSE Hop(p, known, g[m - 1])]
    <2>4. ASSUME NEW h \in 0..m
          PROVE  f[h] = IF h = 0 THEN p[c] ELSE Hop(p, known, f[h - 1])
        <3>1. \A i \in 0..(m - 1) : f[i] = g[i]
            BY <2>1
        <3>2. \A i \in 0..(m - 1) : g[i] = IF i = 0 THEN p[c] ELSE Hop(p, known, g[i - 1])
            BY <2>3
        <3>3. f[m] = Hop(p, known, g[m - 1]) /\ f[m - 1] = g[m - 1]
            BY <2>1, <3>1
        <3> HIDE DEF f
        <3>4. CASE h = m
            BY <1>4, <3>3, <3>4
        <3>5. CASE h \in 0..(m - 1)
            <4>1. h = 0 \/ h - 1 \in 0..(m - 1)
                BY <2>1, <3>5
            <4> QED
                BY <3>1, <3>2, <3>5, <4>1
        <3> QED
            BY <2>1, <3>4, <3>5
    <2>5. f = [h \in 0..m |-> f[h]]
        OBVIOUS
    <2> HIDE DEF f
    <2>6. f = [h \in 0..m |-> IF h = 0 THEN p[c] ELSE Hop(p, known, f[h - 1])]
        BY <2>4, <2>5
    <2>7. HopsThere(p, known, c, m)
        BY <2>6 DEF HopsThere
    <2> QED
        BY <2>7
<1> QED
    BY <1>3, <1>4

(* What the loop ends at: the parent of the last comment of a climb, and   *)
(* one nobody knows unless the hops ran out.                               *)
LEMMA HopsClimb ==
    ASSUME NEW p \in [Comments -> Nat], NEW known, known \subseteq Comments,
           NEW c \in Comments
    PROVE  LET story == Hops(p, known, c, MaxHops)[MaxHops]
           IN  \E n \in 1..(MaxHops + 1) : \E path \in [1..n -> Comments] :
                  /\ path[1] = c
                  /\ \A i \in 1..(n - 1) : path[i + 1] = p[path[i]]
                  /\ story = p[path[n]]
                  /\ n = MaxHops + 1 \/ story \notin known
<1> DEFINE after == Hops(p, known, c, MaxHops)
<1>0. MaxHops \in Nat
    BY ThreadsAssumption
<1>1. after = [h \in 0..MaxHops |-> IF h = 0 THEN p[c] ELSE Hop(p, known, after[h - 1])]
    <2>1. HopsThere(p, known, c, MaxHops)
        BY <1>0, HopsExist
    <2>2. \E f : f = [h \in 0..MaxHops |-> IF h = 0 THEN p[c] ELSE Hop(p, known, f[h - 1])]
        BY <2>1 DEF HopsThere
    <2> QED
        BY <2>2 DEF Hops
<1> HIDE DEF after
<1>2. /\ after[0] = p[c]
      /\ \A h \in 0..MaxHops : h # 0 => after[h] = Hop(p, known, after[h - 1])
    BY <1>0, <1>1
<1> DEFINE Stops == {h \in 0..MaxHops : after[h] \notin known \/ h = MaxHops}
<1>3. PICK s \in Stops : \A h \in Stops : s <= h
    <2>1. Stops \subseteq Nat /\ MaxHops \in Stops
        BY <1>0
    <2> HIDE DEF Stops
    <2> QED
        BY <2>1, SmallestMember
<1>4. /\ s \in Nat /\ s <= MaxHops
      /\ s = MaxHops \/ after[s] \notin known
      /\ \A h \in Nat : h < s => after[h] \in known
    <2>1. \A h \in Nat : h < s => h \in 0..MaxHops /\ h \notin Stops
        BY <1>0, <1>3
    <2> QED
        BY <1>0, <1>3, <2>1
<1> HIDE DEF Stops
<1>5. after[MaxHops] = after[s]
    <2> DEFINE Moved == {h \in s..MaxHops : after[h] # after[s]}
    <2>1. SUFFICES ASSUME Moved # {} PROVE FALSE
        BY <1>0, <1>4
    <2>2. Moved \subseteq Nat
        BY <1>4
    <2>3. PICK m \in Moved : \A h \in Moved : m <= h
        <3> HIDE DEF Moved
        <3> QED
            BY <2>1, <2>2, SmallestMember
    <2>4. m \in s..MaxHops /\ m # s /\ after[m] # after[s]
        OBVIOUS
    <2>5. m \in 0..MaxHops /\ m # 0 /\ m - 1 \in s..MaxHops /\ ~ (m <= m - 1)
          /\ s # MaxHops
        BY <1>0, <1>4, <2>4
    <2>6. after[m - 1] = after[s]
        BY <2>3, <2>5
    <2>7. after[m] = after[s]
        BY <1>2, <1>4, <2>5, <2>6 DEF Hop
    <2> QED
        BY <2>4, <2>7
<1> DEFINE n == s + 1
           path == [i \in 1..n |-> IF i = 1 THEN c ELSE after[i - 2]]
<1>6. n \in 1..(MaxHops + 1)
    BY <1>0, <1>4
<1>7. \A i \in 1..n : path[i] = IF i = 1 THEN c ELSE after[i - 2]
    OBVIOUS
<1>8. \A i \in 1..n : path[i] \in Comments
    <2>1. \A i \in 1..n : i = 1 \/ (i - 2 \in Nat /\ i - 2 < s)
        BY <1>4
    <2> QED
        BY <1>4, <1>7, <2>1
<1>9. path \in [1..n -> Comments] /\ path[1] = c
    BY <1>4, <1>8
<1>10. ASSUME NEW h \in 0..s PROVE after[h] = p[path[h + 1]]
    <2>1. h + 1 \in 1..n /\ h \in 0..MaxHops
        BY <1>0, <1>4
    <2>2. CASE h = 0
        BY <1>2, <1>9, <2>2
    <2>3. CASE h # 0
        <3>1. h - 1 \in Nat /\ h - 1 < s /\ (h + 1) - 2 = h - 1 /\ h + 1 # 1
            BY <1>4, <2>3
        <3>2. path[h + 1] = after[h - 1]
            BY <1>7, <2>1, <3>1
        <3>3. after[h - 1] \in known
            BY <1>4, <3>1
        <3> HIDE DEF path
        <3> QED
            BY <1>2, <2>1, <2>3, <3>2, <3>3 DEF Hop
    <2> QED
        BY <2>2, <2>3
<1>11. ASSUME NEW i \in 1..(n - 1) PROVE path[i + 1] = p[path[i]]
    <2>1. i - 1 \in 0..s /\ (i - 1) + 1 = i /\ i + 1 \in 1..n /\ i + 1 # 1
          /\ (i + 1) - 2 = i - 1
        BY <1>4
    <2>2. path[i + 1] = after[i - 1]
        BY <1>7, <2>1
    <2>3. after[i - 1] = p[path[(i - 1) + 1]]
        BY <1>10, <2>1
    <2> HIDE DEF path
    <2> QED
        BY <2>1, <2>2, <2>3
<1>12. after[MaxHops] = p[path[n]] /\ (n = MaxHops + 1 \/ after[MaxHops] \notin known)
    <2>1. s \in 0..s
        BY <1>4
    <2>2. after[s] = p[path[s + 1]]
        BY <1>10, <2>1
    <2> HIDE DEF path
    <2> QED
        BY <1>4, <1>5, <2>2
<1> HIDE DEF path
<1> QED
    BY <1>6, <1>9, <1>11, <1>12 DEF after

-----------------------------------------------------------------------------

(* The rows of a pass under way: the answer of the climb, and a comment it *)
(* stopped at is one the pass did not know.                                *)
PassOK ==
    hnPass.pc = "merge" =>
        /\ \A r, q \in hnPass.rows : r.item = q.item => r = q
        /\ \A r \in hnPass.rows :
              /\ r.item \in Comments
              /\ \E n \in 1..(MaxHops + 1) : \E path \in Climbs(r.item, n) :
                    /\ r.story = parentId[path[n]]
                    /\ \/ n = MaxHops + 1
                       \/ r.story \notin CommentIds(hnComments) \cup CommentIds(hnPass.rows)

TableOK ==
    /\ parentId \in [Comments -> Nat] /\ passes \in Nat
    /\ \A r \in hnComments : r.item \in Comments /\ r.pass \in Nat /\ r.pass <= passes

ThreadsInv == TableOK /\ PassOK /\ ThreadsTrue

LEMMA InitThreadsInv == ThreadsInit => ThreadsInv
    BY ThreadsAssumption
       DEF ThreadsInit, ThreadsInv, TableOK, PassOK, ThreadsTrue, NoPass

(* The pass climbs through what it knows when it begins.                   *)
LEMMA ResolveStep ==
    ASSUME ThreadsInv, NEW h \in 1..MaxBronzeHour, ResolveStories(h) PROVE ThreadsInv'
<1>0. TableOK /\ ThreadsTrue
    BY DEF ThreadsInv
<1> DEFINE batch == {c \in Comments : <<c, h>> \in bronzeItems}
           known == KnownComments(batch)
           found == {[item |-> c, story |-> StoryId(c, known)] : c \in batch}
<1>1. /\ hnPass' = [pc |-> "merge", rows |-> found]
      /\ UNCHANGED <<parentId, bronzeItems, hnComments, passes>>
    BY DEF ResolveStories
<1>2. known \subseteq Comments /\ CommentIds(hnComments) \cup batch \subseteq known
    BY <1>0 DEF KnownComments, CommentIds, TableOK
<1> HIDE DEF batch, known
<1>3. CommentIds(found) = batch
    <2>1. \A r \in found : r.item \in batch
        OBVIOUS
    <2>2. \A c \in batch : \E r \in found : r.item = c
        <3> TAKE c \in batch
        <3> WITNESS [item |-> c, story |-> StoryId(c, known)] \in found
        <3> QED
            OBVIOUS
    <2> HIDE DEF found
    <2> QED
        BY <2>1, <2>2 DEF CommentIds
<1>4. \A r, q \in found : r.item = q.item => r = q
    OBVIOUS
<1>5. ASSUME NEW c \in batch
      PROVE  \E n \in 1..(MaxHops + 1) : \E path \in Climbs(c, n) :
                /\ StoryId(c, known) = parentId[path[n]]
                /\ n = MaxHops + 1 \/ StoryId(c, known) \notin known
    <2>0. c \in Comments
        BY DEF batch
    <2>1. StoryId(c, known) = Hops(parentId, known, c, MaxHops)[MaxHops]
        BY DEF StoryId, Climb, Hops, Hop
    <2> QED
        BY <1>0, <1>2, <2>0, <2>1, HopsClimb, SMTT(30) DEF TableOK, Climbs
<1>6. \A r \in found : r.item \in batch /\ r.story = StoryId(r.item, known)
    OBVIOUS
<1> HIDE DEF found
<1>7. PassOK'
    <2> SUFFICES ASSUME NEW r \in found
                 PROVE  /\ r.item \in Comments
                        /\ \E n \in 1..(MaxHops + 1) : \E path \in Climbs(r.item, n) :
                              /\ r.story = parentId[path[n]]
                              /\ \/ n = MaxHops + 1
                                 \/ r.story \notin CommentIds(hnComments) \cup CommentIds(found)
        BY <1>1, <1>4 DEF PassOK, Climbs, CommentIds
    <2> QED
        BY <1>2, <1>3, <1>5, <1>6 DEF batch
<1>8. TableOK' /\ ThreadsTrue'
    BY <1>0, <1>1, SMTT(30) DEF TableOK, ThreadsTrue, Climbs
<1> QED
    BY <1>7, <1>8 DEF ThreadsInv

(* A new row is younger than every row there is, and what its climb stopped*)
(* at comes in a later pass if it ever comes.                              *)
LEMMA MergeStep ==
    ASSUME ThreadsInv, MergeComments PROVE ThreadsInv'
<1>0. TableOK /\ PassOK /\ ThreadsTrue /\ hnPass.pc = "merge"
    BY DEF ThreadsInv, MergeComments
<1> DEFINE new == {q \in hnPass.rows : q.item \notin CommentIds(hnComments)}
           added == {[item |-> r.item, story |-> r.story, pass |-> passes'] : r \in new}
<1>1. /\ passes' = passes + 1 /\ hnComments' = hnComments \cup added
      /\ hnPass' = NoPass /\ UNCHANGED <<parentId, bronzeItems>>
    BY DEF MergeComments
<1>2. \A a \in added : \E r \in new : a.item = r.item /\ a.story = r.story
                                     /\ a.pass = passes + 1
    BY <1>1
<1>3. \A a \in added : a = [item |-> a.item, story |-> a.story, pass |-> passes + 1]
    BY <1>1
<1>4. \A r \in new : r \in hnPass.rows /\ \A q \in hnComments : q.item # r.item
    BY DEF CommentIds
<1> HIDE DEF new, added
<1>5. TableOK'
    BY <1>0, <1>1, <1>2, <1>4 DEF TableOK, PassOK
<1>6. PassOK'
    BY <1>1 DEF PassOK, NoPass
<1>7. \A r, q \in hnComments' : r.item = q.item => r = q
    BY <1>0, <1>1, <1>2, <1>3, <1>4 DEF ThreadsTrue, PassOK
<1>8. ASSUME NEW r \in hnComments'
      PROVE  \E n \in 1..(MaxHops + 1) : \E path \in Climbs(r.item, n) :
                /\ r.story = parentId[path[n]]
                /\ \/ r.story \notin Comments
                   \/ n = MaxHops + 1
                   \/ \A q \in hnComments' : q.item = r.story => r.pass < q.pass
    <2>1. CASE r \in hnComments
        <3>1. PICK n \in 1..(MaxHops + 1) : \E path \in Climbs(r.item, n) :
                 /\ r.story = parentId[path[n]]
                 /\ \/ r.story \notin Comments
                    \/ n = MaxHops + 1
                    \/ \A q \in hnComments : q.item = r.story => r.pass < q.pass
            BY <1>0, <2>1 DEF ThreadsTrue
        <3>2. \A q \in added : r.pass < q.pass
            BY <1>0, <1>2, <2>1 DEF TableOK
        <3> QED
            BY <1>1, <3>1, <3>2
    <2>2. CASE r \in added
        <3>1. PICK row \in hnPass.rows : r.item = row.item /\ r.story = row.story
            BY <1>2, <1>4, <2>2
        <3>2. PICK n \in 1..(MaxHops + 1) : \E path \in Climbs(r.item, n) :
                 /\ r.story = parentId[path[n]]
                 /\ \/ n = MaxHops + 1
                    \/ r.story \notin CommentIds(hnComments) \cup CommentIds(hnPass.rows)
            BY <1>0, <3>1 DEF PassOK
        <3>3. \A q \in hnComments' :
                 q.item \in CommentIds(hnComments) \cup CommentIds(hnPass.rows)
            BY <1>1, <1>2, <1>4 DEF CommentIds
        <3> QED
            BY <3>2, <3>3
    <2> QED
        BY <1>1, <2>1, <2>2
<1>9. ThreadsTrue'
    BY <1>1, <1>7, <1>8 DEF ThreadsTrue, Climbs
<1> QED
    BY <1>5, <1>6, <1>9 DEF ThreadsInv

(* Whatever arrives, is repeated or dies, the invariant stays.             *)
LEMMA NextThreadsInv == ThreadsInv /\ [ThreadsNext]_threadsVars => ThreadsInv'
<1> SUFFICES ASSUME ThreadsInv, [ThreadsNext]_threadsVars PROVE ThreadsInv'
    OBVIOUS
<1>1. ASSUME NEW c \in Comments, NEW h \in 1..MaxBronzeHour, CommentFetched(c, h)
      PROVE  ThreadsInv'
    <2>1. UNCHANGED <<parentId, hnComments, hnPass, passes>>
        BY <1>1 DEF CommentFetched
    <2>2. PassOK'
        <3>1. /\ \A d, n : Climbs(d, n)' = Climbs(d, n)
              /\ CommentIds(hnComments)' = CommentIds(hnComments)
              /\ CommentIds(hnPass.rows)' = CommentIds(hnPass.rows)
            BY <2>1 DEF Climbs, CommentIds
        <3>2. PassOK
            BY DEF ThreadsInv
        <3> QED
            BY <2>1, <3>1, <3>2, SMTT(30) DEF PassOK
    <2>3. TableOK' /\ ThreadsTrue'
        BY <2>1 DEF ThreadsInv, TableOK, ThreadsTrue, Climbs
    <2> QED
        BY <2>2, <2>3 DEF ThreadsInv
<1>2. ASSUME NEW h \in 1..MaxBronzeHour, ResolveStories(h) PROVE ThreadsInv'
    BY <1>2, ResolveStep
<1>3. CASE MergeComments
    BY <1>3, MergeStep
<1>4. CASE PassDies
    <2>1. hnPass' = NoPass /\ UNCHANGED <<parentId, bronzeItems, hnComments, passes>>
        BY <1>4 DEF PassDies
    <2>2. PassOK'
        BY <2>1 DEF PassOK, NoPass
    <2>3. TableOK' /\ ThreadsTrue'
        BY <2>1, SMTT(30) DEF ThreadsInv, TableOK, ThreadsTrue, Climbs
    <2> QED
        BY <2>2, <2>3 DEF ThreadsInv
<1>5. CASE UNCHANGED threadsVars
    <2>1. UNCHANGED <<parentId, hnComments, hnPass, passes>>
        BY <1>5 DEF threadsVars
    <2>2. PassOK'
        BY <2>1, SMTT(30) DEF ThreadsInv, PassOK, Climbs, CommentIds
    <2>3. TableOK' /\ ThreadsTrue'
        BY <2>1, SMTT(30) DEF ThreadsInv, TableOK, ThreadsTrue, Climbs
    <2> QED
        BY <2>2, <2>3 DEF ThreadsInv
<1> QED
    BY <1>1, <1>2, <1>3, <1>4, <1>5 DEF ThreadsNext

(* Every comment of the table is under its story, or under the comment its  *)
(* climb could not pass, for any threads, hours, bound on hops and order of *)
(* the passes.                                                              *)
THEOREM ThreadsResolved == ThreadsSpec => []ThreadsTrue
<1>1. ThreadsInv => ThreadsTrue
    BY DEF ThreadsInv
<1> QED
    BY <1>1, InitThreadsInv, NextThreadsInv, PTL DEF ThreadsSpec

ThreadsRest ==
    /\ ThreadsTypeOK
    /\ hnPass.pc = "merge" => passes < MaxPasses

LEMMA InitThreadsRest == ThreadsInit => ThreadsRest
    BY ThreadsAssumption DEF ThreadsInit, ThreadsRest, ThreadsTypeOK, NoPass

LEMMA NextThreadsRest ==
    ThreadsInv /\ ThreadsRest /\ [ThreadsNext]_threadsVars => ThreadsRest'
<1> SUFFICES ASSUME ThreadsInv, ThreadsRest, [ThreadsNext]_threadsVars PROVE ThreadsRest'
    OBVIOUS
<1>0. ThreadsTypeOK /\ (hnPass.pc = "merge" => passes < MaxPasses) /\ ThreadsInv'
    BY NextThreadsInv DEF ThreadsRest
<1>1. ASSUME NEW c \in Comments, NEW h \in 1..MaxBronzeHour, CommentFetched(c, h)
      PROVE  ThreadsRest'
    BY <1>0, <1>1 DEF CommentFetched, ThreadsRest, ThreadsTypeOK
<1>2. ASSUME NEW h \in 1..MaxBronzeHour, ResolveStories(h) PROVE ThreadsRest'
    <2> DEFINE batch == {c \in Comments : <<c, h>> \in bronzeItems}
               found == {[item |-> c, story |-> StoryId(c, KnownComments(batch))] : c \in batch}
    <2>1. hnPass' = [pc |-> "merge", rows |-> found] /\ passes < MaxPasses
          /\ UNCHANGED <<parentId, bronzeItems, hnComments, passes>>
        BY <1>2 DEF ResolveStories
    <2>2. \A r \in found : \E c \in Comments : \E s : r = [item |-> c, story |-> s]
        OBVIOUS
    <2> HIDE DEF found
    <2>3. \A r \in hnPass'.rows : r.story \in Nat
        <3>1. parentId' \in [Comments -> Nat] /\ hnPass'.pc = "merge" /\ PassOK'
            BY <1>0, <2>1 DEF ThreadsInv, TableOK
        <3> SUFFICES ASSUME NEW r \in hnPass'.rows PROVE r.story \in Nat
            OBVIOUS
        <3>2. PICK n \in 1..(MaxHops + 1) : \E path \in Climbs(r.item, n)' :
                  r.story = parentId'[path[n]]
            BY <3>1 DEF PassOK
        <3>3. PICK path \in Climbs(r.item, n)' : r.story = parentId'[path[n]]
            BY <3>2
        <3>4. path \in [1..n -> Comments] /\ n \in 1..n
            BY ThreadsAssumption DEF Climbs
        <3> QED
            BY <3>1, <3>3, <3>4
    <2>4. \A r \in found : r \in [item : Comments, story : Nat]
        BY <2>1, <2>2, <2>3
    <2>5. hnPass' \in [pc : {"idle", "merge"}, rows : SUBSET [item : Comments, story : Nat]]
        BY <2>1, <2>4
    <2> QED
        BY <1>0, <2>1, <2>5 DEF ThreadsRest, ThreadsTypeOK
<1>3. CASE MergeComments
    <2>1. /\ hnPass.pc = "merge" /\ passes' = passes + 1 /\ hnPass' = NoPass
          /\ hnComments' = hnComments \cup
                {[item |-> r.item, story |-> r.story, pass |-> passes'] :
                    r \in {q \in hnPass.rows : q.item \notin CommentIds(hnComments)}}
          /\ UNCHANGED <<parentId, bronzeItems>>
        BY <1>3 DEF MergeComments
    <2>2. passes' \in 1..MaxPasses
        BY <1>0, <2>1, ThreadsAssumption DEF ThreadsTypeOK
    <2>3. \A r \in hnPass.rows : r.item \in Comments /\ r.story \in Nat
        BY <1>0 DEF ThreadsTypeOK
    <2>4. hnComments' \subseteq [item : Comments, story : Nat, pass : 1..MaxPasses]
        BY <1>0, <2>1, <2>2, <2>3 DEF ThreadsTypeOK
    <2> QED
        BY <1>0, <2>1, <2>2, <2>4 DEF ThreadsRest, ThreadsTypeOK, NoPass
<1>4. CASE PassDies
    BY <1>0, <1>4 DEF PassDies, ThreadsRest, ThreadsTypeOK, NoPass
<1>5. CASE UNCHANGED threadsVars
    BY <1>0, <1>5 DEF threadsVars, ThreadsRest, ThreadsTypeOK
<1> QED
    BY <1>1, <1>2, <1>3, <1>4, <1>5 DEF ThreadsNext

(* The types of the thread table and of the pass over it.                  *)
THEOREM ThreadsTypeCorrect == ThreadsSpec => []ThreadsTypeOK
<1>1. ThreadsInv /\ ThreadsRest /\ [ThreadsNext]_threadsVars => ThreadsInv' /\ ThreadsRest'
    BY NextThreadsInv, NextThreadsRest
<1>2. ThreadsInv /\ ThreadsRest => ThreadsTypeOK
    BY DEF ThreadsRest
<1> QED
    BY <1>1, <1>2, InitThreadsInv, InitThreadsRest, PTL DEF ThreadsSpec

-----------------------------------------------------------------------------
(* SourceHealth.                                                           *)

(* The rows a baseline is made of, in a table H, and the loud ones.        *)
Preceding(H, w) == {q \in H : w - BaselineWindows <= q.window /\ q.window < w}
Loud(H, w) == {q \in Preceding(H, w) : q.docs >= BaselineMin}

(* A silent window after mostly loud ones is a failing one.                *)
Told(H, r) ==
    r.docs = 0 /\ 2 * Cardinality(Loud(H, r.window)) > Cardinality(Preceding(H, r.window))
        => r.status \in Failing

Clocked ==
    /\ clock \in Nat /\ reach \in Nat
    /\ DOMAIN docs = {"closed", "open"} /\ docs.closed \in Nat /\ docs.open \in Nat
    /\ source.success \in Int /\ source.success <= clock
    /\ \A i \in fetched : i.item \in Int /\ i.item <= source.success
    /\ \A t \in feed : t \in Int /\ t <= clock

(* What a row says of the fetches: nobody had what it records as lost, and *)
(* who has it since had it from a feed that holds more than assumed.       *)
GapTrue(r, items) ==
    \A i \in items : Inside(i.item, r.gap) => i.at > r.window /\ i.at - i.item > reach

(* A recorded gap ends where the horizon began by then.                    *)
RowsOK ==
    /\ IsFiniteSet(health)
    /\ \A r \in health :
          /\ r.window \in Int /\ r.docs \in Nat
          /\ r.gap.from \in Int /\ r.gap.until \in Int
          /\ r.gap = NoGap \/ r.gap.until <= clock - reach
          /\ r.status = "ok" => source.success # Never
          /\ GapTrue(r, fetched)
          /\ Told(health, r)

(* One run at a time: the baseline is still the one the table gives.       *)
MonitorOK ==
    /\ DOMAIN monitor = {"pc", "window", "docs", "baseline"}
    /\ \A r \in health : r.window <= clock - 1
    /\ monitor.pc = "assess" =>
          /\ monitor.window \in Int /\ monitor.window <= clock - 1
          /\ monitor.docs \in Nat
          /\ monitor.baseline = Baseline(monitor.window)
          /\ \A r \in health : r.window <= monitor.window

HealthInv == Clocked /\ RowsOK /\ MonitorOK

LEMMA InitHealthInv == HealthInit => HealthInv
<1> SUFFICES ASSUME HealthInit PROVE HealthInv
    OBVIOUS
<1>1. Clocked
    BY SourceHealthAssumption DEF HealthInit, Clocked, Never
<1>2. RowsOK
    BY FS_EmptySet DEF HealthInit, RowsOK, GapTrue
<1>3. MonitorOK
    BY DEF HealthInit, MonitorOK, NoRun
<1> QED
    BY <1>1, <1>2, <1>3 DEF HealthInv

(* The median of rows most of which are loud is loud.                      *)
LEMMA MedianOfLoud ==
    ASSUME NEW seen, IsFiniteSet(seen), \A r \in seen : r.docs \in Nat,
           2 * Cardinality({r \in seen : r.docs >= BaselineMin}) > Cardinality(seen)
    PROVE  Median(seen) \in Nat /\ Median(seen) >= BaselineMin /\ seen # {}
<1> DEFINE atMost(r) == {q \in seen : q.docs <= r.docs}
           loud == {r \in seen : r.docs >= BaselineMin}
           middle == {r \in seen : 2 * Cardinality(atMost(r)) >= Cardinality(seen)}
           least == CHOOSE r \in middle : \A q \in middle : r.docs <= q.docs
<1>1. /\ BaselineMin \in Nat
      /\ \A S : S \subseteq seen => Cardinality(S) \in Nat /\ IsFiniteSet(S)
      /\ Cardinality(seen) \in Nat
    BY SourceHealthAssumption, FS_Subset, FS_CardinalityType
<1>2. seen # {}
    <2> SUFFICES ASSUME seen = {} PROVE FALSE
        OBVIOUS
    <2>1. loud = {} /\ Cardinality({}) = 0
        BY FS_EmptySet
    <2> QED
        BY <2>1
<1>3. middle # {}
    <2> DEFINE counts == {r.docs : r \in seen}
    <2>1. counts # {} /\ counts \subseteq Int
        BY <1>2
    <2>2. IsFiniteSet(counts)
        <3> DEFINE f == [r \in seen |-> r.docs]
        <3>1. f \in Surjection(seen, counts)
            BY DEF Surjection
        <3> HIDE DEF f, counts
        <3> QED
            BY <3>1, FS_Surjection
    <2>3. PICK m \in counts : \A n \in counts : n <= m
        <3> HIDE DEF counts
        <3> QED
            BY <2>1, <2>2, LargestMember
    <2>4. PICK top \in seen : top.docs = m
        OBVIOUS
    <2>5. atMost(top) = seen
        BY <2>3, <2>4
    <2>6. top \in middle
        <3>1. Cardinality(atMost(top)) = Cardinality(seen)
            BY <2>5
        <3>2. \A c \in Nat : 2 * c >= c
            OBVIOUS
        <3> HIDE DEF atMost
        <3>3. 2 * Cardinality(atMost(top)) >= Cardinality(seen)
            BY <1>1, <3>1, <3>2
        <3> QED
            BY <3>3
    <2> QED
        BY <2>6
<1>4. least \in middle /\ \A q \in middle : least.docs <= q.docs
    <2> DEFINE counts == {r.docs : r \in middle}
    <2>1. counts # {} /\ counts \subseteq Nat
        BY <1>3
    <2>2. PICK m \in counts : \A n \in counts : m <= n
        <3> HIDE DEF counts
        <3> QED
            BY <2>1, SmallestMember
    <2>3. \E r \in middle : \A q \in middle : r.docs <= q.docs
        BY <2>2
    <2> HIDE DEF middle
    <2> QED
        BY <2>3
<1> HIDE DEF least
<1>5. least \in seen /\ 2 * Cardinality(atMost(least)) >= Cardinality(seen)
    BY <1>4
<1>6. atMost(least) \cap loud # {}
    <2>1. atMost(least) \subseteq seen /\ loud \subseteq seen
        OBVIOUS
    <2>2. 2 * Cardinality(loud) > Cardinality(seen)
        OBVIOUS
    <2> HIDE DEF atMost, loud
    <2>3. Cardinality(atMost(least)) + Cardinality(loud) > Cardinality(seen)
        BY <1>1, <1>5, <2>1, <2>2
    <2> QED
        BY <2>1, <2>3, FS_MajoritiesIntersect
<1>7. PICK q \in seen : q.docs <= least.docs /\ q.docs >= BaselineMin
    BY <1>6
<1>8. least.docs \in Nat /\ least.docs >= BaselineMin
    BY <1>1, <1>5, <1>7
<1>9. Median(seen) = least.docs
    BY DEF Median, least
<1> QED
    BY <1>2, <1>8, <1>9

(* The steps that leave the table and the run alone.                       *)
LEMMA PollStep ==
    ASSUME HealthInv, HourPasses \/ FeedRotates \/ PollFails \/ PollUnchanged \/ PollOk
    PROVE  HealthInv'
<1> DEFINE new == {[item |-> t, at |-> clock] : t \in feed}
<1>0. Clocked /\ RowsOK /\ MonitorOK
    BY DEF HealthInv
<1>1. UNCHANGED <<reach, health, monitor>>
    BY DEF HourPasses, FeedRotates, PollFails, PollUnchanged, PollOk
<1>2. clock \in Int /\ clock' \in Int /\ clock <= clock' /\ reach \in Nat
    BY <1>0 DEF Clocked, HourPasses, FeedRotates, PollFails, PollUnchanged, PollOk
<1>3. Clocked'
    <2>1. CASE HourPasses
        BY <1>0, <2>1 DEF Clocked, HourPasses
    <2>2. CASE FeedRotates
        BY <1>0, <2>2 DEF Clocked, FeedRotates
    <2>3. CASE PollFails
        BY <1>0, <2>3 DEF Clocked, PollFails
    <2>4. CASE PollUnchanged
        BY <1>0, <2>4 DEF Clocked, PollUnchanged
    <2>5. CASE PollOk
        <3>1. /\ docs' = [docs EXCEPT !.open = @ + 1]
              /\ source'.success = clock /\ fetched' = fetched \cup new
              /\ feed' = {} /\ UNCHANGED <<reach, clock>>
            BY <2>5 DEF PollOk
        <3>2. \A i \in new : i.item \in Int /\ i.item <= clock
            BY <1>0 DEF Clocked
        <3>3. \A i \in fetched : i.item \in Int /\ i.item <= clock
            BY <1>0 DEF Clocked
        <3> HIDE DEF new
        <3> QED
            BY <1>0, <3>1, <3>2, <3>3 DEF Clocked
    <2> QED
        BY <2>1, <2>2, <2>3, <2>4, <2>5
<1>4. source.success # Never => source'.success # Never
    BY <1>0 DEF HourPasses, FeedRotates, PollFails, PollUnchanged, PollOk, Clocked, Never
<1>5. \A i \in fetched' : i \in fetched \/ i \in new
    BY DEF HourPasses, FeedRotates, PollFails, PollUnchanged, PollOk
<1>6. ASSUME NEW r \in health PROVE GapTrue(r, new)
    <2> SUFFICES ASSUME NEW i \in new, Inside(i.item, r.gap)
                 PROVE  i.at > r.window /\ i.at - i.item > reach
        BY DEF GapTrue
    <2>1. i.item \in Int /\ i.at = clock /\ i.item <= clock
        BY <1>0 DEF Clocked
    <2>2. r.window \in Int /\ r.window <= clock - 1
        BY <1>0 DEF RowsOK, MonitorOK
    <2>3. r.gap # NoGap
        BY <2>1 DEF NoGap, Inside
    <2>4. r.gap.until \in Int /\ r.gap.until <= clock - reach
        BY <1>0, <2>3 DEF RowsOK
    <2> HIDE DEF new
    <2> QED
        BY <1>2, <2>1, <2>2, <2>4 DEF Inside
<1> HIDE DEF new
<1>7. RowsOK'
    <2>1. \A r \in health : r.gap = NoGap \/ r.gap.until <= clock' - reach
        BY <1>0, <1>2 DEF RowsOK
    <2>2. \A r \in health : GapTrue(r, fetched)
        BY <1>0 DEF RowsOK
    <2>3. \A r \in health : \A i \in fetched' :
              Inside(i.item, r.gap) => i.at > r.window /\ i.at - i.item > reach
        BY <1>5, <1>6, <2>2 DEF GapTrue
    <2>4. \A r \in health' : GapTrue(r, fetched)'
        BY <1>1, <2>3 DEF GapTrue, Inside
    <2> QED
        BY <1>0, <1>1, <1>4, <2>1, <2>4 DEF RowsOK, Told
<1>8. MonitorOK'
    <2>1. \A n, c, d \in Int : n <= c - 1 /\ c <= d => n <= d - 1
        OBVIOUS
    <2>2. \A r \in health : r.window \in Int /\ r.window <= clock - 1
        BY <1>0 DEF RowsOK, MonitorOK
    <2>4. \A r \in health : r.window <= clock' - 1
        BY <1>2, <2>1, <2>2
    <2>5. monitor.pc = "assess" => monitor.window \in Int /\ monitor.window <= clock' - 1
        BY <1>0, <1>2, <2>1 DEF MonitorOK
    <2>3. Baseline(monitor.window)' = Baseline(monitor.window)
        BY <1>1 DEF Baseline, History
    <2> QED
        BY <1>0, <1>1, <2>2, <2>3, <2>4, <2>5 DEF MonitorOK
<1> QED
    BY <1>3, <1>7, <1>8 DEF HealthInv

LEMMA AssessStep ==
    ASSUME HealthInv, CountDocuments PROVE HealthInv'
<1>0. Clocked /\ RowsOK /\ MonitorOK
    BY DEF HealthInv
<1>1. UNCHANGED <<reach, clock, feed, fetched, lost, docs, source, health>>
    BY DEF CountDocuments
<1>2. monitor' = [pc |-> "assess", window |-> clock - 1, docs |-> docs.closed,
                  baseline |-> Baseline(clock - 1)]
    BY DEF CountDocuments
<1>3. Baseline(clock - 1)' = Baseline(clock - 1)
    BY <1>1 DEF Baseline, History
<1>4. MonitorOK'
    BY <1>0, <1>1, <1>2, <1>3 DEF MonitorOK, Clocked, Baseline, History
<1> QED
    BY <1>0, <1>1, <1>4 DEF HealthInv, Clocked, RowsOK, Told, GapTrue
(* The verdict on a silent window of a source whose baseline is loud.      *)
LEMMA SilentIsFailing ==
    ASSUME monitor.baseline \in Nat, monitor.baseline >= BaselineMin, monitor.docs = 0
    PROVE  Status \in Failing
<1>1. \A m, n \in Nat : m * n >= 0
    OBVIOUS
<1>2. monitor.baseline * DropPercent >= 0
    BY <1>1, SourceHealthAssumption
<1>3. VolumeDropped
    BY <1>2 DEF VolumeDropped, Never
<1> QED
    BY <1>3 DEF Status, Failing

(* What is planned as lost begins where fetching ended and ends where the  *)
(* horizon begins.                                                         *)
LEMMA GapOutOfReach ==
    ASSUME Clocked
    PROVE  /\ Gap.from \in Int /\ Gap.until \in Int
           /\ Gap = NoGap \/ Gap.until <= clock - reach
           /\ \A i \in fetched : ~ Inside(i.item, Gap)
<1>1. clock \in Int /\ reach \in Nat /\ source.success \in Int
      /\ \A i \in fetched : i.item \in Int /\ i.item <= source.success
    BY DEF Clocked
<1>2. CASE Gap = NoGap
    BY <1>1, <1>2 DEF NoGap, Inside
<1>3. CASE Gap # NoGap
    <2>1. Gap = PlannedGap(source.success, clock)
        BY <1>3 DEF Gap
    <2>2. \/ Gap = [from |-> source.success, until |-> clock] /\ clock - reach >= clock
          \/ Gap = [from |-> source.success, until |-> clock - reach]
        BY <1>3, <2>1 DEF PlannedGap
    <2> QED
        BY <1>1, <2>2 DEF Inside
<1> QED
    BY <1>2, <1>3

LEMMA VerdictStep ==
    ASSUME HealthInv, RecordHealth PROVE HealthInv'
<1>0. Clocked /\ RowsOK /\ MonitorOK
    BY DEF HealthInv
<1> DEFINE w == monitor.window
           row == [window |-> w, docs |-> monitor.docs, status |-> Status, gap |-> Gap]
<1>1. /\ health' = {r \in health : r.window # w} \cup {row}
      /\ monitor' = NoRun
      /\ UNCHANGED <<reach, clock, feed, fetched, lost, docs, source>>
      /\ monitor.pc = "assess"
    BY DEF RecordHealth
<1>2. /\ w \in Int /\ w <= clock - 1 /\ monitor.docs \in Nat
      /\ monitor.baseline = Baseline(w)
      /\ \A r \in health : r.window \in Int /\ r.window <= w
      /\ DOMAIN monitor = {"pc", "window", "docs", "baseline"}
    BY <1>0, <1>1 DEF MonitorOK, RowsOK
<1>3. IsFiniteSet(health')
    <2>1. IsFiniteSet({r \in health : r.window # w})
        BY <1>0, FS_Subset DEF RowsOK
    <2> HIDE DEF row
    <2> QED
        BY <1>1, <2>1, FS_AddElement
<1>4. ASSUME NEW v \in Int, v <= w PROVE Preceding(health', v) = Preceding(health, v)
    <2>1. \A q : q.window < v /\ q \in health => q.window # w
        BY <1>2, <1>4
    <2>2. row.window = w
        OBVIOUS
    <2>3. ~ (w < v)
        BY <1>2, <1>4
    <2> HIDE DEF row
    <2>4. \A q : q.window < v => (q \in health' <=> q \in health)
        BY <1>1, <2>1, <2>2, <2>3
    <2> QED
        BY <2>4 DEF Preceding
<1>5. Told(health', row)
    <2> DEFINE P == Preceding(health, w)
    <2>1. Preceding(health', w) = P
        BY <1>2, <1>4
    <2>2. Loud(health', w) = {q \in P : q.docs >= BaselineMin}
        BY <2>1 DEF Loud
    <2>3. IsFiniteSet(P) /\ \A r \in P : r.docs \in Nat
        BY <1>0, FS_Subset DEF RowsOK, Preceding
    <2> SUFFICES ASSUME monitor.docs = 0,
                        2 * Cardinality({q \in P : q.docs >= BaselineMin}) > Cardinality(P)
                 PROVE  Status \in Failing
        BY <2>1, <2>2 DEF Told
    <2>4. History(w) = P
        BY DEF History, Preceding
    <2> HIDE DEF P
    <2>5. Median(P) \in Nat /\ Median(P) >= BaselineMin /\ P # {}
        BY <2>3, MedianOfLoud
    <2>6. monitor.baseline = Median(P)
        BY <1>2, <2>4, <2>5 DEF Baseline
    <2> QED
        BY <2>5, <2>6, SilentIsFailing
<1>6. ASSUME NEW r \in health, r.window # w PROVE Told(health', r)
    <2>1. Preceding(health', r.window) = Preceding(health, r.window)
        BY <1>2, <1>4
    <2> QED
        BY <1>0, <2>1 DEF RowsOK, Told, Loud
<1>7. Status = "ok" => source.success # Never
    BY DEF Status
<1>8. /\ row.window = w /\ row.docs = monitor.docs
      /\ row.status = Status /\ row.gap = Gap
    OBVIOUS
<1> HIDE DEF row
<1>9. RowsOK'
    <2>1. /\ row.window \in Int /\ row.docs \in Nat
          /\ row.gap.from \in Int /\ row.gap.until \in Int
          /\ row.gap = NoGap \/ row.gap.until <= clock - reach
          /\ row.status = "ok" => source.success # Never
          /\ GapTrue(row, fetched)
        BY <1>0, <1>2, <1>7, <1>8, GapOutOfReach DEF GapTrue
    <2>2. \A r \in health' : r = row \/ (r \in health /\ r.window # w)
        BY <1>1
    <2>3. \A r \in health' :
            /\ r.window \in Int /\ r.docs \in Nat
            /\ r.gap.from \in Int /\ r.gap.until \in Int
            /\ r.gap = NoGap \/ r.gap.until <= clock - reach
            /\ r.status = "ok" => source.success # Never
            /\ GapTrue(r, fetched)
            /\ Told(health', r)
        BY <1>0, <1>5, <1>6, <2>1, <2>2 DEF RowsOK
    <2> QED
        BY <1>1, <1>3, <2>3 DEF RowsOK, Told, Loud, Preceding, GapTrue, Inside
<1>10. MonitorOK'
    <2>1. \A r \in health' : r = row \/ r \in health
        BY <1>1
    <2>2. \A r \in health' : r.window \in Int /\ r.window <= w
        BY <1>2, <1>8, <2>1
    <2>3. \A n, m, c \in Int : n <= m /\ m <= c - 1 => n <= c - 1
        OBVIOUS
    <2>4. clock \in Int /\ clock' = clock
        BY <1>0, <1>1 DEF Clocked
    <2> HIDE DEF w
    <2>5. \A r \in health' : r.window <= clock' - 1
        BY <1>2, <2>2, <2>3, <2>4
    <2>6. monitor'.pc = "idle" /\ DOMAIN monitor' = {"pc", "window", "docs", "baseline"}
        BY <1>1 DEF NoRun
    <2> QED
        BY <2>5, <2>6 DEF MonitorOK
<1>11. Clocked'
    BY <1>0, <1>1 DEF Clocked
<1> QED
    BY <1>9, <1>10, <1>11 DEF HealthInv

LEMMA NextHealthInv == HealthInv /\ [HealthNext]_healthVars => HealthInv'
<1> SUFFICES ASSUME HealthInv, [HealthNext]_healthVars PROVE HealthInv'
    OBVIOUS
<1>1. CASE HourPasses \/ FeedRotates \/ PollFails \/ PollUnchanged \/ PollOk
    BY <1>1, PollStep
<1>2. CASE CountDocuments
    BY <1>2, AssessStep
<1>3. CASE RecordHealth
    BY <1>3, VerdictStep
<1>4. CASE MonitorDies
    <2>1. /\ monitor' = NoRun
          /\ UNCHANGED <<reach, clock, feed, fetched, lost, docs, source, health>>
        BY <1>4 DEF MonitorDies
    <2>2. MonitorOK'
        BY <2>1 DEF HealthInv, MonitorOK, NoRun
    <2> QED
        BY <2>1, <2>2 DEF HealthInv, Clocked, RowsOK, Told, Loud, Preceding, GapTrue
<1>5. CASE UNCHANGED healthVars
    BY <1>5 DEF healthVars, HealthInv, Clocked, RowsOK, MonitorOK, Told, Loud, Preceding,
                GapTrue, Baseline, History
<1> QED
    BY <1>1, <1>2, <1>3, <1>4, <1>5 DEF HealthNext

(* The footer is the verdict of a row: of the newest there is.             *)
LEMMA FooterIsOfARow ==
    ASSUME RowsOK, Footer = "ok"
    PROVE  \E r \in health : r.status = "ok"
<1> DEFINE recent == {r \in health : r.window >= clock - FooterHours}
           windows == {r.window : r \in recent}
           latest == CHOOSE r \in recent : \A q \in recent : q.window <= r.window
<1>1. recent # {}
    <2> SUFFICES ASSUME recent = {} PROVE FALSE
        OBVIOUS
    <2>1. Footer = "unmonitored"
        BY DEF Footer
    <2> QED
        BY <2>1
<1>2. IsFiniteSet(recent) /\ \A r \in recent : r.window \in Int
    BY FS_Subset DEF RowsOK
<1>3. windows # {} /\ windows \subseteq Int
    BY <1>1, <1>2
<1>4. IsFiniteSet(windows)
    <2> DEFINE f == [r \in recent |-> r.window]
    <2>1. f \in Surjection(recent, windows)
        BY DEF Surjection
    <2> HIDE DEF f, windows, recent
    <2> QED
        BY <1>2, <2>1, FS_Surjection
<1>5. PICK m \in windows : \A n \in windows : n <= m
    <2> HIDE DEF windows
    <2> QED
        BY <1>3, <1>4, LargestMember
<1>6. \E r \in recent : \A q \in recent : q.window <= r.window
    BY <1>5
<1>7. latest \in recent
    <2> HIDE DEF recent
    <2> QED
        BY <1>6
<1>8. Footer = latest.status
    BY <1>1 DEF Footer
<1> QED
    BY <1>7, <1>8

LEMMA HealthInvTrue == HealthInv => HealthTrue
<1> SUFFICES ASSUME HealthInv PROVE HealthTrue
    OBVIOUS
<1>1. RowsOK
    BY DEF HealthInv
<1>2. Footer = "ok" => source.success # Never
    BY <1>1, FooterIsOfARow DEF RowsOK
<1>3. \A r \in health : Told(health, r)
    BY <1>1 DEF RowsOK
<1>4. \A r \in health : GapTrue(r, fetched)
    BY <1>1 DEF RowsOK
<1> QED
    BY <1>2, <1>3, <1>4 DEF HealthTrue, Told, Loud, Preceding, GapTrue

(* HealthTrue, for every horizon, SLA and window of the baseline, and      *)
(* whatever the feed holds: no verdict records as lost what was fetched,   *)
(* none lets a silent window pass, and no footer is "ok" unpolled.         *)
THEOREM HealthIsTrue == HealthSpec => []HealthTrue
    BY InitHealthInv, NextHealthInv, HealthInvTrue, PTL DEF HealthSpec

HealthRest ==
    /\ HealthTypeOK
    /\ monitor.pc = "assess" =>
          monitor.window \in 0..MaxHour /\ monitor.docs \in 0..MaxPolls

LEMMA InitHealthRest == HealthInit => HealthRest
    BY SourceHealthAssumption DEF HealthInit, HealthRest, HealthTypeOK, NoRun, Never

LEMMA GapTyped ==
    ASSUME HealthTypeOK PROVE Gap \in [from : 0..MaxHour, until : 0..MaxHour]
<1>1. /\ clock \in 1..MaxHour /\ reach \in Nat /\ MaxHour \in Nat
      /\ source.success = -1 \/ source.success \in 1..MaxHour
    BY SourceHealthAssumption DEF HealthTypeOK, Never
<1>2. NoGap \in [from : 0..MaxHour, until : 0..MaxHour]
    BY <1>1 DEF NoGap
<1>3. CASE Stale
    <2> DEFINE start == source.success
               floor == clock - reach
    <2>1. start \in 1..MaxHour
        BY <1>1, <1>3 DEF Stale, Never
    <2>2. CASE clock <= start \/ floor <= start
        <3>1. start < clock /\ floor <= start /\ ~(floor >= clock)
            BY <1>1, <1>3, <2>1, <2>2, SourceHealthAssumption DEF Stale
        <3>2. Gap = NoGap
            BY <1>3, <3>1 DEF Gap, PlannedGap
        <3> QED
            BY <1>2, <3>2
    <2>3. CASE ~(clock <= start \/ floor <= start) /\ floor >= clock
        <3>1. Gap = [from |-> start, until |-> clock]
            BY <1>3, <2>3 DEF Gap, PlannedGap
        <3> QED
            BY <1>1, <2>1, <3>1
    <2>4. CASE ~(clock <= start \/ floor <= start) /\ ~(floor >= clock)
        <3>1. Gap = [from |-> start, until |-> floor]
            BY <1>3, <2>4 DEF Gap, PlannedGap
        <3>2. floor \in 0..MaxHour
            BY <1>1, <2>1, <2>4
        <3> QED
            BY <1>1, <2>1, <3>1, <3>2
    <2> QED
        BY <2>2, <2>3, <2>4
<1>4. CASE ~Stale
    BY <1>2, <1>4 DEF Gap
<1> QED
    BY <1>3, <1>4

LEMMA NextHealthRest ==
    HealthInv /\ HealthRest /\ [HealthNext]_healthVars => HealthRest'
<1> SUFFICES ASSUME HealthInv, HealthRest, [HealthNext]_healthVars PROVE HealthRest'
    OBVIOUS
<1>0. /\ HealthTypeOK
      /\ monitor.pc = "assess" =>
            monitor.window \in 0..MaxHour /\ monitor.docs \in 0..MaxPolls
      /\ DOMAIN monitor = {"pc", "window", "docs", "baseline"}
      /\ MaxHour \in Nat /\ MaxPolls \in Nat
    BY SourceHealthAssumption DEF HealthRest, HealthInv, MonitorOK
<1>1. CASE HourPasses
    BY <1>0, <1>1 DEF HourPasses, HealthRest, HealthTypeOK
<1>2. CASE FeedRotates
    BY <1>0, <1>2 DEF FeedRotates, HealthRest, HealthTypeOK
<1>3. CASE PollFails
    BY <1>0, <1>3 DEF PollFails, HealthRest, HealthTypeOK
<1>4. CASE PollUnchanged
    BY <1>0, <1>4 DEF PollUnchanged, HealthRest, HealthTypeOK
<1>5. CASE PollOk
    BY <1>0, <1>5 DEF PollOk, HealthRest, HealthTypeOK
<1>6. CASE CountDocuments
    <2>1. /\ monitor'.pc = "assess" /\ monitor'.window = clock - 1
          /\ monitor'.docs = docs.closed
          /\ UNCHANGED <<reach, clock, feed, fetched, lost, docs, source, health>>
        BY <1>6 DEF CountDocuments
    <2> QED
        BY <1>0, <2>1 DEF HealthRest, HealthTypeOK
<1>7. CASE RecordHealth
    <2>1. /\ monitor.pc = "assess" /\ monitor'.pc = "idle"
          /\ health' \subseteq health \cup
                 {[window |-> monitor.window, docs |-> monitor.docs,
                   status |-> Status, gap |-> Gap]}
          /\ UNCHANGED <<reach, clock, feed, fetched, lost, docs, source>>
        BY <1>0, <1>7 DEF RecordHealth, NoRun
    <2>2. Status \in Failing \cup {"ok"}
        BY DEF Status, Failing
    <2>3. [window |-> monitor.window, docs |-> monitor.docs, status |-> Status, gap |-> Gap]
              \in [window : 0..MaxHour, docs : 0..MaxPolls, status : Failing \cup {"ok"},
                   gap : [from : 0..MaxHour, until : 0..MaxHour]]
        BY <1>0, <2>1, <2>2, GapTyped
    <2> QED
        BY <1>0, <2>1, <2>3 DEF HealthRest, HealthTypeOK
<1>8. CASE MonitorDies
    BY <1>0, <1>8 DEF MonitorDies, NoRun, HealthRest, HealthTypeOK
<1>9. CASE UNCHANGED healthVars
    BY <1>0, <1>9 DEF healthVars, HealthRest, HealthTypeOK
<1> QED
    BY <1>1, <1>2, <1>3, <1>4, <1>5, <1>6, <1>7, <1>8, <1>9 DEF HealthNext

(* The types of a source, its monitor and the gap a recovery plans.         *)
THEOREM HealthTypeCorrect == HealthSpec => []HealthTypeOK
<1>1. HealthInv /\ HealthRest /\ [HealthNext]_healthVars => HealthInv' /\ HealthRest'
    BY NextHealthInv, NextHealthRest
<1>2. HealthInv /\ HealthRest => HealthTypeOK
    BY DEF HealthRest
<1> QED
    BY <1>1, <1>2, InitHealthInv, InitHealthRest, PTL DEF HealthSpec

-----------------------------------------------------------------------------
(* SilverArticles.                                                         *)

(* A finite set has more than one member iff it has two.                   *)
LEMMA MoreThanOne ==
    ASSUME NEW S, IsFiniteSet(S)
    PROVE  Cardinality(S) > 1 <=> \E x, y \in S : x # y
<1>1. Cardinality(S) \in Nat
    BY FS_CardinalityType
<1>2. Cardinality(S) = 0 <=> S = {}
    BY FS_EmptySet
<1>3. Cardinality(S) = 1 <=> \E x : S = {x}
    BY FS_Singleton
<1>4. (\E x, y \in S : x # y) <=> ~ (S = {} \/ \E x : S = {x})
    OBVIOUS
<1> QED
    BY <1>1, <1>2, <1>3, <1>4

(* The rows of S are of different articles.                                *)
Single(S) == \A r, q \in S : r.article = q.article => r = q

(* As many rows as articles: no two rows of one.                           *)
LEMMA OneOfEachSingle ==
    ASSUME NEW whole, IsFiniteSet(whole), NEW S \in OneOfEach(whole)
    PROVE  S \subseteq whole /\ Ids(S) = Ids(whole) /\ Single(S)
<1>1. S \subseteq whole /\ Ids(S) = Ids(whole) /\ Cardinality(S) = Cardinality(Ids(S))
    BY DEF OneOfEach
<1>2. IsFiniteSet(S)
    BY <1>1, FS_Subset
<1> DEFINE f == [r \in S |-> r.article]
<1>3. f \in Surjection(S, Ids(S))
    BY DEF Surjection, Ids
<1>4. f \in Injection(S, Ids(S))
    BY <1>1, <1>2, <1>3, FS_Surjection
<1> QED
    BY <1>1, <1>4 DEF Injection, IsInjective, Single

Repaired(S) == {r.day : r \in S}

(* What a writer is about to add.                                          *)
WriterOK ==
    \A w \in Writers : writer[w].pc = "commit" =>
        /\ IsFiniteSet(writer[w].rows) /\ Single(writer[w].rows)
        /\ \A r \in writer[w].rows : r.day \in Nat
        /\ Ids(writer[w].rows) \cap Ids(writer[w].snapshot) = {}

(* What a repair that has read relies on: its rows are still there; the    *)
(* rows of an article that is there twice are of a day it replaces or has  *)
(* found nothing to keep in; and of the days it replaces it has every      *)
(* article that was there when it read.                                    *)
RepairOK ==
    repair.pc = "write" =>
        /\ Single(repair.keep) /\ repair.keep \subseteq articles
        /\ \A r \in articles : r.article \in Duplicated =>
              r.day \in repair.emptied \cup Repaired(repair.keep)
        /\ \A r \in articles : r.day \in Repaired(repair.keep) =>
              r.article \in Ids(repair.keep) \cup between

SilverInv ==
    /\ IsFiniteSet(articles) /\ \A r \in articles : r.day \in Nat
    /\ writer = [w \in Writers |-> writer[w]]
    /\ DOMAIN repair = {"pc", "keep", "emptied"}
    /\ WriterOK /\ RepairOK /\ ArticlesKept

(* An article is duplicated if there are two rows of it.                   *)
LEMMA TwoRows ==
    ASSUME NEW T, IsFiniteSet(T)
    PROVE  \A a : (a \in Ids(T) /\ Cardinality({r \in T : r.article = a}) > 1) <=>
              \E r, q \in T : r # q /\ r.article = a /\ q.article = a
<1> SUFFICES ASSUME NEW a
             PROVE  (a \in Ids(T) /\ Cardinality({r \in T : r.article = a}) > 1) <=>
                       \E r, q \in T : r # q /\ r.article = a /\ q.article = a
    OBVIOUS
<1> DEFINE S == {r \in T : r.article = a}
<1>1. IsFiniteSet(S)
    BY FS_Subset
<1>2. Cardinality(S) > 1 <=> \E x, y \in S : x # y
    BY <1>1, MoreThanOne
<1>3. (\E x, y \in S : x # y) => a \in Ids(T)
    BY DEF Ids
<1> QED
    BY <1>2, <1>3

(* The table holds what some load before left.                             *)
LEMMA InitSilverInv == SilverInit => SilverInv
<1> SUFFICES ASSUME SilverInit PROVE SilverInv
    OBVIOUS
<1>1. IsFiniteSet(articles) /\ \A r \in articles : r.day \in Nat
    BY SilverAssumption DEF SilverInit
<1> QED
    BY <1>1 DEF SilverInit, SilverInv, WriterOK, RepairOK, ArticlesKept

LEMMA NextSilverInv == SilverInv /\ [SilverNext]_silverVars => SilverInv'
<1> SUFFICES ASSUME SilverInv, [SilverNext]_silverVars PROVE SilverInv'
    OBVIOUS
<1>1. IsFiniteSet(articles) /\ WriterOK /\ RepairOK /\ ArticlesKept
      /\ writer = [w \in Writers |-> writer[w]]
      /\ DOMAIN repair = {"pc", "keep", "emptied"} /\ \A r \in articles : r.day \in Nat
    BY DEF SilverInv
<1>0. \A a : a \in Duplicated <=>
          \E r, q \in articles : r # q /\ r.article = a /\ q.article = a
    BY <1>1, TwoRows DEF Duplicated
<1>2. ASSUME NEW w \in Writers, BeginMerge(w) PROVE SilverInv'
    <2>1. PICK read \in SUBSET Documents : \E batch \in OneOfEach(read) :
                 writer' = [writer EXCEPT ![w] =
                    [pc |-> "commit", snapshot |-> articles,
                     rows |-> {Row(d, w) : d \in {e \in batch :
                                        e.article \notin Ids(articles)}}]]
        BY <1>2 DEF BeginMerge
    <2>2. PICK batch \in OneOfEach(read) :
                 writer' = [writer EXCEPT ![w] =
                    [pc |-> "commit", snapshot |-> articles,
                     rows |-> {Row(d, w) : d \in {e \in batch :
                                        e.article \notin Ids(articles)}}]]
        BY <2>1
    <2>3. UNCHANGED <<doubled, articles, repair, kept, between>>
        BY <1>2 DEF BeginMerge
    <2> DEFINE S == {e \in batch : e.article \notin Ids(articles)}
               whole == {Row(d, w) : d \in S}
    <2>4. batch \subseteq Documents /\ Single(batch)
        BY <2>1, SilverAssumption, FS_Subset, OneOfEachSingle
    <2>5. IsFiniteSet(S)
        BY <2>4, SilverAssumption, FS_Subset
    <2>6. IsFiniteSet(whole)
        <3> DEFINE f == [d \in S |-> Row(d, w)]
        <3>1. f \in Surjection(S, whole)
            BY DEF Surjection
        <3> HIDE DEF f, S, whole
        <3> QED
            BY <2>5, <3>1, FS_Surjection
    <2>7. /\ Single(whole) /\ \A r \in whole : r.day \in Nat
          /\ Ids(whole) \cap Ids(articles) = {}
        BY <2>4, SilverAssumption DEF Row, Single, Ids
    <2> HIDE DEF whole
    <2>8. WriterOK'
        <3>1. writer' = [u \in Writers |-> IF u = w THEN [pc |-> "commit", snapshot |-> articles, rows |-> whole] ELSE writer[u]]
            BY <1>1, <2>2 DEF whole
        <3> QED
            BY <1>1, <2>6, <2>7, <3>1 DEF WriterOK
    <2>9. writer' = [u \in Writers |-> writer'[u]]
        BY <1>1, <2>2
    <2> QED
        BY <1>1, <2>3, <2>8, <2>9 DEF SilverInv, RepairOK, ArticlesKept, Duplicated
<1>3. ASSUME NEW w \in Writers, MergeCommits(w) PROVE SilverInv'
    <2> DEFINE whole == writer[w].rows
    <2>1. /\ articles' = articles \cup whole
          /\ kept' = kept \cup Ids(whole)
          /\ between' = IF repair.pc = "write" THEN between \cup Ids(whole) ELSE between
          /\ UNCHANGED <<doubled, repair>>
          /\ writer' = [writer EXCEPT ![w].pc = "idle"]
          /\ articles = writer[w].snapshot /\ writer[w].pc = "commit"
        BY <1>3 DEF MergeCommits
    <2>2. /\ IsFiniteSet(whole) /\ Single(whole) /\ \A r \in whole : r.day \in Nat
          /\ Ids(whole) \cap Ids(articles) = {}
        BY <1>1, <2>1 DEF WriterOK
    <2> HIDE DEF whole
    <2>3. IsFiniteSet(articles') /\ \A r \in articles' : r.day \in Nat
        BY <1>1, <2>1, <2>2, FS_Union
    <2>4. Duplicated' = Duplicated
        <3>1. \A a : a \in Duplicated' <=>
              \E r, q \in articles' : r # q /\ r.article = a /\ q.article = a
            BY <2>3, TwoRows DEF Duplicated
        <3>2. \A r, q \in articles' : r # q /\ r.article = q.article => r \in articles /\ q \in articles
            BY <2>1, <2>2 DEF Single, Ids
        <3>3. \A a : a \in Duplicated' <=> a \in Duplicated
            BY <1>1, <2>1, <3>1, <3>2, <1>0
        <3> QED
            BY <3>3
    <2>5. WriterOK'
        BY <1>1, <2>1 DEF WriterOK
    <2>6. RepairOK'
        <3> SUFFICES ASSUME repair.pc = "write" PROVE RepairOK'
            BY <2>1 DEF RepairOK
        <3>1. \A r \in whole : r.article \notin Duplicated /\ r.article \in between'
            BY <2>1, <2>2 DEF Duplicated, Ids
        <3> QED
            BY <1>1, <2>1, <2>4, <3>1 DEF RepairOK
    <2>7. ArticlesKept'
        BY <1>1, <2>1, <2>4 DEF ArticlesKept, Ids
    <2>8. writer' = [u \in Writers |-> writer'[u]]
        BY <1>1, <2>1
    <2> QED
        BY <1>1, <2>1, <2>3, <2>5, <2>6, <2>7, <2>8 DEF SilverInv
<1>4. ASSUME NEW w \in Writers, MergeFails(w) PROVE SilverInv'
    <2>1. /\ writer' = [writer EXCEPT ![w].pc = "idle"]
          /\ UNCHANGED <<doubled, articles, repair, kept, between>>
        BY <1>4 DEF MergeFails
    <2>2. WriterOK' /\ writer' = [u \in Writers |-> writer'[u]]
        BY <1>1, <2>1 DEF WriterOK
    <2> QED
        BY <1>1, <2>1, <2>2 DEF SilverInv, RepairOK, ArticlesKept, Duplicated
<1>5. CASE BeginRepair
    <2>1. PICK S \in Survivors :
             repair' = [pc |-> "write", keep |-> S,
                        emptied |-> {r.day : r \in InRange} \ {r.day : r \in S}]
        BY <1>5 DEF BeginRepair
    <2>2. UNCHANGED <<doubled, articles, writer, kept, between>>
        BY <1>5 DEF BeginRepair
    <2>3. InRange \subseteq articles /\ S \in OneOfEach(InRange)
        BY <2>1 DEF InRange, Survivors
    <2>4. S \subseteq InRange /\ Ids(S) = Ids(InRange) /\ Single(S)
        BY <1>1, <2>3, FS_Subset, OneOfEachSingle
    <2>5. \A r \in articles : r.article \in Duplicated => r \in InRange
        BY <1>1 DEF InRange
    <2>6. \A r \in articles, q \in InRange : r.day = q.day => r \in InRange
        BY DEF InRange
    <2>7. RepairOK'
        <3>1. /\ repair'.keep = S /\ articles' = articles /\ Duplicated' = Duplicated
              /\ repair'.emptied \cup Repaired(S) = {r.day : r \in InRange} \cup Repaired(S)
            BY <2>1, <2>2 DEF Repaired, Duplicated
        <3>2. \A r \in articles : r.article \in Duplicated =>
                 r.day \in repair'.emptied \cup Repaired(S)
            BY <2>5, <3>1
        <3>3. \A r \in articles : r.day \in Repaired(S) => r.article \in Ids(S)
            BY <2>4, <2>6 DEF Repaired, Ids
        <3> QED
            BY <2>3, <2>4, <3>1, <3>2, <3>3 DEF RepairOK
    <2>8. repair'.pc = "write" /\ DOMAIN repair' = {"pc", "keep", "emptied"}
        BY <2>1
    <2> QED
        BY <1>1, <2>2, <2>7, <2>8 DEF SilverInv, WriterOK, ArticlesKept, Duplicated
<1>6. CASE OverwriteDays
    <2> DEFINE keep == repair.keep
    <2>1. /\ repair.pc = "write" /\ repair' = [repair EXCEPT !.pc = "done"]
          /\ articles' = {r \in articles : \A q \in keep : q.day # r.day} \cup keep
          /\ UNCHANGED <<doubled, writer, kept, between>>
        BY <1>6 DEF OverwriteDays
    <2>2. articles' \subseteq articles
        BY <1>1, <2>1 DEF RepairOK
    <2>3. IsFiniteSet(articles') /\ \A r \in articles' : r.day \in Nat
        BY <1>1, <2>2, FS_Subset
    <2>4. \A a : a \in Duplicated' <=>
              \E r, q \in articles' : r # q /\ r.article = a /\ q.article = a
        BY <2>3, TwoRows DEF Duplicated
    <2>5. Duplicated' \subseteq Duplicated
        BY <1>0, <2>2, <2>4
    <2>6. ASSUME NEW a \in Duplicated'
          PROVE  \E r \in articles' : r.article = a /\ r.day \in repair'.emptied
        <3>1. PICK r, q \in articles' : r # q /\ r.article = a /\ q.article = a
            BY <2>4, <2>6
        <3>2. r \notin keep \/ q \notin keep
            BY <1>1, <2>1, <3>1 DEF RepairOK, Single
        <3>3. \A p \in articles' : p \notin keep => p \in articles /\ p.day \notin Repaired(keep)
            BY <2>1 DEF Repaired
        <3>4. \A p \in articles : p.article = a => p.day \in repair.emptied \cup Repaired(keep)
            BY <1>1, <2>1, <2>5, <2>6 DEF RepairOK
        <3>5. repair'.emptied = repair.emptied
            BY <1>1, <2>1
        <3> QED
            BY <3>1, <3>2, <3>3, <3>4, <3>5
    <2>7. kept \subseteq Ids(articles') \cup between
        <3> SUFFICES ASSUME NEW a \in kept, a \notin between PROVE a \in Ids(articles')
            OBVIOUS
        <3>1. PICK r \in articles : r.article = a
            BY <1>1 DEF ArticlesKept, Ids
        <3>2. CASE r.day \in Repaired(keep)
            BY <1>1, <2>1, <3>1, <3>2 DEF RepairOK, Ids
        <3>3. CASE r.day \notin Repaired(keep)
            BY <2>1, <3>1, <3>3 DEF Repaired, Ids
        <3> QED
            BY <3>2, <3>3
    <2>8. ArticlesKept'
        BY <1>1, <2>1, <2>5, <2>6, <2>7 DEF ArticlesKept
    <2>9. repair'.pc = "done" /\ DOMAIN repair' = {"pc", "keep", "emptied"}
        BY <1>1, <2>1
    <2> QED
        BY <1>1, <2>1, <2>3, <2>8, <2>9 DEF SilverInv, WriterOK, RepairOK
<1>7. CASE RepairDies
    <2>1. /\ repair'.pc = "none" /\ DOMAIN repair' = {"pc", "keep", "emptied"}
          /\ UNCHANGED <<doubled, articles, writer, kept, between>>
        BY <1>1, <1>7 DEF RepairDies
    <2> QED
        BY <1>1, <2>1 DEF SilverInv, WriterOK, RepairOK, ArticlesKept, Duplicated
<1>8. CASE UNCHANGED silverVars
    BY <1>1, <1>8 DEF silverVars, SilverInv, WriterOK, RepairOK, ArticlesKept, Duplicated
<1> QED
    BY <1>2, <1>3, <1>4, <1>5, <1>6, <1>7, <1>8 DEF SilverNext

(* No article is lost or doubled by merges beside each other and a repair,  *)
(* but where the repair read before a merge.                                *)
THEOREM SilverArticlesKept == SilverSpec => []ArticlesKept
<1>1. SilverInv => ArticlesKept
    BY DEF SilverInv
<1> QED
    BY <1>1, InitSilverInv, NextSilverInv, PTL DEF SilverSpec

SilverRest ==
    /\ SilverTypeOK
    /\ \A w \in Writers : /\ DOMAIN writer[w] = {"pc", "snapshot", "rows"}
                          /\ Ids(writer[w].rows) \subseteq Ids(Documents)

LEMMA InitSilverRest == SilverInit => SilverRest
    BY SilverAssumption, SMTT(30) DEF SilverInit, SilverRest, SilverTypeOK, Ids

LEMMA NextSilverRest == SilverInv /\ SilverRest /\ [SilverNext]_silverVars => SilverRest'
<1> SUFFICES ASSUME SilverInv, SilverRest, [SilverNext]_silverVars PROVE SilverRest'
    OBVIOUS
<1>0. /\ SilverRest /\ SilverTypeOK /\ writer = [w \in Writers |-> writer[w]]
      /\ DOMAIN repair = {"pc", "keep", "emptied"} /\ RepairOK
      /\ \A w \in Writers : /\ DOMAIN writer[w] = {"pc", "snapshot", "rows"}
                            /\ Ids(writer[w].rows) \subseteq Ids(Documents)
    BY DEF SilverInv, SilverRest
<1>1. ASSUME NEW w \in Writers, BeginMerge(w) PROVE SilverRest'
    <2>1. PICK since, until \in {d.fetched : d \in Documents} :
             \E batch \in OneOfEach({d \in Documents : since <= d.fetched /\ d.fetched <= until}) :
                 writer' = [writer EXCEPT ![w] =
                    [pc |-> "commit", snapshot |-> articles,
                     rows |-> {Row(d, w) : d \in {e \in batch : e.article \notin Ids(articles)}}]]
        BY <1>1 DEF BeginMerge
    <2>2. PICK batch \in OneOfEach({d \in Documents : since <= d.fetched /\ d.fetched <= until}) :
                 writer' = [writer EXCEPT ![w] =
                    [pc |-> "commit", snapshot |-> articles,
                     rows |-> {Row(d, w) : d \in {e \in batch : e.article \notin Ids(articles)}}]]
        BY <2>1
    <2>3. batch \subseteq Documents
        BY DEF OneOfEach
    <2> DEFINE new == {Row(d, w) : d \in {e \in batch : e.article \notin Ids(articles)}}
    <2>4. Ids(new) \subseteq Ids(Documents)
        BY <2>3 DEF Ids, Row
    <2>5. writer' = [writer EXCEPT ![w] = [pc |-> "commit", snapshot |-> articles, rows |-> new]]
        BY <2>2
    <2> HIDE DEF new
    <2>6. \A u \in Writers : /\ writer'[u].pc \in {"idle", "commit"}
                             /\ DOMAIN writer'[u] = {"pc", "snapshot", "rows"}
                             /\ Ids(writer'[u].rows) \subseteq Ids(Documents)
        BY <1>0, <2>4, <2>5 DEF SilverTypeOK
    <2>7. UNCHANGED <<articles, repair, kept, between>>
        BY <1>1 DEF BeginMerge
    <2> QED
        BY <1>0, <2>6, <2>7 DEF SilverRest, SilverTypeOK, Ids
<1>2. ASSUME NEW w \in Writers, MergeCommits(w) \/ MergeFails(w) PROVE SilverRest'
    <2>1. \A u \in Writers : /\ writer'[u].pc \in {"idle", "commit"}
                             /\ DOMAIN writer'[u] = {"pc", "snapshot", "rows"}
                             /\ writer'[u].rows = writer[u].rows
        BY <1>0, <1>2 DEF MergeCommits, MergeFails, SilverTypeOK
    <2>2. \A u \in Writers : Ids(writer'[u].rows) \subseteq Ids(Documents)
        BY <1>0, <2>1
    <2>3. CASE MergeCommits(w)
        <3>1. /\ articles' = articles \cup writer[w].rows
              /\ kept' = kept \cup Ids(writer[w].rows)
              /\ between' \in {between, between \cup Ids(writer[w].rows)}
              /\ repair' = repair
            BY <2>3 DEF MergeCommits
        <3>2. Ids(articles') \subseteq Ids(articles) \cup Ids(writer[w].rows)
            BY <3>1 DEF Ids
        <3> QED
            BY <1>0, <2>1, <2>2, <3>1, <3>2 DEF SilverRest, SilverTypeOK
    <2>4. CASE MergeFails(w)
        BY <1>0, <2>1, <2>2, <2>4 DEF MergeFails, SilverRest, SilverTypeOK, Ids
    <2> QED
        BY <1>2, <2>3, <2>4
<1>3. CASE BeginRepair \/ RepairDies
    <2>1. repair'.pc \in {"none", "write", "done"}
          /\ UNCHANGED <<articles, writer, kept, between>>
        BY <1>0, <1>3 DEF BeginRepair, RepairDies
    <2> QED
        BY <1>0, <2>1 DEF SilverRest, SilverTypeOK, Ids
<1>4. CASE OverwriteDays
    <2>1. /\ articles' \subseteq articles \cup repair.keep /\ repair'.pc = "done"
          /\ UNCHANGED <<writer, kept, between>>
        BY <1>0, <1>4 DEF OverwriteDays
    <2>2. articles' \subseteq articles
        BY <1>0, <1>4, <2>1 DEF OverwriteDays, RepairOK
    <2> QED
        BY <1>0, <2>1, <2>2 DEF SilverRest, SilverTypeOK, Ids
<1>5. CASE UNCHANGED silverVars
    BY <1>0, <1>5 DEF silverVars, SilverRest, SilverTypeOK, Ids
<1> QED
    BY <1>1, <1>2, <1>3, <1>4, <1>5 DEF SilverNext

(* The types of the article table, its writers and its repair.              *)
THEOREM SilverTypeCorrect == SilverSpec => []SilverTypeOK
<1>1. SilverInv /\ SilverRest /\ [SilverNext]_silverVars => SilverInv' /\ SilverRest'
    BY NextSilverInv, NextSilverRest
<1>2. SilverInv /\ SilverRest => SilverTypeOK
    BY DEF SilverRest
<1> QED
    BY <1>1, <1>2, InitSilverInv, InitSilverRest, PTL DEF SilverSpec

-----------------------------------------------------------------------------
(* Sweep.                                                                  *)

CommitRecord == [table : Range(Swept), at : Nat, files : Int]

(* The files of table t after the commits l.                               *)
Places(l, t) == {i \in DOMAIN l : l[i].table = t}
FilesOf(l, t) == l[Max(Places(l, t))].files

(* A commit counts its own table's files and leaves every other count.     *)
LEMMA CountAfter ==
    ASSUME NEW l \in Seq(CommitRecord), NEW c \in CommitRecord
    PROVE  /\ FilesOf(Append(l, c), c.table) = c.files
           /\ \A t : Places(l, t) # {} =>
                 /\ FilesOf(l, t) \in Int
                 /\ Places(Append(l, c), t) # {}
                 /\ t # c.table => FilesOf(Append(l, c), t) = FilesOf(l, t)
<1> DEFINE m == Append(l, c)
           n == Len(l) + 1
<1>1. /\ m \in Seq(CommitRecord) /\ Len(l) \in Nat
      /\ DOMAIN l = 1..Len(l) /\ DOMAIN m = 1..n /\ m[n] = c
      /\ \A i \in 1..Len(l) : m[i] = l[i]
    OBVIOUS
<1> HIDE DEF m
<1>2. FilesOf(m, c.table) = c.files
    <2>1. n \in Places(m, c.table) /\ Places(m, c.table) \subseteq Int
          /\ \A i \in Places(m, c.table) : i <= n
        BY <1>1 DEF Places
    <2>2. Max(Places(m, c.table)) = n
        BY <2>1, MaxOfMember
    <2> QED
        BY <1>1, <2>2 DEF FilesOf
<1>3. ASSUME NEW t, Places(l, t) # {}
      PROVE  /\ FilesOf(l, t) \in Int
             /\ Places(m, t) # {}
             /\ t # c.table => FilesOf(m, t) = FilesOf(l, t)
    <2>0. DOMAIN l = 1..Len(l) /\ Len(l) \in Int
        BY <1>1
    <2>9. Places(l, t) \subseteq 1..Len(l)
        BY <2>0 DEF Places
    <2>1. Places(l, t) \subseteq 1..Len(l) /\ IsFiniteSet(1..Len(l))
        BY <2>0, <2>9, FS_Interval
    <2>2. Max(Places(l, t)) \in Places(l, t)
        BY <1>3, <2>1, FS_Subset, MaxMember
    <2>3. Max(Places(l, t)) \in 1..Len(l)
        BY <2>1, <2>2
    <2>4. FilesOf(l, t) \in Int
        <3>1. l[Max(Places(l, t))] \in CommitRecord
            BY <1>1, <2>3
        <3> QED
            BY <3>1 DEF FilesOf, CommitRecord
    <2>5. Places(l, t) \subseteq Places(m, t)
        BY <1>1 DEF Places
    <2>6. t # c.table => Places(m, t) = Places(l, t)
        BY <1>1 DEF Places
    <2> QED
        BY <1>1, <1>3, <2>3, <2>4, <2>5, <2>6 DEF FilesOf
<1> QED
    BY <1>2, <1>3 DEF m

(* The count of a table there is.                                          *)
LEMMA FilesInt ==
    ASSUME NEW l \in Seq(CommitRecord), NEW t, Places(l, t) # {}
    PROVE  /\ FilesOf(l, t) \in Int
           /\ Max(Places(l, t)) \in Places(l, t)
           /\ \A i \in Places(l, t) : i <= Max(Places(l, t))
<1>1. Len(l) \in Nat /\ DOMAIN l = 1..Len(l)
    OBVIOUS
<1>2. Places(l, t) \subseteq 1..Len(l) /\ IsFiniteSet(1..Len(l))
    <2>1. Places(l, t) \subseteq 1..Len(l)
        BY <1>1 DEF Places
    <2> QED
        BY <1>1, <2>1, FS_Interval
<1>3. /\ Max(Places(l, t)) \in Places(l, t)
      /\ \A i \in Places(l, t) : i <= Max(Places(l, t))
    BY <1>2, FS_Subset, MaxMember
<1>4. l[Max(Places(l, t))] \in CommitRecord
    BY <1>1, <1>2, <1>3
<1> QED
    BY <1>3, <1>4 DEF FilesOf, CommitRecord

(* FileCount and Present say that of the log.                              *)
LEMMA CountIs == \A t : FileCount(t) = FilesOf(log, t) /\ (Present(t) <=> Places(log, t) # {})
    BY DEF FileCount, FilesOf, Present, CommitsOf, Places

-----------------------------------------------------------------------------

AtTable == {"rewrite", "expire", "orphans", "recount"}

LogOK ==
    /\ night \in Nat
    /\ log \in Seq(CommitRecord)
    /\ \A i \in DOMAIN log :
          log[i].at <= night /\ (log[i].at >= night - Retention => i \in snapshots)

LEMMA LogFields ==
    ASSUME LogOK
    PROVE  \A i \in DOMAIN log : log[i].at \in Nat /\ log[i].table \in Range(Swept)
<1>1. \A i \in DOMAIN log : log[i] \in CommitRecord
    BY DEF LogOK
<1> QED
    BY <1>1 DEF CommitRecord

(* The record of an attempt and of a row, with the operations still to come*)
SweepShape ==
    /\ DOMAIN sweep = {"pc", "try", "left", "hidden", "row", "rows"}
    /\ DOMAIN sweep.row = {"table", "before", "after", "rewritten", "added",
                           "error", "failed", "disturbed"}
    /\ sweep.try \in Nat
    /\ \A k \in sweep.left : k \in DOMAIN Swept /\ Places(log, Swept[k]) # {}
    /\ sweep.pc \in AtTable \cup {"count"} => sweep.left # {}
    /\ sweep.pc = "record" => sweep.left = {}

RowTrue(r) ==
    /\ r.error = r.failed
    /\ ~ r.error /\ ~ r.disturbed => r.before - r.after = r.rewritten - r.added

(* What the row of the table under way says so far.                        *)
RowSoFar ==
    sweep.pc \in AtTable =>
        /\ sweep.row.table = Tended
        /\ sweep.row.error = sweep.row.failed
        /\ {sweep.row.error, sweep.row.disturbed} \subseteq BOOLEAN
        /\ {sweep.row.before, sweep.row.rewritten, sweep.row.added} \subseteq Int
        /\ sweep.pc = "rewrite" => sweep.row.rewritten = 0 /\ sweep.row.added = 0
        /\ ~ sweep.row.disturbed =>
              FilesOf(log, Tended) =
                  sweep.row.before - sweep.row.rewritten + sweep.row.added

RowsSoFar == \A r \in sweep.rows \cup {e.row : e \in record} : RowTrue(r)

(* A table of an earlier date is still to come or has its row.             *)
NoneForgotten ==
    Working => \A i \in DOMAIN log :
        log[i].at < night /\ log[i].table \notin sweep.hidden =>
            \/ \E k \in sweep.left : Swept[k] = log[i].table
            \/ \E r \in sweep.rows : r.table = log[i].table

Tries ==
    \A e \in record : e.try \in Nat /\ e.try <= sweep.try
                      /\ (Working => e.try < sweep.try)

SweepInv ==
    /\ LogOK /\ SweepShape /\ RowSoFar /\ RowsSoFar /\ NoneForgotten /\ Tries
    /\ NightTold

(* The first night has not begun.                                          *)
LEMMA InitSweepInv == SweepInit => SweepInv
<1> SUFFICES ASSUME SweepInit PROVE SweepInv
    OBVIOUS
<1>1. LogOK
    BY DEF SweepInit, LogOK
<1>2. SweepShape /\ RowSoFar
    BY DEF SweepInit, SweepShape, RowSoFar, NotYet, NoRow, AtTable
<1>3. RowsSoFar /\ NoneForgotten /\ Tries /\ NightTold
    BY DEF SweepInit, RowsSoFar, NoneForgotten, Working, Tries, NightTold, NotYet
<1> QED
    BY <1>1, <1>2, <1>3 DEF SweepInv

(* A commit of any table, by a writer or by the compaction.                *)
LEMMA CommitLogged ==
    ASSUME LogOK, NEW c \in CommitRecord, c.at = night,
           log' = Append(log, c), snapshots' = snapshots \cup {Len(log')}, night' = night
    PROVE  /\ LogOK'
           /\ \A i \in DOMAIN log' : log'[i].at < night =>
                 i \in DOMAIN log /\ log'[i] = log[i]
<1>1. /\ log \in Seq(CommitRecord) /\ night \in Nat
      /\ Len(log) \in Nat /\ DOMAIN log = 1..Len(log)
    BY DEF LogOK
<1>2. /\ log' \in Seq(CommitRecord) /\ Len(log') = Len(log) + 1
      /\ DOMAIN log' = 1..(Len(log) + 1) /\ log'[Len(log) + 1] = c
      /\ \A i \in 1..Len(log) : log'[i] = log[i]
    BY <1>1
<1>3. \A i \in DOMAIN log' : i = Len(log) + 1 \/ i \in DOMAIN log
    BY <1>1, <1>2
<1>4. ASSUME NEW i \in DOMAIN log'
      PROVE  log'[i].at <= night /\ (log'[i].at >= night - Retention => i \in snapshots')
    <2>1. CASE i = Len(log) + 1
        BY <1>1, <1>2, <2>1
    <2>2. CASE i \in DOMAIN log
        BY <1>1, <1>2, <2>2 DEF LogOK
    <2> QED
        BY <1>3, <2>1, <2>2
<1>5. \A i \in DOMAIN log' : log'[i].at < night => i \in DOMAIN log /\ log'[i] = log[i]
    BY <1>1, <1>2, <1>3
<1> QED
    BY <1>1, <1>2, <1>4, <1>5 DEF LogOK

(* The table an attempt works on exists.                                   *)
LEMMA CurrentPresent ==
    ASSUME SweepShape, sweep.left # {}
    PROVE  /\ Min(sweep.left) \in sweep.left
           /\ Tended \in Range(Swept) /\ Places(log, Tended) # {}
<1>1. sweep.left \subseteq DOMAIN Swept /\ DOMAIN Swept \subseteq Nat
    BY SweepAssumption DEF SweepShape
<1>2. Min(sweep.left) \in sweep.left
    BY <1>1, MinMember
<1>3. Tended \in Range(Swept)
    BY <1>1, <1>2 DEF Tended, Range
<1> QED
    BY <1>2, <1>3 DEF SweepShape, Tended

(* What the part of the invariant about the past needs of a step that      *)
(* leaves the outcome of the attempt alone.                                *)
LEMMA WriterStep ==
    ASSUME SweepInv, NEW t \in Range(Swept), WriterCommits(t) PROVE SweepInv'
<1>0. LogOK /\ SweepShape /\ RowSoFar /\ RowsSoFar /\ NoneForgotten /\ Tries /\ NightTold
    BY DEF SweepInv
<1> DEFINE c == [table |-> t, at |-> night,
                 files |-> IF Present(t) THEN FileCount(t) + 1 ELSE 1]
<1>1. /\ log' = Append(log, c) /\ snapshots' = snapshots \cup {Len(log')}
      /\ sweep' = IF t # sweep.row.table THEN sweep
                  ELSE [sweep EXCEPT !.row.disturbed = TRUE]
      /\ UNCHANGED <<night, record>>
    BY DEF WriterCommits
<1>2. log \in Seq(CommitRecord) /\ night \in Nat
    BY <1>0 DEF LogOK
<1>3. c.files \in Int
    BY <1>2, CountIs, FilesInt
<1>4. c \in CommitRecord /\ c.table = t /\ c.at = night
    BY <1>2, <1>3 DEF CommitRecord
<1> HIDE DEF c
<1>5. /\ LogOK'
      /\ \A i \in DOMAIN log' : log'[i].at < night => i \in DOMAIN log /\ log'[i] = log[i]
    BY <1>0, <1>1, <1>4, CommitLogged
<1>6. \A u : Places(log, u) # {} =>
         /\ Places(log', u) # {}
         /\ u # t => FilesOf(log', u) = FilesOf(log, u)
    BY <1>1, <1>2, <1>4, CountAfter
<1>7. /\ sweep'.pc = sweep.pc /\ sweep'.try = sweep.try /\ sweep'.left = sweep.left
      /\ sweep'.rows = sweep.rows /\ sweep'.hidden = sweep.hidden
      /\ DOMAIN sweep' = DOMAIN sweep /\ DOMAIN sweep'.row = DOMAIN sweep.row
      /\ sweep'.row.table = sweep.row.table /\ sweep'.row.before = sweep.row.before
      /\ sweep'.row.error = sweep.row.error /\ sweep'.row.failed = sweep.row.failed
      /\ sweep'.row.rewritten = sweep.row.rewritten /\ sweep'.row.added = sweep.row.added
      /\ t = sweep.row.table => sweep'.row.disturbed = TRUE
      /\ t # sweep.row.table => sweep'.row.disturbed = sweep.row.disturbed
    <2>1. CASE t # sweep.row.table
        BY <1>1, <2>1
    <2>2. CASE t = sweep.row.table
        <3>1. sweep' = [sweep EXCEPT !.row.disturbed = TRUE]
            BY <1>1, <2>2
        <3> QED
            BY <1>0, <2>2, <3>1 DEF SweepShape
    <2> QED
        BY <2>1, <2>2
<1>8. SweepShape'
    BY <1>0, <1>6, <1>7 DEF SweepShape
<1>9. RowSoFar'
    <2> SUFFICES ASSUME sweep.pc \in AtTable PROVE RowSoFar'
        BY <1>7 DEF RowSoFar
    <2>1. /\ Tended \in Range(Swept) /\ Places(log, Tended) # {}
        BY <1>0, CurrentPresent DEF SweepShape
    <2>2. Tended' = Tended
        BY <1>7 DEF Tended
    <2>3. /\ sweep.row.table = Tended
          /\ {sweep.row.error, sweep.row.disturbed} \subseteq BOOLEAN
          /\ {sweep.row.before, sweep.row.rewritten, sweep.row.added} \subseteq Int
          /\ sweep.row.error = sweep.row.failed
          /\ sweep.pc = "rewrite" => sweep.row.rewritten = 0 /\ sweep.row.added = 0
        BY <1>0 DEF RowSoFar
    <2>4. {sweep'.row.error, sweep'.row.disturbed} \subseteq BOOLEAN
        BY <1>7, <2>3
    <2>5. ~ sweep'.row.disturbed =>
              FilesOf(log', Tended) =
                  sweep.row.before - sweep.row.rewritten + sweep.row.added
        BY <1>0, <1>6, <1>7, <2>1, <2>3 DEF RowSoFar
    <2> QED
        BY <1>7, <2>2, <2>3, <2>4, <2>5 DEF RowSoFar
<1>10. RowsSoFar' /\ Tries'
    BY <1>0, <1>1, <1>7 DEF RowsSoFar, Tries, Working
<1>11. NoneForgotten' /\ NightTold'
    BY <1>0, <1>1, <1>5, <1>7 DEF NoneForgotten, NightTold, Working
<1> QED
    BY <1>5, <1>8, <1>9, <1>10, <1>11 DEF SweepInv

(* An operation of the table under way that commits nothing.               *)
LEMMA OperationStep ==
    ASSUME SweepInv, NEW next \in AtTable \ {"rewrite"}, NEW ok \in BOOLEAN,
           sweep.pc \in AtTable, Advance(sweep.pc, next, ok, sweep.row), log' = log, LogOK'
    PROVE  SweepInv'
<1>0. LogOK /\ SweepShape /\ RowSoFar /\ RowsSoFar /\ NoneForgotten /\ Tries /\ NightTold
    BY DEF SweepInv
<1>1. /\ sweep' = [sweep EXCEPT !.pc = next, !.row = After(sweep.row, ok)]
      /\ UNCHANGED <<night, record, log>>
    BY DEF Advance
<1> DEFINE row == After(sweep.row, ok)
<1>2. /\ DOMAIN row = DOMAIN sweep.row
      /\ row.table = sweep.row.table /\ row.before = sweep.row.before
      /\ row.rewritten = sweep.row.rewritten /\ row.added = sweep.row.added
      /\ row.disturbed = sweep.row.disturbed
      /\ row.error = ErrorOfAny(sweep.row.error, ok)
      /\ row.failed = (sweep.row.failed \/ ~ ok)
    BY <1>0 DEF SweepShape, After
<1> HIDE DEF row
<1>3. /\ sweep'.pc = next /\ sweep'.try = sweep.try /\ sweep'.left = sweep.left
      /\ sweep'.rows = sweep.rows /\ sweep'.hidden = sweep.hidden
      /\ DOMAIN sweep' = DOMAIN sweep /\ sweep'.row = row
    BY <1>0, <1>1 DEF SweepShape, row
<1>4. SweepShape'
    BY <1>0, <1>1, <1>2, <1>3 DEF SweepShape, AtTable
<1>5. RowSoFar'
    <2>1. /\ sweep.row.table = Tended
          /\ {sweep.row.error, sweep.row.disturbed} \subseteq BOOLEAN
          /\ {sweep.row.before, sweep.row.rewritten, sweep.row.added} \subseteq Int
          /\ sweep.row.error = sweep.row.failed
          /\ ~ sweep.row.disturbed =>
                FilesOf(log, Tended) =
                    sweep.row.before - sweep.row.rewritten + sweep.row.added
        BY <1>0 DEF RowSoFar
    <2>2. row.error \in BOOLEAN /\ row.error = row.failed
        BY <1>2, <2>1 DEF ErrorOfAny
    <2>3. Tended' = Tended
        BY <1>3 DEF Tended
    <2> QED
        BY <1>1, <1>2, <1>3, <2>1, <2>2, <2>3 DEF RowSoFar
<1>6. RowsSoFar' /\ Tries'
    BY <1>0, <1>1, <1>3 DEF RowsSoFar, Tries, Working, AtTable
<1>7. NoneForgotten' /\ NightTold'
    BY <1>0, <1>1, <1>3 DEF NoneForgotten, NightTold, Working, AtTable
<1> QED
    BY <1>4, <1>5, <1>6, <1>7 DEF SweepInv

(* The compaction: the files it replaces are the ones its row subtracts.   *)
LEMMA RewriteStep ==
    ASSUME SweepInv, NEW n \in Int, Rewrite(n) PROVE SweepInv'
<1>0. LogOK /\ SweepShape /\ RowSoFar /\ RowsSoFar /\ NoneForgotten /\ Tries /\ NightTold
    BY DEF SweepInv
<1> DEFINE old == sweep.row
           c == [table |-> old.table, at |-> night, files |-> FileCount(old.table) - n + 1]
           row == After([old EXCEPT !.rewritten = n, !.added = 1], TRUE)
<1>1. /\ sweep.pc = "rewrite" /\ log' = Append(log, c)
      /\ snapshots' = snapshots \cup {Len(log')}
      /\ sweep' = [sweep EXCEPT !.pc = "expire", !.row = row]
      /\ UNCHANGED <<night, record>>
    BY DEF Rewrite, Advance
<1>2. /\ log \in Seq(CommitRecord) /\ night \in Nat
      /\ Tended \in Range(Swept) /\ Places(log, Tended) # {} /\ sweep.left # {}
    BY <1>0, <1>1, CurrentPresent DEF LogOK, SweepShape, AtTable
<1>3. /\ old.table = Tended /\ {old.error, old.disturbed} \subseteq BOOLEAN
      /\ {old.before, old.rewritten, old.added} \subseteq Int /\ old.error = old.failed
      /\ old.rewritten = 0 /\ old.added = 0
      /\ ~ old.disturbed => FilesOf(log, Tended) = old.before - old.rewritten + old.added
    BY <1>0, <1>1 DEF RowSoFar, AtTable
<1>4. FilesOf(log, Tended) \in Int /\ FileCount(Tended) = FilesOf(log, Tended)
    BY <1>2, FilesInt, CountIs
<1>5. /\ c \in CommitRecord /\ c.table = Tended /\ c.at = night
      /\ c.files = FilesOf(log, Tended) - n + 1
    BY <1>2, <1>3, <1>4 DEF CommitRecord
<1>6. /\ DOMAIN row = DOMAIN old
      /\ row.table = old.table /\ row.before = old.before
      /\ row.rewritten = n /\ row.added = 1 /\ row.disturbed = old.disturbed
      /\ row.error = ErrorOfAny(old.error, TRUE) /\ row.failed = (old.failed \/ ~ TRUE)
    BY <1>0 DEF SweepShape, After
<1> HIDE DEF c, row
<1>7. /\ LogOK'
      /\ \A i \in DOMAIN log' : log'[i].at < night => i \in DOMAIN log /\ log'[i] = log[i]
    BY <1>0, <1>1, <1>5, CommitLogged
<1>8. /\ \A u : Places(log, u) # {} => Places(log', u) # {}
      /\ FilesOf(log', Tended) = FilesOf(log, Tended) - n + 1
    BY <1>1, <1>2, <1>5, CountAfter
<1>9. /\ sweep'.pc = "expire" /\ sweep'.try = sweep.try /\ sweep'.left = sweep.left
      /\ sweep'.rows = sweep.rows /\ sweep'.hidden = sweep.hidden
      /\ DOMAIN sweep' = DOMAIN sweep /\ sweep'.row = row
    BY <1>0, <1>1 DEF SweepShape
<1>10. SweepShape'
    BY <1>0, <1>1, <1>6, <1>8, <1>9 DEF SweepShape, AtTable
<1>11. RowSoFar'
    <2>1. row.error \in BOOLEAN /\ row.error = row.failed
        BY <1>3, <1>6 DEF ErrorOfAny
    <2>2. Tended' = Tended
        BY <1>9 DEF Tended
    <2>3. ~ row.disturbed =>
              FilesOf(log', Tended) = row.before - row.rewritten + row.added
        BY <1>3, <1>4, <1>6, <1>8
    <2> QED
        BY <1>3, <1>6, <1>9, <2>1, <2>2, <2>3 DEF RowSoFar
<1>12. RowsSoFar' /\ Tries'
    BY <1>0, <1>1, <1>9 DEF RowsSoFar, Tries, Working
<1>13. NoneForgotten' /\ NightTold'
    BY <1>0, <1>1, <1>7, <1>9 DEF NoneForgotten, NightTold, Working
<1> QED
    BY <1>7, <1>10, <1>11, <1>12, <1>13 DEF SweepInv

(* A table is done with: its row joins the others.                         *)
LEMMA FinishedStep ==
    ASSUME SweepInv, sweep.pc \in AtTable \cup {"count"}, NEW row, RowTrue(row),
           row.table = Tended, Finished(row), UNCHANGED <<night, log, snapshots, record>>
    PROVE  SweepInv'
<1>0. LogOK /\ SweepShape /\ RowSoFar /\ RowsSoFar /\ NoneForgotten /\ Tries /\ NightTold
    BY DEF SweepInv
<1>1. /\ sweep'.pc = (IF Later # {} THEN "count" ELSE "record")
      /\ sweep'.left = Later /\ sweep'.row = NoRow /\ sweep'.rows = sweep.rows \cup {row}
      /\ sweep'.try = sweep.try /\ sweep'.hidden = sweep.hidden
      /\ DOMAIN sweep' = DOMAIN sweep
    BY <1>0 DEF Finished, SweepShape
<1>2. sweep.left # {} /\ Later \subseteq sweep.left
    BY <1>0 DEF SweepShape, Later
<1>3. LogOK' /\ RowSoFar'
    BY <1>0, <1>1 DEF LogOK, RowSoFar, AtTable
<1>4. SweepShape'
    BY <1>0, <1>1, <1>2 DEF SweepShape, AtTable, NoRow
<1>5. RowsSoFar' /\ Tries'
    BY <1>0, <1>1 DEF RowsSoFar, Tries, Working, AtTable
<1>6. NoneForgotten'
    <2>1. \A k \in sweep.left : k \in Later \/ Swept[k] = row.table
        BY DEF Later, Tended
    <2>2. Working
        BY DEF Working, AtTable
    <2> QED
        BY <1>0, <1>1, <2>1, <2>2 DEF NoneForgotten
<1>7. NightTold'
    BY <1>1 DEF NightTold
<1> QED
    BY <1>3, <1>4, <1>5, <1>6, <1>7 DEF SweepInv

(* Opening a table, and finding that it cannot be read.                    *)
LEMMA CountStep ==
    ASSUME SweepInv, NEW ok \in BOOLEAN, Count(ok) PROVE SweepInv'
<1>0. LogOK /\ SweepShape /\ RowSoFar /\ RowsSoFar /\ NoneForgotten /\ Tries /\ NightTold
    BY DEF SweepInv
<1>1. sweep.pc = "count" /\ UNCHANGED <<night, log, snapshots, record>>
    BY DEF Count
<1>2. /\ log \in Seq(CommitRecord)
      /\ Places(log, Tended) # {} /\ sweep.left # {}
    BY <1>0, <1>1, CurrentPresent DEF LogOK, SweepShape
<1> DEFINE row == [NoRow EXCEPT !.table = Tended]
<1>3. /\ DOMAIN row = DOMAIN NoRow /\ row.table = Tended
      /\ row.error = FALSE /\ row.failed = FALSE /\ row.disturbed = FALSE
      /\ row.before = 0 /\ row.after = 0 /\ row.rewritten = 0 /\ row.added = 0
    BY DEF NoRow
<1>4. CASE ok
    <2> DEFINE counted == [row EXCEPT !.before = FilesOf(log, Tended)]
    <2>1. sweep' = [sweep EXCEPT !.pc = "rewrite", !.row = counted]
        BY <1>3, <1>4, CountIs DEF Count
    <2>2. /\ DOMAIN counted = DOMAIN NoRow /\ counted.table = Tended
          /\ counted.error = FALSE /\ counted.failed = FALSE /\ counted.disturbed = FALSE
          /\ counted.before = FilesOf(log, Tended) /\ counted.rewritten = 0 /\ counted.added = 0
        BY DEF NoRow
    <2> HIDE DEF counted
    <2>3. /\ sweep'.pc = "rewrite" /\ sweep'.try = sweep.try /\ sweep'.left = sweep.left
          /\ sweep'.rows = sweep.rows /\ sweep'.hidden = sweep.hidden
          /\ DOMAIN sweep' = DOMAIN sweep /\ sweep'.row = counted
        BY <1>0, <2>1 DEF SweepShape
    <2>4. FilesOf(log, Tended) \in Int
        BY <1>2, FilesInt
    <2>5. LogOK' /\ SweepShape'
        BY <1>0, <1>1, <2>2, <2>3 DEF LogOK, SweepShape, AtTable, NoRow
    <2>6. RowSoFar'
        <3>1. Tended' = Tended
            BY <2>3 DEF Tended
        <3>2. {counted.error, counted.disturbed} \subseteq BOOLEAN
              /\ {counted.before, counted.rewritten, counted.added} \subseteq Int
            <4> HIDE DEF row
            <4>1. counted.error = FALSE /\ counted.disturbed = FALSE
                BY <2>2
            <4>2. counted.before \in Int /\ counted.rewritten \in Int /\ counted.added \in Int
                BY <2>2, <2>4
            <4> QED
                BY <4>1, <4>2
        <3>3. FilesOf(log, Tended) = counted.before - counted.rewritten + counted.added
            BY <2>2, <2>4
        <3>4. FilesOf(log', Tended) = FilesOf(log, Tended)
            BY <1>1
        <3> HIDE DEF row
        <3> QED
            BY <2>2, <2>3, <3>1, <3>2, <3>3, <3>4 DEF RowSoFar
    <2>7. RowsSoFar' /\ Tries'
        BY <1>0, <1>1, <2>3 DEF RowsSoFar, Tries, Working
    <2>8. NoneForgotten' /\ NightTold'
        BY <1>0, <1>1, <2>3 DEF NoneForgotten, NightTold, Working
    <2> QED
        BY <2>5, <2>6, <2>7, <2>8 DEF SweepInv
<1>5. CASE ~ ok
    <2> DEFINE failed == After(row, FALSE)
    <2>1. Finished(failed)
        BY <1>5 DEF Count
    <2>2. failed.table = Tended /\ failed.error = TRUE /\ failed.failed = TRUE
        BY DEF After, ErrorOfAny, NoRow
    <2> HIDE DEF failed
    <2>3. RowTrue(failed)
        BY <2>2 DEF RowTrue
    <2> QED
        BY <1>1, <2>1, <2>2, <2>3, FinishedStep
<1> QED
    BY <1>4, <1>5

(* The second count closes the row.                                        *)
LEMMA RecountStep ==
    ASSUME SweepInv, NEW ok \in BOOLEAN, Recount(ok) PROVE SweepInv'
<1>0. LogOK /\ SweepShape /\ RowSoFar
    BY DEF SweepInv
<1>1. sweep.pc = "recount" /\ UNCHANGED <<night, log, snapshots, record>>
    BY DEF Recount
<1> DEFINE old == sweep.row
           counted == [old EXCEPT !.after =
                          IF ok THEN FileCount(old.table) ELSE old.before]
           row == After(counted, ok)
<1>2. Finished(row)
    BY DEF Recount
<1>3. /\ old.table = Tended /\ {old.error, old.disturbed} \subseteq BOOLEAN
      /\ {old.before, old.rewritten, old.added} \subseteq Int /\ old.error = old.failed
      /\ ~ old.disturbed => FilesOf(log, Tended) = old.before - old.rewritten + old.added
    BY <1>0, <1>1 DEF RowSoFar, AtTable
<1>4. /\ row.table = old.table /\ row.before = old.before
      /\ row.rewritten = old.rewritten /\ row.added = old.added
      /\ row.disturbed = old.disturbed
      /\ row.error = ErrorOfAny(old.error, ok) /\ row.failed = (old.failed \/ ~ ok)
      /\ ok => row.after = FileCount(old.table)
    BY <1>0 DEF SweepShape, After
<1> HIDE DEF row
<1>5. RowTrue(row)
    <2>1. row.error = row.failed /\ (~ row.error => ok)
        BY <1>3, <1>4 DEF ErrorOfAny
    <2>2. ASSUME ok, ~ row.disturbed
          PROVE  row.before - row.after = row.rewritten - row.added
        BY <1>3, <1>4, <2>2, CountIs
    <2> QED
        BY <2>1, <2>2 DEF RowTrue
<1>6. row.table = Tended
    BY <1>3, <1>4
<1> QED
    BY <1>1, <1>2, <1>5, <1>6, FinishedStep DEF AtTable

(* 02:00, or the retry: the tables there are and that can be described.    *)
LEMMA BeginStep ==
    ASSUME SweepInv, BeginSweep PROVE SweepInv'
<1>0. LogOK /\ SweepShape /\ RowSoFar /\ RowsSoFar /\ NoneForgotten /\ Tries /\ NightTold
    BY DEF SweepInv
<1>1. UNCHANGED <<night, log, snapshots, record>>
    BY DEF BeginSweep
<1> DEFINE Left(hidden) == {i \in DOMAIN Swept : Present(Swept[i]) /\ Swept[i] \notin hidden}
<1>2. PICK hidden : sweep' = [NotYet EXCEPT
                                  !.pc = IF Left(hidden) = {} THEN "record" ELSE "count",
                                  !.try = sweep.try + 1, !.left = Left(hidden),
                                  !.hidden = hidden]
    BY DEF BeginSweep
<1> DEFINE left == Left(hidden)
<1>3. /\ sweep'.pc = (IF left = {} THEN "record" ELSE "count")
      /\ sweep'.try = sweep.try + 1 /\ sweep'.left = left /\ sweep'.hidden = hidden
      /\ sweep'.row = NoRow /\ sweep'.rows = {} /\ DOMAIN sweep' = DOMAIN NotYet
    BY <1>2 DEF NotYet
<1>4. \A i \in left : i \in DOMAIN Swept /\ Places(log, Swept[i]) # {}
    BY CountIs
<1>5. \A i \in DOMAIN log : log[i].table \notin hidden =>
          \E k \in left : Swept[k] = log[i].table
    <2> SUFFICES ASSUME NEW i \in DOMAIN log, log[i].table \notin hidden
                 PROVE  \E k \in left : Swept[k] = log[i].table
        OBVIOUS
    <2>1. log[i].table \in Range(Swept)
        BY <1>0, LogFields
    <2>2. PICK k \in DOMAIN Swept : Swept[k] = log[i].table
        BY <2>1 DEF Range
    <2>3. Present(Swept[k])
        BY <2>2, CountIs DEF Places
    <2> QED
        BY <2>2, <2>3
<1> HIDE DEF left
<1>6. LogOK' /\ RowSoFar'
    BY <1>0, <1>1, <1>3 DEF LogOK, RowSoFar, AtTable
<1>7. SweepShape'
    BY <1>0, <1>1, <1>3, <1>4 DEF SweepShape, AtTable, NotYet, NoRow
<1>8. RowsSoFar' /\ NightTold'
    BY <1>0, <1>1, <1>3 DEF RowsSoFar, NightTold
<1>9. Tries'
    BY <1>0, <1>1, <1>3 DEF Tries, SweepShape
<1>10. NoneForgotten'
    BY <1>1, <1>3, <1>5 DEF NoneForgotten
<1> QED
    BY <1>6, <1>7, <1>8, <1>9, <1>10 DEF SweepInv

(* The rows of the attempt are merged, and its outcome is their aggregate. *)
LEMMA RecordStep ==
    ASSUME SweepInv, RecordRows PROVE SweepInv'
<1>0. LogOK /\ SweepShape /\ RowSoFar /\ RowsSoFar /\ NoneForgotten /\ Tries /\ NightTold
    BY DEF SweepInv
<1> DEFINE new == {[try |-> sweep.try, row |-> r] : r \in sweep.rows}
           end == IF \E r \in sweep.rows : r.error THEN AttemptFailed ELSE "succeeded"
<1>1. /\ sweep.pc = "record" /\ record' = record \cup new
      /\ sweep' = [sweep EXCEPT !.pc = end, !.rows = {}]
      /\ UNCHANGED <<night, log, snapshots>>
    BY DEF RecordRows
<1>2. /\ sweep'.pc = end /\ sweep'.try = sweep.try /\ sweep'.left = sweep.left
      /\ sweep'.row = sweep.row /\ sweep'.rows = {} /\ sweep'.hidden = sweep.hidden
      /\ DOMAIN sweep' = DOMAIN sweep
    BY <1>0, <1>1 DEF SweepShape
<1>3. end \in {"retry", "failed", "succeeded"}
    BY DEF AttemptFailed
<1>4. \A e \in new : e.try = sweep.try /\ e.row \in sweep.rows
    OBVIOUS
<1>5. \A r \in sweep.rows : \E e \in new : e.try = sweep.try /\ e.row = r
    <2> SUFFICES ASSUME NEW r \in sweep.rows
                 PROVE  \E e \in new : e.try = sweep.try /\ e.row = r
        OBVIOUS
    <2> WITNESS [try |-> sweep.try, row |-> r] \in new
    <2> QED
        OBVIOUS
<1> HIDE DEF new, end
<1>6. LogOK' /\ RowSoFar'
    BY <1>0, <1>1, <1>2, <1>3 DEF LogOK, RowSoFar, AtTable
<1>7. SweepShape'
    BY <1>0, <1>1, <1>2, <1>3 DEF SweepShape, AtTable
<1>8. RowsSoFar'
    BY <1>0, <1>1, <1>2, <1>4 DEF RowsSoFar
<1>9. Tries' /\ NoneForgotten'
    BY <1>0, <1>1, <1>2, <1>3, <1>4 DEF Tries, NoneForgotten, Working, SweepShape
<1>10. NightTold'
    <2> SUFFICES ASSUME end = "succeeded" PROVE NightTold'
        BY <1>2 DEF NightTold
    <2>1. \A r \in sweep.rows : ~ r.error
        BY DEF end, AttemptFailed
    <2>2. \A r \in sweep.rows : ~ r.failed
        BY <1>0, <2>1 DEF RowsSoFar, RowTrue
    <2>3. Working /\ sweep.left = {}
        BY <1>0, <1>1 DEF Working, SweepShape
    <2>4. ASSUME NEW i \in DOMAIN log, log[i].at < night, log[i].table \notin sweep.hidden
          PROVE  \E e \in new : /\ e.try = sweep.try /\ ~ e.row.error
                                /\ e.row.table = log[i].table
        <3>1. PICK r \in sweep.rows : r.table = log[i].table
            BY <1>0, <2>3, <2>4 DEF NoneForgotten
        <3> QED
            BY <1>5, <2>1, <3>1
    <2>5. \A e \in record' : e.row.failed => e.try < sweep.try
        BY <1>0, <1>1, <1>4, <2>2, <2>3 DEF Tries
    <2> QED
        BY <1>1, <1>2, <2>4, <2>5 DEF NightTold
<1> QED
    BY <1>6, <1>7, <1>8, <1>9, <1>10 DEF SweepInv

(* A dead attempt records nothing.                                         *)
LEMMA DeathStep ==
    ASSUME SweepInv, SweepDies PROVE SweepInv'
<1>0. LogOK /\ SweepShape /\ RowSoFar /\ RowsSoFar /\ NoneForgotten /\ Tries /\ NightTold
    BY DEF SweepInv
<1>1. Working /\ UNCHANGED <<night, log, snapshots, record>>
    BY DEF SweepDies
<1>2. PICK end \in {AttemptFailed, "failed"} :
          sweep' = [sweep EXCEPT !.pc = end, !.left = {}, !.row = NoRow, !.rows = {}]
    BY DEF SweepDies
<1>3. /\ sweep'.pc \in {"retry", "failed"} /\ sweep'.try = sweep.try
      /\ sweep'.left = {} /\ sweep'.row = NoRow /\ sweep'.rows = {}
      /\ DOMAIN sweep' = DOMAIN sweep
    BY <1>0, <1>2 DEF SweepShape, AttemptFailed
<1>4. LogOK' /\ SweepShape' /\ RowSoFar'
    BY <1>0, <1>1, <1>3 DEF LogOK, SweepShape, RowSoFar, AtTable, NoRow
<1>5. RowsSoFar' /\ Tries' /\ NoneForgotten' /\ NightTold'
    BY <1>0, <1>1, <1>3 DEF RowsSoFar, Tries, NoneForgotten, NightTold, Working
<1> QED
    BY <1>4, <1>5 DEF SweepInv

(* A new date: what is kept of the log is what the retention still covers. *)
LEMMA NightStep ==
    ASSUME SweepInv, NextNight PROVE SweepInv'
<1>0. LogOK
    BY DEF SweepInv
<1>1. /\ night' = night + 1 /\ sweep' = NotYet /\ record' = {}
      /\ UNCHANGED <<log, snapshots>>
    BY DEF NextNight
<1>2. LogOK'
    <2>1. night \in Nat /\ log \in Seq(CommitRecord) /\ Retention \in Nat
        BY <1>0, SweepAssumption DEF LogOK
    <2>2. \A i \in DOMAIN log : log[i].at \in Nat
        BY <1>0, LogFields
    <2> QED
        BY <1>0, <1>1, <2>1, <2>2 DEF LogOK
<1>3. SweepShape' /\ RowSoFar'
    BY <1>1 DEF SweepShape, RowSoFar, AtTable, NotYet, NoRow
<1>4. RowsSoFar' /\ Tries' /\ NoneForgotten' /\ NightTold'
    BY <1>1 DEF RowsSoFar, Tries, NoneForgotten, NightTold, Working, NotYet
<1> QED
    BY <1>2, <1>3, <1>4 DEF SweepInv

(* Expiry takes only what is older than the retention.                     *)
LEMMA ExpiryKeeps ==
    ASSUME LogOK, NEW ok, Expire(ok) PROVE LogOK'
<1>1. UNCHANGED <<night, log>>
    BY DEF Expire, Advance
<1>2. night \in Nat /\ log \in Seq(CommitRecord) /\ Retention \in Nat
    BY SweepAssumption DEF LogOK
<1>3. \A i \in DOMAIN log : log[i].at \in Nat
    BY LogFields
<1>4. \A i \in DOMAIN log :
          log[i].at >= night - Retention => i \notin Expired(sweep.row.table)
    BY <1>2, <1>3 DEF Expired
<1>5. \A i \in snapshots : i \notin Expired(sweep.row.table) => i \in snapshots'
    BY DEF Expire
<1> QED
    BY <1>1, <1>4, <1>5 DEF LogOK

(* Every step of the sweep and of the writers keeps the invariant.         *)
LEMMA NextSweepInv == SweepInv /\ [SweepNext]_sweepVars => SweepInv'
<1> SUFFICES ASSUME SweepInv, [SweepNext]_sweepVars PROVE SweepInv'
    OBVIOUS
<1>0. LogOK
    BY DEF SweepInv
<1>1. CASE \E t \in Range(Swept) : WriterCommits(t)
    BY <1>1, WriterStep
<1>2. CASE BeginSweep
    BY <1>2, BeginStep
<1>3. CASE RecordRows
    BY <1>3, RecordStep
<1>4. CASE SweepDies
    BY <1>4, DeathStep
<1>5. CASE NextNight
    BY <1>5, NightStep
<1>6. ASSUME NEW ok \in BOOLEAN, Count(ok) PROVE SweepInv'
    BY <1>6, CountStep
<1>7. ASSUME NEW ok \in BOOLEAN, RewriteNothing(ok) PROVE SweepInv'
    <2>1. /\ Advance(sweep.pc, "expire", ok, sweep.row) /\ sweep.pc \in AtTable
          /\ UNCHANGED <<night, log, snapshots>>
        BY <1>7 DEF RewriteNothing, Advance, AtTable
    <2>2. LogOK'
        BY <1>0, <2>1 DEF LogOK
    <2> QED
        BY <2>1, <2>2, OperationStep DEF AtTable
<1>8. ASSUME NEW ok \in BOOLEAN, Expire(ok) PROVE SweepInv'
    <2>1. /\ Advance(sweep.pc, "orphans", ok, sweep.row) /\ sweep.pc \in AtTable
          /\ log' = log
        BY <1>8 DEF Expire, Advance, AtTable
    <2>2. LogOK'
        BY <1>0, <1>8, ExpiryKeeps
    <2> QED
        BY <2>1, <2>2, OperationStep DEF AtTable
<1>9. ASSUME NEW ok \in BOOLEAN, Orphans(ok) PROVE SweepInv'
    <2>1. /\ Advance(sweep.pc, "recount", ok, sweep.row) /\ sweep.pc \in AtTable
          /\ UNCHANGED <<night, log, snapshots>>
        BY <1>9 DEF Orphans, Advance, AtTable
    <2>2. LogOK'
        BY <1>0, <2>1 DEF LogOK
    <2> QED
        BY <2>1, <2>2, OperationStep DEF AtTable
<1>10. ASSUME NEW ok \in BOOLEAN, Recount(ok) PROVE SweepInv'
    BY <1>10, RecountStep
<1>11. ASSUME NEW n \in MinInputFiles..MaxCommits, Rewrite(n) PROVE SweepInv'
    BY <1>11, RewriteStep
<1>12. CASE UNCHANGED sweepVars
    <2>1. UNCHANGED <<night, log, snapshots, sweep, record>>
        BY <1>12 DEF sweepVars
    <2> QED
        BY <2>1 DEF SweepInv, LogOK, SweepShape, RowSoFar, RowsSoFar, NoneForgotten, Tries,
                    NightTold, Working, Tended
<1> QED
    BY <1>1, <1>2, <1>3, <1>4, <1>5, <1>6, <1>7, <1>8, <1>9, <1>10, <1>11, <1>12
       DEF SweepNext

(* The snapshot that shows a day of the retention is younger than it.      *)
LEMMA ReadableFromLog == LogOK => AsOfReadable
<1> SUFFICES ASSUME LogOK, NEW t \in Range(Swept), NEW d \in (night - Retention)..night,
                    {i \in CommitsOf(t, DOMAIN log) : log[i].at <= d} # {}
             PROVE  LET until == {i \in CommitsOf(t, DOMAIN log) : log[i].at <= d}
                    IN  \/ Max(until) \in snapshots
                        \/ log[Max(until)].at < night - Retention
    BY DEF AsOfReadable
<1> DEFINE until == {i \in CommitsOf(t, DOMAIN log) : log[i].at <= d}
<1>1. /\ log \in Seq(CommitRecord) /\ night \in Nat /\ Retention \in Nat
      /\ Len(log) \in Nat /\ DOMAIN log = 1..Len(log)
    BY SweepAssumption DEF LogOK
<1>2. until \subseteq 1..Len(log) /\ IsFiniteSet(1..Len(log))
    BY <1>1, FS_Interval DEF CommitsOf
<1> HIDE DEF until
<1>3. until # {}
    BY DEF until
<1>4. Max(until) \in 1..Len(log)
    <2>1. until \subseteq Int
        BY <1>1, <1>2
    <2>2. IsFiniteSet(until)
        BY <1>2, FS_Subset
    <2>3. Max(until) \in until
        BY <1>3, <2>1, <2>2, MaxMember
    <2> QED
        BY <1>2, <2>3
<1>5. log[Max(until)].at \in Nat
    BY <1>1, <1>4, LogFields
<1>6. Max(until) \in snapshots \/ log[Max(until)].at < night - Retention
    BY <1>1, <1>4, <1>5 DEF LogOK
<1> QED
    BY <1>6 DEF until

(* The three claims about a night are true of every state of the sweep.    *)
THEOREM SweepIsHonest == SweepSpec => []SweepHonest
<1>1. SweepInv => SweepHonest
    <2> SUFFICES ASSUME SweepInv PROVE SweepHonest
        OBVIOUS
    <2>1. RowsTrue
        BY DEF SweepInv, RowsSoFar, RowTrue, RowsTrue
    <2>2. AsOfReadable
        BY ReadableFromLog DEF SweepInv
    <2> QED
        BY <2>1, <2>2 DEF SweepInv, SweepHonest
<1> QED
    BY <1>1, InitSweepInv, NextSweepInv, PTL DEF SweepSpec

(* A table never has more files than there were commits, so none more than *)
(* the bound.                                                              *)
LogRest ==
    /\ night <= LastNight /\ Len(log) <= MaxCommits
    /\ snapshots \subseteq DOMAIN log
    /\ \A i \in DOMAIN log : log[i].files \in 1..i

RowTyped(r) == r.table \in Range(Swept) /\ r.error \in BOOLEAN

(* Two attempts at most: the second follows a "retry".                     *)
AttemptRest ==
    /\ sweep.pc \in {"waits", "retry", "failed", "succeeded", "record",
                     "count", "rewrite", "expire", "orphans", "recount"}
    /\ sweep.try \in 0..2
    /\ sweep.pc = "waits" => sweep.try = 0
    /\ sweep.pc = "retry" => sweep.try = 1
    /\ \A r \in sweep.rows \cup {e.row : e \in record} : RowTyped(r)

SweepRest == LogRest /\ AttemptRest

LEMMA InitSweepRest == SweepInit => SweepRest
<1> SUFFICES ASSUME SweepInit PROVE SweepRest
    OBVIOUS
<1>1. /\ night = 0 /\ log = <<>> /\ snapshots = {} /\ record = {}
      /\ sweep.pc = "waits" /\ sweep.try = 0 /\ sweep.rows = {}
    BY DEF SweepInit, NotYet
<1>2. Len(log) = 0 /\ DOMAIN log = {}
    BY <1>1
<1>3. LogRest
    BY <1>1, <1>2, SweepAssumption DEF LogRest
<1> QED
    BY <1>1, <1>3 DEF SweepRest, AttemptRest

LEMMA SweepTyped == ASSUME SweepInv, SweepRest PROVE SweepTypeOK
<1>1. /\ night \in Nat /\ log \in Seq(CommitRecord) /\ MaxCommits \in Nat /\ LastNight \in Nat
      /\ \A i \in DOMAIN log : log[i].at \in Nat /\ log[i].at <= night
    BY SweepAssumption, LogFields DEF SweepInv, LogOK
<1>2. Len(log) \in Nat /\ DOMAIN log = 1..Len(log)
    BY <1>1
<1>3. \A i \in DOMAIN log : log[i].files \in 1..MaxCommits /\ log[i].at \in 0..night
    BY <1>1, <1>2 DEF SweepRest, LogRest
<1> QED
    BY <1>1, <1>2, <1>3 DEF SweepRest, LogRest, AttemptRest, RowTyped, SweepTypeOK

(* What a commit may say of its table.                                     *)
LEMMA FilesBound ==
    ASSUME LogOK, LogRest, NEW t, Places(log, t) # {}
    PROVE  FilesOf(log, t) \in 1..Len(log)
<1>1. log \in Seq(CommitRecord)
    BY DEF LogOK
<1>2. Len(log) \in Nat /\ DOMAIN log = 1..Len(log)
    BY <1>1
<1>3. Max(Places(log, t)) \in 1..Len(log)
    BY <1>1, <1>2, FilesInt DEF Places
<1> QED
    BY <1>2, <1>3 DEF LogRest, FilesOf

LEMMA CommitTyped ==
    ASSUME LogOK, LogRest, Len(log) < MaxCommits, NEW c, c.files \in 1..(Len(log) + 1),
           log' = Append(log, c), snapshots' = snapshots \cup {Len(log')}, night' = night
    PROVE  LogRest'
<1>1. log \in Seq(CommitRecord) /\ MaxCommits \in Nat
    BY SweepAssumption DEF LogOK
<1>2. /\ Len(log) \in Nat /\ DOMAIN log = 1..Len(log) /\ Len(log') = Len(log) + 1
      /\ DOMAIN log' = 1..(Len(log) + 1) /\ log'[Len(log) + 1] = c
      /\ \A i \in 1..Len(log) : log'[i] = log[i]
    BY <1>1
<1>3. ASSUME NEW i \in DOMAIN log' PROVE log'[i].files \in 1..i
    <2>1. CASE i = Len(log) + 1
        BY <1>2, <2>1
    <2>2. CASE i # Len(log) + 1
        <3>1. i \in DOMAIN log /\ log'[i] = log[i]
            BY <1>2, <2>2
        <3> QED
            BY <3>1 DEF LogRest
    <2> QED
        BY <2>1, <2>2
<1>4. snapshots' \subseteq DOMAIN log'
    BY <1>2 DEF LogRest
<1> QED
    BY <1>1, <1>2, <1>3, <1>4 DEF LogRest

LEMMA NextLogRest == ASSUME SweepInv, LogRest, [SweepNext]_sweepVars PROVE LogRest'
<1>0. /\ LogOK /\ SweepShape /\ RowSoFar
      /\ night \in Nat /\ LastNight \in Nat /\ MinInputFiles \in Nat \ {0, 1}
      /\ log \in Seq(CommitRecord) /\ Len(log) \in Nat
    BY SweepAssumption DEF SweepInv, LogOK
<1>1. ASSUME NEW t \in Range(Swept), WriterCommits(t) PROVE LogRest'
    <2> DEFINE c == [table |-> t, at |-> night,
                     files |-> IF Present(t) THEN FileCount(t) + 1 ELSE 1]
    <2>1. /\ log' = Append(log, c) /\ snapshots' = snapshots \cup {Len(log')}
          /\ night' = night /\ Len(log) < MaxCommits
        BY <1>1 DEF WriterCommits
    <2>2. c.files \in 1..(Len(log) + 1)
        BY <1>0, CountIs, FilesBound
    <2> HIDE DEF c
    <2> QED
        BY <1>0, <2>1, <2>2, CommitTyped
<1>2. ASSUME NEW n \in MinInputFiles..MaxCommits, Rewrite(n) PROVE LogRest'
    <2> DEFINE c == [table |-> sweep.row.table, at |-> night,
                     files |-> FileCount(sweep.row.table) - n + 1]
    <2>1. /\ log' = Append(log, c) /\ snapshots' = snapshots \cup {Len(log')}
          /\ night' = night /\ Len(log) < MaxCommits /\ sweep.pc = "rewrite"
          /\ n <= FileCount(sweep.row.table)
        BY <1>2 DEF Rewrite, Advance
    <2>2. FilesOf(log, sweep.row.table) \in 1..Len(log)
        BY <1>0, <2>1, CurrentPresent, FilesBound DEF SweepShape, RowSoFar, AtTable
    <2>3. FileCount(sweep.row.table) = FilesOf(log, sweep.row.table) /\ n \in Int /\ n >= 1
        BY <1>0, CountIs
    <2>4. c.files \in 1..(Len(log) + 1)
        BY <1>0, <2>1, <2>2, <2>3
    <2> HIDE DEF c
    <2> QED
        BY <1>0, <2>1, <2>4, CommitTyped
<1>3. CASE NextNight
    BY <1>0, <1>3 DEF NextNight, LogRest
<1>4. ASSUME NEW ok \in BOOLEAN, Expire(ok) PROVE LogRest'
    BY <1>4 DEF Expire, Advance, LogRest
<1>5. ASSUME NEW ok \in BOOLEAN, Count(ok) \/ RewriteNothing(ok) \/ Orphans(ok) \/ Recount(ok)
      PROVE  LogRest'
    BY <1>5 DEF Count, RewriteNothing, Orphans, Recount, Advance, LogRest
<1>6. CASE BeginSweep \/ RecordRows \/ SweepDies \/ UNCHANGED sweepVars
    BY <1>6 DEF BeginSweep, RecordRows, SweepDies, sweepVars, LogRest
<1> QED
    BY <1>1, <1>2, <1>3, <1>4, <1>5, <1>6 DEF SweepNext

(* The row of a table that is done with.                                   *)
LEMMA FinishedTyped ==
    ASSUME SweepShape, AttemptRest, NEW row, RowTyped(row), Finished(row), record' = record
    PROVE  AttemptRest'
<1>1. /\ sweep'.pc \in {"count", "record"} /\ sweep'.try = sweep.try
      /\ sweep'.rows = sweep.rows \cup {row}
    BY DEF Finished, SweepShape
<1> QED
    BY <1>1 DEF AttemptRest

(* An operation on one.                                                    *)
LEMMA AdvanceTyped ==
    ASSUME SweepShape, AttemptRest, NEW op, NEW ok, NEW row,
           NEW next \in {"expire", "orphans", "recount"}, Advance(op, next, ok, row)
    PROVE  AttemptRest'
<1>1. /\ sweep'.pc = next /\ sweep'.try = sweep.try /\ sweep'.rows = sweep.rows
      /\ record' = record
    BY DEF Advance, SweepShape
<1> QED
    BY <1>1 DEF AttemptRest

LEMMA NextAttemptRest == ASSUME SweepInv, AttemptRest, [SweepNext]_sweepVars PROVE AttemptRest'
<1>0. /\ LogOK /\ SweepShape /\ RowSoFar /\ AttemptRest
      /\ DOMAIN sweep = {"pc", "try", "left", "hidden", "row", "rows"}
      /\ sweep.pc \in AtTable \cup {"count"} => Tended \in Range(Swept)
    BY CurrentPresent DEF SweepInv, SweepShape
<1>1. ASSUME NEW t \in Range(Swept), WriterCommits(t) PROVE AttemptRest'
    <2>1. /\ sweep'.pc = sweep.pc /\ sweep'.try = sweep.try /\ sweep'.rows = sweep.rows
          /\ record' = record
        BY <1>0, <1>1 DEF WriterCommits
    <2> QED
        BY <1>0, <2>1 DEF AttemptRest
<1>2. CASE BeginSweep
    <2>1. PICK hidden : sweep' = [NotYet EXCEPT
                !.pc = IF {i \in DOMAIN Swept : Present(Swept[i]) /\ Swept[i] \notin hidden} = {}
                       THEN "record" ELSE "count",
                !.try = sweep.try + 1,
                !.left = {i \in DOMAIN Swept : Present(Swept[i]) /\ Swept[i] \notin hidden},
                !.hidden = hidden]
        BY <1>2 DEF BeginSweep
    <2>2. /\ sweep'.pc \in {"record", "count"} /\ sweep'.try = sweep.try + 1
          /\ sweep'.rows = {} /\ record' = record /\ sweep.pc \in {"waits", "retry"}
        BY <1>2, <2>1 DEF NotYet, BeginSweep
    <2> QED
        BY <1>0, <2>2 DEF AttemptRest
<1>3. CASE RecordRows
    <2>1. /\ sweep'.pc \in {AttemptFailed, "succeeded"} /\ sweep'.try = sweep.try
          /\ sweep'.rows = {}
          /\ record' = record \cup {[try |-> sweep.try, row |-> r] : r \in sweep.rows}
        BY <1>0, <1>3 DEF RecordRows
    <2>2. \A e \in record' : e \in record \/ e.row \in sweep.rows
        BY <2>1
    <2> QED
        BY <1>0, <2>1, <2>2 DEF AttemptRest, AttemptFailed
<1>4. CASE SweepDies
    <2>1. /\ sweep'.pc \in {AttemptFailed, "failed"} /\ sweep'.try = sweep.try
          /\ sweep'.rows = {} /\ record' = record
        BY <1>0, <1>4 DEF SweepDies
    <2> QED
        BY <1>0, <2>1 DEF AttemptRest, AttemptFailed
<1>5. CASE NextNight
    BY <1>5 DEF NextNight, NotYet, AttemptRest
<1>6. ASSUME NEW ok \in BOOLEAN, Count(ok) PROVE AttemptRest'
    <2>1. sweep.pc = "count" /\ record' = record
        BY <1>6 DEF Count
    <2>2. CASE ok
        <3>1. /\ sweep'.pc = "rewrite" /\ sweep'.try = sweep.try /\ sweep'.rows = sweep.rows
            BY <1>0, <1>6, <2>2 DEF Count
        <3> QED
            BY <1>0, <2>1, <3>1 DEF AttemptRest
    <2>3. CASE ~ ok
        <3> DEFINE row == After([NoRow EXCEPT !.table = Tended], FALSE)
        <3>1. Finished(row)
            BY <1>6, <2>3 DEF Count
        <3>2. RowTyped(row)
            BY <1>0, <2>1 DEF RowTyped, After, ErrorOfAny, NoRow
        <3> HIDE DEF row
        <3> QED
            BY <1>0, <2>1, <3>1, <3>2, FinishedTyped
    <2> QED
        BY <2>2, <2>3
<1>7. ASSUME NEW ok \in BOOLEAN, RewriteNothing(ok) \/ Expire(ok) \/ Orphans(ok)
      PROVE  AttemptRest'
    BY <1>0, <1>7, AdvanceTyped DEF RewriteNothing, Expire, Orphans
<1>8. ASSUME NEW n \in MinInputFiles..MaxCommits, Rewrite(n) PROVE AttemptRest'
    BY <1>0, <1>8, AdvanceTyped DEF Rewrite
<1>9. ASSUME NEW ok \in BOOLEAN, Recount(ok) PROVE AttemptRest'
    <2> DEFINE counted == [sweep.row EXCEPT !.after =
                       IF ok THEN FileCount(sweep.row.table) ELSE sweep.row.before]
               row == After(counted, ok)
    <2>1. Finished(row) /\ sweep.pc = "recount" /\ record' = record
        BY <1>9 DEF Recount
    <2>2. /\ sweep.row.table = Tended /\ sweep.row.error \in BOOLEAN
        BY <1>0, <2>1 DEF RowSoFar, AtTable
    <2>3. row.table = sweep.row.table /\ row.error = ErrorOfAny(sweep.row.error, ok)
        BY <1>0 DEF SweepShape, After
    <2>4. RowTyped(row)
        BY <1>0, <2>1, <2>2, <2>3 DEF RowTyped, ErrorOfAny, AtTable
    <2> HIDE DEF row
    <2> QED
        BY <1>0, <2>1, <2>4, FinishedTyped
<1>10. CASE UNCHANGED sweepVars
    BY <1>0, <1>10 DEF sweepVars, AttemptRest
<1> QED
    BY <1>1, <1>2, <1>3, <1>4, <1>5, <1>6, <1>7, <1>8, <1>9, <1>10 DEF SweepNext

(* The types of the log of a table, its snapshots and the night's rows.     *)
THEOREM SweepTypeCorrect == SweepSpec => []SweepTypeOK
<1>1. SweepInv /\ SweepRest /\ [SweepNext]_sweepVars => SweepInv' /\ SweepRest'
    BY NextSweepInv, NextLogRest, NextAttemptRest DEF SweepRest
<1>2. SweepInv /\ SweepRest => SweepTypeOK
    BY SweepTyped
<1> QED
    BY <1>1, <1>2, InitSweepInv, InitSweepRest, PTL DEF SweepSpec

(* The repair and the sweep together, in any order: no article lost, no     *)
(* fault hidden, no retained day unreadable.                                *)
THEOREM MaintenanceHolds == MaintenanceSpec => []MaintenanceTrue
<1>1. MaintenanceInit => SilverInit /\ SweepInit
    BY DEF MaintenanceInit
<1>2. [MaintenanceNext]_maintenanceVars => [SilverNext]_silverVars /\ [SweepNext]_sweepVars
    BY DEF MaintenanceNext, maintenanceVars
<1>3. ArticlesKept /\ SweepHonest => MaintenanceTrue
    BY DEF MaintenanceTrue
<1> QED
    BY <1>1, <1>2, <1>3, SilverArticlesKept, SweepIsHonest, PTL
       DEF MaintenanceSpec, SilverSpec, SweepSpec

-----------------------------------------------------------------------------
(* Observations.                                                           *)

(* What the source has published by a statement st, and before a day.      *)
Out(st) == {d \in Days : st[d] # Silent}
Prior(d, st) == {e \in Out(st) : e < d}

(* Rows that repeat the source: one a vintage, its figure, none skipped.   *)
Chronicle(R, st) ==
    /\ \A r \in R : r.vintage \in Out(st) /\ r.value = st[r.vintage]
    /\ \A r, q \in R : r.vintage = q.vintage => r = q
    /\ \A r \in R : \A e \in Prior(r.vintage, st) : \E q \in R : q.vintage = e

(* The revision a row is.                                                  *)
Figure(r, st) ==
    IF Prior(r.vintage, st) = {} \/ r.value = Missing THEN Null
    ELSE IF st[Max(Prior(r.vintage, st))] = Missing THEN Null
    ELSE r.value - st[Max(Prior(r.vintage, st))]

StatedOK ==
    /\ today \in Days
    /\ stated \in [Days -> Figures \cup {Missing, Silent}]
    /\ \A d \in Days : d > today => stated[d] = Silent

FetchOK ==
    /\ \A f \in fetches :
          /\ f.day \in Days /\ f.day <= today
          /\ Chronicle(f.rows, stated)
          /\ \A r \in f.rows : r.vintage <= f.day
          /\ \A e \in Prior(f.day, stated) : \E r \in f.rows : r.vintage = e
    /\ \A f, g \in fetches : f.day = g.day => f = g

FiguresShape ==
    /\ DOMAIN told = {"macro", "market"}
    /\ DOMAIN macro = {"pc", "read", "rows", "whole"}
    /\ DOMAIN market = {"pc", "read", "rows"}
    /\ macro.whole \in BOOLEAN
    /\ \A r \in vintages :
          /\ DOMAIN r = {"vintage", "value", "superseded", "latest", "delta"}
          /\ r.latest \in BOOLEAN

(* The table, whichever load died where.                                   *)
VintagesOK ==
    /\ Chronicle(vintages, stated)
    /\ \A r, q \in vintages : r.latest /\ q.latest => r = q
    /\ \A r \in vintages : r.delta = Null \/ r.delta = Figure(r, stated)
    /\ macro.whole => \A r \in vintages :
          /\ r.latest = (\A s \in vintages : s.vintage <= r.vintage)
          /\ r.delta = Figure(r, stated)

(* The rows R hold the vintages of every fetch up to the last of the days D*)
Holds(R, D) ==
    \A f \in fetches : (\E d \in D : f.day <= d) =>
        \A r \in f.rows : \E q \in R : q.vintage = r.vintage

MacroOK ==
    /\ told.macro \subseteq {f.day : f \in fetches}
    /\ Holds(vintages, told.macro)
    /\ macro.pc = "merge" =>
          /\ macro.read \subseteq {f.day : f \in fetches}
          /\ Chronicle(macro.rows, stated)
          /\ Holds(macro.rows, macro.read)

(* A load brings the newest close any load has read.                       *)
MarketOK ==
    /\ BarFresh
    /\ \A d \in told.market : \E f \in fetches : f.day = d /\ Quoted(f) # {}
    /\ market.pc = "merge" =>
          /\ \A d \in market.read : \E f \in fetches : f.day = d /\ Quoted(f) # {}
          /\ market.rows = {} => market.read = {}
          /\ \A b \in market.rows :
                /\ b.observed \in market.read
                /\ \A d \in told.market \cup market.read : d <= b.observed

ObservationsInv ==
    StatedOK /\ FetchOK /\ FiguresShape /\ VintagesOK /\ MacroOK /\ MarketOK

-----------------------------------------------------------------------------

(* Of days there is a last one.                                            *)
LEMMA LastDay ==
    ASSUME NEW D, D \subseteq Days, D # {}
    PROVE  /\ Max(D) \in D /\ \A d \in D : d <= Max(D)
           /\ \E m \in D : \A d \in D : d <= m
<1>1. D \subseteq Int /\ IsFiniteSet(D)
    <2>1. Days \subseteq Int /\ IsFiniteSet(Days)
        BY ObservationsAssumption, FS_Interval DEF Days
    <2> QED
        BY <2>1, FS_Subset
<1> QED
    BY <1>1, MaxMember

(* A publication of today changes nothing that was said before.            *)
LEMMA PublicationAdds ==
    ASSUME NEW t \in Days, NEW st, \A d \in Days : d >= t => st[d] = Silent,
           NEW new, new[t] # Silent, \A d \in Days : d # t => new[d] = st[d]
    PROVE  /\ Out(new) = Out(st) \cup {t}
           /\ \A d \in Out(st) : d < t /\ new[d] = st[d]
           /\ \A d \in Days : d <= t => Prior(d, new) = Prior(d, st)
           /\ \A R : Chronicle(R, st) => Chronicle(R, new)
           /\ \A r : r.vintage \in Out(st) => Figure(r, new) = Figure(r, st)
<1>1. \A d \in Days : d # t => new[d] = st[d]
    OBVIOUS
<1>2. Days \subseteq Int
    BY DEF Days
<1>3. Out(new) = Out(st) \cup {t}
    BY <1>1 DEF Out
<1>4. \A d \in Out(st) : d \in Days /\ d < t /\ d <= t /\ new[d] = st[d]
    BY <1>1, <1>2 DEF Out
<1>5. \A d \in Days : d <= t => Prior(d, new) = Prior(d, st)
    BY <1>2, <1>3 DEF Prior
<1>6. ASSUME NEW R, Chronicle(R, st) PROVE Chronicle(R, new)
    <2>1. \A r \in R : r.vintage \in Out(st) /\ r.vintage \in Days /\ r.vintage <= t
        BY <1>2, <1>4, <1>6 DEF Chronicle
    <2>2. \A r \in R : Prior(r.vintage, new) = Prior(r.vintage, st)
        BY <1>5, <2>1
    <2> QED
        BY <1>3, <1>4, <1>6, <2>1, <2>2 DEF Chronicle
<1>7. ASSUME NEW r, r.vintage \in Out(st) PROVE Figure(r, new) = Figure(r, st)
    <2>1. r.vintage \in Days /\ r.vintage <= t
        BY <1>2, <1>4, <1>7
    <2>2. Prior(r.vintage, new) = Prior(r.vintage, st)
        BY <1>5, <2>1
    <2>3. CASE Prior(r.vintage, st) = {}
        BY <2>2, <2>3 DEF Figure
    <2>4. CASE Prior(r.vintage, st) # {}
        <3>1. Max(Prior(r.vintage, st)) \in Out(st)
            BY <2>4, LastDay DEF Prior, Out
        <3>2. new[Max(Prior(r.vintage, st))] = st[Max(Prior(r.vintage, st))]
            BY <1>4, <3>1
        <3> QED
            BY <2>2, <3>2 DEF Figure
    <2> QED
        BY <2>3, <2>4
<1> QED
    BY <1>3, <1>4, <1>5, <1>6, <1>7

(* recompute_derived finds, in a table that repeats the source, what the   *)
(* source said before.                                                     *)
LEMMA DeltaIsFigure ==
    ASSUME NEW st, NEW T, Chronicle(T, st), NEW r \in T
    PROVE  Delta(r, T) = Figure(r, st)
<1> DEFINE before == {s \in T : s.vintage < r.vintage}
           lag == CHOOSE s \in before : \A q \in before : q.vintage <= s.vintage
           prior == Prior(r.vintage, st)
<1>1. \A s \in before : s.vintage \in prior /\ s.value = st[s.vintage]
    BY DEF Chronicle, Prior
<1>2. \A e \in prior : \E s \in before : s.vintage = e
    BY DEF Chronicle, Prior
<1>3. prior \subseteq Days /\ prior \subseteq Int
    BY DEF Prior, Out, Days
<1> HIDE DEF prior, before
<1>4. CASE prior = {}
    <2>1. before = {}
        BY <1>1, <1>4
    <2> QED
        BY <1>4, <2>1 DEF Delta, Figure, prior, before
<1>5. CASE prior # {}
    <2>1. Max(prior) \in prior /\ \A e \in prior : e <= Max(prior)
        BY <1>3, <1>5, LastDay
    <2>2. PICK s \in before : s.vintage = Max(prior)
        BY <1>2, <2>1
    <2>3. \A q \in before : q.vintage <= s.vintage
        BY <1>1, <2>1, <2>2
    <2>4. lag \in before /\ \A q \in before : q.vintage <= lag.vintage
        BY <2>3
    <2> HIDE DEF lag
    <2>5. lag.vintage = Max(prior)
        <3>1. lag.vintage \in prior /\ s.vintage <= lag.vintage /\ lag.vintage <= Max(prior)
            BY <1>1, <2>1, <2>4
        <3>2. lag.vintage \in Int /\ Max(prior) \in Int
            BY <1>3, <2>1, <3>1
        <3> QED
            BY <2>2, <3>1, <3>2
    <2>6. lag.value = st[Max(prior)]
        BY <1>1, <2>4, <2>5
    <2>7. before # {}
        BY <2>2
    <2> QED
        BY <1>5, <2>6, <2>7 DEF Delta, Figure, prior, before, lag
<1> QED
    BY <1>4, <1>5

(* The rows of the derived table.                                          *)
Again(r, T) == [r EXCEPT !.latest = \A s \in T : s.vintage <= r.vintage,
                         !.delta = Delta(r, T)]

LEMMA RederivedRows ==
    ASSUME NEW T,
           \A r \in T : DOMAIN r = {"vintage", "value", "superseded", "latest", "delta"}
    PROVE  /\ \A n \in Rederived(T) : \E r \in T : n = Again(r, T)
           /\ \A r \in T :
                 /\ Again(r, T) \in Rederived(T)
                 /\ Again(r, T).vintage = r.vintage /\ Again(r, T).value = r.value
                 /\ DOMAIN Again(r, T) = DOMAIN r
                 /\ Again(r, T).latest = (\A s \in T : s.vintage <= r.vintage)
                 /\ Again(r, T).delta = Delta(r, T)
<1>1. ASSUME NEW r \in T
      PROVE  /\ Again(r, T).vintage = r.vintage /\ Again(r, T).value = r.value
             /\ DOMAIN Again(r, T) = DOMAIN r
             /\ Again(r, T).latest = (\A s \in T : s.vintage <= r.vintage)
             /\ Again(r, T).delta = Delta(r, T)
    BY DEF Again
<1>2. Rederived(T) = {Again(r, T) : r \in T}
    BY DEF Rederived, Again
<1> QED
    BY <1>1, <1>2

(* Of every vintage the newest fetch of the window that has it.            *)
LEMMA ObservedRepeats ==
    ASSUME StatedOK, FetchOK
    PROVE  /\ Chronicle(Observed, stated)
           /\ \A f \in BronzeWindow : \A r \in f.rows : \E q \in Observed : q.vintage = r.vintage
<1> DEFINE Having(v) == {f \in BronzeWindow : \E s \in f.rows : s.vintage = v}
<1>1. /\ BronzeWindow \subseteq fetches
      /\ \A f \in BronzeWindow : f.day \in Days /\ f.day \in Int /\ Chronicle(f.rows, stated)
      /\ \A f, g \in BronzeWindow : f.day = g.day => f = g
    BY DEF BronzeWindow, FetchOK, Days
<1>2. ASSUME NEW v, Having(v) # {}
      PROVE  \E g \in Having(v) : \A f \in Having(v) : f.day <= g.day
    <2> DEFINE D == {f.day : f \in Having(v)}
    <2>1. D \subseteq Days /\ D # {}
        BY <1>1, <1>2
    <2>2. PICK m \in D : \A d \in D : d <= m
        <3> HIDE DEF D
        <3> QED
            BY <2>1, LastDay
    <2> QED
        BY <2>2
<1>3. \A r \in Observed : \E f \in BronzeWindow : r \in f.rows
    BY DEF Observed
<1>4. ASSUME NEW r \in Observed, NEW g \in Having(r.vintage),
             \A f \in Having(r.vintage) : f.day <= g.day
      PROVE  r \in g.rows
    <2>1. PICK h \in BronzeWindow : h.day >= g.day /\ r \in h.rows
        BY DEF Observed
    <2>2. h \in Having(r.vintage) /\ h.day \in Int /\ g.day \in Int /\ g \in BronzeWindow
        BY <1>1, <2>1
    <2>3. h.day = g.day
        BY <1>4, <2>1, <2>2
    <2> QED
        BY <1>1, <2>1, <2>2, <2>3
<1>5. ASSUME NEW f \in BronzeWindow, NEW r \in f.rows
      PROVE  \E q \in Observed : q.vintage = r.vintage
    <2>1. f \in Having(r.vintage)
        OBVIOUS
    <2>2. PICK g \in Having(r.vintage) : \A h \in Having(r.vintage) : h.day <= g.day
        <3> HIDE DEF Having
        <3> QED
            BY <1>2, <2>1
    <2>3. PICK q \in g.rows : q.vintage = r.vintage
        BY <2>2
    <2>4. \A h \in BronzeWindow : (\E s \in h.rows : s.vintage = q.vintage) => g.day >= h.day
        BY <1>1, <2>2, <2>3
    <2>5. q \in UNION {h.rows : h \in BronzeWindow} /\ g \in BronzeWindow
        BY <2>2, <2>3
    <2>6. q \in Observed
        BY <2>3, <2>4, <2>5 DEF Observed
    <2> QED
        BY <2>3, <2>6
<1>6. ASSUME NEW r \in Observed, NEW q \in Observed, r.vintage = q.vintage PROVE r = q
    <2>1. PICK f \in BronzeWindow : r \in f.rows
        BY <1>3
    <2>2. Having(r.vintage) # {}
        BY <2>1
    <2>3. PICK g \in Having(r.vintage) : \A h \in Having(r.vintage) : h.day <= g.day
        <3> HIDE DEF Having
        <3> QED
            BY <1>2, <2>2
    <2>4. r \in g.rows /\ q \in g.rows /\ g \in BronzeWindow
        BY <1>4, <1>6, <2>3
    <2> QED
        BY <1>1, <1>6, <2>4 DEF Chronicle
<1>7. Chronicle(Observed, stated)
    <2>1. ASSUME NEW r \in Observed
          PROVE  /\ r.vintage \in Out(stated) /\ r.value = stated[r.vintage]
                 /\ \A e \in Prior(r.vintage, stated) : \E q \in Observed : q.vintage = e
        <3>1. PICK f \in BronzeWindow : r \in f.rows
            BY <1>3
        <3>2. \A e \in Prior(r.vintage, stated) : \E s \in f.rows : s.vintage = e
            BY <1>1, <3>1 DEF Chronicle
        <3> QED
            BY <1>1, <1>5, <3>1, <3>2 DEF Chronicle
    <2> QED
        BY <1>6, <2>1 DEF Chronicle
<1> QED
    BY <1>5, <1>7

-----------------------------------------------------------------------------

LEMMA InitObservationsInv == ObservationsInit => ObservationsInv
<1> SUFFICES ASSUME ObservationsInit PROVE ObservationsInv
    OBVIOUS
<1>1. StatedOK /\ FetchOK
    BY ObservationsAssumption DEF ObservationsInit, StatedOK, FetchOK, Days
<1>2. FiguresShape
    BY DEF ObservationsInit, FiguresShape
<1>3. VintagesOK
    BY DEF ObservationsInit, VintagesOK, Chronicle
<1>4. MacroOK /\ MarketOK
    BY DEF ObservationsInit, MacroOK, MarketOK, Holds, BarFresh
<1> QED
    BY <1>1, <1>2, <1>3, <1>4 DEF ObservationsInv

LEMMA DayStep ==
    ASSUME ObservationsInv, NextDay PROVE ObservationsInv'
<1>1. /\ today < MaxDay /\ today' = today + 1
      /\ UNCHANGED <<stated, fetches, vintages, bar, macro, market, told>>
    BY DEF NextDay
<1>2. StatedOK /\ StatedOK'
    BY <1>1, ObservationsAssumption DEF ObservationsInv, StatedOK, Days
<1>3. FetchOK'
    <2>1. \A d \in Days : d <= today => d <= today'
        BY <1>1, <1>2 DEF StatedOK, Days
    <2> QED
        BY <1>1, <2>1 DEF ObservationsInv, FetchOK
<1> QED
    BY <1>1, <1>2, <1>3 DEF ObservationsInv, FiguresShape, VintagesOK, MacroOK, MarketOK, Holds,
                           BarFresh, Quoted

LEMMA PublishStep ==
    ASSUME ObservationsInv, NEW value \in Figures \cup {Missing}, Publish(value)
    PROVE  ObservationsInv'
<1>0. StatedOK /\ FetchOK /\ FiguresShape /\ VintagesOK /\ MacroOK /\ MarketOK
    BY DEF ObservationsInv
<1>1. /\ stated[today] = Silent /\ stated' = [stated EXCEPT ![today] = value]
      /\ UNCHANGED <<today, fetches, vintages, bar, macro, market, told>>
    BY DEF Publish
<1>2. value # Silent
    BY ObservationsAssumption
<1>3. /\ Out(stated') = Out(stated) \cup {today}
      /\ \A d \in Out(stated) : d < today /\ stated'[d] = stated[d]
      /\ \A d \in Days : d <= today => Prior(d, stated') = Prior(d, stated)
      /\ \A R : Chronicle(R, stated) => Chronicle(R, stated')
      /\ \A r : r.vintage \in Out(stated) => Figure(r, stated') = Figure(r, stated)
    <2>1. /\ today \in Days /\ stated \in [Days -> Figures \cup {Missing, Silent}]
          /\ \A d \in Days : d > today => stated[d] = Silent
        BY <1>0 DEF StatedOK
    <2>2. stated'[today] # Silent /\ \A d \in Days : d # today => stated'[d] = stated[d]
        BY <1>1, <1>2, <2>1
    <2>3. \A d \in Days : d >= today => stated[d] = Silent
        <3>1. \A d \in Days : d >= today => d > today \/ d = today
            BY <2>1 DEF Days
        <3> QED
            BY <1>1, <2>1, <3>1
    <2> QED
        BY <2>1, <2>2, <2>3, PublicationAdds
<1>4. StatedOK'
    <2>1. /\ today \in Days /\ stated \in [Days -> Figures \cup {Missing, Silent}]
          /\ \A d \in Days : d > today => stated[d] = Silent
        BY <1>0 DEF StatedOK
    <2>2. stated' \in [Days -> Figures \cup {Missing, Silent}]
        BY <1>1, <2>1
    <2>3. \A d \in Days : d > today => d # today
        BY <2>1 DEF Days
    <2> QED
        BY <1>1, <2>1, <2>2, <2>3 DEF StatedOK
<1>5. FetchOK'
    BY <1>0, <1>1, <1>3 DEF FetchOK
<1>6. VintagesOK'
    <2>1. \A r \in vintages : Figure(r, stated') = Figure(r, stated)
        BY <1>0, <1>3 DEF VintagesOK, Chronicle
    <2>2. Chronicle(vintages, stated')
        BY <1>0, <1>3 DEF VintagesOK
    <2> QED
        BY <1>0, <1>1, <2>1, <2>2 DEF VintagesOK
<1>7. MacroOK'
    BY <1>0, <1>1, <1>3 DEF MacroOK, Holds
<1>8. FiguresShape' /\ MarketOK'
    BY <1>0, <1>1 DEF FiguresShape, MarketOK, BarFresh, Quoted
<1> QED
    BY <1>4, <1>5, <1>6, <1>7, <1>8 DEF ObservationsInv

(* ALFRED's answer repeats the source.                                     *)
LEMMA VintagesRepeat ==
    ASSUME StatedOK
    PROVE  /\ Chronicle(Vintages(Publications), stated)
           /\ \A r \in Vintages(Publications) : r.vintage <= today
           /\ \A e \in Out(stated) : \E r \in Vintages(Publications) : r.vintage = e
<1> DEFINE End(d) == IF \E e \in Publications : e > d
                     THEN Min({e \in Publications : e > d}) - 1 ELSE StillCurrent
           Of(d) == [vintage |-> d, value |-> stated[d], superseded |-> End(d)]
<1>1. Publications = Out(stated)
    BY DEF Publications, Out
<1>2. Vintages(Publications) = {Of(d) : d \in Publications}
    BY DEF Vintages
<1> HIDE DEF End
<1>3. \A r \in Vintages(Publications) :
          r.vintage \in Publications /\ r = Of(r.vintage) /\ r.value = stated[r.vintage]
    BY <1>2
<1>4. \A d \in Publications : Of(d) \in Vintages(Publications) /\ Of(d).vintage = d
    BY <1>2
<1> HIDE DEF Of
<1>5. \A d \in Publications : d <= today
    BY DEF StatedOK, Publications, Days
<1> QED
    BY <1>1, <1>3, <1>4, <1>5 DEF Chronicle, Prior

LEMMA FetchStep ==
    ASSUME ObservationsInv, Fetch PROVE ObservationsInv'
<1>0. StatedOK /\ FetchOK /\ FiguresShape /\ VintagesOK /\ MacroOK /\ MarketOK
    BY DEF ObservationsInv
<1> DEFINE new == [day |-> today, rows |-> Vintages(Publications)]
<1>1. /\ \A f \in fetches : f.day # today
      /\ fetches' = fetches \cup {new}
      /\ UNCHANGED <<today, stated, vintages, bar, macro, market, told>>
    BY DEF Fetch
<1>2. new.day = today /\ new.rows = Vintages(Publications)
    OBVIOUS
<1> HIDE DEF new
<1>3. FetchOK'
    <2>1. /\ new.day \in Days /\ new.day <= today
          /\ Chronicle(new.rows, stated)
          /\ \A r \in new.rows : r.vintage <= new.day
          /\ \A e \in Prior(new.day, stated) : \E r \in new.rows : r.vintage = e
        BY <1>0, <1>2, VintagesRepeat DEF StatedOK, Days, Prior
    <2>2. \A f, g \in fetches' : f.day = g.day => f = g
        BY <1>0, <1>1, <1>2 DEF FetchOK
    <2> QED
        BY <1>0, <1>1, <2>1, <2>2 DEF FetchOK
<1>4. ASSUME NEW D, D \subseteq {f.day : f \in fetches} PROVE \A d \in D : ~ (new.day <= d)
    BY <1>0, <1>1, <1>2, <1>4 DEF FetchOK, StatedOK, Days
<1>5. \A D, R : D \subseteq {f.day : f \in fetches} /\ Holds(R, D) =>
          \A f \in fetches' : (\E d \in D : f.day <= d) =>
              \A r \in f.rows : \E q \in R : q.vintage = r.vintage
    BY <1>1, <1>4 DEF Holds
<1>6. MacroOK'
    <2>1. Holds(vintages, told.macro)'
        <3>1. told.macro \subseteq {f.day : f \in fetches} /\ Holds(vintages, told.macro)
            BY <1>0 DEF MacroOK
        <3>2. \A f \in fetches' : (\E d \in told.macro : f.day <= d) =>
                  \A r \in f.rows : \E q \in vintages : q.vintage = r.vintage
            BY <1>5, <3>1
        <3> QED
            BY <1>1, <3>2 DEF Holds
    <2>2. ASSUME macro.pc = "merge" PROVE Holds(macro.rows, macro.read)'
        <3>1. macro.read \subseteq {f.day : f \in fetches} /\ Holds(macro.rows, macro.read)
            BY <1>0, <2>2 DEF MacroOK
        <3>2. \A f \in fetches' : (\E d \in macro.read : f.day <= d) =>
                  \A r \in f.rows : \E q \in macro.rows : q.vintage = r.vintage
            BY <1>5, <3>1
        <3> QED
            BY <1>1, <3>2 DEF Holds
    <2> QED
        BY <1>0, <1>1, <2>1, <2>2 DEF MacroOK
<1>7. MarketOK'
    BY <1>0, <1>1 DEF MarketOK, BarFresh, Quoted
<1>8. StatedOK' /\ FiguresShape' /\ VintagesOK'
    BY <1>0, <1>1 DEF StatedOK, FiguresShape, VintagesOK
<1> QED
    BY <1>3, <1>6, <1>7, <1>8 DEF ObservationsInv

LEMMA BeginMacroStep ==
    ASSUME ObservationsInv, BeginMacro PROVE ObservationsInv'
<1>0. StatedOK /\ FetchOK /\ FiguresShape /\ VintagesOK /\ MacroOK /\ MarketOK
    BY DEF ObservationsInv
<1> DEFINE days == {f.day : f \in BronzeWindow}
<1>1. UNCHANGED <<today, stated, fetches, vintages, bar, market, told>>
    BY DEF BeginMacro
<1>2. /\ macro'.pc = "merge" /\ macro'.rows = Observed /\ macro'.read = days
      /\ macro'.whole = macro.whole /\ DOMAIN macro' = DOMAIN macro
    BY <1>0 DEF BeginMacro, FiguresShape
<1>3. /\ Chronicle(Observed, stated)
      /\ \A f \in BronzeWindow : \A r \in f.rows : \E q \in Observed : q.vintage = r.vintage
    BY <1>0, ObservedRepeats
<1>4. \A d \in days : \E g \in BronzeWindow : g.day = d
    OBVIOUS
<1>5. BronzeWindow \subseteq fetches /\ days \subseteq {f.day : f \in fetches}
    BY DEF BronzeWindow
<1> HIDE DEF days
<1>6. Holds(Observed, days)
    <2> SUFFICES ASSUME NEW f \in fetches, NEW d \in days, f.day <= d, NEW r \in f.rows
                 PROVE  \E q \in Observed : q.vintage = r.vintage
        BY DEF Holds
    <2>1. PICK g \in BronzeWindow : g.day = d
        BY <1>4
    <2>2. CASE f.day = d
        <3>1. f = g
            BY <1>0, <1>5, <2>1, <2>2 DEF FetchOK
        <3> QED
            BY <1>3, <3>1
    <2>3. CASE f.day # d
        <3>1. /\ r.vintage \in Out(stated) /\ r.vintage <= f.day
              /\ f.day \in Days /\ d \in Days
            BY <1>0, <1>5, <2>1 DEF FetchOK, Chronicle
        <3>2. r.vintage \in Days
            BY <3>1 DEF Out
        <3>3. r.vintage < d
            BY <2>3, <3>1, <3>2 DEF Days
        <3>4. r.vintage \in Prior(g.day, stated)
            BY <2>1, <3>1, <3>3 DEF Prior
        <3>5. \E s \in g.rows : s.vintage = r.vintage
            BY <1>0, <1>5, <2>1, <3>4 DEF FetchOK
        <3> QED
            BY <1>3, <3>5
    <2> QED
        BY <2>2, <2>3
<1>7. MacroOK'
    BY <1>0, <1>1, <1>2, <1>3, <1>5, <1>6 DEF MacroOK, Holds
<1>8. StatedOK' /\ FiguresShape' /\ FetchOK' /\ MarketOK'
    BY <1>0, <1>1, <1>2 DEF StatedOK, FiguresShape, FetchOK, MarketOK, BarFresh, Quoted
<1>9. VintagesOK'
    BY <1>0, <1>1, <1>2 DEF VintagesOK
<1> QED
    BY <1>7, <1>8, <1>9 DEF ObservationsInv

(* The vintages no load had brought join the others, unread so far.        *)
LEMMA MergeVintagesStep ==
    ASSUME ObservationsInv, MergeVintages PROVE ObservationsInv'
<1>0. StatedOK /\ FetchOK /\ FiguresShape /\ VintagesOK /\ MacroOK /\ MarketOK
    BY DEF ObservationsInv
<1> DEFINE new == {r \in macro.rows : r.vintage \notin {q.vintage : q \in vintages}}
           Fresh(r) == [vintage |-> r.vintage, value |-> r.value,
                        superseded |-> r.superseded, latest |-> FALSE, delta |-> Null]
           added == {Fresh(r) : r \in new}
<1>1. /\ macro.pc = "merge" /\ vintages' = vintages \cup added
      /\ macro' = [macro EXCEPT !.pc = IF vintages' = {} THEN "idle" ELSE "derive",
                                !.whole = (new = {} /\ macro.whole)]
      /\ told' = [told EXCEPT !.macro = @ \cup macro.read]
      /\ UNCHANGED <<today, stated, fetches, bar, market>>
    BY DEF MergeVintages
<1>2. /\ macro'.pc # "merge" /\ macro'.whole = (new = {} /\ macro.whole)
      /\ DOMAIN macro' = DOMAIN macro
    BY <1>0, <1>1 DEF FiguresShape
<1>3. /\ told'.macro = told.macro \cup macro.read /\ told'.market = told.market
      /\ DOMAIN told' = DOMAIN told
    BY <1>0, <1>1 DEF FiguresShape
<1>4. /\ Chronicle(macro.rows, stated) /\ Chronicle(vintages, stated)
      /\ macro.read \subseteq {f.day : f \in fetches}
      /\ Holds(macro.rows, macro.read) /\ Holds(vintages, told.macro)
    BY <1>0, <1>1 DEF MacroOK, VintagesOK
<1>5. \A a \in added : \E r \in new : a = Fresh(r)
    OBVIOUS
<1>6. \A r \in new : /\ Fresh(r) \in added
                     /\ Fresh(r).vintage = r.vintage /\ Fresh(r).value = r.value
                     /\ Fresh(r).latest = FALSE /\ Fresh(r).delta = Null
                     /\ DOMAIN Fresh(r) = {"vintage", "value", "superseded", "latest", "delta"}
    OBVIOUS
<1>7. \A r \in macro.rows : r \in new \/ \E q \in vintages : q.vintage = r.vintage
    OBVIOUS
<1>8. \A r \in new : r \in macro.rows /\ \A q \in vintages : q.vintage # r.vintage
    OBVIOUS
<1>9. new = {} => added = {}
    OBVIOUS
<1> HIDE DEF new, added, Fresh
<1>10. \A r \in macro.rows : \E q \in vintages' : q.vintage = r.vintage
    BY <1>1, <1>6, <1>7
<1>11. Chronicle(vintages', stated)
    <2>1. ASSUME NEW v \in vintages'
          PROVE  /\ v.vintage \in Out(stated) /\ v.value = stated[v.vintage]
                 /\ \A e \in Prior(v.vintage, stated) : \E q \in vintages' : q.vintage = e
        <3>1. CASE v \in vintages
            BY <1>1, <1>4, <3>1 DEF Chronicle
        <3>2. CASE v \in added
            <4>1. PICK r \in macro.rows : v.vintage = r.vintage /\ v.value = r.value
                BY <1>5, <1>6, <1>8, <3>2
            <4>2. \A e \in Prior(r.vintage, stated) : \E q \in macro.rows : q.vintage = e
                BY <1>4 DEF Chronicle
            <4> QED
                BY <1>4, <1>10, <4>1, <4>2 DEF Chronicle
        <3> QED
            BY <1>1, <3>1, <3>2
    <2>2. ASSUME NEW v \in vintages', NEW w \in vintages', v.vintage = w.vintage PROVE v = w
        <3>1. CASE v \in vintages /\ w \in vintages
            BY <1>4, <2>2, <3>1 DEF Chronicle
        <3>2. CASE v \in added /\ w \in added
            <4>1. PICK r \in new : v = Fresh(r)
                BY <1>5, <3>2
            <4>2. PICK q \in new : w = Fresh(q)
                BY <1>5, <3>2
            <4>3. r = q
                BY <1>4, <1>6, <1>8, <2>2, <4>1, <4>2 DEF Chronicle
            <4> QED
                BY <4>1, <4>2, <4>3
        <3>3. \A a \in added, q \in vintages : a.vintage # q.vintage
            BY <1>5, <1>6, <1>8
        <3> QED
            BY <1>1, <2>2, <3>1, <3>2, <3>3
    <2> QED
        BY <2>1, <2>2 DEF Chronicle
<1>12. \A a \in added : a.latest = FALSE /\ a.delta = Null
    BY <1>5, <1>6
<1>13. macro'.whole => macro.whole /\ vintages' = vintages
    BY <1>1, <1>2, <1>9
<1>14. VintagesOK'
    <2>1. \A r, q \in vintages' : r.latest /\ q.latest => r = q
        BY <1>0, <1>1, <1>12 DEF VintagesOK
    <2>2. \A r \in vintages' : r.delta = Null \/ r.delta = Figure(r, stated)
        BY <1>0, <1>1, <1>12 DEF VintagesOK
    <2> QED
        BY <1>0, <1>1, <1>11, <1>13, <2>1, <2>2 DEF VintagesOK
<1>15. MacroOK'
    <2>1. Holds(vintages, told.macro)'
        <3> SUFFICES ASSUME NEW f \in fetches, NEW d \in told.macro \cup macro.read,
                            f.day <= d, NEW r \in f.rows
                     PROVE  \E q \in vintages' : q.vintage = r.vintage
            BY <1>1, <1>3 DEF Holds
        <3>1. CASE d \in told.macro
            BY <1>1, <1>4, <3>1 DEF Holds
        <3>2. CASE d \in macro.read
            <4>1. PICK q \in macro.rows : q.vintage = r.vintage
                BY <1>4, <3>2 DEF Holds
            <4> QED
                BY <1>10, <4>1
        <3> QED
            BY <3>1, <3>2
    <2> QED
        BY <1>0, <1>1, <1>2, <1>3, <1>4, <2>1 DEF MacroOK
<1>16. FiguresShape'
    <2>1. \A a \in added :
              /\ DOMAIN a = {"vintage", "value", "superseded", "latest", "delta"}
              /\ a.latest \in BOOLEAN
        BY <1>5, <1>6, <1>12
    <2>2. macro'.whole \in BOOLEAN
        BY <1>2
    <2> QED
        BY <1>0, <1>1, <1>2, <1>3, <2>1, <2>2 DEF FiguresShape
<1>17. StatedOK' /\ FetchOK' /\ MarketOK'
    BY <1>0, <1>1, <1>3 DEF StatedOK, FetchOK, MarketOK, BarFresh, Quoted
<1> QED
    BY <1>14, <1>15, <1>16, <1>17 DEF ObservationsInv

(* The recompute gives every row its place and its revision.               *)
LEMMA DeriveStep ==
    ASSUME ObservationsInv, Derive PROVE ObservationsInv'
<1>0. StatedOK /\ FetchOK /\ FiguresShape /\ VintagesOK /\ MacroOK /\ MarketOK
    BY DEF ObservationsInv
<1>1. /\ vintages' = Rederived(vintages)
      /\ UNCHANGED <<today, stated, fetches, bar, market, told>>
    BY DEF Derive
<1>2. /\ macro'.pc = "idle" /\ macro'.whole = TRUE /\ DOMAIN macro' = DOMAIN macro
    BY <1>0 DEF Derive, FiguresShape
<1>3. /\ \A n \in vintages' : \E r \in vintages : n = Again(r, vintages)
      /\ \A r \in vintages :
            /\ Again(r, vintages) \in vintages'
            /\ Again(r, vintages).vintage = r.vintage /\ Again(r, vintages).value = r.value
            /\ DOMAIN Again(r, vintages) = DOMAIN r
            /\ Again(r, vintages).latest = (\A s \in vintages : s.vintage <= r.vintage)
            /\ Again(r, vintages).delta = Delta(r, vintages)
    BY <1>0, <1>1, RederivedRows DEF FiguresShape
<1>4. Chronicle(vintages, stated)
    BY <1>0 DEF VintagesOK
<1>5. Chronicle(vintages', stated)
    <2>1. ASSUME NEW n \in vintages'
          PROVE  /\ n.vintage \in Out(stated) /\ n.value = stated[n.vintage]
                 /\ \A e \in Prior(n.vintage, stated) : \E q \in vintages' : q.vintage = e
        <3>1. PICK r \in vintages : n = Again(r, vintages)
            BY <1>3
        <3>2. n.vintage = r.vintage /\ n.value = r.value
            BY <1>3, <3>1
        <3>3. ASSUME NEW e \in Prior(r.vintage, stated)
              PROVE  \E q \in vintages' : q.vintage = e
            <4>1. PICK s \in vintages : s.vintage = e
                BY <1>4 DEF Chronicle
            <4>2. Again(s, vintages) \in vintages' /\ Again(s, vintages).vintage = e
                BY <1>3, <4>1
            <4> QED
                BY <4>2
        <3> QED
            BY <1>4, <3>2, <3>3 DEF Chronicle
    <2>2. ASSUME NEW n \in vintages', NEW m \in vintages', n.vintage = m.vintage
          PROVE  n = m
        <3>1. PICK r \in vintages : n = Again(r, vintages)
            BY <1>3
        <3>2. PICK s \in vintages : m = Again(s, vintages)
            BY <1>3
        <3>3. r.vintage = s.vintage
            BY <1>3, <2>2, <3>1, <3>2
        <3>4. r = s
            BY <1>4, <3>3 DEF Chronicle
        <3> QED
            BY <3>1, <3>2, <3>4
    <2> QED
        BY <2>1, <2>2 DEF Chronicle
<1>6. ASSUME NEW n \in vintages'
      PROVE  /\ n.latest = (\A s \in vintages' : s.vintage <= n.vintage)
             /\ n.delta = Figure(n, stated)
    <2>1. PICK r \in vintages : n = Again(r, vintages)
        BY <1>3
    <2>2. n.vintage = r.vintage /\ n.value = r.value /\ n.delta = Delta(r, vintages)
          /\ n.latest = (\A s \in vintages : s.vintage <= r.vintage)
        BY <1>3, <2>1
    <2>3. (\A s \in vintages : s.vintage <= r.vintage)
              <=> (\A s \in vintages' : s.vintage <= r.vintage)
        <3>1. \A s \in vintages : \E m \in vintages' : m.vintage = s.vintage
            BY <1>3
        <3>2. \A m \in vintages' : \E s \in vintages : m.vintage = s.vintage
            BY <1>3
        <3> QED
            BY <3>1, <3>2
    <2>4. Delta(r, vintages) = Figure(r, stated)
        BY <1>4, DeltaIsFigure
    <2>5. Figure(n, stated) = Figure(r, stated)
        BY <2>2 DEF Figure
    <2> QED
        BY <2>2, <2>3, <2>4, <2>5
<1>7. ASSUME NEW n \in vintages', NEW m \in vintages', n.latest, m.latest PROVE n = m
    <2>1. n.vintage <= m.vintage /\ m.vintage <= n.vintage
        BY <1>6, <1>7
    <2>2. n.vintage \in Int /\ m.vintage \in Int
        BY <1>5 DEF Chronicle, Out, Days
    <2> QED
        BY <1>5, <2>1, <2>2 DEF Chronicle
<1>8. VintagesOK'
    BY <1>1, <1>5, <1>6, <1>7 DEF VintagesOK
<1>9. FiguresShape'
    <2>1. \A n \in vintages' : n.latest \in BOOLEAN
        BY <1>6
    <2>2. ASSUME NEW n \in vintages'
          PROVE  DOMAIN n = {"vintage", "value", "superseded", "latest", "delta"}
        <3>1. PICK r \in vintages : n = Again(r, vintages)
            BY <1>3
        <3> QED
            BY <1>0, <1>3, <3>1 DEF FiguresShape
    <2> QED
        BY <1>0, <1>1, <1>2, <2>1, <2>2 DEF FiguresShape
<1>10. MacroOK'
    <2>1. \A r \in vintages : \E n \in vintages' : n.vintage = r.vintage
        BY <1>3
    <2>2. Holds(vintages, told.macro)'
        BY <1>0, <1>1, <2>1 DEF Holds, MacroOK
    <2> QED
        BY <1>0, <1>1, <1>2, <2>2 DEF MacroOK
<1>11. StatedOK' /\ FetchOK' /\ MarketOK'
    BY <1>0, <1>1 DEF StatedOK, FetchOK, MarketOK, BarFresh, Quoted
<1> QED
    BY <1>8, <1>9, <1>10, <1>11 DEF ObservationsInv

(* A load reads the newest close of its window; one that was read before is*)
(* in the window still if the window has none that is newer.               *)
LEMMA BeginMarketStep ==
    ASSUME ObservationsInv, BeginMarket PROVE ObservationsInv'
<1>0. StatedOK /\ FetchOK /\ FiguresShape /\ VintagesOK /\ MacroOK /\ MarketOK
    BY DEF ObservationsInv
<1> DEFINE read == {b.observed : b \in Bars}
<1>1. /\ market' = [pc |-> "merge", rows |-> NewestBar, read |-> read]
      /\ UNCHANGED <<today, stated, fetches, vintages, bar, macro, told>>
    BY DEF BeginMarket
<1>2. /\ market'.pc = "merge" /\ market'.rows = NewestBar /\ market'.read = read
      /\ DOMAIN market' = {"pc", "read", "rows"}
    BY <1>1
<1>3. \A b \in Bars : \E f \in BronzeWindow : b.observed = f.day /\ Quoted(f) # {}
    BY DEF Bars
<1>4. ASSUME NEW f \in BronzeWindow, Quoted(f) # {} PROVE f.day \in read
    <2>1. PICK r \in Quoted(f) : TRUE
        BY <1>4
    <2>2. [value |-> r.value, observed |-> f.day] \in Bars
        BY DEF Bars
    <2> QED
        BY <2>2
<1>5. BronzeWindow \subseteq fetches
    BY DEF BronzeWindow
<1>6. \A d \in read : \E f \in BronzeWindow : f.day = d /\ Quoted(f) # {}
    BY <1>3
<1>7. read \subseteq Days
    BY <1>0, <1>5, <1>6 DEF FetchOK
<1>8. \A b \in NewestBar : b.observed \in read /\ \A d \in read : d <= b.observed
    BY DEF NewestBar
<1>9. read # {} => NewestBar # {}
    <2> SUFFICES ASSUME read # {} PROVE NewestBar # {}
        OBVIOUS
    <2>1. PICK m \in read : \A d \in read : d <= m
        <3> HIDE DEF read
        <3> QED
            BY <1>7, LastDay
    <2>2. PICK b \in Bars : b.observed = m
        OBVIOUS
    <2>3. b \in NewestBar
        BY <2>1, <2>2 DEF NewestBar
    <2> QED
        BY <2>3
<1> HIDE DEF read
<1>10. ASSUME NEW b \in NewestBar, NEW d \in told.market PROVE d <= b.observed
    <2>1. PICK f \in fetches : f.day = d /\ Quoted(f) # {}
        BY <1>0 DEF MarketOK
    <2>2. PICK g \in BronzeWindow : g.day = b.observed
        BY <1>6, <1>8
    <2>3. f.day \in Int /\ g.day \in Int /\ today \in Int /\ WindowDays \in Int
          /\ g.day >= today - WindowDays
        BY <1>0, <1>5, ObservationsAssumption DEF FetchOK, StatedOK, Days, BronzeWindow
    <2>4. CASE f.day <= g.day
        BY <2>1, <2>2, <2>4
    <2>5. CASE ~ (f.day <= g.day)
        <3>1. f \in BronzeWindow
            BY <2>3, <2>5 DEF BronzeWindow
        <3> QED
            BY <1>4, <1>8, <2>1, <3>1
    <2> QED
        BY <2>4, <2>5
<1>11. MarketOK'
    <2>1. \A d \in read : \E f \in fetches : f.day = d /\ Quoted(f) # {}
        BY <1>5, <1>6
    <2>2. NewestBar = {} => read = {}
        BY <1>9
    <2> QED
        BY <1>0, <1>1, <1>2, <1>8, <1>10, <2>1, <2>2 DEF MarketOK, BarFresh, Quoted
<1>12. StatedOK' /\ FetchOK' /\ FiguresShape'
    BY <1>0, <1>1, <1>2 DEF StatedOK, FetchOK, FiguresShape
<1>13. VintagesOK' /\ MacroOK'
    BY <1>0, <1>1 DEF VintagesOK, MacroOK, Holds
<1> QED
    BY <1>11, <1>12, <1>13 DEF ObservationsInv

LEMMA MergeBarsStep ==
    ASSUME ObservationsInv, MergeBars PROVE ObservationsInv'
<1>0. StatedOK /\ FetchOK /\ FiguresShape /\ VintagesOK /\ MacroOK /\ MarketOK
    BY DEF ObservationsInv
<1> DEFINE days == told.market \cup market.read
<1>1. /\ market.pc = "merge"
      /\ bar' = IF market.rows = {} THEN bar ELSE market.rows
      /\ UNCHANGED <<today, stated, fetches, vintages, macro>>
    BY DEF MergeBars
<1>2. /\ told'.market = days /\ told'.macro = told.macro /\ DOMAIN told' = DOMAIN told
      /\ market'.pc = "idle" /\ DOMAIN market' = DOMAIN market
    BY <1>0 DEF MergeBars, FiguresShape
<1>3. /\ \A d \in days : \E f \in fetches : f.day = d /\ Quoted(f) # {}
      /\ market.rows = {} => market.read = {}
      /\ \A b \in market.rows : b.observed \in days /\ \A d \in days : d <= b.observed
    BY <1>0, <1>1 DEF MarketOK
<1>4. days \subseteq Int
    BY <1>0, <1>3 DEF FetchOK, Days
<1>5. BarFresh'
    <2>1. CASE market.rows = {}
        <3>1. days = told.market
            BY <1>3, <2>1
        <3> QED
            BY <1>0, <1>1, <1>2, <2>1, <3>1 DEF MarketOK, BarFresh
    <2>2. CASE market.rows # {}
        <3> HIDE DEF days
        <3>1. \A b \in market.rows : Max(days) = b.observed
            BY <1>3, <1>4, MaxOfMember
        <3> QED
            BY <1>1, <1>2, <2>2, <3>1 DEF BarFresh
    <2> QED
        BY <2>1, <2>2
<1> HIDE DEF days
<1>6. MarketOK'
    BY <1>1, <1>2, <1>3, <1>5 DEF MarketOK, Quoted
<1>7. StatedOK' /\ FetchOK' /\ FiguresShape'
    BY <1>0, <1>1, <1>2 DEF StatedOK, FetchOK, FiguresShape
<1>8. VintagesOK' /\ MacroOK'
    BY <1>0, <1>1, <1>2 DEF VintagesOK, MacroOK, Holds
<1> QED
    BY <1>6, <1>7, <1>8 DEF ObservationsInv

(* A load that dies leaves what it had committed.                          *)
LEMMA LoadDeathStep ==
    ASSUME ObservationsInv, MacroDies \/ MarketDies PROVE ObservationsInv'
<1>0. StatedOK /\ FetchOK /\ FiguresShape /\ VintagesOK /\ MacroOK /\ MarketOK
    BY DEF ObservationsInv
<1>1. UNCHANGED <<today, stated, fetches, vintages, bar, told>>
    BY DEF MacroDies, MarketDies
<1>2. /\ DOMAIN macro' = DOMAIN macro /\ macro'.whole = macro.whole
      /\ DOMAIN market' = DOMAIN market
    BY <1>0 DEF MacroDies, MarketDies, FiguresShape
<1>3. macro' = macro \/ macro'.pc = "idle"
    BY <1>0 DEF MacroDies, MarketDies, FiguresShape
<1>4. market' = market \/ market'.pc = "idle"
    BY <1>0 DEF MacroDies, MarketDies, FiguresShape
<1>5. StatedOK' /\ FetchOK' /\ FiguresShape' /\ VintagesOK'
    BY <1>0, <1>1, <1>2 DEF StatedOK, FetchOK, FiguresShape, VintagesOK
<1>6. MacroOK'
    BY <1>0, <1>1, <1>3 DEF MacroOK, Holds
<1>7. MarketOK'
    BY <1>0, <1>1, <1>4 DEF MarketOK, BarFresh, Quoted
<1> QED
    BY <1>5, <1>6, <1>7 DEF ObservationsInv

LEMMA NextObservationsInv ==
    ObservationsInv /\ [ObservationsNext]_observationsVars => ObservationsInv'
<1> SUFFICES ASSUME ObservationsInv, [ObservationsNext]_observationsVars
             PROVE  ObservationsInv'
    OBVIOUS
<1>1. CASE NextDay
    BY <1>1, DayStep
<1>2. CASE Fetch
    BY <1>2, FetchStep
<1>3. ASSUME NEW value \in Figures \cup {Missing}, Publish(value) PROVE ObservationsInv'
    BY <1>3, PublishStep
<1>4. CASE BeginMacro
    BY <1>4, BeginMacroStep
<1>5. CASE MergeVintages
    BY <1>5, MergeVintagesStep
<1>6. CASE Derive
    BY <1>6, DeriveStep
<1>7. CASE BeginMarket
    BY <1>7, BeginMarketStep
<1>8. CASE MergeBars
    BY <1>8, MergeBarsStep
<1>9. CASE MacroDies \/ MarketDies
    BY <1>9, LoadDeathStep
<1>10. CASE UNCHANGED observationsVars
    <2>1. StatedOK' /\ FiguresShape'
        BY <1>10 DEF observationsVars, ObservationsInv, StatedOK, FiguresShape
    <2>2. FetchOK'
        BY <1>10 DEF observationsVars, ObservationsInv, FetchOK
    <2>3. VintagesOK'
        BY <1>10 DEF observationsVars, ObservationsInv, VintagesOK
    <2>4. MacroOK'
        BY <1>10 DEF observationsVars, ObservationsInv, MacroOK, Holds
    <2>5. MarketOK'
        BY <1>10 DEF observationsVars, ObservationsInv, MarketOK, BarFresh, Quoted
    <2> QED
        BY <2>1, <2>2, <2>3, <2>4, <2>5 DEF ObservationsInv
<1> QED
    BY <1>1, <1>2, <1>3, <1>4, <1>5, <1>6, <1>7, <1>8, <1>9, <1>10 DEF ObservationsNext

-----------------------------------------------------------------------------

LEMMA PublishedIsPrior ==
    ASSUME NEW r
    PROVE  /\ PublishedBefore(r.vintage) = Prior(r.vintage, stated)
           /\ Figure(r, stated) =
                  IF PublishedBefore(r.vintage) = {} \/ r.value = Missing THEN Null
                  ELSE IF Before(r.vintage) = Missing THEN Null
                  ELSE r.value - Before(r.vintage)
    BY DEF PublishedBefore, Before, Prior, Out, Publications, Figure

(* One row at most is current; a whole table is derived from the source;   *)
(* no fetch up to the last one merged is forgotten.                        *)
LEMMA VintagesFromInv == ASSUME ObservationsInv PROVE VintagesTrue
<1>0. FetchOK /\ FiguresShape /\ VintagesOK /\ MacroOK
    BY DEF ObservationsInv
<1>1. Cardinality({r \in vintages : r.latest}) <= 1
    <2>1. CASE {r \in vintages : r.latest} = {}
        BY <2>1, FS_EmptySet
    <2>2. CASE {r \in vintages : r.latest} # {}
        <3>1. PICK r \in vintages : r.latest
            BY <2>2
        <3>2. {q \in vintages : q.latest} = {r}
            BY <1>0, <3>1 DEF VintagesOK
        <3>3. Cardinality({r}) = 1
            BY FS_Singleton
        <3> QED
            BY <3>2, <3>3
    <2> QED
        BY <2>1, <2>2
<1>2. macro.whole => \A r \in vintages :
          /\ r.latest = (\A s \in vintages : s.vintage <= r.vintage)
          /\ r.delta = Figure(r, stated)
    BY <1>0 DEF VintagesOK
<1>3. ASSUME NEW f \in fetches, NEW d \in told.macro, f.day <= d, NEW r \in f.rows
      PROVE  \E v \in vintages : v.vintage = r.vintage /\ v.value = r.value
    <2>1. PICK v \in vintages : v.vintage = r.vintage
        BY <1>0, <1>3 DEF MacroOK, Holds
    <2>2. v.value = stated[v.vintage] /\ r.value = stated[r.vintage]
        BY <1>0 DEF VintagesOK, FetchOK, Chronicle
    <2> QED
        BY <2>1, <2>2
<1> QED
    BY <1>1, <1>2, <1>3, PublishedIsPrior DEF VintagesTrue

(* What is news of a row against what the source said before.              *)
LEMMA RevisionsFromInv == ASSUME ObservationsInv PROVE RevisionsTold
<1>0. StatedOK /\ VintagesOK
    BY DEF ObservationsInv
<1>1. /\ today \in Int /\ RevisionDays \in Int /\ Rounding \in Int /\ Missing \notin Int
      /\ Figures \subseteq Int /\ Missing # Silent
    BY <1>0, ObservationsAssumption DEF StatedOK, Days
<1>2. /\ \A d \in Out(stated) : d \in Int /\ (stated[d] = Missing \/ stated[d] \in Int)
      /\ \A r \in vintages : r.vintage \in Out(stated) /\ r.value = stated[r.vintage]
      /\ \A r, q \in vintages : r.vintage = q.vintage => r = q
    <2>1. \A d \in Out(stated) :
              /\ d \in Days /\ stated[d] \in Figures \cup {Missing, Silent}
              /\ stated[d] # Silent
        BY <1>0 DEF StatedOK, Out
    <2>2. \A d \in Out(stated) : d \in Int
        BY <2>1 DEF Days
    <2> QED
        BY <1>0, <1>1, <2>1, <2>2 DEF VintagesOK, Chronicle
<1>3. \A d : PublishedBefore(d) = Prior(d, stated) /\ Before(d) = stated[Max(Prior(d, stated))]
    BY DEF PublishedBefore, Before, Prior, Out, Publications
<1>4. ASSUME NEW d, Prior(d, stated) # {}
      PROVE  Before(d) = Missing \/ Before(d) \in Int
    <2>1. Max(Prior(d, stated)) \in Out(stated)
        BY <1>4, LastDay DEF Prior, Out
    <2> QED
        BY <1>2, <1>3, <2>1
<1>5. ASSUME NEW r \in vintages, r.delta = Figure(r, stated), r.delta # Null
      PROVE  /\ PublishedBefore(r.vintage) # {} /\ r.value \in Int /\ Before(r.vintage) \in Int
             /\ r.delta = r.value - Before(r.vintage)
    <2>1. r.value # Missing /\ PublishedBefore(r.vintage) # {} /\ Before(r.vintage) # Missing
          /\ r.delta = r.value - Before(r.vintage)
        BY <1>5, PublishedIsPrior DEF Null
    <2> QED
        BY <1>2, <1>3, <1>4, <2>1
<1>6. \A l \in RevisionLines : stated[l.vintage] = l.value /\ Before(l.vintage) = l.previous
    <2> SUFFICES ASSUME NEW r \in vintages, r.latest, News(r)
                 PROVE  /\ stated[r.vintage] = r.value
                        /\ Before(r.vintage) = r.value - r.delta
        BY DEF RevisionLines
    <2>1. r.delta # Null /\ r.delta = Figure(r, stated)
        BY <1>0 DEF News, VintagesOK
    <2>2. r.value \in Int /\ Before(r.vintage) \in Int /\ r.delta = r.value - Before(r.vintage)
        BY <1>5, <2>1
    <2> QED
        BY <1>2, <2>2
<1> DEFINE latest == Max({r.vintage : r \in vintages})
           figure == stated[latest]
           untold == IF Missing \in {figure, Before(latest)} THEN TRUE
                     ELSE \/ figure = Before(latest) \/ latest < today - RevisionDays
                          \/ Magnitude(figure - Before(latest)) * Rounding < Magnitude(figure)
<1>7. ASSUME macro.whole, vintages # {}, PublishedBefore(latest) # {}
      PROVE  (RevisionLines = {}) = untold
    <2>1. {r.vintage : r \in vintages} \subseteq Days /\ {r.vintage : r \in vintages} # {}
        BY <1>2, <1>7 DEF Out
    <2>2. latest \in {r.vintage : r \in vintages} /\ \A r \in vintages : r.vintage <= latest
        BY <2>1, LastDay
    <2> HIDE DEF latest
    <2>3. PICK top \in vintages : top.vintage = latest
        BY <2>2
    <2>4. /\ \A r \in vintages : r.latest = (\A s \in vintages : s.vintage <= r.vintage)
          /\ \A r \in vintages : r.delta = Figure(r, stated)
        BY <1>0, <1>7 DEF VintagesOK
    <2>5. top.latest
        BY <2>2, <2>3, <2>4
    <2>6. \A r \in vintages : r.latest => r = top
        BY <1>0, <2>5 DEF VintagesOK
    <2>7. RevisionLines = {} <=> ~ News(top)
        BY <2>5, <2>6 DEF RevisionLines
    <2>8. top.value = figure /\ latest \in Int /\ (figure = Missing \/ figure \in Int)
          /\ (Before(latest) = Missing \/ Before(latest) \in Int)
        BY <1>2, <1>3, <1>4, <1>7, <2>3
    <2>9. top.delta = IF figure = Missing THEN Null
                      ELSE IF Before(latest) = Missing THEN Null ELSE figure - Before(latest)
        BY <1>7, <2>3, <2>4, <2>8, PublishedIsPrior
    <2> HIDE DEF figure
    <2>10. CASE figure = Missing \/ Before(latest) = Missing
        <3>1. ~ News(top)
            BY <2>9, <2>10 DEF News
        <3> QED
            BY <2>7, <2>10, <3>1
    <2>11. CASE figure # Missing /\ Before(latest) # Missing
        <3> DEFINE delta == figure - Before(latest)
        <3>1. figure \in Int /\ Before(latest) \in Int /\ delta \in Int /\ top.delta = delta
            BY <2>8, <2>9, <2>11
        <3>2. /\ Magnitude(delta) * Rounding \in Int /\ Magnitude(figure) \in Int
              /\ delta = 0 <=> figure = Before(latest)
            BY <1>1, <3>1 DEF Magnitude
        <3> HIDE DEF delta
        <3>3. News(top) <=> /\ delta # 0 /\ latest >= today - RevisionDays
                            /\ Magnitude(delta) * Rounding >= Magnitude(figure)
            BY <1>1, <2>3, <2>8, <2>11, <3>1 DEF News, Null
        <3>4. ~ News(top) <=> \/ figure = Before(latest) \/ latest < today - RevisionDays
                              \/ Magnitude(delta) * Rounding < Magnitude(figure)
            BY <1>1, <2>8, <3>2, <3>3
        <3> QED
            BY <2>7, <2>11, <3>4 DEF delta
    <2> QED
        BY <2>10, <2>11
<1> QED
    BY <1>6, <1>7 DEF RevisionsTold, latest, figure

(* Restated history is kept as the source told it and what a brief tells of*)
(* it is true, for every figure, window, rounding and order of the loads.  *)
THEOREM ObservationsKept == ObservationsSpec => []RestatementsKept
<1>1. ObservationsInv => RestatementsKept
    BY VintagesFromInv, RevisionsFromInv DEF RestatementsKept, ObservationsInv, MarketOK
<1> QED
    BY <1>1, InitObservationsInv, NextObservationsInv, PTL DEF ObservationsSpec

(* What the types need beside that: a day after which every row is         *)
(* superseded, wherever it is on its way.                                  *)
ObservationsRest ==
    /\ macro.pc \in {"idle", "merge", "derive"} /\ market.pc \in {"idle", "merge"}
    /\ \A f \in fetches : \A r \in f.rows : r.superseded \in 0..StillCurrent
    /\ \A r \in macro.rows \cup vintages : r.superseded \in 0..StillCurrent

LEMMA ObservationsTyped == ASSUME ObservationsInv, ObservationsRest PROVE ObservationsTypeOK
<1>1. \A r \in vintages : r.vintage \in Days
    BY DEF ObservationsInv, VintagesOK, Chronicle, Out
<1> QED
    BY <1>1 DEF ObservationsInv, ObservationsRest, ObservationsTypeOK, StatedOK, FetchOK,
                FiguresShape

LEMMA VintagesDated ==
    ASSUME NEW r \in Vintages(Publications) PROVE r.superseded \in 0..StillCurrent
<1>1. PICK d \in Publications :
        r.superseded = IF \E e \in Publications : e > d
                       THEN Min({e \in Publications : e > d}) - 1 ELSE StillCurrent
    BY DEF Vintages
<1> DEFINE later == {e \in Publications : e > d}
<1>2. MaxDay \in Nat /\ d \in Nat /\ later \subseteq 0..MaxDay /\ later \subseteq Nat
      /\ \A e \in later : e > d
    BY ObservationsAssumption DEF Publications, Days
<1>3. CASE later # {}
    <2>1. r.superseded = Min(later) - 1
        BY <1>1, <1>3
    <2> HIDE DEF later
    <2>2. Min(later) \in later
        BY <1>2, <1>3, MinMember
    <2>3. Min(later) \in 0..MaxDay /\ Min(later) > d
        BY <1>2, <2>2
    <2> QED
        BY <1>2, <2>1, <2>3 DEF StillCurrent
<1>4. CASE later = {}
    BY <1>1, <1>2, <1>4 DEF StillCurrent
<1> QED
    BY <1>3, <1>4

LEMMA NextObservationsRest ==
    ObservationsInv /\ ObservationsRest /\ [ObservationsNext]_observationsVars
        => ObservationsRest'
<1> SUFFICES ASSUME ObservationsInv, ObservationsRest, [ObservationsNext]_observationsVars
             PROVE  ObservationsRest'
    OBVIOUS
<1>0. /\ ObservationsRest /\ FiguresShape
      /\ DOMAIN macro = {"pc", "read", "rows", "whole"}
      /\ DOMAIN market = {"pc", "read", "rows"}
    BY DEF ObservationsInv, FiguresShape
<1>1. CASE NextDay \/ UNCHANGED observationsVars
    BY <1>0, <1>1 DEF NextDay, observationsVars, ObservationsRest
<1>2. ASSUME NEW v \in Figures \cup {Missing}, Publish(v) PROVE ObservationsRest'
    BY <1>0, <1>2 DEF Publish, ObservationsRest
<1>3. CASE Fetch
    <2>1. /\ fetches' = fetches \cup {[day |-> today, rows |-> Vintages(Publications)]}
          /\ UNCHANGED <<vintages, macro, market>>
        BY <1>3 DEF Fetch
    <2>2. \A f \in fetches' : f \in fetches \/ f.rows = Vintages(Publications)
        BY <2>1
    <2> QED
        BY <1>0, <2>1, <2>2, VintagesDated DEF ObservationsRest
<1>4. CASE BeginMacro
    <2>1. /\ macro'.pc = "merge" /\ macro'.rows = Observed
          /\ UNCHANGED <<fetches, vintages, market>>
        BY <1>0, <1>4 DEF BeginMacro
    <2>2. \A r \in Observed : \E f \in fetches : r \in f.rows
        BY DEF Observed, BronzeWindow
    <2> QED
        BY <1>0, <2>1, <2>2 DEF ObservationsRest
<1>5. CASE MergeVintages
    <2> DEFINE new == {r \in macro.rows : r.vintage \notin {q.vintage : q \in vintages}}
    <2>1. /\ macro'.pc \in {"idle", "derive"} /\ macro'.rows = macro.rows
          /\ vintages' = vintages \cup
                {[vintage |-> r.vintage, value |-> r.value, superseded |-> r.superseded,
                  latest |-> FALSE, delta |-> Null] : r \in new}
          /\ UNCHANGED <<fetches, market>>
        BY <1>0, <1>5 DEF MergeVintages
    <2>2. \A r \in vintages' : r \in vintages \/ \E q \in macro.rows : r.superseded = q.superseded
        BY <2>1
    <2> QED
        BY <1>0, <2>1, <2>2 DEF ObservationsRest
<1>6. CASE Derive
    <2>1. /\ macro'.pc = "idle" /\ macro'.rows = macro.rows
          /\ vintages' = Rederived(vintages) /\ UNCHANGED <<fetches, market>>
        BY <1>0, <1>6 DEF Derive
    <2>2. \A q \in vintages :
              [q EXCEPT !.latest = \A s \in vintages : s.vintage <= q.vintage,
                        !.delta = Delta(q, vintages)].superseded = q.superseded
        BY <1>0 DEF FiguresShape
    <2>3. \A r \in vintages' : \E q \in vintages : r.superseded = q.superseded
        BY <2>1, <2>2 DEF Rederived
    <2> QED
        BY <1>0, <2>1, <2>3 DEF ObservationsRest
<1>7. CASE MacroDies
    BY <1>0, <1>7 DEF MacroDies, ObservationsRest
<1>8. CASE BeginMarket \/ MergeBars \/ MarketDies
    <2>1. market'.pc \in {"idle", "merge"} /\ UNCHANGED <<fetches, vintages, macro>>
        BY <1>0, <1>8 DEF BeginMarket, MergeBars, MarketDies
    <2> QED
        BY <1>0, <2>1 DEF ObservationsRest
<1> QED
    BY <1>1, <1>2, <1>3, <1>4, <1>5, <1>6, <1>7, <1>8 DEF ObservationsNext

LEMMA InitObservationsRest == ObservationsInit => ObservationsRest
    BY DEF ObservationsInit, ObservationsRest

(* The types of the restated figures and of the loads on their way.         *)
THEOREM ObservationsTypeCorrect == ObservationsSpec => []ObservationsTypeOK
<1>1. ObservationsInv /\ ObservationsRest /\ [ObservationsNext]_observationsVars => ObservationsInv' /\ ObservationsRest'
    BY NextObservationsInv, NextObservationsRest
<1>2. ObservationsInv /\ ObservationsRest => ObservationsTypeOK
    BY ObservationsTyped
<1> QED
    BY <1>1, <1>2, InitObservationsInv, InitObservationsRest, PTL DEF ObservationsSpec

-----------------------------------------------------------------------------
(* The streak                                                              *)

(* What the pass over the days has found when it stands at one of them:    *)
(* the run that ends there and cannot be extended backwards, the length of *)
(* the longest run so far, the holes so far.                               *)
UpTo(days, d, s) ==
    /\ s = [current |-> s.current, longest |-> s.longest, started |-> s.started,
            missing |-> s.missing, last |-> s.last]
    /\ s.last = d
    /\ s.started \in days /\ s.started <= d
    /\ s.started..d \subseteq days /\ s.started - 1 \notin days
    /\ s.current = d - s.started + 1
    /\ \E a, b \in days : a <= b /\ b <= d /\ a..b \subseteq days /\ s.longest = b - a + 1
    /\ \A a, b \in days : a <= b /\ b <= d /\ a..b \subseteq days => b - a + 1 <= s.longest
    /\ s.missing = {m \in Int : /\ m \notin days
                                /\ \E a, b \in days : a < m /\ m < b /\ b <= d}

LEMMA UpToUnique ==
    ASSUME NEW days, days \subseteq Nat, NEW d \in days, NEW r, NEW s,
           UpTo(days, d, r), UpTo(days, d, s)
    PROVE  r = s
<1>1. r.started \in Nat /\ s.started \in Nat /\ d \in Nat
    BY DEF UpTo
<1>2. r.started = s.started
    <2>1. ~ (r.started < s.started)
        <3> SUFFICES ASSUME r.started < s.started PROVE FALSE
            OBVIOUS
        <3>1. s.started - 1 \in r.started..d
            BY <1>1 DEF UpTo
        <3> QED
            BY <3>1 DEF UpTo
    <2>2. ~ (s.started < r.started)
        <3> SUFFICES ASSUME s.started < r.started PROVE FALSE
            OBVIOUS
        <3>1. r.started - 1 \in s.started..d
            BY <1>1 DEF UpTo
        <3> QED
            BY <3>1 DEF UpTo
    <2> QED
        BY <1>1, <2>1, <2>2
<1>3. r.longest = s.longest
    <2>1. PICK a, b \in days : /\ a <= b /\ b <= d /\ a..b \subseteq days
                               /\ r.longest = b - a + 1
        BY DEF UpTo
    <2>2. PICK e, f \in days : /\ e <= f /\ f <= d /\ e..f \subseteq days
                               /\ s.longest = f - e + 1
        BY DEF UpTo
    <2>3. b - a + 1 <= s.longest /\ f - e + 1 <= r.longest
        BY <2>1, <2>2 DEF UpTo
    <2>4. a \in Int /\ b \in Int /\ e \in Int /\ f \in Int
        OBVIOUS
    <2> QED
        BY <2>1, <2>2, <2>3, <2>4
<1>4. r.current = s.current /\ r.missing = s.missing /\ r.last = s.last
    BY <1>2 DEF UpTo
<1>5. /\ r = [current |-> r.current, longest |-> r.longest, started |-> r.started,
              missing |-> r.missing, last |-> r.last]
      /\ s = [current |-> s.current, longest |-> s.longest, started |-> s.started,
              missing |-> s.missing, last |-> s.last]
    BY DEF UpTo
<1> QED
    BY <1>2, <1>3, <1>4, <1>5

LEMMA StartedUpTo ==
    ASSUME NEW days, days \subseteq Nat, NEW d \in days, \A e \in days : d <= e
    PROVE  UpTo(days, d, Started(d))
<1>1. d \in Nat /\ d..d = {d} /\ d - 1 \notin days
    OBVIOUS
<1>2. \A a, b \in days : a <= b /\ b <= d => a = d /\ b = d
    <2> TAKE a, b \in days
    <2>1. a \in Nat /\ b \in Nat /\ d <= a /\ d <= b
        OBVIOUS
    <2> QED
        BY <1>1, <2>1
<1>3. {m \in Int : m \notin days /\ \E a, b \in days : a < m /\ m < b /\ b <= d} = {}
    <2> SUFFICES ASSUME NEW m \in Int, NEW a \in days, NEW b \in days,
                        a < m, m < b, b <= d
                 PROVE  FALSE
        OBVIOUS
    <2>1. a \in Nat /\ b \in Nat /\ d <= a
        OBVIOUS
    <2> QED
        BY <1>1, <2>1
<1>4. \E a, b \in days : a <= b /\ b <= d /\ a..b \subseteq days /\ 1 = b - a + 1
    <2>1. d <= d /\ d..d \subseteq days /\ 1 = d - d + 1
        BY <1>1
    <2> QED
        BY <2>1
<1>5. \A a, b \in days : a <= b /\ b <= d /\ a..b \subseteq days => b - a + 1 <= 1
    BY <1>1, <1>2
<1> QED
    BY <1>1, <1>3, <1>4, <1>5 DEF UpTo, Started

LEMMA ContinuedUpTo ==
    ASSUME NEW days, days \subseteq Nat, NEW d \in days, NEW p \in days, p < d,
           \A e \in days : e < d => e <= p,
           NEW r, UpTo(days, p, r)
    PROVE  UpTo(days, d, Continued(r, d))
<1> DEFINE next == d = p + 1
           run == IF next THEN r.current + 1 ELSE 1
           begun == IF next THEN r.started ELSE d
           holes == {m \in Int : /\ m \notin days
                                 /\ \E a, b \in days : a < m /\ m < b /\ b <= d}
<1>0. /\ d \in Nat /\ p \in Nat /\ r.started \in Nat /\ r.last = p
      /\ r.started <= p /\ r.current = p - r.started + 1
      /\ r.started..p \subseteq days /\ r.started - 1 \notin days
    BY DEF UpTo
<1>1. /\ begun \in days /\ begun <= d /\ begun..d \subseteq days
      /\ begun - 1 \notin days /\ run = d - begun + 1
    <2>1. CASE next
        <3>1. begun..d = (begun..p) \cup {d}
            BY <1>0, <2>1
        <3> QED
            BY <1>0, <2>1, <3>1 DEF UpTo
    <2>2. CASE ~next
        <3>1. d - 1 \notin days
            BY <1>0, <2>2
        <3>2. d..d = {d} /\ d <= d /\ 1 = d - d + 1
            BY <1>0
        <3> QED
            BY <2>2, <3>1, <3>2
    <2> QED
        BY <2>1, <2>2
<1>2. PICK a0, b0 \in days : /\ a0 <= b0 /\ b0 <= p /\ a0..b0 \subseteq days
                             /\ r.longest = b0 - a0 + 1
    BY DEF UpTo
<1>3. r.longest \in Int /\ begun \in Int /\ run \in Int
    <2>1. a0 \in Int /\ b0 \in Int
        OBVIOUS
    <2> QED
        BY <1>0, <1>1, <1>2, <2>1
<1> DEFINE best == Max({r.longest, run})
<1>4. (best = r.longest \/ best = run) /\ r.longest <= best /\ run <= best
    <2>1. CASE run <= r.longest
        BY <1>3, <2>1, MaxOfMember
    <2>2. CASE r.longest <= run
        BY <1>3, <2>2, MaxOfMember
    <2> QED
        BY <1>3, <2>1, <2>2
<1> HIDE DEF begun, run, best
<1>5. \E a, b \in days : a <= b /\ b <= d /\ a..b \subseteq days /\ best = b - a + 1
    <2>1. CASE best = r.longest
        <3>1. b0 <= d
            BY <1>0, <1>2, b0 \in Nat
        <3> QED
            BY <1>2, <2>1, <3>1
    <2>2. CASE best = run
        BY <1>0, <1>1, <2>2
    <2> QED
        BY <1>4, <2>1, <2>2
<1>6. ASSUME NEW a \in days, NEW b \in days, a <= b, b <= d, a..b \subseteq days
      PROVE  b - a + 1 <= best
    <2>0. a \in Nat /\ b \in Nat /\ best \in Int
        BY <1>3, <1>4
    <2>1. CASE b = d
        <3>1. ~ (a < begun)
            <4> SUFFICES ASSUME a < begun PROVE FALSE
                OBVIOUS
            <4>1. begun - 1 \in a..b
                BY <1>0, <1>1, <1>3, <2>0, <2>1
            <4> QED
                BY <1>1, <1>6, <4>1
        <3> QED
            BY <1>0, <1>1, <1>3, <1>4, <2>0, <2>1, <3>1
    <2>2. CASE b # d
        <3>1. b < d
            BY <1>0, <1>6, <2>0, <2>2
        <3>2. b <= p
            BY <3>1
        <3>3. b - a + 1 <= r.longest
            BY <1>6, <3>2 DEF UpTo
        <3> QED
            BY <1>3, <1>4, <2>0, <3>3
    <2> QED
        BY <2>1, <2>2
<1>7. r.missing \cup (p + 1)..(d - 1) = holes
    <2>1. ASSUME NEW m \in r.missing PROVE m \in holes
        <3>1. PICK a \in days, b \in days : a < m /\ m < b /\ b <= p
            BY <2>1 DEF UpTo
        <3>2. b <= d
            BY <1>0, <3>1, b \in Nat
        <3>3. m \in Int /\ m \notin days
            BY <2>1 DEF UpTo
        <3> QED
            BY <3>1, <3>2, <3>3
    <2>2. ASSUME NEW m \in (p + 1)..(d - 1) PROVE m \in holes
        <3>1. m \in Int /\ p < m /\ m < d /\ d <= d
            BY <1>0
        <3>2. m \notin days
            BY <1>0, <3>1
        <3> QED
            BY <3>1, <3>2
    <2>3. ASSUME NEW m \in holes PROVE m \in r.missing \cup (p + 1)..(d - 1)
        <3>1. PICK a \in days, b \in days : a < m /\ m < b /\ b <= d
            BY <2>3
        <3>2. m \in Int /\ m \notin days /\ a \in Nat /\ b \in Nat /\ m # p
            BY <2>3
        <3>3. CASE m < p
            <4>1. p <= p
                BY <1>0
            <4> QED
                BY <3>1, <3>2, <3>3, <4>1 DEF UpTo
        <3>4. CASE p < m
            BY <1>0, <3>1, <3>2, <3>4
        <3> QED
            BY <1>0, <3>2, <3>3, <3>4
    <2> HIDE DEF holes
    <2> QED
        BY <2>1, <2>2, <2>3
<1>8. Continued(r, d) = [current |-> run, longest |-> best, started |-> begun,
                         missing |-> holes, last |-> d]
    BY <1>0, <1>7 DEF Continued, run, best, begun
<1> QED
    BY <1>1, <1>5, <1>6, <1>8 DEF UpTo

LEMMA PreviousDay ==
    ASSUME NEW days, days \subseteq Nat, IsFiniteSet(days), NEW d \in days,
           d # Min(days)
    PROVE  /\ Previous(days, d) \in days /\ Previous(days, d) < d
           /\ \A e \in days : e < d => e <= Previous(days, d)
<1> DEFINE S == {e \in days : e < d}
<1>1. Min(days) \in S
    <2>1. Min(days) \in days /\ Min(days) <= d
        BY MinMember
    <2> QED
        BY <2>1, d \in Nat, Min(days) \in Nat
<1>2. S \subseteq Int /\ IsFiniteSet(S) /\ S # {}
    <2>1. S \in SUBSET days
        OBVIOUS
    <2> HIDE DEF S
    <2>2. S \subseteq Int
        BY <2>1
    <2> QED
        BY <1>1, <2>1, <2>2, FS_Subset
<1>3. Max(S) \in S /\ \A e \in S : e <= Max(S)
    <2> HIDE DEF S
    <2> QED
        BY <1>2, MaxMember
<1> QED
    BY <1>3 DEF Previous

(* The pass is a function over the days; there is exactly one.             *)
IsPass(days, f) ==
    f = [d \in days |-> IF d = Min(days) THEN Started(d)
                        ELSE Continued(f[Previous(days, d)], d)]

LEMMA PassUpTo ==
    ASSUME NEW days, days \subseteq Nat, IsFiniteSet(days), NEW f, IsPass(days, f)
    PROVE  \A d \in days : UpTo(days, d, f[d])
<1> DEFINE Wrong == {d \in days : ~UpTo(days, d, f[d])}
<1>1. SUFFICES ASSUME Wrong # {} PROVE FALSE
    OBVIOUS
<1>2. PICK d \in Wrong : \A e \in Wrong : d <= e
    <2>1. Wrong \subseteq Nat
        OBVIOUS
    <2> HIDE DEF Wrong
    <2> QED
        BY <1>1, <2>1, SmallestMember
<1>3. d \in days /\ d \in Nat /\ ~UpTo(days, d, f[d])
    OBVIOUS
<1>4. CASE d = Min(days)
    <2>1. f[d] = Started(d)
        BY <1>3, <1>4 DEF IsPass
    <2>2. \A e \in days : d <= e
        BY <1>3, <1>4, MinMember
    <2> QED
        BY <1>3, <2>1, <2>2, StartedUpTo
<1>5. CASE d # Min(days)
    <2> DEFINE p == Previous(days, d)
    <2>1. p \in days /\ p < d /\ \A e \in days : e < d => e <= p
        BY <1>3, <1>5, PreviousDay
    <2>2. f[d] = Continued(f[p], d)
        BY <1>3, <1>5 DEF IsPass
    <2>3. UpTo(days, p, f[p])
        <3>1. p \in Nat /\ ~ (d <= p)
            <4> HIDE DEF p
            <4>1. p \in Nat
                BY <2>1
            <4> QED
                BY <1>3, <2>1, <4>1
        <3>2. p \notin Wrong
            BY <1>2, <3>1
        <3> QED
            BY <2>1, <3>2
    <2> HIDE DEF p
    <2>4. UpTo(days, d, Continued(f[p], d))
        BY <1>3, <2>1, <2>3, ContinuedUpTo
    <2> QED
        BY <1>3, <2>2, <2>4
<1> QED
    BY <1>4, <1>5

LEMMA EveryDayUpTo ==
    ASSUME NEW days, days \subseteq Nat, IsFiniteSet(days)
    PROVE  \A d \in days : \E s : UpTo(days, d, s)
<1> DEFINE Wrong == {d \in days : ~ \E s : UpTo(days, d, s)}
<1>1. SUFFICES ASSUME Wrong # {} PROVE FALSE
    OBVIOUS
<1>2. PICK d \in Wrong : \A e \in Wrong : d <= e
    <2>1. Wrong \subseteq Nat
        OBVIOUS
    <2> HIDE DEF Wrong
    <2> QED
        BY <1>1, <2>1, SmallestMember
<1>3. d \in days /\ d \in Nat /\ ~ \E s : UpTo(days, d, s)
    OBVIOUS
<1>4. CASE d = Min(days)
    <2>1. \A e \in days : d <= e
        BY <1>3, <1>4, MinMember
    <2> QED
        BY <1>3, <2>1, StartedUpTo
<1>5. CASE d # Min(days)
    <2> DEFINE p == Previous(days, d)
    <2>1. p \in days /\ p < d /\ \A e \in days : e < d => e <= p
        BY <1>3, <1>5, PreviousDay
    <2>2. p \notin Wrong
        <3>1. p \in Nat /\ ~ (d <= p)
            <4> HIDE DEF p
            <4>1. p \in Nat
                BY <2>1
            <4> QED
                BY <1>3, <2>1, <4>1
        <3> QED
            BY <1>2, <3>1
    <2>3. PICK s : UpTo(days, p, s)
        BY <2>1, <2>2
    <2> HIDE DEF p
    <2>4. UpTo(days, d, Continued(s, d))
        BY <1>3, <2>1, <2>3, ContinuedUpTo
    <2> QED
        BY <1>3, <2>4
<1> QED
    BY <1>4, <1>5

LEMMA PassExists ==
    ASSUME NEW days, days \subseteq Nat, IsFiniteSet(days)
    PROVE  \E f : IsPass(days, f)
<1> DEFINE at(d) == CHOOSE s : UpTo(days, d, s)
           f == [d \in days |-> at(d)]
           again(d) == IF d = Min(days) THEN Started(d)
                       ELSE Continued(f[Previous(days, d)], d)
<1>1. \A d \in days : UpTo(days, d, at(d))
    BY EveryDayUpTo
<1>2. ASSUME NEW d \in days PROVE at(d) = again(d)
    <2>1. UpTo(days, d, at(d))
        BY <1>1
    <2>2. CASE d = Min(days)
        <3>1. \A e \in days : d <= e
            BY <2>2, MinMember
        <3>2. UpTo(days, d, Started(d))
            BY <3>1, StartedUpTo
        <3>3. again(d) = Started(d)
            BY <2>2
        <3> HIDE DEF again, at
        <3> QED
            BY <2>1, <3>2, <3>3, UpToUnique
    <2>3. CASE d # Min(days)
        <3> DEFINE p == Previous(days, d)
        <3>1. p \in days /\ p < d /\ \A e \in days : e < d => e <= p
            BY <2>3, PreviousDay
        <3>2. UpTo(days, p, at(p))
            BY <1>1, <3>1
        <3>3. again(d) = Continued(at(p), d)
            BY <2>3, <3>1
        <3> HIDE DEF again, at, p
        <3>4. UpTo(days, d, Continued(at(p), d))
            BY <3>1, <3>2, ContinuedUpTo
        <3> QED
            BY <2>1, <3>3, <3>4, UpToUnique
    <2> QED
        BY <2>2, <2>3
<1>3. f = [d \in days |-> again(d)]
    <2> HIDE DEF at, again
    <2> QED
        BY <1>2, Zenon
<1>4. IsPass(days, f)
    BY <1>3 DEF IsPass
<1> QED
    BY <1>4

LEMMA ComputedUpTo ==
    ASSUME NEW days, days \subseteq Nat, IsFiniteSet(days), days # {}
    PROVE  UpTo(days, Max(days), Computed(days))
<1> DEFINE pass == CHOOSE f : IsPass(days, f)
<1>1. IsPass(days, pass)
    BY PassExists
<1>2. Computed(days) = pass[Max(days)]
    BY DEF Computed, IsPass
<1>3. Max(days) \in days
    <2>1. days \subseteq Int
        OBVIOUS
    <2> QED
        BY <2>1, MaxMember
<1> HIDE DEF pass
<1> QED
    BY <1>1, <1>2, <1>3, PassUpTo

(* The days the table has, and what a page under way has read.             *)
StreakInv ==
    /\ morning \in Nat /\ briefed \subseteq 1..morning
    /\ ~tableMade => briefed = {} /\ edition.pc \notin {"deleted", "recorded"}
    /\ edition.pc # "none" => edition.day \in 1..morning
    /\ edition.pc = "rendered" => edition.says = StreakRead(edition.day)
    /\ edition.pc \in {"deleted", "recorded"} =>
           \/ edition.says = Computed(briefed \cup {edition.day})
           \/ edition.says = StreakUnknown /\ briefed \subseteq {edition.day}
    /\ edition.pc = "recorded" => edition.day \in briefed
    /\ DOMAIN edition = {"pc", "day", "says"}

LEMMA NextStreakInv == StreakInv /\ [StreakNext]_streakVars => StreakInv'
<1> SUFFICES ASSUME StreakInv, [StreakNext]_streakVars PROVE StreakInv'
    OBVIOUS
<1>0. StreakInv
    OBVIOUS
<1>1. CASE NextMorning
    <2>1. morning' \in Nat /\ \A S : S \subseteq 1..morning => S \subseteq 1..morning'
        BY <1>1 DEF NextMorning, StreakInv
    <2>2. edition.pc # "none" => edition.day \in 1..morning'
        BY <1>1 DEF NextMorning, StreakInv
    <2> QED
        BY <1>1, <2>1, <2>2 DEF NextMorning, StreakInv, StreakRead
<1>2. CASE RecordNothing
    BY <1>2 DEF RecordNothing, StreakInv, StreakRead
<1>3. CASE ClearDay
    <2> DEFINE day == edition.day
    <2>1. /\ edition.pc = "rendered" /\ tableMade' /\ morning' = morning
          /\ edition' = [edition EXCEPT !.pc = "deleted"]
          /\ briefed' = briefed \ ({day} \ spared)
        BY <1>3 DEF ClearDay
    <2>2. /\ edition'.pc = "deleted" /\ edition'.day = day
          /\ edition'.says = edition.says /\ DOMAIN edition' = {"pc", "day", "says"}
        BY <2>1 DEF StreakInv
    <2>3. briefed' \cup {day} = briefed \cup {day} /\ briefed' \subseteq briefed
        BY <2>1
    <2>4. \/ edition.says = Computed(briefed' \cup {day})
          \/ edition.says = StreakUnknown /\ briefed' \subseteq {day}
        BY <2>1, <2>3 DEF StreakInv, StreakRead
    <2>5. day \in 1..morning /\ briefed' \subseteq 1..morning /\ morning \in Nat
        BY <2>1, <2>3 DEF StreakInv
    <2> HIDE DEF day
    <2> QED
        BY <2>1, <2>2, <2>4, <2>5 DEF StreakInv
<1>4. CASE RecordDay
    <2> DEFINE day == edition.day
    <2>1. /\ edition.pc = "deleted" /\ tableMade' = tableMade /\ morning' = morning
          /\ edition' = [edition EXCEPT !.pc = "recorded"]
          /\ briefed' = briefed \cup {day}
        BY <1>4 DEF RecordDay
    <2>2. /\ edition'.pc = "recorded" /\ edition'.day = day
          /\ edition'.says = edition.says /\ DOMAIN edition' = {"pc", "day", "says"}
        BY <2>1 DEF StreakInv
    <2>3. /\ briefed' \cup {day} = briefed \cup {day} /\ day \in briefed'
          /\ briefed \subseteq {day} => briefed' \subseteq {day}
        BY <2>1
    <2>4. \/ edition.says = Computed(briefed' \cup {day})
          \/ edition.says = StreakUnknown /\ briefed' \subseteq {day}
        BY <2>1, <2>3 DEF StreakInv
    <2>5. /\ day \in 1..morning /\ briefed' \subseteq 1..morning /\ morning \in Nat
          /\ tableMade
        BY <2>1, <2>3 DEF StreakInv
    <2> HIDE DEF day
    <2> QED
        BY <2>1, <2>2, <2>3, <2>4, <2>5 DEF StreakInv
<1>5. CASE BuildDies
    BY <1>5 DEF BuildDies, StreakInv, StreakRead
<1>6. ASSUME NEW d \in 1..morning, MarkRow(d) PROVE StreakInv'
    BY <1>6 DEF MarkRow, StreakInv, StreakRead
<1>7. ASSUME NEW d \in 1..morning, Render(d) PROVE StreakInv'
    <2>1. edition' = [pc |-> "rendered", day |-> d, says |-> StreakRead(d)]
          /\ morning' = morning /\ briefed' = briefed /\ tableMade' = tableMade
        BY <1>7 DEF Render
    <2>2. edition'.says = StreakRead(d)'
        BY <2>1 DEF StreakRead
    <2> QED
        BY <1>7, <2>1, <2>2 DEF StreakInv, StreakRead
<1>8. CASE UNCHANGED streakVars
    BY <1>8 DEF streakVars, StreakInv, StreakRead
<1> QED
    BY <1>1, <1>2, <1>3, <1>4, <1>5, <1>6, <1>7, <1>8 DEF StreakNext

LEMMA BriefedFinite ==
    ASSUME StreakInv
    PROVE  IsFiniteSet(briefed) /\ briefed \subseteq Nat /\ briefed \subseteq Int
<1>1. morning \in Nat /\ briefed \in SUBSET (1..morning)
    BY DEF StreakInv
<1>2. IsFiniteSet(1..morning)
    BY <1>1, FS_Interval
<1>3. IsFiniteSet(briefed)
    BY <1>1, <1>2, FS_Subset
<1>4. 1..morning \subseteq Nat /\ 1..morning \subseteq Int
    BY <1>1
<1> QED
    BY <1>1, <1>3, <1>4

LEMMA CountFromInv == ASSUME StreakInv PROVE CountTrue
<1> DEFINE s == Computed(briefed)
           top == Max(briefed)
           runs == {I \in {a..b : a, b \in briefed} : I # {} /\ I \subseteq briefed}
           sizes == {Cardinality(I) : I \in runs}
           skipped == {d \in 1..morning : /\ d \notin briefed
                                          /\ \E a, b \in briefed : a < d /\ d < b}
<1>1. CASE briefed = {}
    BY <1>1 DEF CountTrue, Computed
<1>2. CASE briefed # {}
    <2>1. top \in briefed /\ (\A n \in briefed : n <= top) /\ top \in Nat
        <3>1. top \in briefed /\ \A n \in briefed : n <= top
            BY <1>2, BriefedFinite, MaxMember
        <3> QED
            BY <3>1, BriefedFinite
    <2>2. UpTo(briefed, top, s)
        BY <1>2, BriefedFinite, ComputedUpTo
    <2> HIDE DEF s, top
    <2>3. /\ s.started \in briefed /\ s.started \in Nat /\ s.started <= top
          /\ s.started..top \subseteq briefed /\ s.started - 1 \notin briefed
          /\ s.current = top - s.started + 1
        BY <2>2, BriefedFinite DEF UpTo
    <2>4. s.started..top \in runs
        <3>1. top \in s.started..top
            BY <2>1, <2>3
        <3> QED
            BY <2>1, <2>3, <3>1
    <2>5. \A a, b \in Int : a <= b => Cardinality(a..b) = b - a + 1
        BY FS_Interval
    <2>6. s.current = Cardinality(s.started..top)
        BY <2>1, <2>3, <2>5
    <2>7. s.longest \in sizes
        <3>1. PICK a, b \in briefed : /\ a <= b /\ b <= top /\ a..b \subseteq briefed
                                      /\ s.longest = b - a + 1
            BY <2>2 DEF UpTo
        <3>2. a \in Int /\ b \in Int
            BY BriefedFinite
        <3>3. a \in a..b /\ Cardinality(a..b) = s.longest
            BY <2>5, <3>1, <3>2
        <3>4. a..b \in runs
            BY <3>1, <3>3
        <3> HIDE DEF runs
        <3>5. Cardinality(a..b) \in sizes
            BY <3>4
        <3> QED
            BY <3>3, <3>5
    <2>8. ASSUME NEW n \in sizes PROVE n \in Int /\ n <= s.longest
        <3>1. PICK I \in runs : n = Cardinality(I)
            BY <2>8
        <3>2. PICK a \in briefed, b \in briefed : I = a..b
            BY <3>1
        <3>3. a..b # {} /\ a..b \subseteq briefed
            BY <3>1, <3>2
        <3>4. a \in Int /\ b \in Int
            BY BriefedFinite
        <3>5. a <= b
            BY <3>3, <3>4
        <3>6. n = b - a + 1 /\ b <= top
            BY <2>1, <2>5, <3>1, <3>2, <3>4, <3>5
        <3> QED
            BY <2>2, <3>3, <3>4, <3>5, <3>6 DEF UpTo
    <2>9. s.longest = Max(sizes)
        <3>1. sizes \subseteq Int /\ \A n \in sizes : n <= s.longest
            BY <2>8
        <3> HIDE DEF sizes
        <3> QED
            BY <2>7, <3>1, MaxOfMember
    <2>10. s.missing = skipped
        <3>1. ASSUME NEW m \in s.missing PROVE m \in skipped
            <4>1. m \in Int /\ m \notin briefed
                BY <2>2 DEF UpTo
            <4>2. PICK a \in briefed, b \in briefed : a < m /\ m < b
                BY <2>2 DEF UpTo
            <4>3. a \in 1..morning /\ b \in 1..morning /\ morning \in Nat
                BY DEF StreakInv
            <4>4. m \in 1..morning
                BY <4>1, <4>2, <4>3
            <4> QED
                BY <4>1, <4>2, <4>4
        <3>2. ASSUME NEW m \in skipped PROVE m \in s.missing
            <4>1. m \in Int /\ m \notin briefed
                BY DEF StreakInv
            <4>2. PICK a \in briefed, b \in briefed : a < m /\ m < b
                OBVIOUS
            <4>3. b <= top
                BY <2>1
            <4> QED
                BY <2>2, <4>1, <4>2, <4>3 DEF UpTo
        <3> HIDE DEF skipped
        <3> QED
            BY <3>1, <3>2
    <2> HIDE DEF runs, sizes, skipped
    <2> QED
        BY <1>2, <2>3, <2>4, <2>6, <2>9, <2>10 DEF CountTrue, s, top, runs, sizes, skipped
<1> QED
    BY <1>1, <1>2

(* The tolerance is of one day at the most: the day before this morning is *)
(* the last briefed one, or the run goes through it.                       *)
LEMMA LiveFromInv == ASSUME StreakInv PROVE LiveClaim
<1> DEFINE s == Computed(briefed)
<1>1. SUFFICES ASSUME Live(s, morning), NEW k \in 1..(s.current - 1)
               PROVE  morning - k \in briefed
    BY DEF LiveClaim
<1>2. briefed # {}
    BY <1>1 DEF Live, Computed, NoStreak
<1>3. Max(briefed) \in briefed
    BY <1>2, BriefedFinite, MaxMember
<1>4. UpTo(briefed, Max(briefed), s)
    BY <1>2, BriefedFinite, ComputedUpTo
<1> HIDE DEF s
<1>5. /\ s.last \in briefed /\ s.last \in Nat /\ s.last <= morning /\ morning \in Nat
      /\ s.started \in Nat /\ s.current = s.last - s.started + 1
      /\ s.started..s.last \subseteq briefed
    <2>1. /\ s.last \in briefed /\ s.started \in briefed
          /\ s.current = s.last - s.started + 1 /\ s.started..s.last \subseteq briefed
        BY <1>3, <1>4 DEF UpTo
    <2>2. morning \in Nat /\ s.last \in 1..morning /\ s.started \in 1..morning
        BY <2>1 DEF StreakInv
    <2>3. s.last \in Nat /\ s.last <= morning /\ s.started \in Nat
        BY <2>2
    <2> QED
        BY <2>1, <2>2, <2>3
<1>6. morning - s.last <= 1
    BY <1>1, <1>5, StreakAssumption DEF Live
<1>7. morning - k \in s.started..s.last
    BY <1>5, <1>6
<1> QED
    BY <1>5, <1>7

LEMMA PageFromInv == ASSUME StreakInv PROVE PageCounts
<1>1. SUFFICES ASSUME edition.pc = "recorded"
               PROVE  IF edition.says = StreakUnknown THEN briefed = {edition.day}
                      ELSE edition.says = Computed(briefed)
    BY DEF PageCounts
<1>2. edition.day \in briefed /\ briefed \cup {edition.day} = briefed
    BY <1>1 DEF StreakInv
<1>3. Computed(briefed) # StreakUnknown
    <2>1. Max(briefed) \in Nat
        BY <1>2, BriefedFinite, MaxMember
    <2>2. Computed(briefed).last = Max(briefed)
        BY <1>2, BriefedFinite, ComputedUpTo DEF UpTo
    <2>3. StreakUnknown.last = -1
        BY DEF StreakUnknown, NoStreak
    <2> QED
        BY <2>1, <2>2, <2>3
<1> QED
    BY <1>1, <1>2, <1>3 DEF StreakInv

(* For every history of mornings, marks, rebuilds and deaths: the streak   *)
(* computed is the one the table has, a live one is a claim about mornings *)
(* that all had a brief, and the number a recorded page printed is the one *)
(* its own rows complete.                                                  *)
THEOREM StreakIsTrue == StreakSpec => []StreakTrue
<1>1. StreakInit => StreakInv
    BY DEF StreakInit, StreakInv
<1>2. StreakInv => StreakTrue
    BY CountFromInv, LiveFromInv, PageFromInv DEF StreakTrue
<1> QED
    BY <1>1, <1>2, NextStreakInv, PTL DEF StreakSpec

StreakRest ==
    /\ morning \in 1..LastMorning /\ tableMade \in BOOLEAN
    /\ spared \subseteq briefed
    /\ edition.pc \in {"none", "rendered", "deleted", "recorded"}
    /\ edition.says.current \in 0..LastMorning

LEMMA InitStreakRest == StreakInit => StreakRest
<1> SUFFICES ASSUME StreakInit PROVE StreakRest
    OBVIOUS
<1>1. edition.pc = "none" /\ edition.says.current = 0
    BY DEF StreakInit, NoStreak
<1>2. LastMorning \in Nat /\ LastMorning >= 1
    BY StreakAssumption
<1>3. morning \in 1..LastMorning /\ 0 \in 0..LastMorning
    BY <1>2 DEF StreakInit
<1>4. tableMade \in BOOLEAN /\ spared \subseteq briefed
    BY DEF StreakInit
<1> QED
    BY <1>1, <1>3, <1>4 DEF StreakRest

(* The day of a page is a morning there has been, and no count exceeds it. *)
LEMMA StreakReadTyped ==
    ASSUME StreakInv, StreakRest, NEW d \in 1..morning
    PROVE  StreakRead(d).current \in 0..LastMorning
<1> DEFINE days == briefed \cup {d}
           s == Computed(days)
<1>1. /\ morning \in Nat /\ LastMorning \in Nat /\ morning <= LastMorning
      /\ days \subseteq 1..morning /\ days # {}
    BY StreakAssumption DEF StreakInv, StreakRest
<1>2. days \subseteq Nat /\ days \subseteq Int /\ IsFiniteSet(days)
    <2>1. IsFiniteSet(1..morning) /\ 1..morning \subseteq Nat /\ 1..morning \subseteq Int
        BY <1>1, FS_Interval
    <2> HIDE DEF days
    <2> QED
        BY <1>1, <2>1, FS_Subset
<1> HIDE DEF days
<1>3. UpTo(days, Max(days), s) /\ Max(days) \in days
    BY <1>1, <1>2, ComputedUpTo, MaxMember
<1>4. /\ s.started \in 1..morning /\ Max(days) \in 1..morning /\ s.started <= Max(days)
      /\ s.current = Max(days) - s.started + 1
    BY <1>1, <1>3 DEF UpTo
<1>5. s.current \in 0..LastMorning
    BY <1>1, <1>4
<1>6. StreakUnknown.current = 0
    BY DEF StreakUnknown, NoStreak
<1> QED
    BY <1>1, <1>5, <1>6 DEF StreakRead, days

LEMMA NextStreakRest ==
    StreakInv /\ StreakRest /\ [StreakNext]_streakVars => StreakRest'
<1> SUFFICES ASSUME StreakInv, StreakRest, [StreakNext]_streakVars PROVE StreakRest'
    OBVIOUS
<1>0. /\ StreakRest /\ StreakInv
      /\ DOMAIN edition = {"pc", "day", "says"} /\ LastMorning \in Nat
    BY StreakAssumption DEF StreakInv
<1>1. CASE NextMorning
    BY <1>0, <1>1 DEF NextMorning, StreakRest
<1>2. CASE RecordNothing \/ ClearDay \/ RecordDay \/ BuildDies
    <2>1. /\ edition'.pc \in {"none", "deleted", "recorded"}
          /\ edition'.says = edition.says
          /\ morning' = morning /\ spared' = spared /\ tableMade' \in {tableMade, TRUE}
          /\ \A d \in spared : d \in briefed => d \in briefed'
        BY <1>0, <1>2 DEF RecordNothing, ClearDay, RecordDay, BuildDies
    <2> QED
        BY <1>0, <2>1 DEF StreakRest
<1>3. ASSUME NEW d \in 1..morning, MarkRow(d) PROVE StreakRest'
    BY <1>0, <1>3 DEF MarkRow, StreakRest
<1>4. ASSUME NEW d \in 1..morning, Render(d) PROVE StreakRest'
    BY <1>0, <1>4, StreakReadTyped DEF Render, StreakRest
<1>5. CASE UNCHANGED streakVars
    BY <1>0, <1>5 DEF streakVars, StreakRest
<1> QED
    BY <1>1, <1>2, <1>3, <1>4, <1>5 DEF StreakNext

(* The types of the days and of the page that counts them.                  *)
THEOREM StreakTypeCorrect == StreakSpec => []StreakTypeOK
<1>1. StreakInit => StreakInv /\ StreakRest
    BY InitStreakRest DEF StreakInit, StreakInv
<1>2. StreakInv /\ StreakRest /\ [StreakNext]_streakVars => StreakInv' /\ StreakRest'
    BY NextStreakInv, NextStreakRest
<1>3. StreakInv /\ StreakRest => StreakTypeOK
    BY DEF StreakInv, StreakRest, StreakTypeOK
<1> QED
    BY <1>1, <1>2, <1>3, PTL DEF StreakSpec

-----------------------------------------------------------------------------
(* The tables together.                                                    *)

(* Whichever table moves, every other job stutters: an execution of the    *)
(* tables is one of each of their specifications, so what is proved of a    *)
(* job above is true of the tables.  (The spans start with their own        *)
(* dictionary only where it is they that move.)                             *)
THEOREM TablesRunTheirJobs ==
    MCSpec => /\ StoriesSpec /\ ResolutionSpec /\ ObservationsSpec
              /\ MaintenanceSpec /\ HealthSpec /\ ThreadsSpec
              /\ PageSpec /\ StreakSpec
<1>1. MCInit => /\ StoriesInit /\ ResolutionInit /\ ObservationsInit
                /\ MaintenanceInit /\ HealthInit /\ ThreadsInit
                /\ PageInit /\ StreakInit
    BY DEF MCInit, ResolutionInit, MaintenanceInit, PageInit
<1>2. [MCNext]_MCvars => [StoriesNext]_storiesVars
    BY DEF MCNext, MCvars, OnStories, OnMentions, OnDimension, OnObservations, OnArticles,
           OnHealth, OnComments, OnLinks, OnPage, OnEmbeddings, OnSweep, OnStreak
<1>3. [MCNext]_MCvars => [ResolutionNext]_resolutionVars
    BY DEF MCNext, MCvars, OnStories, OnMentions, OnDimension, OnObservations, OnArticles,
           OnHealth, OnComments, OnLinks, OnPage, OnEmbeddings, OnSweep, OnStreak,
           ResolutionNext, resolutionVars
<1>4. [MCNext]_MCvars => [ObservationsNext]_observationsVars
    BY DEF MCNext, MCvars, OnStories, OnMentions, OnDimension, OnObservations, OnArticles,
           OnHealth, OnComments, OnLinks, OnPage, OnEmbeddings, OnSweep, OnStreak
<1>5. [MCNext]_MCvars => [MaintenanceNext]_maintenanceVars
    BY DEF MCNext, MCvars, OnStories, OnMentions, OnDimension, OnObservations, OnArticles,
           OnHealth, OnComments, OnLinks, OnPage, OnEmbeddings, OnSweep, OnStreak,
           MaintenanceNext, maintenanceVars
<1>6. [MCNext]_MCvars => [HealthNext]_healthVars
    BY DEF MCNext, MCvars, OnStories, OnMentions, OnDimension, OnObservations, OnArticles,
           OnHealth, OnComments, OnLinks, OnPage, OnEmbeddings, OnSweep, OnStreak
<1>7. [MCNext]_MCvars => [ThreadsNext]_threadsVars
    BY DEF MCNext, MCvars, OnStories, OnMentions, OnDimension, OnObservations, OnArticles,
           OnHealth, OnComments, OnLinks, OnPage, OnEmbeddings, OnSweep, OnStreak
<1>8. [MCNext]_MCvars => [PageNext]_pageVars
    BY DEF MCNext, MCvars, OnStories, OnMentions, OnDimension, OnObservations, OnArticles,
           OnHealth, OnComments, OnLinks, OnPage, OnEmbeddings, OnSweep, OnStreak,
           PageNext, pageVars
<1>9. [MCNext]_MCvars => [StreakNext]_streakVars
    BY DEF MCNext, MCvars, OnStories, OnMentions, OnDimension, OnObservations, OnArticles,
           OnHealth, OnComments, OnLinks, OnPage, OnEmbeddings, OnSweep, OnStreak
<1> QED
    BY <1>1, <1>2, <1>3, <1>4, <1>5, <1>6, <1>7, <1>8, <1>9, PTL
       DEF MCSpec, StoriesSpec, ResolutionSpec, ObservationsSpec, MaintenanceSpec,
           HealthSpec, ThreadsSpec, PageSpec, StreakSpec

(* The spans, where it is they that are resolved; elsewhere there is none. *)
LinksMove ==
    /\ table \in Focus
    /\ IF table = "links" THEN LinkingInv /\ LinkTyped ELSE span = Unknown

LEMMA LinksMoving == MCSpec => []LinksMove
<1>1. MCInit => LinksMove
    BY DEF MCInit, LinksMove, LinkingInit, LinkingInv, LinkTyped
<1>2. LinksMove /\ [MCNext]_MCvars => LinksMove'
    <2> SUFFICES ASSUME LinksMove, [MCNext]_MCvars PROVE LinksMove'
        OBVIOUS
    <2>1. table' = table /\ (table # "links" => span' = span)
        BY DEF MCNext, MCvars, OnStories, OnMentions, OnDimension, OnObservations, OnArticles,
               OnHealth, OnComments, OnLinks, OnPage, OnEmbeddings, OnSweep, OnStreak,
               linkingVars
    <2>2. [LinkingNext]_linkingVars
        BY DEF MCNext, MCvars, OnStories, OnMentions, OnDimension, OnObservations, OnArticles,
               OnHealth, OnComments, OnLinks, OnPage, OnEmbeddings, OnSweep, OnStreak
    <2> QED
        BY <2>1, <2>2, NextLinkingInv, NextLinkTyped DEF LinksMove
<1> QED
    BY <1>1, <1>2, PTL DEF MCSpec

(* Every variable of the twelve modules has its type, whichever table       *)
(* moves.                                                                   *)
THEOREM TablesTypeCorrect == MCSpec => []TablesTypeOK
<1>1. LinksMove => table \in Focus /\ (table = "links" => LinkingTypeOK)
    BY LinkingTyped DEF LinksMove
<1>2. MaintenanceSpec => SilverSpec /\ SweepSpec
    <2>1. MaintenanceInit => SilverInit /\ SweepInit
        BY DEF MaintenanceInit
    <2>2. [MaintenanceNext]_maintenanceVars => [SilverNext]_silverVars /\ [SweepNext]_sweepVars
        BY DEF MaintenanceNext, maintenanceVars
    <2> QED
        BY <2>1, <2>2, PTL DEF MaintenanceSpec, SilverSpec, SweepSpec
<1>3. PageSpec => RankingSpec /\ EmbeddingsSpec
    <2>1. PageInit => RankingInit /\ EmbeddingsInit
        BY DEF PageInit
    <2>2. [PageNext]_pageVars => [RankingNext]_rankingVars /\ [EmbeddingsNext]_embeddingsVars
        BY DEF PageNext, pageVars
    <2> QED
        BY <2>1, <2>2, PTL DEF PageSpec, RankingSpec, EmbeddingsSpec
<1>4. /\ StoriesTypeOK /\ ResolutionTypeOK /\ ObservationsTypeOK /\ SilverTypeOK
      /\ SweepTypeOK /\ HealthTypeOK /\ ThreadsTypeOK /\ RankingTypeOK
      /\ EmbeddingsTypeOK /\ StreakTypeOK
      /\ table \in Focus /\ (table = "links" => LinkingTypeOK)
      => TablesTypeOK
    BY DEF TablesTypeOK, ResolutionTypeOK
<1> QED
    BY <1>1, <1>2, <1>3, <1>4, TablesRunTheirJobs, LinksMoving, StoriesTypeCorrect,
       ResolutionTypeCorrect, ObservationsTypeCorrect, SilverTypeCorrect, SweepTypeCorrect,
       HealthTypeCorrect, ThreadsTypeCorrect, PageTypeCorrect, EmbeddingsTypeCorrect,
       StreakTypeCorrect, PTL

(* What the run over the tables checks, for every value of the constants:  *)
(* the stories are exact, the dimension and the mentions true, no article  *)
(* lost, no fault hidden, no page out of order.                            *)
THEOREM TablesHold ==
    MCSpec => [](/\ StoriesExact /\ ResolveTrue /\ RestatementsKept
                 /\ MaintenanceTrue /\ HealthTrue /\ ThreadsTrue
                 /\ LinksEarned /\ PageTrue /\ StreakTrue)
<1>1. LinksMove => LinksEarned
    <2>1. span = Unknown => LinksEarned
        BY DEF LinksEarned
    <2> QED
        BY <2>1, LinksFromInv DEF LinksMove
<1> QED
    BY <1>1, TablesRunTheirJobs, LinksMoving, StoriesAreExact, ResolutionTrue,
       ObservationsKept, MaintenanceHolds, HealthIsTrue, ThreadsResolved, PageIsTrue,
       StreakIsTrue, PTL

=============================================================================
