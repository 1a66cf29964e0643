---------------------------- MODULE EnrichProofs ----------------------------
(***************************************************************************)
(* The cache and the retry bound of the enrichment hold for any number of  *)
(* clusters, texts, attempts, edits and failures.  One inductive invariant *)
(* carries them: while a batch works through its heads, what it has        *)
(* inferred and copied is new to the tables, and every refused answer is   *)
(* in the batch, lost with one, or paid for by an attempt.                 *)
(***************************************************************************)
EXTENDS Enrich, FiniteSetTheorems, TLAPS

-----------------------------------------------------------------------------
(* Facts about the sets the batch counts.                                  *)

(* What a batch inferred or had refused is finite, whatever the text.      *)
LEMMA CountsAreNat ==
    ASSUME TypeOK
    PROVE  /\ Cardinality(Clusters) \in Nat
           /\ \A t \in Texts :
                /\ IsFiniteSet(RefusedIn(t))
                /\ Cardinality(RefusedIn(t)) \in Nat
                /\ Cardinality(RefusedIn(t)) <= Cardinality(Clusters)
                /\ Cardinality(InferredFor(t)) \in Nat
<1>1. IsFiniteSet(Clusters)
  BY EnrichAssumption
<1>2. ASSUME NEW t \in Texts
      PROVE  RefusedIn(t) \subseteq Clusters /\ InferredFor(t) \subseteq Clusters
  BY DEF TypeOK, RefusedIn, InferredFor
<1> QED
  BY <1>1, <1>2, FS_Subset, FS_CardinalityType

(* A text is inferred at most once in a batch, and not at all when it has  *)
(* a row.                                                                  *)
LEMMA OneInBatch ==
    ASSUME TypeOK, OneSource, InferredNew, NEW t \in Texts
    PROVE  /\ Cardinality(InferredFor(t)) \in 0..1
           /\ (\E c \in Clusters : rows[<<c, t>>] > 0)
                => Cardinality(InferredFor(t)) = 0
           /\ Cardinality(InferredFor(t)) > 0
                => \E c \in batch.inferred : head[c] = t
           /\ (\E c \in batch.inferred : head[c] = t)
                => Cardinality(InferredFor(t)) = 1
<1>1. CASE InferredFor(t) = {}
  <2>1. Cardinality(InferredFor(t)) = 0
    BY <1>1, FS_EmptySet
  <2>2. ~ \E c \in batch.inferred : head[c] = t
    BY <1>1 DEF InferredFor
  <2> QED
    BY <2>1, <2>2
<1>2. CASE InferredFor(t) # {}
  <2>1. PICK c \in batch.inferred : head[c] = t
    BY <1>2 DEF InferredFor
  <2>2. InferredFor(t) = {c}
    BY <2>1 DEF InferredFor, OneSource
  <2>3. Cardinality(InferredFor(t)) = 1
    BY <2>2, FS_Singleton
  <2>4. \A d \in Clusters : rows[<<d, head[c]>>] = 0
    BY DEF InferredNew
  <2>5. \A d \in Clusters : rows[<<d, t>>] = 0
    BY <2>1, <2>4
  <2>6. ASSUME NEW d \in Clusters, rows[<<d, t>>] > 0
        PROVE  FALSE
    <3>1. rows[<<d, t>>] = 0
      BY <2>5
    <3> QED
      BY <2>6, <3>1
  <2>7. ~ \E d \in Clusters : rows[<<d, t>>] > 0
    BY <2>6
  <2>8. Cardinality(InferredFor(t)) \in 0..1
    BY <2>3
  <2>9. \E d \in batch.inferred : head[d] = t
    BY <2>1
  <2> QED
    BY <2>3, <2>7, <2>8, <2>9
<1> QED
  BY <1>1, <1>2

-----------------------------------------------------------------------------

(* Nothing is stored, asked or refused at the start.                       *)
THEOREM EnrichInit == Init => IInv
<1> SUFFICES ASSUME Init PROVE IInv
  OBVIOUS
<1> USE EnrichAssumption DEF Init
<1>1. TypeOK
  BY DEF TypeOK, Idle
<1>2. NoDoublePair /\ OneInference /\ HonestHit /\ FreshStored
  <2>1. /\ \A p \in Clusters \X Texts : rows[p] = 0
        /\ \A t \in Texts : fresh[t] = 0
    OBVIOUS
  <2>2. \A t \in Texts, c \in Clusters : rows[<<c, t>>] = 0
    BY <2>1
  <2>3. NoDoublePair /\ OneInference
    BY <2>1 DEF NoDoublePair, OneInference
  <2>4. HonestHit
    BY <2>2 DEF HonestHit
  <2>5. FreshStored
    BY <2>1 DEF FreshStored
  <2> QED
    BY <2>3, <2>4, <2>5
<1>3. BelowBound
  BY DEF BelowBound, Idle
<1>4. Counted
  <2> SUFFICES ASSUME NEW t \in Texts
               PROVE  refused[t] <= lost[t] + Cardinality(RefusedIn(t))
                                    + Cardinality(Clusters) * attempts[t]
    BY DEF Counted
  <2>1. Cardinality(RefusedIn(t)) \in Nat /\ Cardinality(Clusters) \in Nat
    BY <1>1, CountsAreNat
  <2>2. refused[t] = 0 /\ lost[t] = 0 /\ attempts[t] = 0
    OBVIOUS
  <2> QED
    BY <2>1, <2>2
<1> QED
  BY <1>1, <1>2, <1>3, <1>4 DEF IInv, Idle

(* Steps that only move heads between the sets of the batch, or change no  *)
(* more than the texts of an idle batch, keep what is said of the tables.  *)
LEMMA TablesKept ==
    ASSUME IInv, UNCHANGED tables
    PROVE  (NoDoublePair /\ OneInference /\ HonestHit /\ FreshStored)'
BY DEF IInv, tables, NoDoublePair, OneInference, HonestHit, FreshStored

(* The count of refusals is kept by a step that refuses and loses none.    *)
LEMMA CountKept ==
    ASSUME IInv, UNCHANGED <<head, refused, lost, attempts>>,
           batch'.rejects = batch.rejects
    PROVE  Counted'
<1>1. \A t \in Texts : RefusedIn(t)' = RefusedIn(t)
  BY DEF RefusedIn
<1> QED
  BY <1>1 DEF IInv, Counted

LEMMA EditKeeps ==
    ASSUME IInv, Edit PROVE IInv'
<1> USE DEF Edit, tables
<1>1. PICK c \in Clusters, t \in Texts : head' = [head EXCEPT ![c] = t]
  OBVIOUS
<1>2. TypeOK'
  <2>1. head' \in [Clusters -> Texts]
    BY <1>1 DEF IInv, TypeOK
  <2> QED
    BY <2>1, EnrichAssumption DEF IInv, TypeOK
<1>3. batch = Idle /\ batch' = Idle /\ batch.rejects = {} /\ batch'.rejects = {}
  BY DEF Idle
<1>4. Counted'
  <2>1. \A u \in Texts : RefusedIn(u)' = RefusedIn(u)
    BY <1>3 DEF RefusedIn
  <2> QED
    BY <2>1 DEF IInv, Counted
<1>5. BelowBound'
  BY <1>3 DEF BelowBound
<1>6. (NoDoublePair /\ OneInference /\ HonestHit /\ FreshStored)'
  BY TablesKept
<1> QED
  BY <1>2, <1>3, <1>4, <1>5, <1>6 DEF IInv, Idle

LEMMA SelectKeeps ==
    ASSUME IInv, Select PROVE IInv'
<1>1. /\ batch = Idle
      /\ batch' = [pc |-> "heads", todo |-> Clusters, inferred |-> {},
                   copied |-> {}, rejects |-> {}]
      /\ UNCHANGED <<head, tables, history>>
  BY DEF Select, Idle
<1>2. batch.rejects = {}
  BY <1>1 DEF Idle
<1>3. TypeOK'
  BY <1>1 DEF IInv, TypeOK, tables, history
<1>4. (OneSource /\ InferredNew /\ CopiedNew /\ CopyFounded)'
  BY <1>1 DEF OneSource, InferredNew, CopiedNew, CopyFounded
<1>5. BelowBound'
  BY <1>1 DEF BelowBound
<1>6. Counted'
  BY <1>1, <1>2, CountKept DEF tables, history
<1>7. (NoDoublePair /\ OneInference /\ HonestHit /\ FreshStored)'
  BY <1>1, TablesKept
<1> QED
  BY <1>1, <1>3, <1>4, <1>5, <1>6, <1>7 DEF IInv

-----------------------------------------------------------------------------
(* One head.                                                               *)

LEMMA SkipKeeps ==
    ASSUME IInv, NEW c \in Clusters, Skip(c) PROVE IInv'
<1> USE DEF Skip, Heading, tables, history
<1>1. /\ batch.pc = "heads"
      /\ batch' = [batch EXCEPT !.todo = @ \ {c}]
  OBVIOUS
<1>2. /\ batch'.pc = "heads" /\ batch'.todo = batch.todo \ {c}
      /\ batch'.inferred = batch.inferred /\ batch'.copied = batch.copied
      /\ batch'.rejects = batch.rejects
  BY <1>1 DEF IInv, TypeOK
<1>3. TypeOK'
  BY <1>1 DEF IInv, TypeOK
<1>4. (OneSource /\ InferredNew /\ CopiedNew /\ CopyFounded)'
  BY <1>1, <1>2 DEF IInv, OneSource, InferredNew, CopiedNew, CopyFounded
<1>5. BelowBound'
  BY <1>2 DEF IInv, BelowBound
<1>6. Counted'
  BY <1>2, CountKept
<1>7. (NoDoublePair /\ OneInference /\ HonestHit /\ FreshStored)'
  BY TablesKept
<1> QED
  BY <1>2, <1>3, <1>4, <1>5, <1>6, <1>7 DEF IInv

LEMMA CopyKeeps ==
    ASSUME IInv, NEW c \in Clusters, Copy(c) PROVE IInv'
<1> USE DEF Copy, Heading, tables, history
<1>1. /\ batch.pc = "heads"
      /\ batch' = [batch EXCEPT !.todo = @ \ {c}, !.copied = @ \cup {c}]
  OBVIOUS
<1>2. /\ batch'.pc = "heads" /\ batch'.todo = batch.todo \ {c}
      /\ batch'.inferred = batch.inferred
      /\ batch'.copied = batch.copied \cup {c}
      /\ batch'.rejects = batch.rejects
  BY <1>1 DEF IInv, TypeOK
<1>3. TypeOK'
  <2>0. batch' = [pc |-> "heads", todo |-> batch.todo \ {c},
                   inferred |-> batch.inferred, copied |-> batch.copied \cup {c},
                   rejects |-> batch.rejects]
    BY <1>1 DEF IInv, TypeOK
  <2>1. batch' \in [pc : {"idle", "heads", "rejects"}, todo : SUBSET Clusters,
                    inferred : SUBSET Clusters, copied : SUBSET Clusters,
                    rejects : SUBSET Clusters]
    BY <2>0 DEF IInv, TypeOK
  <2> QED
    BY <2>1 DEF IInv, TypeOK
<1>4. (OneSource /\ InferredNew)'
  BY <1>1, <1>2 DEF IInv, OneSource, InferredNew
<1>5. CopiedNew'
  <2>1. rows[<<c, head[c]>>] = 0
    BY DEF Known, IInv, TypeOK
  <2> QED
    BY <1>1, <1>2, <2>1 DEF IInv, CopiedNew
<1>6. CopyFounded'
  <2>1. \/ \E d \in Clusters : rows[<<d, head[c]>>] > 0
        \/ \E d \in batch.inferred : head[d] = head[c]
    BY DEF Available
  <2> QED
    BY <1>1, <1>2, <2>1 DEF IInv, CopyFounded
<1>7. BelowBound'
  BY <1>2 DEF IInv, BelowBound
<1>8. Counted'
  BY <1>2, CountKept
<1>9. (NoDoublePair /\ OneInference /\ HonestHit /\ FreshStored)'
  BY TablesKept
<1> QED
  BY <1>2, <1>3, <1>4, <1>5, <1>6, <1>7, <1>8, <1>9 DEF IInv

LEMMA InferKeeps ==
    ASSUME IInv, NEW c \in Clusters, Infer(c) PROVE IInv'
<1> USE DEF Infer, Heading, tables, history
<1>1. /\ batch.pc = "heads"
      /\ batch' = [batch EXCEPT !.todo = @ \ {c}, !.inferred = @ \cup {c}]
  OBVIOUS
<1>2. /\ batch'.pc = "heads" /\ batch'.todo = batch.todo \ {c}
      /\ batch'.inferred = batch.inferred \cup {c}
      /\ batch'.copied = batch.copied
      /\ batch'.rejects = batch.rejects
  BY <1>1 DEF IInv, TypeOK
<1>3. TypeOK'
  <2>0. batch' = [pc |-> "heads", todo |-> batch.todo \ {c},
                   inferred |-> batch.inferred \cup {c}, copied |-> batch.copied,
                   rejects |-> batch.rejects]
    BY <1>1 DEF IInv, TypeOK
  <2>1. batch' \in [pc : {"idle", "heads", "rejects"}, todo : SUBSET Clusters,
                    inferred : SUBSET Clusters, copied : SUBSET Clusters,
                    rejects : SUBSET Clusters]
    BY <2>0 DEF IInv, TypeOK
  <2> QED
    BY <2>1 DEF IInv, TypeOK
<1>4. /\ \A d \in Clusters : rows[<<d, head[c]>>] = 0
      /\ \A d \in batch.inferred : head[d] # head[c]
  <2>1. \A d \in Clusters : rows[<<d, head[c]>>] \in Nat
    BY DEF IInv, TypeOK
  <2>2. /\ \A d \in Clusters : ~ (rows[<<d, head[c]>>] > 0)
        /\ \A d \in batch.inferred : head[d] # head[c]
    BY DEF Asked, Available
  <2> QED
    BY <2>1, <2>2
<1>5. OneSource'
  BY <1>1, <1>2, <1>4 DEF IInv, OneSource
<1>6. InferredNew'
  BY <1>1, <1>2, <1>4 DEF IInv, InferredNew
<1>7. (CopiedNew /\ CopyFounded)'
  BY <1>1, <1>2 DEF IInv, CopiedNew, CopyFounded
<1>8. BelowBound'
  BY <1>2 DEF IInv, BelowBound
<1>9. Counted'
  BY <1>2, CountKept
<1>10. (NoDoublePair /\ OneInference /\ HonestHit /\ FreshStored)'
  BY TablesKept
<1> QED
  BY <1>2, <1>3, <1>5, <1>6, <1>7, <1>8, <1>9, <1>10 DEF IInv

LEMMA RefuseKeeps ==
    ASSUME IInv, NEW c \in Clusters, Refuse(c) PROVE IInv'
<1> USE DEF Refuse, Heading, tables
<1>1. /\ batch.pc = "heads" /\ c \in batch.todo
      /\ batch' = [batch EXCEPT !.todo = @ \ {c}, !.rejects = @ \cup {c}]
      /\ refused' = [refused EXCEPT ![head[c]] = @ + 1]
  OBVIOUS
<1>2. /\ batch'.pc = "heads" /\ batch'.todo = batch.todo \ {c}
      /\ batch'.inferred = batch.inferred
      /\ batch'.copied = batch.copied
      /\ batch'.rejects = batch.rejects \cup {c}
  BY <1>1 DEF IInv, TypeOK
<1>3. TypeOK'
  <2>0. batch' = [pc |-> "heads", todo |-> batch.todo \ {c},
                   inferred |-> batch.inferred, copied |-> batch.copied,
                   rejects |-> batch.rejects \cup {c}]
    BY <1>1 DEF IInv, TypeOK
  <2>1. batch' \in [pc : {"idle", "heads", "rejects"}, todo : SUBSET Clusters,
                    inferred : SUBSET Clusters, copied : SUBSET Clusters,
                    rejects : SUBSET Clusters]
    BY <2>0 DEF IInv, TypeOK
  <2>2. refused' \in [Texts -> Nat]
    BY <1>1 DEF IInv, TypeOK
  <2> QED
    BY <2>1, <2>2 DEF IInv, TypeOK
<1>4. (OneSource /\ InferredNew /\ CopiedNew /\ CopyFounded)'
  BY <1>1, <1>2 DEF IInv, OneSource, InferredNew, CopiedNew, CopyFounded
<1>5. BelowBound'
  <2>1. attempts[head[c]] < MAX_ATTEMPTS
    BY EnrichAssumption DEF Asked, Exhausted, IInv, TypeOK
  <2> QED
    BY <1>2, <2>1 DEF IInv, BelowBound
<1>6. Counted'
  <2> SUFFICES ASSUME NEW t \in Texts
               PROVE  refused'[t] <= lost[t] + Cardinality(RefusedIn(t)')
                                     + Cardinality(Clusters) * attempts[t]
    BY DEF Counted
  <2>1. IsFiniteSet(RefusedIn(t)) /\ Cardinality(RefusedIn(t)) \in Nat
    BY CountsAreNat DEF IInv
  <2>2. refused[t] <= lost[t] + Cardinality(RefusedIn(t))
                      + Cardinality(Clusters) * attempts[t]
    BY DEF IInv, Counted
  <2>3. CASE t = head[c]
    <3>1. c \notin RefusedIn(t) /\ RefusedIn(t)' = RefusedIn(t) \cup {c}
      BY <1>1, <1>2, <2>3 DEF RefusedIn, IInv, BelowBound
    <3>2. Cardinality(RefusedIn(t)') = Cardinality(RefusedIn(t)) + 1
      BY <2>1, <3>1, FS_AddElement
    <3>3. refused'[t] = refused[t] + 1
      BY <1>1, <2>3 DEF IInv, TypeOK
    <3>4. /\ refused[t] \in Nat /\ lost[t] \in Nat
          /\ Cardinality(Clusters) * attempts[t] \in Int
      BY CountsAreNat DEF IInv, TypeOK
    <3> QED
      BY <2>1, <2>2, <3>2, <3>3, <3>4
  <2>4. CASE t # head[c]
    <3>1. RefusedIn(t)' = RefusedIn(t)
      BY <1>2, <2>4 DEF RefusedIn
    <3>2. refused'[t] = refused[t]
      BY <1>1, <2>4 DEF IInv, TypeOK
    <3> QED
      BY <2>2, <3>1, <3>2
  <2> QED
    BY <2>3, <2>4
<1>7. (NoDoublePair /\ OneInference /\ HonestHit /\ FreshStored)'
  BY TablesKept
<1> QED
  BY <1>2, <1>3, <1>4, <1>5, <1>6, <1>7 DEF IInv

LEMMA UnavailableKeeps ==
    ASSUME IInv, NEW c \in Clusters, Unavailable(c) PROVE IInv'
<1> USE DEF Unavailable, Heading, tables
<1>1. /\ batch.pc = "heads" /\ batch' = [batch EXCEPT !.todo = {}]
      /\ trouble < MaxTrouble /\ trouble' = trouble + 1
  OBVIOUS
<1>2. /\ batch'.pc = "heads" /\ batch'.todo = {}
      /\ batch'.inferred = batch.inferred /\ batch'.copied = batch.copied
      /\ batch'.rejects = batch.rejects
  BY <1>1 DEF IInv, TypeOK
<1>3. TypeOK'
  <2>1. batch' \in [pc : {"idle", "heads", "rejects"}, todo : SUBSET Clusters,
                    inferred : SUBSET Clusters, copied : SUBSET Clusters,
                    rejects : SUBSET Clusters]
    BY <1>1 DEF IInv, TypeOK
  <2>2. trouble' \in 0..MaxTrouble
    BY <1>1, EnrichAssumption DEF IInv, TypeOK
  <2> QED
    BY <2>1, <2>2 DEF IInv, TypeOK
<1>4. (OneSource /\ InferredNew /\ CopiedNew /\ CopyFounded)'
  BY <1>1, <1>2 DEF IInv, OneSource, InferredNew, CopiedNew, CopyFounded
<1>5. BelowBound'
  BY <1>2 DEF IInv, BelowBound
<1>6. Counted'
  BY <1>2, CountKept
<1>7. (NoDoublePair /\ OneInference /\ HonestHit /\ FreshStored)'
  BY TablesKept
<1> QED
  BY <1>2, <1>3, <1>4, <1>5, <1>6, <1>7 DEF IInv

-----------------------------------------------------------------------------
(* The two INSERTs, and death.                                             *)

LEMMA InsertKeeps ==
    ASSUME IInv, Insert PROVE IInv'
<1> USE DEF Insert, history
<1> DEFINE New(p) == /\ p[1] \in batch.inferred \cup batch.copied
                     /\ head[p[1]] = p[2]
<1>1. /\ batch.pc = "heads" /\ batch' = [batch EXCEPT !.pc = "rejects"]
  OBVIOUS
<1>2. /\ batch'.pc = "rejects" /\ batch'.todo = batch.todo
      /\ batch'.rejects = batch.rejects
  BY <1>1 DEF IInv, TypeOK
<1>3. \A p \in Clusters \X Texts :
        /\ New(p) => rows'[p] = rows[p] + 1
        /\ ~ New(p) => rows'[p] = rows[p]
  OBVIOUS
<1>4. \A t \in Texts :
        fresh'[t] = fresh[t] + Cardinality(InferredFor(t))
  OBVIOUS
<1>5. TypeOK /\ OneSource /\ InferredNew /\ CopiedNew /\ CopyFounded
  BY <1>1 DEF IInv
<1>6. \A t \in Texts :
        /\ Cardinality(InferredFor(t)) \in 0..1
        /\ (\E c \in Clusters : rows[<<c, t>>] > 0)
             => Cardinality(InferredFor(t)) = 0
        /\ Cardinality(InferredFor(t)) > 0
             => \E c \in batch.inferred : head[c] = t
        /\ (\E c \in batch.inferred : head[c] = t)
             => Cardinality(InferredFor(t)) = 1
  BY <1>5, OneInBatch
<1>7. TypeOK'
  <2>1. rows' \in [Clusters \X Texts -> Nat]
    BY <1>5 DEF TypeOK
  <2>2. fresh' \in [Texts -> Nat]
    BY <1>5, <1>6 DEF TypeOK
  <2>3. batch' \in [pc : {"idle", "heads", "rejects"}, todo : SUBSET Clusters,
                    inferred : SUBSET Clusters, copied : SUBSET Clusters,
                    rejects : SUBSET Clusters]
    BY <1>1, <1>5 DEF TypeOK
  <2> QED
    BY <1>5, <2>1, <2>2, <2>3 DEF TypeOK
<1>8. \A p \in Clusters \X Texts : New(p) => rows[p] = 0
  BY <1>5 DEF InferredNew, CopiedNew, TypeOK
<1>9. \A p \in Clusters \X Texts : rows[p] \in Nat /\ rows'[p] >= rows[p]
  BY <1>3, <1>5 DEF TypeOK
<1>10. NoDoublePair'
  BY <1>3, <1>8 DEF IInv, NoDoublePair
<1>11. OneInference'
  <2> SUFFICES ASSUME NEW t \in Texts PROVE fresh'[t] <= 1
    BY DEF OneInference
  <2>1. fresh[t] \in Nat /\ fresh[t] <= 1
    BY <1>5 DEF TypeOK, IInv, OneInference
  <2>2. fresh[t] > 0 => Cardinality(InferredFor(t)) = 0
    BY <1>6 DEF IInv, FreshStored
  <2> QED
    BY <1>4, <1>6, <2>1, <2>2
<1>12. HonestHit'
  <2> SUFFICES ASSUME NEW t \in Texts, NEW c \in Clusters,
                      rows'[<<c, t>>] > 0
               PROVE  fresh'[t] > 0
    BY DEF HonestHit
  <2>1. fresh[t] \in Nat
    BY <1>5 DEF TypeOK
  <2>2. \/ \E d \in Clusters : rows[<<d, t>>] > 0
        \/ \E d \in batch.inferred : head[d] = t
    <3>1. CASE rows[<<c, t>>] > 0
      BY <3>1
    <3>2. CASE New(<<c, t>>)
      BY <1>5, <3>2 DEF CopyFounded
    <3> QED
      BY <1>3, <3>1, <3>2
  <2>3. CASE \E d \in Clusters : rows[<<d, t>>] > 0
    <3>1. fresh[t] > 0
      BY <2>3 DEF IInv, HonestHit
    <3> QED
      BY <1>4, <1>6, <2>1, <3>1
  <2>4. CASE \E d \in batch.inferred : head[d] = t
    BY <1>4, <1>6, <2>1, <2>4
  <2> QED
    BY <2>2, <2>3, <2>4
<1>13. FreshStored'
  <2> SUFFICES ASSUME NEW t \in Texts, fresh'[t] > 0
               PROVE  \E c \in Clusters : rows'[<<c, t>>] > 0
    BY DEF FreshStored
  <2>1. fresh[t] \in Nat
    BY <1>5 DEF TypeOK
  <2>2. CASE fresh[t] > 0
    <3>1. PICK c \in Clusters : rows[<<c, t>>] > 0
      BY <2>2 DEF IInv, FreshStored
    <3>2. rows'[<<c, t>>] > 0
      BY <1>3, <1>9, <3>1
    <3> QED
      BY <3>2
  <2>3. CASE Cardinality(InferredFor(t)) > 0
    <3>1. PICK c \in batch.inferred : head[c] = t
      BY <1>6, <2>3
    <3>2. c \in Clusters /\ <<c, t>> \in Clusters \X Texts
      BY <1>5 DEF TypeOK
    <3>3. rows'[<<c, t>>] > 0
      BY <1>3, <1>9, <3>1, <3>2
    <3> QED
      BY <3>2, <3>3
  <2> QED
    <3>1. Cardinality(InferredFor(t)) \in Nat
      BY <1>6
    <3>2. fresh[t] > 0 \/ Cardinality(InferredFor(t)) > 0
      BY <1>4, <2>1, <3>1
    <3> QED
      BY <2>2, <2>3, <3>2
<1>14. BelowBound'
  BY <1>2 DEF IInv, BelowBound
<1>15. Counted'
  BY <1>2, CountKept
<1> QED
  BY <1>2, <1>7, <1>10, <1>11, <1>12, <1>13, <1>14, <1>15 DEF IInv

(* What an attempt pays for: at most one refusal of each cluster.          *)
LEMMA OnePays ==
    ASSUME NEW n \in Nat, NEW a \in Nat, NEW k \in 0..n
    PROVE  n * a + k <= n * (a + 1)
<1>1. n * (a + 1) = n * a + n
  OBVIOUS
<1>2. n * a \in Int
  OBVIOUS
<1> QED
  BY <1>1, <1>2

(* More attempts pay for no less.                                          *)
LEMMA MoreAttempts ==
    ASSUME NEW n \in Nat, NEW a \in Nat, NEW b \in Nat, a <= b
    PROVE  n * a <= n * b
<1>1. n * b = n * a + n * (b - a)
  OBVIOUS
<1>2. n * (b - a) >= 0
  OBVIOUS
<1>3. n * a \in Int /\ n * (b - a) \in Int
  OBVIOUS
<1> QED
  BY <1>1, <1>2, <1>3

LEMMA QuarantineKeeps ==
    ASSUME IInv, Quarantine PROVE IInv'
<1> USE DEF Quarantine
<1>1. TypeOK /\ batch' = Idle
  BY DEF IInv
<1>2. \A t \in Texts : attempts'[t] =
                         attempts[t] + (IF RefusedIn(t) # {} THEN 1 ELSE 0)
  OBVIOUS
<1>3. \A t \in Texts : RefusedIn(t) # {} => attempts[t] < MAX_ATTEMPTS
  BY DEF RefusedIn, IInv, BelowBound
<1>4. TypeOK'
  <2>1. attempts' \in [Texts -> 0..MAX_ATTEMPTS]
    BY <1>1, <1>3, EnrichAssumption DEF TypeOK
  <2> QED
    BY <1>1, <2>1 DEF TypeOK, Idle, history
<1>5. (NoDoublePair /\ OneInference /\ HonestHit /\ FreshStored)'
  BY DEF IInv, NoDoublePair, OneInference, HonestHit, FreshStored
<1>6. BelowBound'
  BY <1>1 DEF BelowBound, Idle
<1>7. Counted'
  <2> SUFFICES ASSUME NEW t \in Texts
               PROVE  refused[t] <= lost[t] + Cardinality(RefusedIn(t)')
                                    + Cardinality(Clusters) * attempts'[t]
    BY DEF Counted, history
  <2>1. RefusedIn(t)' = {}
    BY <1>1 DEF RefusedIn, Idle
  <2>2. Cardinality(RefusedIn(t)') = 0
    BY <2>1, FS_EmptySet
  <2>3. /\ Cardinality(Clusters) \in Nat
        /\ Cardinality(RefusedIn(t)) \in 0..Cardinality(Clusters)
    BY <1>1, CountsAreNat
  <2>4. attempts[t] \in Nat /\ refused[t] \in Nat /\ lost[t] \in Nat
    BY <1>1, EnrichAssumption DEF TypeOK
  <2>5. refused[t] <= lost[t] + Cardinality(RefusedIn(t))
                      + Cardinality(Clusters) * attempts[t]
    BY DEF IInv, Counted
  <2>6. Cardinality(Clusters) * attempts[t] \in Int
    BY <2>3, <2>4
  <2>7. CASE RefusedIn(t) = {}
    <3>1. Cardinality(RefusedIn(t)) = 0 /\ attempts'[t] = attempts[t]
      BY <1>2, <2>4, <2>7, FS_EmptySet
    <3> QED
      BY <2>2, <2>5, <2>6, <3>1
  <2>8. CASE RefusedIn(t) # {}
    <3>1. attempts'[t] = attempts[t] + 1
      BY <1>2, <2>8
    <3>2. Cardinality(Clusters) * attempts[t] + Cardinality(RefusedIn(t))
            <= Cardinality(Clusters) * (attempts[t] + 1)
      BY <2>3, <2>4, OnePays
    <3>3. Cardinality(Clusters) * (attempts[t] + 1) \in Int
      BY <2>3, <2>4
    <3> QED
      BY <2>2, <2>3, <2>4, <2>5, <2>6, <3>1, <3>2, <3>3
  <2> QED
    BY <2>7, <2>8
<1> QED
  BY <1>1, <1>4, <1>5, <1>6, <1>7 DEF IInv, Idle

LEMMA DieKeeps ==
    ASSUME IInv, Die PROVE IInv'
<1> USE DEF Die, tables
<1>1. /\ TypeOK /\ batch' = Idle
      /\ trouble < MaxTrouble /\ trouble' = trouble + 1
  BY DEF IInv
<1>2. \A t \in Texts : lost'[t] = lost[t] + Cardinality(RefusedIn(t))
  OBVIOUS
<1>3. TypeOK'
  <2>1. lost' \in [Texts -> Nat]
    BY <1>1, CountsAreNat DEF TypeOK
  <2>2. trouble' \in 0..MaxTrouble
    BY <1>1, EnrichAssumption DEF TypeOK
  <2> QED
    BY <1>1, <2>1, <2>2 DEF TypeOK, Idle
<1>4. (NoDoublePair /\ OneInference /\ HonestHit /\ FreshStored)'
  BY TablesKept
<1>5. BelowBound'
  BY <1>1 DEF BelowBound, Idle
<1>6. Counted'
  <2> SUFFICES ASSUME NEW t \in Texts
               PROVE  refused[t] <= lost'[t] + Cardinality(RefusedIn(t)')
                                    + Cardinality(Clusters) * attempts[t]
    BY DEF Counted
  <2>1. RefusedIn(t)' = {}
    BY <1>1 DEF RefusedIn, Idle
  <2>2. Cardinality(RefusedIn(t)') = 0
    BY <2>1, FS_EmptySet
  <2>3. refused[t] <= lost[t] + Cardinality(RefusedIn(t))
                      + Cardinality(Clusters) * attempts[t]
    BY DEF IInv, Counted
  <2>4. /\ lost[t] \in Nat /\ Cardinality(RefusedIn(t)) \in Nat
        /\ Cardinality(Clusters) * attempts[t] \in Int
    BY <1>1, CountsAreNat DEF TypeOK
  <2> QED
    BY <1>2, <2>2, <2>3, <2>4
<1> QED
  BY <1>1, <1>3, <1>4, <1>5, <1>6 DEF IInv, Idle

-----------------------------------------------------------------------------

(* Every step of the batch keeps the invariant.                            *)
THEOREM EnrichNext == IInv /\ [Next]_vars => IInv'
<1> SUFFICES ASSUME IInv, [Next]_vars PROVE IInv'
  OBVIOUS
<1>1. CASE Edit
  BY <1>1, EditKeeps
<1>2. CASE Select
  BY <1>2, SelectKeeps
<1>3. CASE \E c \in Clusters : Work(c) \/ Unavailable(c)
  BY <1>3, SkipKeeps, CopyKeeps, InferKeeps, RefuseKeeps, UnavailableKeeps
     DEF Work
<1>4. CASE Finish
  BY <1>4, InsertKeeps, QuarantineKeeps DEF Finish
<1>5. CASE Die
  BY <1>5, DieKeeps
<1>6. CASE UNCHANGED vars
  <2>1. UNCHANGED <<head, refused, lost, attempts>> /\ batch' = batch
    BY <1>6 DEF vars, tables, history
  <2>2. TypeOK' /\ BelowBound'
    BY <1>6 DEF vars, tables, history, IInv, TypeOK, BelowBound
  <2>3. (NoDoublePair /\ OneInference /\ HonestHit /\ FreshStored)'
    BY <1>6, TablesKept DEF vars
  <2>4. Counted'
    BY <2>1, CountKept
  <2>5. batch'.pc = "heads" => (OneSource /\ InferredNew /\ CopiedNew /\ CopyFounded)'
    BY <1>6 DEF vars, tables, IInv, OneSource, InferredNew, CopiedNew, CopyFounded
  <2>6. batch'.pc = "idle" => batch' = Idle
    BY <2>1 DEF IInv
  <2> QED
    BY <2>2, <2>3, <2>4, <2>5, <2>6 DEF IInv
<1> QED
  BY <1>1, <1>2, <1>3, <1>4, <1>5, <1>6 DEF Next

(* The inductive invariant holds in every reachable state.                 *)
THEOREM EnrichInvariant == Spec => []IInv
  BY EnrichInit, EnrichNext, PTL DEF Spec

(* The variables keep their types and attempts never passes MAX_ATTEMPTS.  *)
THEOREM EnrichTypeCorrect == Spec => []TypeOK
<1>1. IInv => TypeOK
  BY DEF IInv
<1> QED
  BY <1>1, EnrichInvariant, PTL

(* A cluster and a text never have two rows.                               *)
THEOREM EnrichNoDoublePair == Spec => []NoDoublePair
<1>1. IInv => NoDoublePair
  BY DEF IInv
<1> QED
  BY <1>1, EnrichInvariant, PTL

(* The cache pays for a text once, and copies nothing it has not paid for. *)
THEOREM EnrichCacheHonest == Spec => []CacheHonest
<1>1. IInv => CacheHonest
  BY DEF IInv, CacheHonest
<1> QED
  BY <1>1, EnrichInvariant, PTL

(* No text is refused more often than the bound allows: MAX_ATTEMPTS for   *)
(* each cluster, and what batches lost when they died.                     *)
THEOREM EnrichRetryBound == Spec => []RetryBound
<1>1. IInv => RetryBound
  <2> SUFFICES ASSUME IInv, NEW t \in Texts
               PROVE  refused[t] <= lost[t]
                                    + MAX_ATTEMPTS * Cardinality(Clusters)
    BY DEF RetryBound
  <2> DEFINE n == Cardinality(Clusters)
             r == Cardinality(RefusedIn(t))
  <2>1. /\ n \in Nat /\ r \in 0..n
        /\ attempts[t] \in Nat /\ attempts[t] <= MAX_ATTEMPTS
        /\ MAX_ATTEMPTS \in Nat
        /\ refused[t] \in Nat /\ lost[t] \in Nat
    BY CountsAreNat, EnrichAssumption DEF IInv, TypeOK
  <2>2. refused[t] <= lost[t] + r + n * attempts[t]
    BY DEF IInv, Counted
  <2>3. n * attempts[t] + r <= n * MAX_ATTEMPTS
    <3>1. CASE RefusedIn(t) = {}
      <4>1. r = 0
        BY <3>1, FS_EmptySet
      <4>2. n * attempts[t] <= n * MAX_ATTEMPTS
        <5> HIDE DEF n, r
        <5> QED
          BY <2>1, MoreAttempts
      <4>3. n * attempts[t] \in Int
        BY <2>1
      <4> HIDE DEF n, r
      <4> QED
        BY <4>1, <4>2, <4>3
    <3>2. CASE RefusedIn(t) # {}
      <4>1. attempts[t] + 1 <= MAX_ATTEMPTS
        BY <2>1, <3>2 DEF IInv, BelowBound, RefusedIn
      <4> HIDE DEF n, r
      <4>2. n * attempts[t] + r <= n * (attempts[t] + 1)
        BY <2>1, OnePays
      <4>3. n * (attempts[t] + 1) <= n * MAX_ATTEMPTS
        BY <2>1, <4>1, MoreAttempts
      <4>4. /\ n * attempts[t] \in Int /\ n * (attempts[t] + 1) \in Int
            /\ n * MAX_ATTEMPTS \in Int
        BY <2>1
      <4> QED
        BY <2>1, <4>2, <4>3, <4>4
    <3> QED
      BY <3>1, <3>2
  <2> HIDE DEF n, r
  <2>4. /\ n * attempts[t] \in Int /\ n * MAX_ATTEMPTS \in Int
        /\ n * MAX_ATTEMPTS = MAX_ATTEMPTS * n
    BY <2>1
  <2>5. refused[t] <= lost[t] + MAX_ATTEMPTS * n
    BY <2>1, <2>2, <2>3, <2>4
  <2> QED
    BY <2>5 DEF n
<1> QED
  BY <1>1, EnrichInvariant, PTL

=============================================================================
