------------------------------- MODULE Enrich -------------------------------
(***************************************************************************)
(* The enrichment batch: the heads of the ranked clusters are looked up in *)
(* gold.cluster_enrichment by the text they are made of, and the model is  *)
(* asked about the others.  A batch reads its tables once, works through   *)
(* its heads, and ends with two INSERTs: the enrichments, then the answers *)
(* that did not validate, which count against a bound on retries.  It can  *)
(* die anywhere, and the server can be away for a while.                   *)
(*                                                                         *)
(* max_active_runs=1: nothing else writes the tables during a batch, so    *)
(* what the code reads once is read here where it is used; a headline      *)
(* edited during a batch reaches the next one.                             *)
(***************************************************************************)
EXTENDS Integers, FiniteSets

CONSTANTS
    Clusters,     \* the clusters of the ranked head
    Texts,        \* head texts: what a cluster is enriched from
    MAX_ATTEMPTS, \* refused answers recorded before a text is given up
    MaxEdits,     \* bound: edited headlines
    MaxTrouble    \* bound: batches that die or find the server away

ASSUME EnrichAssumption ==
    /\ MAX_ATTEMPTS \in Nat /\ MaxEdits \in Nat /\ MaxTrouble \in Nat
    /\ IsFiniteSet(Clusters)

VARIABLES
    head,       \* the text of each cluster now
    rows,       \* cluster_enrichment: number of rows of a cluster and a text
    fresh,      \* ... and of a text's rows with cache_hit false
    attempts,   \* enrichment_rejects: max(attempts) of a text
    batch,      \* the batch: what it has left, will insert and will reject
    refused,    \* history: answers about a text that did not validate
    lost,       \* history: those of them a batch died with
    edits,      \* headlines edited so far
    trouble     \* batches that died or found the server away so far

tables  == <<rows, fresh, attempts>>
history == <<refused, lost, edits, trouble>>
vars    == <<head, tables, batch, history>>

-----------------------------------------------------------------------------

Idle == [pc |-> "idle", todo |-> {}, inferred |-> {}, copied |-> {},
         rejects |-> {}]

Init ==
    /\ head \in [Clusters -> Texts]
    /\ rows = [p \in Clusters \X Texts |-> 0]
    /\ fresh = [t \in Texts |-> 0]
    /\ attempts = [t \in Texts |-> 0]
    /\ batch = Idle
    /\ refused = [t \in Texts |-> 0]
    /\ lost = [t \in Texts |-> 0]
    /\ edits = 0 /\ trouble = 0

(* The head of a cluster changes: another title, snippet or publisher.     *)
Edit ==
    /\ edits < MaxEdits
    /\ batch = Idle
    /\ \E c \in Clusters, t \in Texts : head' = [head EXCEPT ![c] = t]
    /\ edits' = edits + 1
    /\ UNCHANGED <<tables, batch, refused, lost, trouble>>

(* run, ranked_window: every cluster of the ranked head.                   *)
Select ==
    /\ batch = Idle
    /\ batch' = [Idle EXCEPT !.pc = "heads", !.todo = Clusters]
    /\ UNCHANGED <<head, tables, history>>

-----------------------------------------------------------------------------
(* enrich_clusters, one head at a time.                                    *)

(* Mutant: only this batch's rows are looked at, not the stored ones.      *)
KnownHere(c) == c \in batch.inferred \cup batch.copied

(* Mutant: a stored row of the same text is taken for the cluster's own.   *)
KnownText(c) == \E d \in Clusters : rows[<<d, head[c]>>] > 0

(* The cluster itself has been enriched from this text.                    *)
Known(c) == rows[<<c, head[c]>>] > 0

(* Some cluster has been: an earlier batch stored a row, or this one       *)
(* inferred it.                                                            *)
Available(t) ==
    \/ \E c \in Clusters : rows[<<c, t>>] > 0
    \/ \E c \in batch.inferred : head[c] = t

(* Mutant: one answer more.                                                *)
ExhaustedLater(t) == attempts[t] > MAX_ATTEMPTS

Exhausted(t) == attempts[t] >= MAX_ATTEMPTS

Heading(c) == batch.pc = "heads" /\ c \in batch.todo

Asked(c) == ~ Known(c) /\ ~ Available(head[c]) /\ ~ Exhausted(head[c])

(* The pair is stored, or the text is given up: nothing to do.             *)
Skip(c) ==
    /\ Heading(c)
    /\ \/ Known(c)
       \/ ~ Available(head[c]) /\ Exhausted(head[c])
    /\ batch' = [batch EXCEPT !.todo = @ \ {c}]
    /\ UNCHANGED <<head, tables, history>>

(* The answer to the same text is copied.                                  *)
Copy(c) ==
    /\ Heading(c)
    /\ ~ Known(c) /\ Available(head[c])
    /\ batch' = [batch EXCEPT !.todo = @ \ {c}, !.copied = @ \cup {c}]
    /\ UNCHANGED <<head, tables, history>>

(* The model is asked and its answer validates.                            *)
Infer(c) ==
    /\ Heading(c)
    /\ Asked(c)
    /\ batch' = [batch EXCEPT !.todo = @ \ {c}, !.inferred = @ \cup {c}]
    /\ UNCHANGED <<head, tables, history>>

(* Mutant: the answer is kept for the batch before it is validated.        *)
RefuseAndKeep(c) ==
    /\ Heading(c)
    /\ Asked(c)
    /\ batch' = [batch EXCEPT !.todo = {d \in @ \ {c} : head[d] # head[c]},
                              !.copied = @ \cup {d \in batch.todo \ {c} :
                                                   head[d] = head[c]},
                              !.rejects = @ \cup {c}]
    /\ refused' = [refused EXCEPT ![head[c]] = @ + 1]
    /\ UNCHANGED <<head, tables, lost, edits, trouble>>

(* ... or is refused.                                                      *)
Refuse(c) ==
    /\ Heading(c)
    /\ Asked(c)
    /\ batch' = [batch EXCEPT !.todo = @ \ {c}, !.rejects = @ \cup {c}]
    /\ refused' = [refused EXCEPT ![head[c]] = @ + 1]
    /\ UNCHANGED <<head, tables, lost, edits, trouble>>

(* The server does not answer: the batch stops and keeps what it has.      *)
Unavailable(c) ==
    /\ trouble < MaxTrouble
    /\ Heading(c)
    /\ Asked(c)
    /\ batch' = [batch EXCEPT !.todo = {}]
    /\ trouble' = trouble + 1
    /\ UNCHANGED <<head, tables, refused, lost, edits>>

-----------------------------------------------------------------------------

InferredFor(t) == {c \in batch.inferred : head[c] = t}

(* The clusters whose answers about a text the batch will quarantine.      *)
RefusedIn(t) == {c \in batch.rejects : head[c] = t}

(* write_enrichments.                                                      *)
Insert ==
    /\ batch.pc = "heads" /\ batch.todo = {}
    /\ rows' = [p \in Clusters \X Texts |->
                  IF p[1] \in batch.inferred \cup batch.copied
                     /\ head[p[1]] = p[2]
                  THEN rows[p] + 1 ELSE rows[p]]
    /\ fresh' = [t \in Texts |->
                   fresh[t] + Cardinality(InferredFor(t))]
    /\ batch' = [batch EXCEPT !.pc = "rejects"]
    /\ UNCHANGED <<head, attempts, history>>

(* Mutant: every reject is written as the first.                           *)
QuarantineAsFirst ==
    /\ batch.pc = "rejects"
    /\ attempts' = [t \in Texts |->
                      IF RefusedIn(t) # {} THEN 1 ELSE attempts[t]]
    /\ batch' = Idle
    /\ UNCHANGED <<head, rows, fresh, history>>

(* write_rejects: each row counts from what the batch read at its start.   *)
Quarantine ==
    /\ batch.pc = "rejects"
    /\ attempts' = [t \in Texts |->
                      attempts[t] + (IF RefusedIn(t) # {} THEN 1 ELSE 0)]
    /\ batch' = Idle
    /\ UNCHANGED <<head, rows, fresh, history>>

(* The run is killed, or one of its INSERTs fails.                         *)
Die ==
    /\ trouble < MaxTrouble
    /\ batch.pc # "idle"
    /\ batch' = Idle
    /\ lost' = [t \in Texts |-> lost[t] + Cardinality(RefusedIn(t))]
    /\ trouble' = trouble + 1
    /\ UNCHANGED <<head, tables, refused, edits>>

-----------------------------------------------------------------------------

Work(c) == Skip(c) \/ Copy(c) \/ Infer(c) \/ Refuse(c)

Finish == Insert \/ Quarantine

Next ==
    \/ Edit
    \/ Select
    \/ \E c \in Clusters : Work(c) \/ Unavailable(c)
    \/ Finish
    \/ Die

Spec == Init /\ [][Next]_vars

(* A batch is started every day and goes on as long as it can.             *)
FairSpec ==
    /\ Spec
    /\ WF_vars(Select)
    /\ WF_vars((\E c \in Clusters : Work(c)) \/ Finish)

-----------------------------------------------------------------------------

TypeOK ==
    /\ head \in [Clusters -> Texts]
    /\ rows \in [Clusters \X Texts -> Nat]
    /\ fresh \in [Texts -> Nat]
    /\ attempts \in [Texts -> 0..MAX_ATTEMPTS]
    /\ batch \in [pc : {"idle", "heads", "rejects"}, todo : SUBSET Clusters,
                  inferred : SUBSET Clusters, copied : SUBSET Clusters,
                  rejects : SUBSET Clusters]
    /\ refused \in [Texts -> Nat] /\ lost \in [Texts -> Nat]
    /\ edits \in 0..MaxEdits /\ trouble \in 0..MaxTrouble

(* A cluster and the text it was enriched from have one row, however often *)
(* batches are repeated, die after their INSERT, or meet an edited         *)
(* headline again (have_pair).                                             *)
NoDoublePair == \A p \in Clusters \X Texts : rows[p] <= 1

(* A text is paid for once: one row says cache_hit false, whichever        *)
(* clusters share the text and whichever batches they come in              *)
(* (by_hash, inferred_this_run).                                           *)
OneInference == \A t \in Texts : fresh[t] <= 1

(* A copied row is a copy of something: a text with rows has the inferred  *)
(* one among them, though a batch can die, stop or have the same text      *)
(* refused for one cluster and answered for another.                       *)
HonestHit ==
    \A t \in Texts :
        (\E c \in Clusters : rows[<<c, t>>] > 0) => fresh[t] > 0

(* Both: a text with rows has been inferred exactly once, over any number  *)
(* of batches, however they end, and the rest of its rows are copies.      *)
CacheHonest == OneInference /\ HonestHit

(* What the retry bound bounds: the answers refused for a text are at most *)
(* MAX_ATTEMPTS of each cluster that has it, since a batch counts one      *)
(* attempt for a text however often it refuses it, and those that died     *)
(* with their batch.                                                       *)
RetryBound ==
    \A t \in Texts :
        refused[t] <= lost[t] + MAX_ATTEMPTS * Cardinality(Clusters)

(* What carries the four: the batch infers each text once and only texts   *)
(* without a row, writes only pairs without one, copies only what it or an *)
(* earlier batch inferred, and asks only below the bound, so that every    *)
(* refusal is in the batch, lost, or counted in an attempt.                *)
OneSource ==
    \A c, d \in batch.inferred : head[c] = head[d] => c = d

InferredNew ==
    \A c \in batch.inferred, d \in Clusters : rows[<<d, head[c]>>] = 0

CopiedNew == \A c \in batch.copied : rows[<<c, head[c]>>] = 0

CopyFounded ==
    \A c \in batch.copied :
        \/ \E d \in Clusters : rows[<<d, head[c]>>] > 0
        \/ \E d \in batch.inferred : head[d] = head[c]

FreshStored ==
    \A t \in Texts :
        fresh[t] > 0 => \E c \in Clusters : rows[<<c, t>>] > 0

BelowBound ==
    /\ batch.todo \cap batch.rejects = {}
    /\ \A c \in batch.rejects : attempts[head[c]] < MAX_ATTEMPTS

Counted ==
    \A t \in Texts :
        refused[t] <= lost[t] + Cardinality(RefusedIn(t))
                              + Cardinality(Clusters) * attempts[t]

IInv ==
    /\ TypeOK /\ NoDoublePair /\ OneInference /\ HonestHit
    /\ FreshStored
    /\ batch.pc = "idle" => batch = Idle
    /\ batch.pc = "heads" => /\ OneSource /\ InferredNew
                             /\ CopiedNew /\ CopyFounded
    /\ BelowBound
    /\ Counted

(* Once edits and failures are over every cluster of the head comes to     *)
(* have a row for its text, or the text is given up for good.              *)
Settles ==
    <>[](\A c \in Clusters : \/ rows[<<c, head[c]>>] > 0
                             \/ attempts[head[c]] = MAX_ATTEMPTS)

=============================================================================
