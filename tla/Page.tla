-------------------------------- MODULE Page --------------------------------
(* What a page of the brief is made of: the reads, the score and the order  *)
(* (Ranking), and the vectors behind the likeness of two titles, which many *)
(* builds share through one file (Embeddings).                              *)
EXTENDS Ranking, Embeddings

pageVars == <<rankingVars, embeddingsVars>>

PageInit == RankingInit /\ EmbeddingsInit

PageNext ==
    \/ RankingNext /\ UNCHANGED embeddingsVars
    \/ EmbeddingsNext /\ UNCHANGED rankingVars

PageSpec == PageInit /\ [][PageNext]_pageVars

(* A page is ordered by what the warehouse says of its stories, and its    *)
(* novelty is of the vectors the encoder gives, not of what a file holds.  *)
PageTrue == PageOrdered /\ CacheUnseen

=============================================================================
