----------------------------- MODULE Embeddings -----------------------------
(***************************************************************************)
(* The vectors the novelty of a page is computed from: _read_novelty of    *)
(* brief/select.py and the EmbeddingCache of enrich/embed.py, a local      *)
(* Parquet file that the brief DAG and a brief made by hand load, complete *)
(* with what the encoder answers, and write back whole.                    *)
(*                                                                         *)
(* A title stands for its words, whatever is between them; a vector for    *)
(* the title it was computed from and the encoder that computed it.        *)
(***************************************************************************)
EXTENDS Naturals, Sequences, FiniteSets, SequencesExt

CONSTANTS
    Builds,      \* processes that build a page
    Windows,     \* [history, heads]: titles of earlier windows, and of this
    Encoders,    \* what the settings name: a model and its digest
    Torn,        \* a file that cannot be read
    Batch,       \* BATCH
    Retries,     \* RETRIES
    MaxBuilds    \* bound: pages built

ASSUME EmbeddingsAssumption ==
    /\ Batch \in Nat \ {0} /\ Retries \in Nat \ {0} /\ MaxBuilds \in Nat
    /\ \A w \in Windows : /\ w.history # {}
                           /\ IsFiniteSet(w.history) /\ IsFiniteSet(w.heads)

VARIABLES
    encoder,     \* what the settings of the host name
    file,        \* the cache file: keys to vectors, or Torn
    build,       \* what each process is doing
    built        \* pages begun

embeddingsVars == <<encoder, file, build, built>>

(* Mutant: the digest is not part of the key.                              *)
KeyOfText(title, e) == <<title>>

(* A key hashes the text together with the digest, a vector is what a      *)
(* request for the model answers.                                          *)
Key(title, e) == <<title, e>>
Vector(title, e) == [of |-> title, by |-> e]

NoPage == [pc |-> "idle"]

EmbeddingsInit ==
    /\ encoder \in Encoders
    /\ file = <<>>              \* no file yet: nothing is held
    /\ build = [b \in Builds |-> NoPage]
    /\ built = 0

-----------------------------------------------------------------------------

(* embed: the titles that are not held are asked for, each once.           *)
Asking(r, pc, titles) ==
    [r EXCEPT !.pc = pc, !.fresh = <<>>, !.attempt = 0,
              !.asked = SetToSeq({t \in titles : Key(t, r.encoder) \notin DOMAIN r.held})]

(* The settings and the file are read.  Without a history there is nothing *)
(* to compare with; a file that cannot be read ends the build.             *)
Load(b) ==
    /\ build[b].pc \in {"idle", "scored", "unscored", "failed"}
    /\ built < MaxBuilds /\ built' = built + 1
    /\ \E w \in Windows :
          build' = [build EXCEPT ![b] =
             IF file = Torn THEN [pc |-> "failed"]
             ELSE Asking([pc |-> "history", encoder |-> encoder,
                          history |-> w.history, heads |-> w.heads, held |-> file,
                          asked |-> <<>>, fresh |-> <<>>, attempt |-> 0],
                         "history", w.history)]
    /\ UNCHANGED <<encoder, file>>

Chunk(r) == SubSeq(r.asked, Len(r.fresh) + 1,
                   IF Len(r.fresh) + Batch < Len(r.asked) THEN Len(r.fresh) + Batch
                   ELSE Len(r.asked))

Embedding(b) == build[b].pc \in {"history", "heads"}
Asked(b) == Embedding(b) /\ Len(build[b].fresh) < Len(build[b].asked)

(* _embed_batch: as many vectors as texts, in their order.                 *)
BatchAnswers(b) ==
    /\ Asked(b)
    /\ LET r == build[b]
           chunk == Chunk(r)
       IN  build' = [build EXCEPT ![b].attempt = 0, ![b].fresh =
              r.fresh \o [i \in 1..Len(chunk) |-> Vector(chunk[i], r.encoder)]]
    /\ UNCHANGED <<encoder, file, built>>

(* An HTTP error, or what is not JSON: tried again, RETRIES times in all.  *)
(* Then, or at once when the count is wrong, the page goes without novelty *)
(* and none of the call's vectors is kept.                                 *)
BatchFails(b) ==
    /\ Asked(b)
    /\ \/ build' = [build EXCEPT ![b].attempt = @ + 1]
          /\ build[b].attempt + 1 < Retries
       \/ build' = [build EXCEPT ![b] = [pc |-> "unscored"]]
    /\ UNCHANGED <<encoder, file, built>>

(* The call returns: its vectors are held, by the position of their text.  *)
CallReturns(b) ==
    /\ Embedding(b) /\ ~Asked(b)
    /\ LET r == build[b]
           new == {Key(r.asked[i], r.encoder) : i \in DOMAIN r.asked}
           held == [k \in DOMAIN r.held \cup new |->
                      IF k \in new
                      THEN r.fresh[CHOOSE i \in DOMAIN r.asked :
                                     Key(r.asked[i], r.encoder) = k]
                      ELSE r.held[k]]
           after == [r EXCEPT !.held = held]
       IN  build' = [build EXCEPT ![b] =
              IF r.pc = "history" THEN Asking(after, "heads", r.heads)
              ELSE Asking(after, "save", {})]
    /\ UNCHANGED <<encoder, file, built>>

(* save: write_table empties the file and fills it with all that is held,  *)
(* whatever another build has saved since the load.  The write takes       *)
(* milliseconds: two do not overlap.                                       *)
OpenFile(b) ==
    /\ build[b].pc = "save" /\ \A c \in Builds : build[c].pc # "writing"
    /\ file' = Torn
    /\ build' = [build EXCEPT ![b].pc = "writing"]
    /\ UNCHANGED <<encoder, built>>

WriteFile(b) ==
    /\ build[b].pc = "writing"
    /\ file' = build[b].held
    /\ build' = [build EXCEPT ![b].pc = "scored"]
    /\ UNCHANGED <<encoder, built>>

PageDies(b) ==
    /\ build[b].pc \notin {"idle", "scored", "unscored", "failed"}
    /\ build' = [build EXCEPT ![b] = NoPage]
    /\ UNCHANGED <<encoder, file, built>>

(* Another model and digest are put in the settings, and both are there    *)
(* when the next build reads them.                                         *)
Configure ==
    /\ \E e \in Encoders \ {encoder} : encoder' = e
    /\ UNCHANGED <<file, build, built>>

(* Somebody removes what cannot be read.                                   *)
FileRemoved ==
    /\ file = Torn /\ \A b \in Builds : build[b].pc # "writing"
    /\ file' = <<>>
    /\ UNCHANGED <<encoder, build, built>>

EmbeddingsNext ==
    \/ \E b \in Builds : \/ Load(b) \/ BatchAnswers(b) \/ BatchFails(b)
                         \/ CallReturns(b) \/ OpenFile(b) \/ WriteFile(b)
                         \/ PageDies(b)
    \/ Configure \/ FileRemoved

-----------------------------------------------------------------------------

EmbeddingsSpec == EmbeddingsInit /\ [][EmbeddingsNext]_embeddingsVars

EmbeddingsTypeOK ==
    /\ encoder \in Encoders /\ built \in 0..MaxBuilds
    /\ \A b \in Builds :
          /\ build[b].pc \in {"idle", "history", "heads", "save", "writing",
                              "scored", "unscored", "failed"}
          /\ Embedding(b) => /\ build[b].attempt < Retries
                             /\ Len(build[b].fresh) <= Len(build[b].asked)

(* The cache is never seen in a page: whatever builds ran before or beside *)
(* it, died, lost batches, saved over each other or had other settings, a  *)
(* page that is scored compares, for every title of its window and of the  *)
(* history, the vector a build with no cache would have asked its own      *)
(* encoder for.  What a build that gave up had been told is in no file.    *)
CacheUnseen ==
    \A b \in Builds :
       build[b].pc = "scored" =>
          \A t \in build[b].history \cup build[b].heads :
             build[b].held[Key(t, build[b].encoder)] = Vector(t, build[b].encoder)

=============================================================================
