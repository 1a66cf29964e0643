--------------------------- MODULE SilverArticles ---------------------------
(***************************************************************************)
(* silver.articles as a table without a uniqueness constraint: the MERGE of*)
(* normalize_window run by several processes at once (the DAG and somebody *)
(* by hand), and repair_duplicates of spark/jobs/repair.py, which cleans up*)
(* what was written before the table had serializable isolation.           *)
(*                                                                         *)
(* A document is what bronze holds of one article: when it was fetched, and*)
(* the day its row lands in.  An article fetched twice can land in two     *)
(* days.                                                                   *)
(***************************************************************************)
EXTENDS Integers, FiniteSets

CONSTANTS
    Documents,   \* records [article, fetched, day]
    Writers,     \* processes that normalize
    Legacy       \* what the table can hold from before: sets of rows

VARIABLES
    doubled,     \* articles the table held twice from before, for good
    articles,    \* silver.articles; `by` tells two copies of a row apart
    writer,      \* what each writer is doing
    repair,      \* what the repair is doing, and has read
    kept,        \* history: articles some commit has put in the table
    between      \* history: those put there between a repair's read and write

silverVars == <<doubled, articles, writer, repair, kept, between>>

Ids(rows) == {r.article : r \in rows}

Row(d, w) == [article |-> d.article, fetched |-> d.fetched, day |-> d.day, by |-> w]

(* find_duplicates *)
Duplicated == {a \in Ids(articles) :
                 Cardinality({r \in articles : r.article = a}) > 1}

ASSUME SilverAssumption ==
    /\ IsFiniteSet(Documents)
    /\ \A rows \in Legacy : IsFiniteSet(rows) /\ Ids(rows) \subseteq Ids(Documents)
    /\ \A r \in Documents \cup UNION Legacy : r.day \in Nat

SilverInit ==
    /\ articles \in Legacy
    /\ doubled = Duplicated
    /\ writer = [w \in Writers |-> [pc |-> "idle", rows |-> {}, snapshot |-> {}]]
    /\ repair = [pc |-> "none", keep |-> {}, emptied |-> {}]
    /\ kept = Ids(articles)
    /\ between = {}

-----------------------------------------------------------------------------

(* dropDuplicates, row_number() = 1: one row of every article, any one.    *)
OneOfEach(rows) ==
    {S \in SUBSET rows : Ids(S) = Ids(rows) /\ Cardinality(S) = Cardinality(Ids(S))}

(* normalize_window parses a window of bronze, keeps any one row of each   *)
(* article, and the MERGE looks for matches in the snapshot it finds.      *)
BeginMerge(w) ==
    /\ writer[w].pc = "idle"
    /\ \E since, until \in {d.fetched : d \in Documents} :
          LET read == {d \in Documents : since <= d.fetched /\ d.fetched <= until}
          IN  \E batch \in OneOfEach(read) :
                 writer' = [writer EXCEPT ![w] =
                    [pc |-> "commit", snapshot |-> articles,
                     rows |-> {Row(d, w) : d \in {e \in batch :
                                        e.article \notin Ids(articles)}}]]
    /\ UNCHANGED <<doubled, articles, repair, kept, between>>

(* Mutant: an append conflicts with nothing, as before the ALTER.          *)
MergeCommitsSnapshot(w) ==
    /\ writer[w].pc = "commit"
    /\ articles' = articles \cup writer[w].rows
    /\ writer' = [writer EXCEPT ![w].pc = "idle"]
    /\ kept' = kept \cup Ids(writer[w].rows)
    /\ between' = IF repair.pc = "write" THEN between \cup Ids(writer[w].rows)
                  ELSE between
    /\ UNCHANGED <<doubled, repair>>

(* 'write.merge.isolation-level' = 'serializable': rows added since the    *)
(* snapshot make the commit fail.                                          *)
MergeCommits(w) ==
    /\ writer[w].pc = "commit"
    /\ articles = writer[w].snapshot
    /\ articles' = articles \cup writer[w].rows
    /\ writer' = [writer EXCEPT ![w].pc = "idle"]
    /\ kept' = kept \cup Ids(writer[w].rows)
    /\ between' = IF repair.pc = "write" THEN between \cup Ids(writer[w].rows)
                  ELSE between
    /\ UNCHANGED <<doubled, repair>>

(* A conflict, or the process dies.                                        *)
MergeFails(w) ==
    /\ writer[w].pc = "commit"
    /\ writer' = [writer EXCEPT ![w].pc = "idle"]
    /\ UNCHANGED <<doubled, articles, repair, kept, between>>

-----------------------------------------------------------------------------

(* The rows of the closed range of days from the first affected one to the *)
(* last.                                                                   *)
InRange ==
    LET days == {r.day : r \in {q \in articles : q.article \in Duplicated}}
    IN  {r \in articles : \E low, high \in days : low <= r.day /\ r.day <= high}

(* Of every article in range one earliest row.                             *)
Survivors ==
    {S \in OneOfEach(InRange) :
        \A r \in S, q \in InRange : q.article = r.article => r.fetched <= q.fetched}

BeginRepair ==
    /\ repair.pc # "write" /\ Duplicated # {}
    /\ \E S \in Survivors :
          repair' = [pc |-> "write", keep |-> S,
                     emptied |-> {r.day : r \in InRange} \ {r.day : r \in S}]
    /\ UNCHANGED <<doubled, articles, writer, kept, between>>

(* Mutant: only the rows of duplicated articles are written back.          *)
OverwriteRepaired ==
    /\ repair.pc = "write"
    /\ LET rows == {r \in repair.keep : r.article \in Duplicated}
       IN  articles' = {r \in articles : \A q \in rows : q.day # r.day} \cup rows
    /\ repair' = [repair EXCEPT !.pc = "done"]
    /\ UNCHANGED <<doubled, writer, kept, between>>

(* overwritePartitions: the days that still have rows are replaced in one  *)
(* commit, whatever has been added to them since the read.                 *)
OverwriteDays ==
    /\ repair.pc = "write"
    /\ articles' = {r \in articles : \A q \in repair.keep : q.day # r.day}
                   \cup repair.keep
    /\ repair' = [repair EXCEPT !.pc = "done"]
    /\ UNCHANGED <<doubled, writer, kept, between>>

RepairDies ==
    /\ repair.pc = "write"
    /\ repair' = [repair EXCEPT !.pc = "none"]
    /\ UNCHANGED <<doubled, articles, writer, kept, between>>

SilverNext ==
    \/ \E w \in Writers : BeginMerge(w) \/ MergeCommits(w) \/ MergeFails(w)
    \/ BeginRepair \/ OverwriteDays \/ RepairDies

-----------------------------------------------------------------------------

SilverSpec == SilverInit /\ [][SilverNext]_silverVars

SilverTypeOK ==
    /\ Ids(articles) \subseteq Ids(Documents)
    /\ \A w \in Writers : writer[w].pc \in {"idle", "commit"}
    /\ repair.pc \in {"none", "write", "done"}
    /\ between \subseteq kept /\ kept \subseteq Ids(Documents)

(* No interleaving of merges gives an article a second row: only those the *)
(* table held twice before can have two, and after a repair only in days   *)
(* the repair left without a row.  No article that was ever committed is   *)
(* missing - a day's partition-mates survive the rewrite of the day - but  *)
(* for one merged between the repair's read and its write.                 *)
ArticlesKept ==
    /\ Duplicated \subseteq doubled
    /\ repair.pc = "done" => \A a \in Duplicated :
          \E r \in articles : r.article = a /\ r.day \in repair.emptied
    /\ kept \subseteq Ids(articles) \cup between

=============================================================================
