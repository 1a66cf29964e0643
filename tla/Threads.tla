------------------------------ MODULE Threads ------------------------------
(***************************************************************************)
(* silver.hn_comments: normalize_hn_comments_window and _resolve_story_ids *)
(* of spark/jobs/normalize.py.                                             *)
(*                                                                         *)
(* A pass takes the comments of one hour of bronze and finds the story of  *)
(* each by climbing parent_id through the comments it knows: those of the  *)
(* table and those of its own hour.  It inserts what the table lacks and   *)
(* changes nothing that is there, so a story_id is the answer of the first *)
(* pass that committed the comment, whatever arrives later.                *)
(***************************************************************************)
EXTENDS Integers

CONSTANTS
    Comments,     \* Hacker News ids of comments; every other id is a story's
    Forests,      \* parent_id of every comment
    MaxHops,      \* max_hops
    MaxBronzeHour, \* bound: hours of bronze
    MaxPasses     \* bound: passes that commit

ASSUME ThreadsAssumption ==
    /\ Comments \subseteq Nat
    /\ \A f \in Forests : f \in [Comments -> Nat] /\ \A c \in Comments : f[c] < c
    /\ MaxHops \in Nat /\ MaxBronzeHour \in Nat /\ MaxPasses \in Nat

VARIABLES
    parentId,      \* the thread Hacker News holds
    bronzeItems,   \* bronze.raw_documents: comments with the hour of a fetch
    hnComments,    \* silver.hn_comments: item, story and the pass that wrote it
    hnPass,        \* the pass under way: its hour and the rows it found
    passes         \* passes that have committed

threadsVars == <<parentId, bronzeItems, hnComments, hnPass, passes>>

-----------------------------------------------------------------------------

NoPass == [pc |-> "idle", rows |-> {}]

CommentIds(rows) == {r.item : r \in rows}

ThreadsInit ==
    /\ parentId \in Forests
    /\ bronzeItems = {}
    /\ hnComments = {}
    /\ hnPass = NoPass
    /\ passes = 0

(* A document of a comment reaches bronze; a poll that died or overlapped  *)
(* another has it fetched twice, and a reply before what it replies to.    *)
CommentFetched(c, h) ==
    /\ <<c, h>> \notin bronzeItems
    /\ bronzeItems' = bronzeItems \cup {<<c, h>>}
    /\ UNCHANGED <<parentId, hnComments, hnPass, passes>>

(* Mutant: only the comments the table already holds can be climbed        *)
(* through.                                                                *)
KnownInTable(batch) == CommentIds(hnComments)

(* edges: the table and the batch itself.                                  *)
KnownComments(batch) == CommentIds(hnComments) \cup batch

(* One join of the loop: story_id moves to its own parent if it is known,  *)
(* and stays otherwise.                                                    *)
Climb(story, known) == IF story \in known THEN parentId[story] ELSE story

StoryId(c, known) ==
    LET after[hops \in 0..MaxHops] ==
            IF hops = 0 THEN parentId[c] ELSE Climb(after[hops - 1], known)
    IN  after[MaxHops]

(* The pass reads the ok documents of its hour, one per item, and the      *)
(* table.  The hour is any: hours are run again by hand, and late.         *)
ResolveStories(h) ==
    /\ hnPass.pc = "idle" /\ passes < MaxPasses
    /\ LET batch == {c \in Comments : <<c, h>> \in bronzeItems}
           known == KnownComments(batch)
       IN  hnPass' = [pc |-> "merge",
                      rows |-> {[item |-> c, story |-> StoryId(c, known)] :
                                   c \in batch}]
    /\ UNCHANGED <<parentId, bronzeItems, hnComments, passes>>

(* MERGE ... WHEN NOT MATCHED THEN INSERT.                                 *)
MergeComments ==
    /\ hnPass.pc = "merge"
    /\ passes' = passes + 1
    /\ hnComments' = hnComments \cup
          {[item |-> r.item, story |-> r.story, pass |-> passes'] :
              r \in {q \in hnPass.rows : q.item \notin CommentIds(hnComments)}}
    /\ hnPass' = NoPass
    /\ UNCHANGED <<parentId, bronzeItems>>

PassDies ==
    /\ hnPass.pc = "merge"
    /\ hnPass' = NoPass
    /\ UNCHANGED <<parentId, bronzeItems, hnComments, passes>>

ThreadsNext ==
    \/ \E c \in Comments, h \in 1..MaxBronzeHour : CommentFetched(c, h)
    \/ \E h \in 1..MaxBronzeHour : ResolveStories(h)
    \/ MergeComments
    \/ PassDies

ThreadsSpec == ThreadsInit /\ [][ThreadsNext]_threadsVars

-----------------------------------------------------------------------------

ThreadsTypeOK ==
    /\ parentId \in [Comments -> Nat]
    /\ bronzeItems \subseteq Comments \X (1..MaxBronzeHour)
    /\ hnComments \subseteq [item : Comments, story : Nat, pass : 1..MaxPasses]
    /\ hnPass \in [pc : {"idle", "merge"},
                   rows : SUBSET [item : Comments, story : Nat]]
    /\ passes \in 0..MaxPasses

(* The climbs of n comments: each the parent of the one before.            *)
Climbs(c, n) ==
    {path \in [1..n -> Comments] :
        /\ path[1] = c
        /\ \A i \in 1..(n - 1) : path[i + 1] = parentId[path[i]]}

(* story_id is the story of the thread, or a comment that arrived after    *)
(* the reply did: a pass that knows a comment climbs past it.  Only the    *)
(* bound on hops stops a climb earlier, and then exactly there.  However   *)
(* passes are repeated, die or run out of order, a comment has one row.    *)
ThreadsTrue ==
    /\ \A r, q \in hnComments : r.item = q.item => r = q
    /\ \A r \in hnComments :
          \E n \in 1..(MaxHops + 1) : \E path \in Climbs(r.item, n) :
              /\ r.story = parentId[path[n]]
              /\ \/ r.story \notin Comments
                 \/ n = MaxHops + 1
                 \/ \A q \in hnComments : q.item = r.story => r.pass < q.pass

=============================================================================
