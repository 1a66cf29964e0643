------------------------------ MODULE Ranking ------------------------------
(***************************************************************************)
(* The page of a brief: ranked_window of brief/select.py, the six reads it *)
(* makes of the warehouse (brief/read.py), the novelty of brief/novelty.py *)
(* and the score and order of brief/ranker.py.                             *)
(*                                                                         *)
(* The reads are six queries, one after the other, and nothing holds the   *)
(* tables still between them.  A component of a score is in 1/120, a weight*)
(* in hundredths.                                                          *)
(***************************************************************************)
EXTENDS Integers, FiniteSets

CONSTANTS
    Reports,       \* articles; a cluster has the id of one of them
    Wires,         \* what the reports say: [title, publisher, at, topics,
                   \*                        item, firms] of each
    Firms,         \* companies
    Followed,      \* the companies of the watchlist
    Boards,        \* |latest return| in half deviations, of each company
    Likeness(_, _),\* similarity of two titles, in hundredths
    NoItem,        \* what a report that is not of Hacker News has for item
    Scores,        \* the scores a poll can find
    Saturation,    \* VELOCITY_SATURATION, in points per tick
    Span,          \* CLUSTER_WINDOW_HOURS, in ticks
    DayTicks,      \* ticks of a day
    HistoryDays,   \* NOVELTY_HISTORY_DAYS
    LookbackDays,  \* FEEDBACK_LOOKBACK_DAYS
    LastTick,      \* bound: time
    MaxEvents      \* bound: marks, measurements and runs of the cluster job

ASSUME RankingAssumption ==
    /\ Reports \subseteq Nat /\ Firms \subseteq Nat /\ Followed \subseteq Firms
    /\ IsFiniteSet(Reports) /\ IsFiniteSet(Firms)
    /\ Saturation \in Nat \ {0} /\ DayTicks \in Nat \ {0}
    /\ {Span, HistoryDays, LookbackDays, LastTick, MaxEvents} \subseteq Nat
    /\ Scores \subseteq Int
    /\ \A w \in Wires, r \in Reports :
          /\ w[r].at \in Nat /\ w[r].topics \in Nat
          /\ \A f \in Firms : w[r].firms[f] \in Nat
          /\ \A q \in Reports : Likeness(w[r].title, w[q].title) \in 0..100
    /\ \A b \in Boards, f \in Firms : b[f] \in Nat

VARIABLES
    now,
    world,        \* the reports, the market, and which optional tables exist
    stories,      \* silver.story_clusters
    members,      \* silver.article_clusters
    clustering,   \* the cluster run between its two commits, or idle
    measured,     \* silver.hn_score_snapshots
    marked,       \* the marked rows of gold.brief_items
    reader,       \* the reads under way, or the page they made
    events

rankingVars == <<now, world, stories, members, clustering, measured, marked,
                 reader, events>>

-----------------------------------------------------------------------------

Low(S) == CHOOSE x \in S : \A y \in S : x <= y
High(S) == CHOOSE x \in S : \A y \in S : x >= y
Clamp(x, top) == IF x < 0 THEN 0 ELSE IF x > top THEN top ELSE x

DayOf(t) == t \div DayTicks

NewestWindow(table) == High({r.window : r \in table} \cup {-1})
Latest(table) == {r \in table : r.window = NewestWindow(table)}

Optional == {"entity_mentions", "hn_score_snapshots", "brief_items"}

NoReader == [pc |-> "idle", at |-> 0, quiet |-> FALSE, clusters |-> {},
             entities |-> {}, slopes |-> {}, marks |-> {}, novelty |-> {},
             page |-> {}]

(* The optional tables are not there yet, or all are.                      *)
RankingInit ==
    /\ now = 0
    /\ world \in [wire : Wires, board : Boards, tables : {{}, Optional}]
    /\ stories = {} /\ members = {}
    /\ clustering = {}
    /\ measured = {} /\ marked = {}
    /\ reader = NoReader
    /\ events = 0

-----------------------------------------------------------------------------
(* What goes on beside the reader.                                         *)

(* A table the reader reads, or has read, changes.                         *)
Commit ==
    /\ events < MaxEvents
    /\ events' = events + 1
    /\ reader' = [reader EXCEPT !.quiet = FALSE]
    /\ UNCHANGED <<now, world>>

(* The reads of a brief take seconds; a tick is hours.                     *)
TimePasses ==
    /\ now < LastTick /\ reader.pc = "idle"
    /\ now' = now + 1
    /\ UNCHANGED <<world, stories, members, clustering, measured, marked, reader,
                   events>>

DayReplaced(table, rows) ==
    {r \in table : \A q \in rows : DayOf(r.window) # DayOf(q.window)} \cup rows

Groupings(S) ==
    {P \in SUBSET ((SUBSET S) \ {{}}) :
        UNION P = S /\ \A G, H \in P : G # H => G \cap H = {}}

(* The row of a cluster (group_edges, module Stories).                     *)
StoryRow(G) ==
    [window |-> now, id |-> Low(G), title |-> world.wire[Low(G)].title,
     topics |-> world.wire[Low(G)].topics,
     publishers |-> Cardinality({world.wire[r].publisher : r \in G}),
     seen |-> High({world.wire[r].at : r \in G})]

(* cluster_window commits the clusters of its window, then their members;  *)
(* a run can die in between.                                               *)
CommitStories ==
    /\ clustering = {} /\ NewestWindow(stories) < now
    /\ \E P \in Groupings({r \in Reports : now - Span <= world.wire[r].at
                                           /\ world.wire[r].at < now}) :
          /\ P # {}
          /\ stories' = DayReplaced(stories, {StoryRow(G) : G \in P})
          /\ clustering' = UNION {{[window |-> now, id |-> Low(G), report |-> r] :
                                      r \in G} : G \in P}
    /\ Commit
    /\ UNCHANGED <<members, measured, marked>>

CommitMembers ==
    /\ clustering # {}
    /\ members' = DayReplaced(members, clustering)
    /\ clustering' = {}
    /\ reader' = [reader EXCEPT !.quiet = FALSE]
    /\ UNCHANGED <<now, world, stories, measured, marked, events>>

RunDies ==
    /\ clustering # {}
    /\ clustering' = {}
    /\ UNCHANGED <<now, world, stories, members, measured, marked, reader, events>>

(* normalize_hn_scores_window: a row per measurement.                      *)
Measured(item, score) ==
    /\ \A m \in measured : m.item = item => m.at # now
    /\ measured' = measured \cup {[item |-> item, score |-> score, at |-> now]}
    /\ Commit
    /\ UNCHANGED <<stories, members, clustering, marked>>

(* A mark on a row of today's brief.                                       *)
MarkGiven(id, mark) ==
    /\ \A k \in marked : k.id = id => k.day # DayOf(now)
    /\ marked' = marked \cup {[id |-> id, mark |-> mark, day |-> DayOf(now)]}
    /\ Commit
    /\ UNCHANGED <<stories, members, clustering, measured>>

-----------------------------------------------------------------------------
(* The reads: each is of the tables as they are when it runs.              *)

ReadClusters ==
    /\ reader.pc = "idle"
    /\ reader' = [NoReader EXCEPT
                    !.pc = "entities", !.at = now, !.clusters = Latest(stories),
                    !.quiet = NewestWindow(stories) = NewestWindow(members)]

ReportsOf(id) == {m.report : m \in {n \in Latest(members) : n.id = id}}

ReadIds == {m.id : m \in Latest(members)}

(* How often the reports of a cluster mention a company, those of them that*)
(* are in the window of the brief: count of the rows of the join, the k-th *)
(* mention in report r being <<r, k>>.                                     *)
Mentioned(id, firm, at) ==
    LET read == {r \in ReportsOf(id) : at - Span <= world.wire[r].at}
    IN  IF "entity_mentions" \in world.tables
        THEN Cardinality(UNION {{r} \X (1..world.wire[r].firms[firm]) : r \in read})
        ELSE 0

(* read_cluster_entities, by the newest window of article_clusters.        *)
ReadEntities ==
    /\ reader.pc = "entities"
    /\ reader' = [reader EXCEPT !.pc = "velocity", !.entities =
          {e \in {<<id, firm, Mentioned(id, firm, reader.at)>> :
                     id \in ReadIds, firm \in Firms} : e[3] > 0}]

(* Points per tick between the first and the last measurement of the       *)
(* window, times 120; none if there are not two.                           *)
Slopes(item, since) ==
    LET seen == {m \in measured : m.item = item /\ m.at >= since}
        ticks == {m.at : m \in seen}
        ScoreAt(t) == (CHOOSE m \in seen : m.at = t).score
    IN  IF Cardinality(ticks) < 2 THEN {}
        ELSE {((ScoreAt(High(ticks)) - ScoreAt(Low(ticks))) * 120)
                  \div (High(ticks) - Low(ticks))}

(* read_hn_velocity: a cluster climbs as fast as its fastest report.       *)
FastestSlope(id, since) ==
    LET all == UNION {Slopes(world.wire[r].item, since) : r \in ReportsOf(id)}
    IN  IF all = {} THEN {} ELSE {High(all)}

ReadVelocity ==
    /\ reader.pc = "velocity"
    /\ reader' = [reader EXCEPT !.pc = "feedback", !.slopes =
          UNION {{<<id, s>> : s \in FastestSlope(id, reader.at - Span)} :
                    id \in ReadIds}]

(* read_feedback: of a cluster marked on several days the rows come in any *)
(* order, and the last one counts.                                         *)
Marks(id, at) ==
    {k.mark : k \in {m \in marked : m.id = id /\ m.day >= DayOf(at) - LookbackDays}}

ReadFeedback ==
    /\ reader.pc = "feedback"
    /\ LET ids == {k.id : k \in {m \in marked : Marks(m.id, reader.at) # {}}}
       IN  \E last \in [ids -> {-1, 1}] :
              /\ \A id \in ids : last[id] \in Marks(id, reader.at)
              /\ reader' = [reader EXCEPT !.pc = "novelty",
                                          !.marks = {<<id, last[id]>> : id \in ids}]

(* Mutant: the newest window is part of what its stories are compared to.  *)
PriorTitlesAndOwn(at) ==
    {s.title : s \in {r \in stories : DayOf(r.window) >= DayOf(at) - HistoryDays}}

(* read_novelty_history: the titles of the windows before the newest.      *)
PriorTitles(at) ==
    {s.title : s \in {r \in stories : /\ r.window < NewestWindow(stories)
                                      /\ DayOf(r.window) >= DayOf(at) - HistoryDays}}

Nearest(title, titles) == High({Likeness(title, t) : t \in titles} \cup {0})

(* novelty_from_similarity, rescaled from the floor of 50.                 *)
Novelty(similarity) == Clamp(((100 - similarity) * 120) \div 50, 120)

(* _read_novelty.  Without a history, or an encoder that answers for what  *)
(* the cache lacks, no story has one.                                      *)
ReadNovelty ==
    /\ reader.pc = "novelty"
    /\ \/ /\ PriorTitles(reader.at) # {}
          /\ reader' = [reader EXCEPT !.pc = "rank", !.novelty =
                {<<c.id, Novelty(Nearest(c.title, PriorTitles(reader.at)))>> :
                    c \in reader.clusters}]
       \/ reader' = [reader EXCEPT !.pc = "rank"]

(* A query fails for another reason than a missing table.                  *)
ReadFails == reader.pc \notin {"idle", "page"} /\ reader' = NoReader

-----------------------------------------------------------------------------
(* The score.                                                              *)

Value(pairs, id, default) ==
    IF \E p \in pairs : p[1] = id THEN (CHOOSE p \in pairs : p[1] = id)[2]
    ELSE default

EntitiesOf(id) == {<<e[2], e[3]>> : e \in {f \in reader.entities : f[1] = id}}

(* The company a story is about: the one it mentions most.                 *)
Subject(entities) ==
    LET most == High({e[2] : e \in entities})
    IN  Low({e[1] : e \in {f \in entities : f[2] = most}})

(* _relevance.                                                             *)
Relevance(entities, topics) ==
    IF entities # {} /\ Subject(entities) \in Followed THEN 120
    ELSE IF topics > 0 THEN Clamp(48 + 24 * topics, 96)
    ELSE IF \E e \in entities : e[1] \in Followed THEN 36 ELSE 0

(* _market_corroboration.                                                  *)
Corroboration(entities) ==
    IF entities = {} THEN 0
    ELSE Clamp((world.board[Subject(entities)] - 3) * 40, 120)

(* _velocity.                                                              *)
Velocity(id) == Clamp(Value(reader.slopes, id, 0) \div Saturation, 120)

(* score_cluster, under WEIGHTS.                                           *)
Score(c) ==
      5 * Clamp((c.publishers - 1) * 40, 120)
    + 20 * Clamp(120 - ((reader.at - c.seen) * 120) \div DayTicks, 120)
    + 25 * Relevance(EntitiesOf(c.id), c.topics)
    + 10 * Velocity(c.id)
    + 10 * Corroboration(EntitiesOf(c.id))
    + 10 * 120 * Value(reader.marks, c.id, 0)
    + 20 * Value(reader.novelty, c.id, 0)

Ahead(a, b) ==
    \/ Score(a) > Score(b)
    \/ Score(a) = Score(b) /\ a.id < b.id

(* rank.                                                                   *)
Rank ==
    /\ reader.pc = "rank"
    /\ reader' = [reader EXCEPT !.pc = "page", !.page =
          {[cluster |-> c, score |-> Score(c),
            rank |-> 1 + Cardinality({d \in reader.clusters : Ahead(d, c)})] :
              c \in reader.clusters}]

Reading ==
    /\ \/ ReadClusters \/ ReadEntities \/ ReadVelocity \/ ReadFeedback
       \/ ReadNovelty \/ Rank \/ ReadFails
    /\ UNCHANGED <<now, world, stories, members, clustering, measured, marked,
                   events>>

RankingNext ==
    \/ TimePasses
    \/ CommitStories \/ CommitMembers \/ RunDies
    \/ "hn_score_snapshots" \in world.tables
       /\ \E item \in {world.wire[r].item : r \in Reports} \ {NoItem}, s \in Scores :
             Measured(item, s)
    \/ "brief_items" \in world.tables
       /\ \E id \in {s.id : s \in stories}, mark \in {-1, 1} : MarkGiven(id, mark)
    \/ Reading

RankingSpec == RankingInit /\ [][RankingNext]_rankingVars

-----------------------------------------------------------------------------

RankingTypeOK ==
    /\ now \in 0..LastTick /\ events \in 0..MaxEvents
    /\ world.tables \subseteq Optional
    /\ clustering \subseteq [window : 0..LastTick, id : Reports, report : Reports]
    /\ members \subseteq [window : 0..LastTick, id : Reports, report : Reports]
    /\ \A s \in stories : s.window \in 0..LastTick /\ s.id \in Reports
    /\ measured \subseteq [item : {world.wire[r].item : r \in Reports} \ {NoItem},
                            score : Scores, at : 0..LastTick]
    /\ marked \subseteq [id : Reports, mark : {-1, 1}, day : 0..DayOf(LastTick)]
    /\ reader.quiet \in BOOLEAN
    /\ \A c \in reader.clusters : c.window <= reader.at
    /\ \A p \in reader.novelty : p[2] \in 0..120

(* What the warehouse says of a story.                                     *)
Publishers(id) == Cardinality({world.wire[r].publisher : r \in ReportsOf(id)})
NewestReport(id) == High({world.wire[r].at : r \in ReportsOf(id)})
About(id) == {e \in {<<f, Mentioned(id, f, reader.at)>> : f \in Firms} : e[2] > 0}
Interest(id) == Relevance(About(id), world.wire[id].topics)
Stir(id) == IF About(id) = {} THEN -1 ELSE world.board[Subject(About(id))]
Pace(id) ==
    High({0} \cup UNION {Slopes(world.wire[r].item, reader.at - Span) :
                            r \in ReportsOf(id)})
Liking(id) ==
    IF Marks(id, reader.at) = {} THEN {0} ELSE Marks(id, reader.at)

(* The titles of earlier windows of the last days.                         *)
Earlier ==
    {s.title : s \in {r \in stories : /\ \E q \in stories : q.window > r.window
                                      /\ DayOf(r.window) >= DayOf(reader.at) - HistoryDays}}
Echo(id) == High({0} \cup {Likeness(world.wire[id].title, t) : t \in Earlier})

(* Story b is worth no less than story a, whatever the weights.            *)
Worth(b, a) ==
    /\ Publishers(b) >= Publishers(a) /\ NewestReport(b) >= NewestReport(a)
    /\ Interest(b) >= Interest(a) /\ Pace(b) >= Pace(a) /\ Stir(b) >= Stir(a)
    /\ \A x \in Liking(b), y \in Liking(a) : x >= y
    /\ Echo(b) <= Echo(a)

(* A page whose reads met no commit puts no story before one that is worth *)
(* as much in everything the warehouse says of the two, unless they tie and*)
(* the id decides; and a headline an earlier window already had goes behind*)
(* a new one that is worth as much, if the encoder answered.  A page is the*)
(* clusters of one window, each once.                                      *)
PageOrdered ==
    reader.pc = "page" =>
      /\ Cardinality({p.rank : p \in reader.page}) = Cardinality(reader.clusters)
      /\ Cardinality({p.cluster.window : p \in reader.page}) <= 1
      /\ reader.quiet =>
           \A p, q \in reader.page :
              LET a == p.cluster.id b == q.cluster.id IN
              a # b /\ p.rank < q.rank /\ Worth(b, a) =>
                 /\ p.score = q.score /\ a < b
                 /\ reader.novelty # {} => ~(Echo(a) = 100 /\ Echo(b) < 100)

=============================================================================
