------------------------------ MODULE MCTables ------------------------------
(* The tables of the warehouse that have a job of their own, one at a time: *)
(* no two of these jobs share state, so an execution moves one of them and  *)
(* leaves the others as they start.                                         *)
EXTENDS Stories, Resolution, Observations, Maintenance,
        SourceHealth, Threads, Linking, Page, Streak

VARIABLE table   \* the one that moves

MCvars == <<table, storiesVars, mentionsVars, dimensionVars,
            observationsVars, silverVars, healthVars, threadsVars,
            linkingVars, rankingVars, embeddingsVars, sweepVars, streakVars>>

-----------------------------------------------------------------------------
(* Four articles at most: the chain x1 - x2 - x3 - x4 of titles that share  *)
(* two tokens with their neighbour, reprints of higher authority, filings   *)
(* of two companies under one number, funds that differ by a number, prose *)
(* of one text and some bands, releases of one text and no band in common.  *)

Plain(title, hash) ==
    [title |-> title, body |-> {}, text |-> hash, bands |-> {hash},
     numbers |-> {}, filings |-> {}, hash |-> hash, authority |-> 5,
     fetched |-> hash % 2]
Link(i) == Plain({i, i + 1, i + 2}, i)
Reprint(i) == [Link(i) EXCEPT !.authority = 9]
Form4(cik) == [Plain({6 + cik}, 0) EXCEPT !.numbers = {cik}, !.filings = {1}]
Fund(number) == [Plain({1, 2, 3}, 10 + number) EXCEPT !.numbers = {number}]
Prose(t) == [Plain({t}, t) EXCEPT !.body = {t, 11, 12}, !.text = 1, !.bands = {1, t}]
Rewrapped(t) == [Plain({5, t}, t) EXCEPT !.body = {t + 20}, !.text = 1]

MCCorpora ==
    {<<Link(1), Link(2), Link(3), Link(4)>>,
     <<Link(3), Link(1), Link(4), Link(2)>>,
     <<Link(2), Link(4), Link(1)>>,
     <<Link(1), Reprint(1), Link(2)>>,
     <<Reprint(2), Link(3), Link(2)>>,
     <<Form4(1), Link(1), Form4(2)>>,
     <<Fund(3), Fund(4), Link(1)>>,
     <<Fund(3), Fund(3), Fund(4)>>,
     <<Prose(8), Prose(9), Form4(1), Form4(1)>>,
     <<Rewrapped(6), Rewrapped(7), Link(4)>>}

(* An article fetched twice and landing in two days, its partition mates,  *)
(* and what merges before the ALTER can have left of them.                 *)
Document(a, f, d) == [article |-> a, fetched |-> f, day |-> d]

MCDocuments == {Document("a", 1, 1), Document("a", 2, 2),
                Document("b", 2, 2), Document("b", 3, 2)}

MCLegacy == {R \in SUBSET {Row(d, w) : d \in MCDocuments, w \in {"old", "older"}} :
                Cardinality(R) <= 4}

(* A thread four deep, and one whose replies hang from the story.          *)
MCForests == {[c \in Comments |-> c - 1],
              [c \in Comments |-> IF c = 4 THEN 2 ELSE 1]}

(* Two rows of SEC's file: two companies, or two listings of one.          *)
MCNames == {<<"meta", "platforms", "inc">>, <<"meta", "images">>,
            <<"getty", "images">>, <<"platforms", "inc">>, <<"getty", "ab">>}
MCRegisters ==
    {<<[cik |-> "c1", ticker |-> "T1", name |-> n],
       [cik |-> c, ticker |-> "T2", name |-> m]>> :
           n \in MCNames, m \in MCNames, c \in {"c1", "c2"}}

(* Wikidata: an alias of a listed company, a subsidiary of one, a company  *)
(* of its own, an item that comes twice with two parents.                  *)
Item(item, label, aliases, parent) ==
    [item |-> item, label |-> label, aliases |-> aliases, parent |-> parent]
MCGazettes ==
    {<<>>,
     <<Item(1, <<"meta">>, {<<"platforms">>, <<"ab">>}, Unknown)>>,
     <<Item(1, <<"getty">>, {}, Unknown),
       Item(2, <<"images">>, {<<"getty", "images">>}, 1)>>,
     <<Item(1, <<"meta", "platforms">>, {}, Unknown),
       Item(2, <<"getty", "inc">>, {<<"images">>}, 1),
       Item(2, <<"getty", "inc">>, {<<"images">>}, Unknown)>>,
     <<Item(1, <<"images">>, {<<"meta">>}, Unknown),
       Item(2, <<"platforms">>, {<<"meta">>}, Unknown)>>}

Said(surface, words, cik, context) ==
    [surface |-> surface, span |-> words, cik |-> cik, context |-> context]
MCWords ==
    {<<"meta">>, <<"platforms">>, <<"getty">>, <<"ab">>,
     <<"meta", "platforms">>, <<"getty", "images">>, <<"images", "getty">>,
     <<"filed", "getty">>, <<"filed", "meta", "inc">>,
     <<"getty", "images", "inc">>, <<"meta", "platforms", "getty">>}
MCSpans ==
    {Said(w, w, cik, context) : w \in MCWords, cik \in {Unknown, "c1", "c9"},
                                context \in {<<>>, <<"meta", "platforms">>}}
    \cup {Said(<<"filed">>, <<"filed", "getty">>, "c1", <<>>)}

MCLetters == [w \in {"meta", "platforms", "getty", "images", "inc", "filed", "ab"} |->
                 IF w = "ab" THEN 2 ELSE 5]

(* A story on two wires with its discussion, a story that comes back under *)
(* a new id, and one company followed or not.                              *)
Wire(title, publisher, at, topics, item, firms) ==
    [title |-> title, publisher |-> publisher, at |-> at, topics |-> topics,
     item |-> item, firms |-> firms]
MCWires ==
    {<<Wire(1, 1, 0, 0, 1, <<1, 0>>), Wire(2, 2, 0, 0, 2, <<1, 0>>),
       Wire(1, 1, 1, 0, 0, <<0, 1>>)>>,
     <<Wire(1, 1, 0, 0, 0, <<2, 1>>), Wire(3, 1, 1, 0, 0, <<1, 2>>),
       Wire(1, 2, 1, 0, 0, <<2, 1>>)>>,
     <<Wire(1, 1, 1, 1, 1, <<0, 0>>), Wire(1, 1, 0, 1, 2, <<0, 0>>),
       Wire(3, 1, 1, 2, 3, <<0, 0>>)>>}
MCBoards == {<<5, 2>>}
(* A window whose headlines are all new, partly new, all old, or that has  *)
(* none with a title.                                                      *)
MCWindows == {[history |-> {1}, heads |-> {2}], [history |-> {1, 2}, heads |-> {2}],
              [history |-> {2}, heads |-> {1, 2}], [history |-> {1, 2}, heads |-> {}]}

(* Two tables, of which a night can find both, one or none.                *)
MCSwept == <<"bronze.raw_documents", "silver.articles">>

MCLikeness(a, b) == IF a = b THEN 100 ELSE IF {a, b} = {1, 2} THEN 80 ELSE 30

-----------------------------------------------------------------------------

Focus == {"story_clusters", "entity_mentions", "dim_entity", "observations",
          "articles", "source_health", "hn_comments", "links", "page",
         "embeddings", "maintenance_runs", "streak"}

(* The tables that do not move start, and stay, in one of their initial    *)
(* states.                                                                 *)
MCInit ==
    /\ table \in Focus
    /\ StoriesInit
    /\ table # "story_clusters" => content = CHOOSE c \in Corpora : TRUE
    /\ MentionsInit
    /\ DimensionInit
    /\ table # "dim_entity" =>
          says = [t \in 1..MaxSnapshot |-> [e \in Entities |-> Unlisted]]
    /\ ObservationsInit
    /\ SilverInit
    /\ table # "articles" => articles = {}
    /\ HealthInit
    /\ table # "source_health" => reach = CHOOSE r \in Reaches : TRUE
    /\ ThreadsInit
    /\ table # "hn_comments" => parentId = CHOOSE f \in Forests : TRUE
    /\ IF table = "links" THEN LinkingInit
       ELSE /\ register = <<>> /\ gazette = <<>> /\ companies = {}
            /\ span = Unknown /\ link = Unknown
    /\ RankingInit
    /\ table # "page" =>
          world = CHOOSE w \in [wire : Wires, board : Boards,
                               tables : {Optional}] : TRUE
    /\ EmbeddingsInit
    /\ table # "embeddings" => encoder = CHOOSE e \in Encoders : TRUE
    /\ SweepInit
    /\ StreakInit

OnStories ==
    /\ table = "story_clusters" /\ StoriesNext
    /\ UNCHANGED <<table, mentionsVars, dimensionVars, observationsVars, silverVars,
                   healthVars, threadsVars, linkingVars, rankingVars,
                   embeddingsVars, sweepVars, streakVars>>

OnMentions ==
    /\ table = "entity_mentions" /\ MentionsNext
    /\ UNCHANGED <<table, storiesVars, dimensionVars, observationsVars, silverVars,
                   healthVars, threadsVars, linkingVars, rankingVars,
                   embeddingsVars, sweepVars, streakVars>>

OnDimension ==
    /\ table = "dim_entity" /\ DimensionNext
    /\ UNCHANGED <<table, storiesVars, mentionsVars, observationsVars, silverVars,
                   healthVars, threadsVars, linkingVars, rankingVars,
                   embeddingsVars, sweepVars, streakVars>>

OnObservations ==
    /\ table = "observations" /\ ObservationsNext
    /\ UNCHANGED <<table, storiesVars, mentionsVars, dimensionVars, silverVars,
                   healthVars, threadsVars, linkingVars, rankingVars,
                   embeddingsVars, sweepVars, streakVars>>

OnArticles ==
    /\ table = "articles" /\ SilverNext
    /\ UNCHANGED <<table, storiesVars, mentionsVars, dimensionVars, observationsVars,
                   healthVars, threadsVars, linkingVars, rankingVars,
                   embeddingsVars, sweepVars, streakVars>>

OnHealth ==
    /\ table = "source_health" /\ HealthNext
    /\ UNCHANGED <<table, storiesVars, mentionsVars, dimensionVars, observationsVars,
                   silverVars, threadsVars, linkingVars, rankingVars,
                   embeddingsVars, sweepVars, streakVars>>

OnComments ==
    /\ table = "hn_comments" /\ ThreadsNext
    /\ UNCHANGED <<table, storiesVars, mentionsVars, dimensionVars, observationsVars,
                   silverVars, healthVars, linkingVars, rankingVars,
                   embeddingsVars, sweepVars, streakVars>>

OnLinks ==
    /\ table = "links" /\ LinkingNext
    /\ UNCHANGED <<table, storiesVars, mentionsVars, dimensionVars, observationsVars,
                   silverVars, healthVars, threadsVars, rankingVars,
                   embeddingsVars, sweepVars, streakVars>>

(* One brief is as good as many: a page ends the execution.                *)
OnPage ==
    /\ table = "page" /\ reader.pc # "page" /\ RankingNext
    /\ UNCHANGED <<table, storiesVars, mentionsVars, dimensionVars, observationsVars,
                   silverVars, healthVars, threadsVars,
                   linkingVars, embeddingsVars, sweepVars, streakVars>>

OnEmbeddings ==
    /\ table = "embeddings" /\ EmbeddingsNext
    /\ UNCHANGED <<table, storiesVars, mentionsVars, dimensionVars, observationsVars,
                   silverVars, healthVars, threadsVars, linkingVars, rankingVars,
                   sweepVars, streakVars>>

OnSweep ==
    /\ table = "maintenance_runs" /\ SweepNext
    /\ UNCHANGED <<table, storiesVars, mentionsVars, dimensionVars, observationsVars,
                   silverVars, healthVars, threadsVars, linkingVars, rankingVars,
                   embeddingsVars, streakVars>>

OnStreak ==
    /\ table = "streak" /\ StreakNext
    /\ UNCHANGED <<table, storiesVars, mentionsVars, dimensionVars, observationsVars,
                   silverVars, healthVars, threadsVars, linkingVars, rankingVars,
                   embeddingsVars, sweepVars>>

MCNext ==
    \/ OnStories \/ OnMentions \/ OnDimension
    \/ OnObservations \/ OnArticles \/ OnHealth
    \/ OnComments \/ OnLinks \/ OnPage \/ OnEmbeddings \/ OnSweep \/ OnStreak

MCSpec == MCInit /\ [][MCNext]_MCvars

(* Every variable of the twelve modules has its type.                         *)
TablesTypeOK ==
    /\ table \in Focus
    /\ table = "story_clusters" => StoriesTypeOK
    /\ table = "entity_mentions" => MentionsTypeOK
    /\ table = "dim_entity" => DimensionTypeOK
    /\ table = "observations" => ObservationsTypeOK
    /\ table = "articles" => SilverTypeOK
    /\ table = "source_health" => HealthTypeOK
    /\ table = "hn_comments" => ThreadsTypeOK
    /\ table = "links" => LinkingTypeOK
    /\ table = "page" => RankingTypeOK
    /\ table = "embeddings" => EmbeddingsTypeOK
    /\ table = "maintenance_runs" => SweepTypeOK
    /\ table = "streak" => StreakTypeOK

=============================================================================
