------------------------------ MODULE Stories -------------------------------
(***************************************************************************)
(* Story clustering: cluster_window of spark/jobs/cluster.py with the      *)
(* decision and grouping of signal_core.dedup.                             *)
(*                                                                         *)
(* A run reads the window's articles in whatever order Spark collects them,*)
(* drops reprints, blocks, decides each candidate pair, takes connected    *)
(* components by union-find and replaces the partition of its day in two   *)
(* tables, one commit each.  It can die before, between and after them.    *)
(* Texts are reduced to what the decision reads of them; articles and      *)
(* tokens are numbers, so that ties have the order the code gives them.    *)
(***************************************************************************)
EXTENDS Blocking

CONSTANTS
    Articles,       \* article ids, numbers in their string order
    Corpora,        \* what the articles of a window can be
    TitleJaccard,   \* TITLE_JACCARD, in percent
    BodyJaccard,    \* BODY_JACCARD, in percent
    MinTitle,       \* MIN_TITLE_TOKENS
    MinBody,        \* MIN_BODY_TOKENS
    MinSimhash,     \* MIN_SIMHASH_TOKENS
    MaxBlock,       \* MAX_BLOCK_SIZE
    MaxShare,       \* MAX_CLUSTER_SHARE, in percent
    MinCap,         \* MIN_CLUSTER_CAP
    MaxRuns         \* bound: runs of the cluster DAG

(* What clustering reads of an article: token sets of the cleaned title and*)
(* body, the cleaned text (its simhash), the bands of the stored hash,     *)
(* long numbers, accession numbers, content_hash (0 is null), authority of *)
(* the publisher and fetched_at.                                           *)
Content == [title : SUBSET Nat, body : SUBSET Nat, text : Nat, bands : SUBSET Nat,
            numbers : SUBSET Nat, filings : SUBSET Nat, hash : Nat,
            authority : Nat, fetched : Nat]

ASSUME StoriesAssumption ==
    /\ \A corpus \in Corpora :
          /\ DOMAIN corpus \subseteq Articles /\ corpus \in [DOMAIN corpus -> Content]
          /\ \A x \in DOMAIN corpus :
                \A T \in {corpus[x].title, corpus[x].body} : IsFiniteSet(T)
    /\ Articles \subseteq Nat /\ IsFiniteSet(Articles)
    /\ TitleJaccard \in 1..100 /\ BodyJaccard \in 1..100 /\ MaxShare \in 0..100
    /\ {MinTitle, MinBody, MinSimhash, MaxBlock, MinCap, MaxRuns} \subseteq Nat

VARIABLES
    content,    \* what each article is, for good
    window,     \* articles with an event date in the rolling window
    clusters,   \* silver.story_clusters
    mapping,    \* silver.article_clusters
    job         \* the run under way, or the last one

storiesVars == <<content, window, clusters, mapping, job>>

-----------------------------------------------------------------------------
(* dedup: the decision.                                                    *)

SameFiling(a, b) == a.filings # {} /\ a.filings = b.filings

(* Two documents with identifiers, and not the same ones.                  *)
Vetoed(a, b) ==
    /\ a.numbers # {} /\ b.numbers # {}
    /\ a.numbers # b.numbers

SameText(a, b) ==
    /\ \A x \in {a, b} :
          Cardinality(x.title) + Cardinality(x.body) >= MinSimhash
    /\ a.text = b.text

SameTitle(a, b) ==
    /\ \A x \in {a, b} : Cardinality(x.title) >= MinTitle
    /\ Similar(a.title, b.title, TitleJaccard)

SameBody(a, b) ==
    /\ \A x \in {a, b} : Cardinality(x.body) >= MinBody
    /\ Similar(a.body, b.body, BodyJaccard)

(* decide: the same filing, or no veto and evidence of one kind.           *)
Decide(a, b) ==
    \/ SameFiling(a, b)
    \/ /\ ~ Vetoed(a, b)
       /\ SameText(a, b) \/ SameTitle(a, b) \/ SameBody(a, b)

-----------------------------------------------------------------------------
(* cluster._candidate_pairs: blocking.                                     *)

(* The order of all tokens, rarest first, given those of every article;    *)
(* sorting by (-frequency, token) puts the larger of two equally frequent  *)
(* tokens last.                                                            *)
Rarer(tokens) ==
    LET all == UNION {tokens[x] : x \in DOMAIN tokens}
        frequency(t) == Cardinality({x \in DOMAIN tokens : t \in tokens[x]})
    IN  {p \in all \X all :
            \/ frequency(p[1]) < frequency(p[2])
            \/ frequency(p[1]) = frequency(p[2]) /\ p[1] > p[2]}

(* The articles of S with the kinds of key and the keys they are indexed   *)
(* under, and for every key the articles that are.                         *)
Index(S) ==
    LET title == [x \in S |-> content[x].title]
        body == [x \in S |-> content[x].body]
        titles == Rarer(title)
        bodies == Rarer(body)
    IN  UNION {UNION {
            {x} \X {"title"} \X UNION BlockingKeys(title[x], titles, TitleJaccard),
            {x} \X {"body"} \X UNION BlockingKeys(body[x], bodies, BodyJaccard),
            {x} \X {"filing"} \X content[x].filings,
            {x} \X {"simhash"} \X content[x].bands} : x \in S}

Buckets(S) ==
    LET index == Index(S)
    IN  {{x \in S : <<x, i[2], i[3]>> \in index} : i \in index}

(* Mutant: a pair that shares no token is no candidate, as before 4A.G.    *)
CandidatesByToken(S) ==
    LET Tokens(x) == content[x].title \cup content[x].body
    IN  {p \in S \X S : p[1] < p[2] /\ Tokens(p[1]) \cap Tokens(p[2]) # {}}

(* Pairs that share a bucket no larger than MAX_BLOCK_SIZE.                *)
Candidates(S) ==
    LET small == {B \in Buckets(S) : Cardinality(B) <= MaxBlock}
    IN  UNION {{p \in B \X B : p[1] < p[2]} : B \in small}

-----------------------------------------------------------------------------
(* dedup.exact_dedup and dedup.group_edges.                                *)

(* exact_dedup: of the articles that share a content_hash the first one    *)
(* collected, and Spark collects a window in any order.  A null hash is not*)
(* shared.                                                                 *)
Kept(W) ==
    {S \in SUBSET W :
        /\ \A x \in W : content[x].hash = 0 => x \in S
        /\ \A x \in W : \E y \in S : content[y].hash = content[x].hash
        /\ \A x, y \in S : x # y /\ content[x].hash = content[y].hash =>
                             content[x].hash = 0}

(* find: the root of x.  (Halving the path on the way moves no root.)      *)
Find(parent, x) ==
    LET root[i \in DOMAIN parent] ==
            IF parent[i] = i THEN i ELSE root[parent[i]]
    IN  root[x]

Union(parent, edge) ==
    [parent EXCEPT ![Find(parent, edge[2])] = Find(parent, edge[1])]

(* The edges, and the one cluster_window comes to first.                   *)
Edges(S) == {p \in Candidates(S) : Decide(content[p[1]], content[p[2]])}

FirstEdge(edges) ==
    CHOOSE p \in edges : \A q \in edges : p[1] < q[1] \/ (p[1] = q[1] /\ p[2] <= q[2])

(* One turn of the loop over them: the forest, and the edges that are left.*)
Joining(made) ==
    LET edge == FirstEdge(made.left)
    IN  [parent |-> Union(made.parent, edge), left |-> made.left \ {edge}]

Unions(S, edges) ==
    LET made[n \in 0..Cardinality(edges)] ==
            IF n = 0 THEN [parent |-> [x \in S |-> x], left |-> edges]
            ELSE Joining(made[n - 1])
    IN  made[Cardinality(edges)].parent

Grouped(S) ==
    LET parent == Unions(S, Edges(S))
    IN  {{y \in S : Find(parent, y) = Find(parent, x)} : x \in S}

Cap(n) == IF MinCap > (MaxShare * n) \div 100 THEN MinCap
          ELSE (MaxShare * n) \div 100

(* The size guard: an oversized component falls apart into its articles.   *)
Dissolved(groups, n) ==
    UNION {IF Cardinality(G) > Cap(n) THEN {{x} : x \in G} ELSE {G} :
             G \in groups}

(* The canonical article: most authoritative, then earliest seen, then id. *)
Canonical(G) ==
    LET Before(x, y) ==
            LET a == content[x]  b == content[y]
            IN  \/ a.authority > b.authority
                \/ a.authority = b.authority /\ a.fetched < b.fetched
                \/ /\ a.authority = b.authority /\ a.fetched = b.fetched
                   /\ x < y
    IN  CHOOSE x \in G : \A y \in G \ {x} : Before(x, y)

(* What cluster_window writes for the articles S that exact_dedup kept: a  *)
(* row per cluster and a row per article of it.                            *)
ClusterRows(groups, run, day) ==
    {[run |-> run, day |-> day, cluster |-> Canonical(G),
      count |-> Cardinality(G)] : G \in groups}

MapRows(groups, run, day) ==
    UNION {{[run |-> run, day |-> day, article |-> x, cluster |-> Canonical(G)] :
              x \in G} : G \in groups}

-----------------------------------------------------------------------------
(* The job and its two tables.                                             *)

(* A finished or dead run is idle; read and day are of the last run begun. *)
StoriesInit ==
    /\ content \in Corpora
    /\ window = DOMAIN content
    /\ clusters = {}
    /\ mapping = {}
    /\ job = [pc |-> "idle", run |-> 0, day |-> 1, read |-> {}, groups |-> {}]

(* cluster_window: one read of the window, then everything up to the first *)
(* write.  Runs of one day share the day of their window_start.            *)
Cluster ==
    /\ job.pc = "idle" /\ job.run < MaxRuns
    /\ \E kept \in Kept(window), day \in {job.day, job.day + 1} :
          job' = [pc |-> "clusters", run |-> job.run + 1, day |-> day,
                  read |-> window,
                  groups |-> Dissolved(Grouped(kept), Cardinality(kept))]
    /\ UNCHANGED <<content, window, clusters, mapping>>

(* _overwrite: the partitions of the rows are replaced; no rows, no write. *)
Overwritten(table, rows) ==
    {r \in table : \A s \in rows : r.day # s.day} \cup rows

WriteClusters ==
    /\ job.pc = "clusters"
    /\ clusters' = Overwritten(clusters, ClusterRows(job.groups, job.run, job.day))
    /\ job' = [job EXCEPT !.pc = "map"]
    /\ UNCHANGED <<content, window, mapping>>

WriteMap ==
    /\ job.pc = "map"
    /\ mapping' = Overwritten(mapping, MapRows(job.groups, job.run, job.day))
    /\ job' = [job EXCEPT !.pc = "idle"]
    /\ UNCHANGED <<content, window, clusters>>

(* The Spark job or its host dies.                                         *)
ClusterDies ==
    /\ job.pc # "idle"
    /\ job' = [job EXCEPT !.pc = "idle"]
    /\ UNCHANGED <<content, window, clusters, mapping>>

(* An article ages out of the window.                                      *)
Age ==
    /\ \E x \in window : window' = window \ {x}
    /\ UNCHANGED <<content, clusters, mapping, job>>

StoriesNext == Cluster \/ WriteClusters \/ WriteMap \/ ClusterDies \/ Age

StoriesSpec == StoriesInit /\ [][StoriesNext]_storiesVars

-----------------------------------------------------------------------------

StoriesTypeOK ==
    /\ content \in Corpora /\ window \subseteq DOMAIN content
    /\ \A r \in clusters : r.cluster \in Articles /\ r.count \in Nat \ {0}
    /\ \A r \in mapping : {r.article, r.cluster} \subseteq Articles
    /\ job.pc \in {"idle", "clusters", "map"}
    /\ job.run \in 0..MaxRuns
    /\ UNION job.groups \subseteq job.read /\ job.read \subseteq Articles

(* What the brief reads: the newest window of each table, each on its own. *)
Newest(table) == {r \in table : \A s \in table : s.run <= r.run}

(* The pairs one decision over all pairs would join; one it joins only by  *)
(* its text has to meet in a bucket.                                       *)
Joined(S) ==
    LET buckets == Buckets(S)
        Evident(a, b) == SameFiling(a, b) \/ SameTitle(a, b) \/ SameBody(a, b)
    IN  {p \in S \X S :
            /\ Decide(content[p[1]], content[p[2]])
            /\ \/ Evident(content[p[1]], content[p[2]])
               \/ \E B \in buckets : p[1] \in B /\ p[2] \in B}

(* What joined pairs lead to from x: the articles no set closed under them *)
(* holds x without.                                                        *)
Component(x, joined, S) ==
    LET Closed(T) == \A p \in joined : p[1] \in T => p[2] \in T
    IN  {y \in S : \A T \in SUBSET S : x \in T /\ Closed(T) => y \in T}

(* Is `groups` what dedup.group_stories, with every pair compared, makes of*)
(* S?  Where a bucket was too large to compare, a story may come out in    *)
(* parts, and never joined to another.                                     *)
StoriesOf(groups, S) ==
    LET joined == Joined(S)
        components == {Component(x, joined, S) : x \in S}
    IN  IF \A B \in Buckets(S) : Cardinality(B) <= MaxBlock
        THEN groups = Dissolved(components, Cardinality(S))
        ELSE \A G \in groups : \E C \in components : G \subseteq C

(* When the newest windows of the two tables are of one run, they tell one *)
(* story: every distinct content the run read is in exactly one cluster,   *)
(* the clusters are those all pairs would give whatever order the articles *)
(* and edges came in, each has its canonical member as head and counts the *)
(* members the map gives it - through deaths between the two commits and   *)
(* re-runs on the same day.                                                *)
StoriesExact ==
    LET C == Newest(clusters)
        M == Newest(mapping)
        S == {r.article : r \in M}
        groups == {{r.article : r \in {s \in M : s.cluster = c.cluster}} : c \in C}
        Hash(x) == content[x].hash
    IN  {r.run : r \in C} = {r.run : r \in M} =>
            /\ Cardinality(M) = Cardinality(S)
            /\ UNION groups = S /\ {} \notin groups
            /\ \A c \in C : LET G == {r.article : r \in {s \in M : s.cluster = c.cluster}}
                            IN  c.count = Cardinality(G) /\ c.cluster = Canonical(G)
            /\ StoriesOf(groups, S)
            /\ \A x, y \in S : Hash(x) = Hash(y) /\ Hash(x) # 0 => x = y
            /\ \A r \in M : r.run = job.run =>
                  \A x \in job.read : x \in S \/ \E y \in S : Hash(x) = Hash(y)

=============================================================================
