# Signal Brief: a verification project

TLA+ models, TLC configurations and TLAPS proofs kept beside Signal Brief, the
pipeline that polls public sources from AWS Lambda, stages what it fetched in
S3, and turns it on a laptop (Airflow and Spark over Iceberg tables) into a
daily mailed brief.

* Section 1: the system, its parts and what is hard about them
* Section 2: the modules and how they correspond to the code
* Section 3: the runs, their bounds, and what each shows
* Section 4: fairness
* Section 5: what is proved, and how
* Section 6: where the code and its documentation disagree
* Section 7: what is not modelled, and the plan

To check a run: `tlc -config <cfg> <module>`; to check the proofs of a module
whose name ends in `Proofs`: `tlapm <module>.tla`. `PROJECT.json` lists the runs, the source lines each
definition stands for, the hazards and the theorems.

## 1. Inventory

Paths are relative to `src/`; `core` stands for `src/signal_core`.

| Component | State it keeps | Operations | What is hard | What makes it correct |
|---|---|---|---|---|
| Pollers: `handlers/poll_source.py`, `core/sources/` | one DynamoDB State item per source (`core/state_store.py`): watermark or etag, last success, failure count | load, poll, stage, save | a death between any two steps, overlapping invocations, failed fetches, an hour boundary inside a poll | the saved position never passes what is staged |
| Staging: `core/staging.py` | immutable objects per date and hour; a local mirror | one put per partition, sync | two objects of one poll; expiry after 14 days | as above |
| Bronze commit: `airflow/dags/ingest_monitor_dag.py`, `core/spark/jobs/commit_bronze.py` | `bronze.raw_documents` | mirror, insert-only MERGE on `ingest_id`, record costs, emit `BRONZE_COMMITTED` | a failure before, between or after; a run jammed by a frozen host | what is announced has been committed |
| Normalization: `airflow/dags/process_dag.py`, `core/spark/jobs/normalize.py` | `silver.articles`, `silver.hn_comments`, `silver.hn_scores`, `silver.parse_rejects` | three tasks, each one closed hour | the hour is asked of the clock, the event belongs to a slot | every staged document becomes a row or a reject |
| Daily chain: `market`, `macro`, `resolve`, `cluster`, `enrich` DAGs, `airflow/dags/assets.py` | asset event queues of Airflow, one table per stage | gate on bronze, start on events, run, emit | a stage that fails or jams leaves an event in its consumer's queue; a chain runs into the next day | what a stage reads is of today, and of one day |
| Enrichment: `core/enrich/` | `gold.cluster_enrichment`, `gold.enrichment_rejects` | look up by text, copy, infer, refuse, two INSERTs | repeated, interrupted batches; texts shared by clusters; bounded retries | one row per cluster and text, one inference per text, retries end |
| Brief DAG: `airflow/dags/brief_dag.py`, `core/brief/build.py`, `core/brief/mailer.py` | Airflow Variable `brief_last_sent_date`; files | due, build, render, record, mail, mark | midnight inside a run; a mail whose fate is unknown; retries; a jammed run | each edition is mailed once unless its marker was lost |
| Brief items and feedback: `core/brief/items.py`, `core/cli_feedback.py` | `gold.brief_items` | DELETE, SELECT, INSERT; SELECT, UPDATE, SELECT | the two commands interleave, and queries fail in between | no double row, no lost mark |
| Clustering: `core/spark/jobs/cluster.py`, `core/dedup.py` | `silver.story_clusters`, `silver.article_clusters` | deduplicate, block, decide, union, dissolve, two partition overwrites | articles in any order; a death between the two commits; approximate candidates for an exact decision | the clusters of a day are the components of what is similar, and the two tables agree |
| Entities: `core/entities/`, `core/spark/jobs/resolve.py`, `airflow/dags/resolve_dag.py` | `silver.entity_mentions`, `silver.dim_entities`, the committed dictionary | fold the dictionary, link a span, overwrite day partitions, SCD2 load | a window not aligned to days; two commits per load; snapshots skipped | a link is earned; mentions stay readable; one row per entity and instant |
| Market and macro jobs: `core/spark/jobs/market.py`, `core/spark/jobs/macro.py`, `core/parse/` | bars; observations with every vintage; derived columns | extract, MERGE, recompute | sources that restate their history; loads that die; revisions told to a reader | what is known as of a day is what was published by then |
| Silver articles: `core/spark/jobs/normalize.py`, `repair.py` | `silver.articles`, `silver.hn_comments` | MERGE beside another MERGE; climb a thread; collapse duplicates | two writers, an isolation level that came later, a parent that comes after its child | one row per article; a comment is under its story |
| Source health: `core/ops/health.py`, `monitor.py`, `recovery.py`, `health_snapshot.py` | `ops.source_health` | assess a window, plan a catch-up, show a footer | equality at the ends of a window; a source that comes back | the verdict and the gap are those of the fetches |
| Streak: `core/ops/streak.py` | none; reads `gold.brief_items` | count the mornings in a row | the page is printed before its own rows are written | the page and the table say one number |
| Maintenance: `core/spark/jobs/maintain.py`, `airflow/dags/maintenance_dag.py` | snapshots and files of every table, `ops.maintenance_runs` | compact, expire, remove orphans, record, retry | writers between the counts; one failure of several; a snapshot that looks like a commit | a green night is a swept one; recent days stay readable |
| Reading and ranking: `core/brief/read.py`, `select.py`, `novelty.py`, `ranker.py`, `core/enrich/embed.py` | the file of embeddings | six queries, then arithmetic; load, embed, save | the tables change between the queries; two builds share the file, an encoder fails in the middle of a call | the order is that of what one warehouse says; the cache is never seen in it |
| Athena client, storage, Spark session | none | one query, one call | a query that outlives its client | in part |
| Costs, reproduction, heartbeat, evaluation, skeleton, command line, Terraform | reports, configuration | | | not modelled |

How they interact: EventBridge starts a poller for each source. Pollers hand
over through S3 only. On the laptop everything goes through Iceberg tables and
Airflow: `ingest_monitor` runs on a cron and starts `process` by the event
`BRONZE_COMMITTED`; the market DAG has a cron and a gate on the age of bronze,
and its event starts the chain; the brief DAG has a cron of its own and waits
for nobody. All DAGs have `max_active_runs=1`, `catchup=False` and a
`dagrun_timeout`. Two things run beside them at any time: an operator
triggering a run, and the reader's `signal feedback`. The host sleeps.

## 2. Modules

| Module | Models | Extends, uses |
|---|---|---|
| `AtLeastOnce` | what the ingestion promises: positions are delivered without a hole, an acknowledged position has everything before it | |
| `Ingest` | the poller that reads by position (Hacker News): slots of executions, State item, staging | `INSTANCE AtLeastOnce` with `delivered <- StagedItems`, `acked <- saved.watermark`; `MCIngest`: one slot or two in one run |
| `Pollers` | the pollers that re-read (feeds, scores, market, macro): validators, hashes and the dead-feed clock | |
| `Hourly` | clock, staging, `ingest_monitor`, `process` | `MCHourly`: kinds of documents |
| `DailyChain` | gate, event queues, stages, jams, timeouts | |
| `Enrich` | a batch over the ranked head and its two tables | |
| `BriefItems` | the table and its two writers, query by query | |
| `Brief` | the DAG run, the clock, mail and marker | extends `BriefItems`; `MCBrief`: the days |
| `Blocking` | Jaccard similarity and the prefix filter | |
| `Stories` | a clustering run and its two tables | extends `Blocking` |
| `Mentions`, `Dimension` | the two jobs of the resolve DAG | `Resolution` composes them |
| `Linking` | the dictionary and the decision of a span | |
| `Observations` | market bars and macro vintages, what is derived from them and what a brief says of revisions | |
| `SilverArticles` | concurrent MERGEs into one table and the repair | |
| `Threads` | comments and their stories | |
| `SourceHealth` | poller, monitor and footer around an outage | |
| `Ranking` | the reads, scores and order of a page | |
| `Embeddings` | the cache of vectors, its file, the encoder | `Page` composes it with `Ranking` |
| `Sweep` | the nightly maintenance beside the writers | `Maintenance` composes it with `SilverArticles` |
| `Streak` | the count of mornings, on the page and in the table | |
| `MCTables` | the modules from `Stories` on for TLC, one at a time | |
| `IngestProofs`, `PollersProofs`, `HourlyProofs`, `DailyChainProofs`, `BriefProofs`, `EnrichProofs`, `StoryProofs`, `WarehouseProofs` | theorems | each extends the modules it is about |

How state and actions correspond to the code:

**Ingest.** `saved` is the State item, `run[s]` what a Lambda execution holds in
memory: the State it loaded, the range it walks, the documents it has. The steps
are `poll_source.handler` line by line: `Load`, the `maxitem` request
(`FrontierKnown`, `FrontierFails`), one `FetchItem` per id (an id without an
answer or with an error is a document too and moves the watermark), one
`PutObject` per partition in sorted order, `Save`. `Crash` can come between any
two. Two slots are the unreserved concurrency that
`infra/terraform/main/lambda.tf` defaults to. The content of an item is left
out; whether an answer came is kept, because a failed item must move the
watermark like any other.
`Seed = None` is a source that has never been polled.

**Pollers.** The four pollers share `poll_source.handler` and differ in how a
poll ends: unchanged (a 304, or the hash of what came), changed, failed, or, for
macro, without a key, which saves a fresh State. `saved` has the validator, the
hash and two timestamps, kept as ages; `upstream` is a version that moves, and
an execution remembers the one it saw. What a hash is taken over is the
poller's own choice (`Hashable`): the ranking and not its items, failure texts
for the market alone. The verdict of `ops/health.py` is a formula over the
saved ages.

**Hourly.** A document stands for everything one source fetched in one hour and
for whether it parses. `commit` is the latest run of `ingest_monitor`, with
mirror, MERGE and costs as separate steps; `pending` is the event that `process`
has not consumed; `task[t]` is a task of its latest run, with the window it read
from the clock when it started (`window_bounds`). The articles pass has two
commits, rows and rejects. `Timely` restricts the clock to a host whose hour of
work ends in that hour. `closed` is history: the hours a task did on the event
of the slot that closed them.

**DailyChain.** Data is abstracted to the day it is from. `fresh` is the gate's
condition (a snapshot younger than two hours), `queued[s]` the asset events the
stage has not consumed, `began[s]` the day on which its latest run read its
window, `built[s]` the day of its table, `paired` the days of the mentions and of
the clusters that the latest run of enrich found. A failed or jammed run may have
written its table or not. `NewDay` is the cron slot of `market`. It comes whatever
the stages are doing; an event that waits goes on waiting, a run that works goes
on working, and the host may sleep into the day, so that bronze is old until the
hourly DAGs catch up. `overnight` is history: the days that began with the chain
at work.

**Enrich.** A text is what `cluster_input` renders, so that two clusters may
share one and an edited headline is another. `batch` holds what
`enrich_clusters` keeps in memory: the heads left, those inferred, copied and
refused. `Known` is `have_pair`, `Available` is `by_hash` with
`inferred_this_run`, `Exhausted` the retry bound. A batch is one step per head,
then `Insert` and `Quarantine`. A server that does not answer ends the loop and
keeps what the batch has (`Unavailable`); a death keeps nothing (`Die`). Ranks
are left out, the heads come in any order. The model digest and prompt version
are fixed, so the cache key is the text.

**BriefItems** has one action for each Athena query of `write_brief_items` and
of `run_feedback`; a query that fails may have run before (`WriteFails`,
`FeedbackFails` come between queries, on either side). `Stamps` tells the rows
of two builds apart, as `created_at` does.

**Brief.** `slots` and `slot` are the cron window with `catchup=False`: of the
slots that passed without a run only the newest gets one. `run` carries the
three dates the code reads in one run: its logical day, `now` from `build.run`,
`edition` from `write_brief`. `lost` counts deliveries that left no marker: the
SMTP connection broke after the message was taken, `Variable.set` raised, or
the host froze in between.

**Stories.** `content` is what the articles of a window can be: the token sets,
hashes, identifiers and authority that `dedup.prepare` makes of a text. A run is
`cluster_window`: `Cluster` takes the articles in any order, keeps the first of
exact duplicates, builds the buckets of `_candidate_pairs` with their size
limits, decides every pair, unions them in the order of the pairs and dissolves
what is larger than its share; `WriteClusters` and `WriteMap` are its two
commits. `Decide` is the same filing, or no conflict of identifiers and one of
text, title and body.

**Mentions, Dimension.** `resolver` and `load` are what a run holds between its
read and its commits; `published` is when an article is dated, which is not when
it arrives. `WriteMentions` replaces the day partitions of the rows it has,
though the first day of its window is cut. In `Dimension`, `says[t][e]` is what
dictionary snapshot t says of an entity; `Close` and `AppendRows` are the two
commits of `load_entities`.

**Linking.** A name is a sequence of words. `Listed` takes a company per CIK from
SEC's register, `Merged` adds Wikidata's rows the way `entities/build.py` does:
aliases of a listed company, subsidiaries under their parent, the rest on their
own. `Decision` is what `entities/resolve.py` answers for a span: the holder of a
stated CIK, what every n-gram proposes with its confidence, a minted name with a
legal form; the strongest links if it reaches the floor.

**Observations.** One period of one series: rows of different periods never
meet. A fetch holds the history as it is served that day, and bronze holds the
fetches of the last days. `MergeVintages` and `MergeBars` are the two MERGEs;
`Derive` rewrites the columns computed from all vintages; `RevisionLines` is
what the brief prints of the figures that were restated.

**SilverArticles.** A row carries the writer that put it there, which is how there
can be two of one article. `MergeCommits` is the serializable isolation the
ALTER sets: a MERGE that another commit overtook is refused. The table starts
with what was written before it. `OverwriteDays` replaces the days the repair
read, with whatever a MERGE added to them in the meantime (`between`).

**Threads.** `StoryId` climbs from parent to parent for at most `MaxHops` steps
through the comments of the table and of its own hour (`KnownComments`);
`MergeComments` inserts and never updates, so the first answer stays. `Climbs`
is what `ThreadsTrue` measures `StoryId` against: the paths from a comment to an
ancestor, defined without recursion.

**SourceHealth.** The poller of `Pollers` reduced to what the monitor reads of
it, an hour per tick. `feed` are the items that could be fetched and were not;
`FeedRotates` lets the oldest go after any time, because a feed holds a number of
items and not a number of hours, and `HORIZON_REACH` is what the monitor assumes
of it. `fetched` and `lost` keep when an item was fetched or went. `CountDocuments` counts the closed hour and takes the median
of earlier rows; `RecordHealth` loads the State, plans the gap, decides the
status and replaces the row of the window; `Footer` is what the brief finds.

**Ranking.** `reader.pc` is the query that comes next. Between two of them a
clustering run may commit one of its tables or both, a score may be measured, a
mark given. `Score` has the seven components and the weights of `ranker.py`;
novelty is the best likeness to a title of the history. Likeness is a
parameter.

**Embeddings.** Where the vectors behind that likeness come from. `build[b]` is a
page being built: `held` the vectors in memory, `asked` and `fresh` the titles and
answers of the call under way, in order, because the code pairs them by
position. A call fails as a whole after `Retries` attempts at one batch, or at
once on a short answer. `OpenFile` and `WriteFile` are the two halves of
`write_table`; a death between them leaves `Torn`, which ends every later build
(`load` is outside what `_read_novelty` catches) until the file is removed.

**Sweep.** `log` is every commit, `snapshots` those Iceberg still has. One
action for each of the operations on one table, each of which may fail alone;
an attempt records its rows in one MERGE and fails on the aggregate, and the
task is tried twice. Writers commit at any time. `sweep.left` are the positions
of `Swept` the attempt still has to do, `sweep.hidden` the tables it could not
describe, which it skips without a row.

**Streak.** `briefed` are the days with a row. A build reads, counts and prints
before its DELETE and INSERT; a DELETE spares rows the reader has marked.

## 3. Runs

| Run | Question | Result |
|---|---|---|
| `executions` | one execution of a seeded poller at a time, or two overlapping, each dying anywhere: is anything the saved watermark has passed missing from staging; is `AtLeastOnce` implemented; is an id requested twice; is a backlog worked off? | nothing is; it is; not by one execution at a time; yes |
| `pollers` | two overlapping executions of each re-reading poller: is anything acknowledged that is not staged; is a frozen source reported, and never early? | no; yes |
| `hour_failures` | clock free, every step may fail: does a task that was given the hour of its event leave one of its documents behind? | no |
| `hour_timely` | a host that keeps up: does every document arrive? | yes |
| `hour_backlog` | after a failed commit, is a re-run enough? | no (section 6) |
| `chain` | sleep, failures, jams, a chain that runs into the next day: does anything past the gate read an old bronze on a day that began with the chain at rest; does enrich mix days before two days of the chain have overlapped; does the chain recover whatever happened? | no, no, yes |
| `chain_sweep` | the same with table maintenance | the gate opens on old data (section 6) |
| `brief` | a run at any time, midnight anywhere, failures, retries, jams, feedback | see below |
| `brief_midnight` | do the dates of one run agree? | no (section 6) |
| `enrich` | repeated, interrupted batches, shared and edited texts | see below |
| `tables` | the tables with a job of their own, the links and the page: is what is read in them what was put in? | yes, with the exceptions stated below |
| `outage_told` | does the reported gap of an outage bound what was lost? | no (section 6) |

Properties:

* `NoRefetch`, `NoGap`, `NoHole`, `KeepsPromise`, `CatchUp`: the order "bronze
  first, state second" is what makes a lost save harmless. `NoGap` and `NoHole`
  are checked with two overlapping executions that save in either order, where
  the watermark does go back; `NoRefetch` is about one execution at a time.
* `Acknowledged`, `NeverEarly`, `DeadFeedReported`, `UpToDate`: the same order
  for pollers whose State says "nothing new", and the clock of a dead feed,
  which neither a failed poll nor an overlapping save may start too early or
  keep from running out.
* `OnTime`: when `commit_staged` of slot h+1 succeeds and a task of the run it
  starts reads hour h, everything staged for h that the task reads is in its
  table or in the rejects, including what was staged after the hour ended and
  whatever failed in other tasks, runs and hours. `NothingLeftBehind` and
  `Settles` are the promise to the reader on a host that keeps up.
* `GateHolds`, `SameDay`, `ChainRecovers`: the sentences of `market_dag.py` and
  `enrich_dag.py` about the gate and the AND of two assets, as far as the code
  keeps them. The gate heads the chain and nothing else, so `GateHolds` is about
  each day that began with no stage at work and no event waiting, also after
  days that did not. `SameDay` holds until the first day that began with the
  chain at work, and not for good after it (section 6). `ChainRecovers` has no
  such condition: the first undisturbed day ends with the mentions of that day.
* `OncePerEdition`, `MarkerHonest`, `BriefRecovers`: the marker names an edition
  that was delivered; a second delivery needs a lost marker for each earlier
  one; the first undisturbed day has its brief.
* `NoDoubleRow`, `MarksStay`: a re-run build neither doubles rows nor loses a
  mark the reader was told is stored, whatever interleaving of the queries.
* `NoDoublePair`, `CacheHonest`, `RetryBound`, `Settles`: the cache holds one row
  for a cluster and a text, exactly one of a text's rows is an inference and
  every copy has it, refused answers are bounded by `MAX_ATTEMPTS` *for each
  cluster that has the text* (a batch counts one attempt however often it
  refuses a text), and every head is enriched or given up.
* `StoriesExact`: when the newest windows of both tables are of one run they tell
  one story: whatever the order of collection, the clusters are the connected
  components of all pairs the decision joins, with their canonical article and
  their count. Where a bucket was over its limit a story may come out in parts,
  and is never joined to another; and two articles that only their cleaned text
  makes one story are one if they meet in a bucket, because the bands are of the
  hash of the *raw* text, as `_candidate_pairs` says of itself.
* `ResolveTrue`: the mentions a brief reads are there for every article of its
  window that was ever resolved, once, although the overwrite of a cut day drops
  rows; an as-of read of the dimension finds the name of that day, and one row.
* `RestatementsKept`: every vintage that a fetch stated, up to the last fetch
  merged, is kept with its value; one vintage at most is the latest, and a
  revision is the difference of a figure and the one the source stated on its
  last publication day before, whatever the loads saw or missed; the brief tells the restatements that are news and no others; a bar is the last
  word that was merged.
* `MaintenanceTrue`: merges never double an article, and a repair leaves doubled
  only what has a row in a day it left without rows (`overwritePartitions` does
  not touch it), and loses none but those merged between its read and its write. A
  row of `ops.maintenance_runs` is clean only if no operation failed, and its
  file counts add up unless a writer came between; a green night swept every
  table; a day of the retention can be read, unless the table had been as it was
  then since before the retention.
* `HealthTrue`: what a verdict records as lost nobody had fetched by then, and of
  that only what stayed in its feed longer than the horizon claims is ever
  fetched; a window that fell silent fails while most of its baseline was not silent; the footer is not
  "ok" for a source no poll ever reached.
* `ThreadsTrue`: a comment has one row, under its story, or under an ancestor that
  arrived after it, or the one where the bound on hops stopped.
* `LinksEarned`: a CIK decides, and a person's links nobody; otherwise a link is to
  the only company that bears the name the span begins with, or to one the
  context spells out, or to the span's own legal name. The beginning of a name
  never links, and neither does an alias of fewer than three letters.
* `PageTrue`: a page shows every cluster of one window once. If no commit met its
  reads, no story is before one that is worth as much in everything the
  warehouse says of the two unless they tie, and a headline an earlier window
  had is behind a new one that is worth as much. And whatever builds ran before
  or beside it, lost batches, died, saved over each other or were configured for
  another encoder, a scored page compares the vectors a build without a cache
  would have got from its own encoder (`CacheUnseen`).
* `StreakTrue`: the count is that of the days in the table, with every hole;
  "day n" means a brief on each of the n - 1 mornings before; once its rows are
  in, a page printed what the table says.

Bounds, and why they are enough:

* `Ingest`: ids up to 4 above a seed of 1, batches of 2, so that a range is cut
  at the batch, at the frontier, and takes two or more polls; two hour
  partitions, as many as a poll can see. Two slots show every pairwise overlap.
  One failure: the count is only carried.
* `Pollers`: two versions after the first are a change, and a change seen by an
  execution that another one overtook; one document per poll, since one is
  staged or not; an SLA of one tick is long enough to be missed by one.
* `Hourly`: three hours are an hour, the hour its event belongs to, and one
  later in which a delayed run can read the wrong one. `OneOfEach` has a source
  that two tasks read, one that does not parse, and one with a pass of its own.
* `DailyChain`: three days are a failure, or a chain that goes on overnight, what
  it leaves in the queues, and a clean day.
* `Brief`: two days with two slots each (a slot that did its work and one that
  finds it done), both marks, `Retries = 2` as in the code, two lost markers, one
  cluster: no property relates two.
* `Enrich`: three clusters over two texts, so that a text is shared and one
  cluster differs; two attempts; two edits, so that a headline can be edited
  and edited back; one death or absence of the server.
* `tables`: the initial states are the small worlds listed in `MCTables`, chosen
  so that each rule decides one of them. Four articles make a chain whose ends
  are not similar, and a component over its share; six ticks with windows of
  three and days of two are a cut day that was whole before; three snapshots are
  one skipped between two; two fetch days are a figure and its restatement; two
  writers and a repair overlap in pairs; four hours, with a horizon
  of one, are an outage, its report, its end and the footer after it, and an item
  the feed holds for longer or for less; threads are four deep against one hop; a page
  has three reports over two days, so that one is the other's history; three
  builds by two processes are two that overlap and one that loads what they
  left, two titles in batches of one are a call that can fail half-way; two
  tables, two nights and three commits are a commit outside the retention and
  one inside; five days are a run of mornings, a hole and a run. The thresholds
  that are ratios (Jaccard, shares, confidences) have the values of the code,
  sizes and counts are scaled down.
* `CHECK_DEADLOCK FALSE` is used where the clock is bounded: the bound, not the
  system, ends the execution.

`tables` has about three million states and takes two to three minutes. It moves
one of its tables per execution, because the jobs share no
state; jobs that do share some are in one module. Every property of a run also
has a mutant of the code (`PROJECT.json`, kept next to what it mutates in the
modules) under which the run reports it violated.

## 4. Fairness

Liveness is checked under weak fairness of what a scheduler does: AWS invokes a
poller again and a live execution goes on; Airflow starts what is triggered and
a running task ends; time passes. Nothing external is fair: no new item, no
edit, no feedback, no failure ever has to happen. Failures stop being possible
at some moment (`Recovered` in `Ingest`, `Calm` in
`Pollers`, the last day in `DailyChain` and
`Brief`; `MaxTrouble` in `Enrich`): a system whose every attempt dies promises
nothing. One action has strong fairness, `OpenGate` of `DailyChain`: bronze is
fresh again and again, and the gate pokes for four hours, so one of its looks
finds it fresh. Retries of `mail` are bounded, as in the code, so the property
`BriefRecovers` is about a day without failures.

## 5. Proofs

All theorems hold for every value of the constants that satisfies the
assumptions next to them: any number of slots, ids, hours, days, clusters,
texts, retries and failures.

| Module | States |
|---|---|
| `IngestProofs` | type correctness, `NoGap`, `NoHole` for a seeded source, and that `Ingest` implements `AtLeastOnce`; `NoRefetch` for any finite, nonempty set of slots, seeded or not |
| `PollersProofs` | type correctness, `Acknowledged`, `NeverEarly` |
| `HourlyProofs` | type correctness, `OnTime`, and `NothingLeftBehind` of a timely host |
| `DailyChainProofs` | type correctness, `GateHolds`, `SameDay` |
| `BriefProofs` | type correctness, `OncePerEdition`, `MarkerHonest`; `BriefItems` implemented by `Brief`, and with it `NoDoubleRow`, `MarksStay` |
| `EnrichProofs` | type correctness, `NoDoublePair`, `CacheHonest`, `RetryBound` |
| `StoryProofs` | `PrefixFilterExact`: two token sets as similar as the threshold share a blocking key; `StoriesExact`; `ResolveTrue` of both tables of the resolve DAG; `LinksEarned`; `PageOrdered`, `CacheUnseen` and, of the two together, `PageTrue`; type correctness of each of these modules |
| `WarehouseProofs` | `ThreadsTrue`, `HealthTrue`, `RestatementsKept`, `StreakTrue`; `ArticlesKept`, `SweepHonest` and, of the two together, `MaintenanceTrue`; type correctness of each of these modules; of the composition `MCTables`, that it runs their specifications, `TablesTypeOK` and all the other invariants of `tables` |

No stated property is inductive by itself; the argument of each proof is its
`IInv`:

* **Ingest.** The watermark an execution holds in memory is covered by what is
  staged *together with the documents it still holds*, and documents of the later
  hour are the later ids: so writing the earlier partition first never leaves a
  hole below a staged id. A seeded source is assumed; for an unseeded one the
  property is false. `NoRefetch` needs no seed but one execution at a time
  (`Alone`): nobody saves between its load and its own save, so what it loaded is
  what is saved, and an execution that fetches walks above that (`OneWalk`).
* **Hourly.** Once the slot s has started, nothing more is staged for an hour
  before s; so what its run mirrors, merges and announces covers those hours,
  and goes on covering them until a task reads one. This rests on the guard of
  `Poll`: a document of the last hour is staged before the commit at five past,
  which 120 seconds of Lambda timeout justify. On a host that keeps up
  (`Timely`, no commit and no task failing) the clock moves only when the hour's
  commit, event and three tasks are done: a task at work reads the hour before
  its slot, and every hour up to that one is closed for it (`InStep`). What was
  complete when it was read stays read, and that is `NothingLeftBehind`.
* **DailyChain.** On a day that began with the chain at rest and has no commit yet
  nothing is past the gate, nothing is waiting, and nothing read or written is of
  today (`PastGate`); what is left over from other days cannot start by itself.
  That needs no more of the days before than that they did not reach into this
  one. For `SameDay` one token travels down the chain each day: at most one stage
  has it (`OneToken`), what it reads is of today (`TokenIsToday`), and enrich is
  never left with the event of cluster but with that of the resolve it was built
  from too (`EventsPaired`). An overlap of two days makes a second token, which is
  why this half is under `overnight = {}`.
* **Brief.** A run past `due` is about an edition newer than the last marker
  although the day may have changed under it, and of that edition every delivery
  so far lost its marker. The proof goes through `BriefItems`: every step of the
  DAG is one of its steps or leaves its variables alone.
* **Enrich.** While a batch works, what it inferred has no row yet and no two of
  its inferences share a text; a copy has an original in the tables or in the
  batch; and each refused answer is in the batch, lost with one, or paid for by
  an attempt that covers at most one refusal per cluster.
* **Pollers.** What an execution would save stands for documents it has staged or
  still holds, and an execution that has staged nothing yet saves nothing; the
  clock it carries started no earlier than the version it saw appeared.
* **Blocking** (`StoryProofs`). If the two prefixes had no token in common, everything shared
  would be in what the prefix of one of them leaves out, which is smaller than
  the overlap the threshold requires. It rests on the cardinality theorems of
  the library and on both sides using one order of the tokens.
* **Stories** (`StoryProofs`). In the forest of parents every article has a root,
  and a height that falls on the way to it (`Forest`), so `find` ends; a union
  hangs one root under another. After n turns of the loop two ends of an edge
  that went have one root, and two articles of one root are in the same of all
  sets no such edge leaves (`Grouping`). The order in which edges come is not in
  that statement, so it does not matter. Every branch of the decision has a key:
  equal filings by definition, similar titles and bodies by `PrefixFilterExact`,
  equal texts if they meet; so where no bucket is over its limit, the edges are
  the joined pairs and the groups their components, and else they are some of
  them. Of the tables, a run has all of its rows there or none (`Made`), whatever
  a later run of the day replaced and wherever it died: two newest windows of one
  run are both whole. Assumed (`StoriesAssumption`): articles and token sets are
  finite, percentages are at most 100.
* **Resolution** (`StoryProofs`). The run under way read at some moment u that is not after now,
  and every resolved article of the window at u is among what it read. So
  whatever its overwrite drops from a day and does not rewrite had left the
  window at u, and is out of every window to come. For the dimension: the rows of
  an entity are disjoint intervals, each saying what its first snapshot said; a
  load that is past its read knows every current row that must end, which is
  therefore older than its snapshot; and from the close on, nothing it will
  insert has a current row. Snapshots need not be loaded one by one, and time
  only has to move forward, which `built_at` does.
* **Linking** (`StoryProofs`). The dictionary a build merges keeps SEC's ids, CIKs
  and ranks, one company per CIK, and what Wikidata adds for itself bears no
  ticker: so a CIK has one holder, whatever names it was given. The proposals for a span are ordered totally and one
  is strongest, because their aliases have a bound. Nothing but a CIK exceeds 90
  hundredths, only a whole name at the head of the span reaches it, and of two
  heads the longer has the longer alias. Assumed (`LinkingAssumption`): a
  register row has a CIK, and no ticker is a word of a label.
* **Embeddings** (`StoryProofs`). Whatever a file or a build holds for a key is
  what the encoder of that key says, torn files apart; and a build that scores
  holds the keys of its history and of its heads, because the answers it has are
  paired with the titles it asked for by position and a short answer ends it. The
  digest in the key is what makes a file of another encoder harmless.
* **Page** (`StoryProofs`). The tables say of every story of the newest window
  what its reports say, from the first of the two commits on (`TablesOK`): the
  groups of a run are disjoint, so the members that belong to an id are the
  group itself. A read that met no commit holds what the tables still say
  (`ReadsTrue`), whichever of the six came when. Then every component of the
  score is monotone in what `Worth` compares: the clamps and floors keep the
  order and never reverse it, which is why a story that is worth as much can only
  tie. A headline that was there has novelty zero, any other at least two
  120ths, and that is strict. Ranks are distinct because score and id order the
  clusters totally.
* **Threads** (`WarehouseProofs`). A climb stops at a comment that the pass did not
  know, or at the bound. A comment that has a row came no later than the pass
  that knew it, so one that stopped a climb has its row after it. `StoryId` is
  shown to be one of the `Climbs`.
* **SourceHealth** (`WarehouseProofs`). The gap of a row begins where fetching had
  ended and ends where the horizon began (`GapTrue`): nothing fetched until the
  hour of the row is inside, because a poll takes everything the feed has and the
  last success was one; and what is fetched later from inside has, by then, an
  age beyond the reach. Nothing is assumed of how long a feed holds an item. A
  silent window after mostly loud ones is a failing one because the rows of a
  baseline are of earlier windows, which no later row is: what the monitor read
  is what the table gives for that window ever after.
* **SilverArticles, Sweep** (`WarehouseProofs`). Two rows of an article are of
  before the isolation level, or of days the repair left; a MERGE in flight whose
  snapshot is still the newest has read every row there is. An attempt has, for
  every position of `Swept` it is past, a row or a reason to have none, and the
  counts of the table it works on add up as long as nobody disturbed them; the
  newest commit of a day inside the retention is a snapshot that no expiry has
  reached.
* **Observations** (`WarehouseProofs`). Every vintage is the figure its day of
  publication stated; the rows of a fetch are all publications up to its day; and
  once a load is whole, the derived columns are functions of the vintages. A
  figure dropped from a fetch by a load that died is in the next fetch, because
  every fetch states the whole history again.
* **Streak** (`WarehouseProofs`). Standing at a day, the pass holds the run that
  ends there and cannot be extended backwards, the longest run so far and every
  hole so far (`UpTo`). That determines the record, so the pass exists and is
  unique, and the first day and each later one keep it. A page is told apart by
  what it read: the days of the table with its own added, or a table that did
  not exist; its DELETE and INSERT change neither. "Day n" needs a tolerance
  of one day at most (`StreakAssumption`; `LIVE_TOLERANCE_DAYS` is 1).
* **Types.** Most of what types the tables is in the invariants above: an id in a
  story is an article because its run made it of articles it read, a link is a
  company because every way to earn one goes through the dictionary. The rest is
  kept beside them (`JobTyped`, `LinkTyped`, `BuildsTyped`, `PageRest`, and the
  `...Rest` of `WarehouseProofs`) and is inductive only together with them: a row
  of `Sweep` names a table of the sweep only while its attempt is inside the
  list, a gap of `SourceHealth` lies between two hours only if the source was
  reached in one of them, a count of `Streak` is of a run that begins and ends
  at mornings there were (`UpTo`), so it exceeds no number of them.
* **The tables together** (`WarehouseProofs`). While one table moves, every other
  job stutters, so an execution of `MCTables` is one of each of its modules
  (`TablesRunTheirJobs`) and what is proved of a module is true of the run that
  checks it (`TablesTypeCorrect`, `TablesHold`). `Linking` has a dictionary only
  where it is the one that moves, and is shown there (`LinksMove`).

Some of these proofs need the largest or smallest member of a set of integers
and of every step along a path. They are shown from the well-foundedness of
inclusion on finite sets: the smallest counterexample is contradicted. That is
how a recursive function of one model is reasoned about (`Climbs` of `Threads`,
`Computed` of `Streak`, `Find` and `Unions` of `Stories`): it is shown to exist, and what it computes is shown at
every argument. There is no such step for all recursive definitions at once.

Left to TLC, because TLAPS does not reach them: the liveness properties
(`CatchUp`, `Settles`, `ChainRecovers`, `BriefRecovers`, `DeadFeedReported`,
`UpToDate`). Every invariant and every safety property of an action that a passing
run checks is a theorem.

## 6. Where code and documentation disagree

Each of these is a run whose single property states the quoted sentence;
`PROJECT.json` has the quotes.

* `hour_backlog`: after a failed commit, the re-run commits the documents to
  bronze, but `process` normalizes only the hour before *now*.
* `chain_sweep`: compaction commits a snapshot, and the gate looks only at the age
  of the newest snapshot.
* `brief_midnight`: the date of the brief is computed once "to mean the same date
  the header will carry", and again for the header.
* `outage_told`: a gap is planned only while the source is stale, and only as far
  as the assessment sees; what is lost between the last assessment and the
  recovery is in no reported gap.

Smaller observations, made while modelling, which a property states as an
exception or which have no run of their own:

* `enrich_dag.py:25-26` wants both halves of the AND "rebuilt from the same day".
  A resolve that overtakes the cluster run of the day before has its event
  consumed with the old cluster's, and the newer cluster's event then waits for
  the resolve of the following day: from there on each enrich starts as soon as
  mentions are there and finds the clusters of an earlier day, on days that are
  otherwise clean (`SameDay` without its condition is violated with four days).
  A manual run leaves such an event as well.
* `market_dag.py:21-22` says everything downstream inherits the wait for bronze. It
  inherits it at the start of a chain: a host that sleeps with an event queued, or
  a stage in flight, wakes to run the rest on the bronze of before
  (`GateHolds` excepts these days).
* `recovery.py:45` calls a recorded gap "permanently missing" and line 154
  its items "unrecoverable"; `README.md:309-330` measured 0.0 to 5.3 hours
  lost where 22.6 were reported. Items of a recorded gap can still be fetched, and
  `HealthTrue` says what remains: only ones the feed held beyond the horizon.
* `cluster.py:368-379`: the docstring of `_overwrite` says that an empty window
  is cleared; the code returns before it writes.
* `superseded_at` of a macro observation is written with the row and never
  updated, so the newest vintage is told by the derived columns alone
  (`SupersededSaysSo` in `Observations`).
* `repair.py` overwrites the days it read: what a MERGE added to them in between
  is gone.
* `entities/resolve.py`: two companies with one complete name make that name
  abstain, but a shorter name inside it can still link.
* A cluster committed between two reads of a page becomes the history its own
  novelty is measured against.
* `maintain.py:96-99` says seven days of snapshots answer a question about
  Monday; a table silent for longer has no snapshot of that Monday's state but
  its current one, and none when it is written on again.
* `config.py:39-41` wants the encoder pinned by its digest, "so a silently
  re-pulled tag" would not mix vectors; the digest is a part of the key, but a
  request names the tag alone and nothing compares the two. `Embeddings` assumes
  a tag stays what its digest says.
* A file of embeddings torn by a death is raised by `load`, and fails every brief
  until somebody removes it, although novelty is meant to degrade
  (`select.py:203-208`).
* `ops/reproduce.py` compares days of one thirty-day clustering with the
  seventy-two-hour clusterings of the live table, and for an undated article
  read twice an `event_date` that follows whichever fetch the replay keeps
  (`normalize.py:455`): a mismatch need not be a change of the code.
* `maintain.py` counts as files removed by compaction also what other writers
  did between its two counts.
* A brief without clusters is rendered and counts itself, and leaves no row, so
  the next page starts again at one (`streak.py:13-22`). A rebuild that dies
  between its DELETE and its INSERT takes its day out of the streak.

## 7. Not modelled, and the plan

Assumptions of the models, beside the bounds:

* `Observations` is one period; the history a source serves is not cut by a
  rolling start date, and the order and LIMIT of the revision lines are left out.
* `Linking` is given spans with their words; finding them in a text, and growing
  one into its context, is string work. No two rows of Wikidata with one item
  disagree on more than the parent.
* In `Embeddings` the write of the file takes milliseconds, and two do not
  overlap; the settings and the model they name are changed together.
* In `Ranking` the market read is of a table that stands still, similarity is a
  table, and an execution ends with its page.
* `Sweep` models Iceberg's procedures by what the code says of them. A warehouse
  that cannot be listed is a skip, and counts as success. Only the rows of the
  current night are kept: earlier ones are not touched.
* `Streak` and `BriefItems` have one build at a time; `Enrich` one batch.
* In `DailyChain` no stage is triggered by hand: such a run can leave an event
  for the AND of enrich. `GateHolds` and `SameDay` say nothing of days that began
  with the chain at work, respectively of any day after one. How long things take
  is not modelled: by `alerting.py` the run of `market` is ended after six hours
  and that of every later stage after 45 minutes, so that on a host that is awake
  only a `market` run that starts after half past six in the evening can meet the
  03:30 slot, and it takes that or a sleep to make a day an overnight one. The
  models let every day be one. Silver is left out of the chain: a stage reads
  the day, as `Hourly` fills it.
* In `Enrich` every stored row can be used: the paths that skip a row whose JSON no
  longer parses (`store.py:239-243`) or validates (`run.py:225-226`) are left out,
  because rows are written from validated answers and one deployment has one
  prompt version and model digest.
* `Pollers` leaves out which items of the ranking are asked for (`TOP_N`).
* In `SourceHealth` an item is an hour's publications, and a poll that succeeds
  takes all that is in the feed.
* In `Ingest` the source is seeded: before the first save nothing is promised,
  and a lost first save skips what came between two first polls.

Left out, and noted with the hazards: elapsed time (a walk of 200 ids against a
timeout of 120 seconds); a query that runs on after the Athena client gave up at
60 seconds; a frozen task that thaws after its run was failed; two builds, or two
batches, at once from the command line; a head the model server always fails on.

Not modelled at all: the parsing of feeds and EDGAR filings, layout and the
wording of reports, which are functions of one document; `ops/reproduce.py`,
`ops/costs.py` and `ops/heartbeat.py`, which read and report and change nothing the
pipeline reads; `evals/`, offline experiments; Terraform and the Spark and S3
clients, which are configuration and single calls; the walking skeleton.

What could follow: `Hourly` and the chain composed over the life of one document,
from staging to the brief; two concurrent builds in `BriefItems`.
