---------------------------- MODULE SourceHealth ----------------------------
(***************************************************************************)
(* What the pipeline says about a source that was down: assess_sources of  *)
(* ingest_monitor with ops/monitor.py, ops/recovery.py and ops/health.py,  *)
(* the table ops.source_health and the footer of the brief that reads it.  *)
(*                                                                         *)
(* One source publishes into a feed that lets go of its oldest item when   *)
(* it likes: a feed holds so many items, not so many hours.  How far back  *)
(* a feed reaches is what the monitor assumes, not what this module does.  *)
(* The poller, the monitor and the clock take their turns.  A tick is an   *)
(* hour.  The poller is Pollers' feed, reduced to what the monitor reads   *)
(* of its State and of bronze.                                             *)
(***************************************************************************)
EXTENDS Integers, FiniteSets, FiniteSetsExt

CONSTANTS
    Reaches,          \* HORIZON_REACH, in hours
    Sla,              \* freshness_sla_seconds, in hours
    ContentSla,       \* content_staleness_sla_seconds, in hours
    MinDocs,          \* min_docs_per_window
    BaselineWindows,  \* BASELINE_WINDOWS
    BaselineMin,      \* VOLUME_BASELINE_MIN
    DropPercent,      \* VOLUME_DROP_RATIO
    FooterHours,      \* how far back the brief looks for a verdict
    MaxPolls,         \* bound: documents in an hour
    MaxHour           \* bound: hours

ASSUME SourceHealthAssumption ==
    /\ Reaches \subseteq Nat     \* a COMPLETE horizon is one longer than MaxHour
    /\ {Sla, ContentSla, MinDocs, BaselineMin, FooterHours, MaxPolls} \subseteq Nat
    /\ {BaselineWindows, MaxHour} \subseteq Nat \ {0} /\ DropPercent \in 0..100

VARIABLES
    reach,      \* HORIZON_REACH of this source, for good
    clock,      \* the hour
    feed,       \* items that can be fetched and were not: their hours
    fetched,    \* items that were fetched, and in which hour
    lost,       \* items that left the feed unfetched, and in which hour
    docs,       \* bronze documents fetched in the hour that closed and in this one
    source,     \* last_success_at and last_content_change_at of its State
    health,     \* its rows of ops.source_health
    monitor     \* the run of ingest_monitor

healthVars == <<reach, clock, feed, fetched, lost, docs, source, health, monitor>>

-----------------------------------------------------------------------------

Never == -1

NoGap == [from |-> 0, until |-> 0]

NoRun == [pc |-> "idle", window |-> 0, docs |-> 0, baseline |-> Never]

HealthInit ==
    /\ reach \in Reaches
    /\ clock = 1
    /\ feed = {} /\ fetched = {} /\ lost = {}
    /\ docs = [closed |-> 0, open |-> 0]
    /\ source = [success |-> Never, change |-> Never]
    /\ health = {}
    /\ monitor = NoRun

(* An hour closes, perhaps with an item the source published in it.        *)
HourPasses ==
    /\ clock < MaxHour
    /\ clock' = clock + 1
    /\ docs' = [closed |-> docs.open, open |-> 0]
    /\ feed' \in {feed, feed \cup {clock}}
    /\ UNCHANGED <<reach, fetched, lost, source, health, monitor>>

(* The oldest item nobody fetched rotates out, after however long.         *)
FeedRotates ==
    \E t \in feed :
        /\ \A u \in feed : t <= u
        /\ feed' = feed \ {t}
        /\ lost' = lost \cup {[item |-> t, at |-> clock]}
        /\ UNCHANGED <<reach, clock, fetched, docs, source, health, monitor>>

(* A poll that failed: its ERROR document is counted like any other.       *)
PollFails ==
    /\ docs.open < MaxPolls
    /\ docs' = [docs EXCEPT !.open = @ + 1]
    /\ UNCHANGED <<reach, clock, feed, fetched, lost, source, health, monitor>>

(* A 304 advances last_success_at, and only seeds last_content_change_at.  *)
PollUnchanged ==
    /\ feed = {}
    /\ source' = [success |-> clock,
                  change |-> IF source.change = Never THEN clock ELSE source.change]
    /\ UNCHANGED <<reach, clock, feed, fetched, lost, docs, health, monitor>>

PollOk ==
    /\ docs.open < MaxPolls
    /\ docs' = [docs EXCEPT !.open = @ + 1]
    /\ source' = [success |-> clock,
                  change |-> IF feed # {} \/ source.success = Never THEN clock
                             ELSE source.change]
    /\ fetched' = fetched \cup {[item |-> t, at |-> clock] : t \in feed}
    /\ feed' = {}
    /\ UNCHANGED <<reach, clock, lost, health, monitor>>

-----------------------------------------------------------------------------
(* assess_sources                                                          *)

(* Mutant: the mean.                                                       *)
Mean(rows) == MapThenSumSet(LAMBDA r : r.docs, rows) \div Cardinality(rows)

(* percentile_approx(docs_ingested, 0.5): the smallest count at least half *)
(* of the rows do not exceed.                                              *)
Median(rows) ==
    LET atMost(r) == {q \in rows : q.docs <= r.docs}
        middle == {r \in rows : 2 * Cardinality(atMost(r)) >= Cardinality(rows)}
    IN  (CHOOSE r \in middle : \A q \in middle : r.docs <= q.docs).docs

History(window) ==
    {r \in health : window - BaselineWindows <= r.window /\ r.window < window}

(* _volume_baselines: nothing without history.                             *)
Baseline(window) ==
    IF History(window) = {} THEN Never ELSE Median(History(window))

(* The run counts the documents of the closed hour and reads the baselines *)
(* of the windows before it.                                               *)
CountDocuments ==
    /\ monitor.pc = "idle"
    /\ monitor' = [pc |-> "assess", window |-> clock - 1, docs |-> docs.closed,
                   baseline |-> Baseline(clock - 1)]
    /\ UNCHANGED <<reach, clock, feed, fetched, lost, docs, source, health>>

Stale == source.success # Never /\ clock - source.success > Sla

(* Mutant: an hour less is recoverable than the horizon says.              *)
PlannedGapLate(start, end) ==
    LET floor == clock - reach + 1
    IN  CASE end <= start \/ floor <= start -> NoGap
          [] floor >= end -> [from |-> start, until |-> end]
          [] OTHER -> [from |-> start, until |-> floor]

(* plan_catch_up: the part of the outage the horizon, measured back from   *)
(* now, does not reach.                                                    *)
PlannedGap(start, end) ==
    LET floor == clock - reach
    IN  CASE end <= start \/ floor <= start -> NoGap
          [] floor >= end -> [from |-> start, until |-> end]
          [] OTHER -> [from |-> start, until |-> floor]

(* assess: an outage is what lies between the last success and now.        *)
Gap == IF Stale THEN PlannedGap(source.success, clock) ELSE NoGap

VolumeDropped ==
    /\ monitor.baseline # Never /\ monitor.baseline >= BaselineMin
    /\ monitor.docs * 100 <= monitor.baseline * DropPercent

(* assess_source: the more fundamental fault first.                        *)
Status ==
    CASE source.success = Never -> "never_succeeded"
      [] Stale -> "stale"
      [] source.change # Never /\ clock - source.change > ContentSla -> "dead_feed"
      [] VolumeDropped -> "volume_drop"
      [] monitor.docs < MinDocs -> "thin"
      [] Gap # NoGap -> "gapped"
      [] OTHER -> "ok"

(* FAILING_STATUSES: raise_on_degraded fails the run on them.              *)
Failing == {"never_succeeded", "stale", "dead_feed", "volume_drop", "thin",
            "gapped", "unmonitored"}

(* The State is loaded and assessed, and record MERGEs the row of the      *)
(* window: the last word on a window replaces the one before.              *)
RecordHealth ==
    /\ monitor.pc = "assess"
    /\ health' = {r \in health : r.window # monitor.window} \cup
                 {[window |-> monitor.window, docs |-> monitor.docs,
                   status |-> Status, gap |-> Gap]}
    /\ monitor' = NoRun
    /\ UNCHANGED <<reach, clock, feed, fetched, lost, docs, source>>

MonitorDies ==
    /\ monitor.pc = "assess"
    /\ monitor' = NoRun
    /\ UNCHANGED <<reach, clock, feed, fetched, lost, docs, source, health>>

HealthNext ==
    \/ HourPasses \/ FeedRotates
    \/ PollFails \/ PollUnchanged \/ PollOk
    \/ CountDocuments \/ RecordHealth \/ MonitorDies

HealthSpec == HealthInit /\ [][HealthNext]_healthVars

-----------------------------------------------------------------------------

HealthTypeOK ==
    /\ reach \in Reaches /\ clock \in 1..MaxHour
    /\ feed \subseteq 1..MaxHour
    /\ fetched \cup lost \subseteq [item : 1..MaxHour, at : 1..MaxHour]
    /\ docs \in [closed : 0..MaxPolls, open : 0..MaxPolls]
    /\ source \in [success : {Never} \cup 1..MaxHour, change : {Never} \cup 1..MaxHour]
    /\ health \subseteq [window : 0..MaxHour, docs : 0..MaxPolls,
                         status : Failing \cup {"ok"},
                         gap : [from : 0..MaxHour, until : 0..MaxHour]]
    /\ monitor.pc \in {"idle", "assess"}

Inside(t, gap) == gap.from < t /\ t < gap.until

(* read_health: the newest verdict the brief finds.                        *)
Footer ==
    LET recent == {r \in health : r.window >= clock - FooterHours}
    IN  IF recent = {} THEN "unmonitored"
        ELSE (CHOOSE r \in recent : \A q \in recent : q.window <= r.window).status

(* Monitoring tells the truth about an outage, as far as it can know it.   *)
(* What a verdict records as lost nobody had fetched by then, and an item  *)
(* of it that is fetched after all had been in the feed for longer than    *)
(* the horizon claims: RSS feeds do hold more than the hour assumed.  And  *)
(* a window that fell silent is a failing one for as long as most of the   *)
(* windows its baseline is made of were not - the outage never becomes the *)
(* new normal sooner, whatever verdicts and re-runs came in between.  A    *)
(* footer is never "ok" for a source no poll has ever reached.             *)
HealthTrue ==
    /\ \A r \in health : \A i \in fetched :
          Inside(i.item, r.gap) => i.at > r.window /\ i.at - i.item > reach
    /\ \A r \in health :
          LET before == {q \in health : r.window - BaselineWindows <= q.window
                                        /\ q.window < r.window}
              loud == {q \in before : q.docs >= BaselineMin}
          IN  r.docs = 0 /\ 2 * Cardinality(loud) > Cardinality(before)
                => r.status \in Failing
    /\ Footer = "ok" => source.success # Never

(* README: the reported gap is an upper bound on loss, never an            *)
(* under-report.  So an item that left the feed unfetched, though not      *)
(* before the horizon claims it would, in an outage the monitor reported a *)
(* gap of, lies in a gap it reported - once the outage has been told of by *)
(* a verdict on a later window.                                            *)
UpperBoundOnLoss ==
    \A l \in lost : \A r \in health :
        /\ l.at - l.item > reach
        /\ r.gap # NoGap /\ r.gap.from < l.item
        /\ \A i \in fetched : ~ (r.gap.from < i.item /\ i.item <= l.item)
        /\ \E q \in health : q.window > r.window /\ q.status = "ok"
        => \E q \in health : Inside(l.item, q.gap)

=============================================================================
