---------------------------- MODULE Observations ----------------------------
(***************************************************************************)
(* Two tables fed by sources that restate their own history in every fetch:*)
(* gold.macro_observations, which keeps every vintage (spark/jobs/macro.py,*)
(* parse/macro.py), and silver.market_observations, which keeps the last   *)
(* word (spark/jobs/market.py).                                            *)
(*                                                                         *)
(* Rows of different periods never meet in either job, so one period of one*)
(* series stands for all.  Each DAG runs one load at a time over a window  *)
(* of bronze that ends now; a load can die between any two of its commits. *)
(* A fetch is in bronze with its day or is not there (a failed poll).      *)
(***************************************************************************)
EXTENDS Integers, FiniteSets, FiniteSetsExt

CONSTANTS
    Figures,      \* what a source can publish: numbers
    Missing,      \* FRED's "." and a null close: published, with no value
    Silent,       \* not published
    WindowDays,   \* WINDOW_HOURS of the two DAGs
    RevisionDays, \* REVISION_LOOKBACK_DAYS
    Rounding,     \* 1 / REVISION_MIN_FRACTION
    MaxDay        \* bound: days

ASSUME ObservationsAssumption ==
    /\ Figures \subseteq Int /\ {Missing, Silent} \cap Int = {} /\ Missing # Silent
    /\ WindowDays \in Nat /\ MaxDay \in Nat
    /\ RevisionDays \in Nat /\ Rounding \in Nat

VARIABLES
    today,       \* the day
    stated,      \* what the source published on each day it published
    fetches,     \* bronze: what each day's fetch returned
    vintages,    \* gold.macro_observations
    bar,         \* silver.market_observations: no row or one
    macro,       \* the macro load under way, or the last one
    market,      \* the market load under way, or the last one
    told         \* history: days of the fetches whose rows a load has merged

observationsVars ==
    <<today, stated, fetches, vintages, bar, macro, market, told>>

-----------------------------------------------------------------------------

StillCurrent == MaxDay + 1     \* superseded_at is null: still current
Null == Missing        \* a null revision_delta
Days == 0..MaxDay

Publications == {d \in Days : stated[d] # Silent}

(* ALFRED's answer: every vintage so far, with the day before the next one *)
(* as realtime_end.                                                        *)
Vintages(P) ==
    {[vintage |-> d, value |-> stated[d],
      superseded |-> IF \E e \in P : e > d THEN Min({e \in P : e > d}) - 1
                     ELSE StillCurrent] : d \in P}

ObservationsInit ==
    /\ today = 0
    /\ stated = [d \in Days |-> Silent]
    /\ fetches = {}
    /\ vintages = {}
    /\ bar = {}
    /\ macro = [pc |-> "idle", read |-> {}, rows |-> {}, whole |-> TRUE]
    /\ market = [pc |-> "idle", read |-> {}, rows |-> {}]
    /\ told = [macro |-> {}, market |-> {}]

NextDay ==
    /\ today < MaxDay
    /\ today' = today + 1
    /\ UNCHANGED <<stated, fetches, vintages, bar, macro, market, told>>

(* The source publishes a figure, or a revision of it, at most once a day. *)
Publish(value) ==
    /\ stated[today] = Silent
    /\ stated' = [stated EXCEPT ![today] = value]
    /\ UNCHANGED <<today, fetches, vintages, bar, macro, market, told>>

(* The daily poll, committed to bronze.                                    *)
Fetch ==
    /\ \A f \in fetches : f.day # today
    /\ fetches' = fetches \cup {[day |-> today, rows |-> Vintages(Publications)]}
    /\ UNCHANGED <<today, stated, vintages, bar, macro, market, told>>

(* _bronze_window.                                                         *)
BronzeWindow == {f \in fetches : f.day >= today - WindowDays}

-----------------------------------------------------------------------------
(* macro_window                                                            *)

(* Of every vintage the newest observation in the window.                  *)
Observed ==
    {r \in UNION {f.rows : f \in BronzeWindow} :
        \A f \in BronzeWindow :
            (\E s \in f.rows : s.vintage = r.vintage) =>
                \E g \in BronzeWindow : g.day >= f.day /\ r \in g.rows}

BeginMacro ==
    /\ macro.pc = "idle"
    /\ macro' = [macro EXCEPT !.pc = "merge", !.rows = Observed,
                             !.read = {f.day : f \in BronzeWindow}]
    /\ UNCHANGED <<today, stated, fetches, vintages, bar, market, told>>

(* The MERGE inserts unknown vintages and touches no other row.  Without   *)
(* observations there is none, and without rows nothing to derive.         *)
MergeVintages ==
    /\ macro.pc = "merge"
    /\ LET known == {r.vintage : r \in vintages}
           new == {r \in macro.rows : r.vintage \notin known}
       IN  /\ vintages' = vintages \cup
                 {[vintage |-> r.vintage, value |-> r.value,
                   superseded |-> r.superseded, latest |-> FALSE,
                   delta |-> Null] : r \in new}
           /\ macro' = [macro EXCEPT !.pc = IF vintages' = {} THEN "idle" ELSE "derive",
                                     !.whole = (new = {} /\ macro.whole)]
    /\ told' = [told EXCEPT !.macro = @ \cup macro.read]
    /\ UNCHANGED <<today, stated, fetches, bar, market>>

(* revision_delta: null without a previous vintage or a value on both sides*)
Delta(r, table) ==
    LET before == {s \in table : s.vintage < r.vintage}
        lag == CHOOSE s \in before : \A q \in before : q.vintage <= s.vintage
    IN  IF before = {} \/ r.value = Missing THEN Null
        ELSE IF lag.value = Missing THEN Null ELSE r.value - lag.value

Magnitude(n) == IF n < 0 THEN -n ELSE n

Rederived(table) ==
    {[r EXCEPT !.latest = \A s \in table : s.vintage <= r.vintage,
               !.delta = Delta(r, table)] : r \in table}

(* Mutant: derived over the batch, not over the whole table.               *)
DeriveBatch ==
    /\ macro.pc = "derive"
    /\ LET batch == {r \in vintages : \E s \in macro.rows : s.vintage = r.vintage}
       IN  vintages' = (vintages \ batch) \cup Rederived(batch)
    /\ macro' = [macro EXCEPT !.pc = "idle", !.whole = TRUE]
    /\ UNCHANGED <<today, stated, fetches, bar, market, told>>

(* recompute_derived                                                       *)
Derive ==
    /\ macro.pc = "derive"
    /\ vintages' = Rederived(vintages)
    /\ macro' = [macro EXCEPT !.pc = "idle", !.whole = TRUE]
    /\ UNCHANGED <<today, stated, fetches, bar, market, told>>

MacroDies ==
    /\ macro.pc # "idle"
    /\ macro' = [macro EXCEPT !.pc = "idle"]
    /\ UNCHANGED <<today, stated, fetches, vintages, bar, market, told>>

(* read_macro_revisions: what the brief says was revised.  One period has  *)
(* one line at most; which of many lines are printed is left out.          *)
News(r) ==
    /\ r.delta # Null /\ r.value # Missing
    /\ r.delta # 0 /\ r.vintage >= today - RevisionDays
    /\ Magnitude(r.delta) * Rounding >= Magnitude(r.value)

RevisionLines ==
    {[vintage |-> r.vintage, value |-> r.value, previous |-> r.value - r.delta] :
        r \in {s \in vintages : s.latest /\ News(s)}}

-----------------------------------------------------------------------------
(* market_window.  A fetch states the current figure of a day only; a day  *)
(* without a close is left out of it.                                      *)

Quoted(f) == {r \in f.rows : r.superseded = StillCurrent /\ r.value # Missing}

Bars == UNION {{[value |-> r.value, observed |-> f.day] : r \in Quoted(f)} :
                  f \in BronzeWindow}

(* Mutant: the ranking keeps the oldest observation.                       *)
OldestBar == {b \in Bars : \A c \in Bars : b.observed <= c.observed}

(* Of every bar the latest observation in the window.                      *)
NewestBar == {b \in Bars : \A c \in Bars : c.observed <= b.observed}

BeginMarket ==
    /\ market.pc = "idle"
    /\ market' = [pc |-> "merge", rows |-> NewestBar,
                  read |-> {b.observed : b \in Bars}]
    /\ UNCHANGED <<today, stated, fetches, vintages, bar, macro, told>>

(* WHEN MATCHED THEN UPDATE SET *, WHEN NOT MATCHED THEN INSERT *          *)
MergeBars ==
    /\ market.pc = "merge"
    /\ bar' = IF market.rows = {} THEN bar ELSE market.rows
    /\ market' = [market EXCEPT !.pc = "idle"]
    /\ told' = [told EXCEPT !.market = @ \cup market.read]
    /\ UNCHANGED <<today, stated, fetches, vintages, macro>>

MarketDies ==
    /\ market.pc # "idle"
    /\ market' = [market EXCEPT !.pc = "idle"]
    /\ UNCHANGED <<today, stated, fetches, vintages, bar, macro, told>>

ObservationsNext ==
    \/ NextDay \/ Fetch
    \/ \E value \in Figures \cup {Missing} : Publish(value)
    \/ BeginMacro \/ MergeVintages \/ Derive \/ MacroDies
    \/ BeginMarket \/ MergeBars \/ MarketDies

ObservationsSpec == ObservationsInit /\ [][ObservationsNext]_observationsVars

-----------------------------------------------------------------------------

ObservationsTypeOK ==
    /\ today \in Days
    /\ stated \in [Days -> Figures \cup {Missing, Silent}]
    /\ macro.pc \in {"idle", "merge", "derive"} /\ macro.whole \in BOOLEAN
    /\ market.pc \in {"idle", "merge"}
    /\ \A f \in fetches : f.day \in Days
    /\ \A r \in vintages : r.vintage \in Days /\ r.superseded \in 0..StillCurrent

(* What the source had published before a day, and its last word then.     *)
PublishedBefore(d) == {e \in Publications : e < d}
Before(d) == stated[Max(PublishedBefore(d))]

(* Two vintages of a period never both claim to be current, whatever dies; *)
(* once every merge has been followed by a recompute the newest one does,  *)
(* and every revision told is the difference of two figures the source     *)
(* published one after the other.  "What was knowable on a day" is told  *)
(* with what every fetch said, read or missed, up to the last one merged.  *)
VintagesTrue ==
    /\ Cardinality({r \in vintages : r.latest}) <= 1
    /\ macro.whole => \A r \in vintages :
          /\ r.latest = (\A s \in vintages : s.vintage <= r.vintage)
          /\ r.delta = IF PublishedBefore(r.vintage) = {} \/ r.value = Missing THEN Null
                       ELSE IF Before(r.vintage) = Missing THEN Null
                       ELSE r.value - Before(r.vintage)
    /\ \A f \in fetches : (\E d \in told.macro : f.day <= d) =>
          \A r \in f.rows :
              \E v \in vintages : v.vintage = r.vintage /\ v.value = r.value

(* A bar says what the newest fetch any load has merged said of it: a      *)
(* restatement is never undone by an older fetch read again.               *)
BarFresh ==
    \A b \in bar : b.observed = Max(told.market)

(* A revision the brief tells, in the middle of a load or after one that   *)
(* died too, is of a figure the source published and from the figure it    *)
(* published just before; and the newest figure loaded, once whole, is told*)
(* if it is news against that one.                                         *)
RevisionsTold ==
    LET newest == Max({r.vintage : r \in vintages})
    IN  /\ \A l \in RevisionLines : stated[l.vintage] = l.value /\ Before(l.vintage) = l.previous
        /\ macro.whole /\ vintages # {} /\ PublishedBefore(newest) # {} =>
              LET now == stated[newest]
              IN  (RevisionLines = {}) =
                     IF Missing \in {now, Before(newest)} THEN TRUE
                     ELSE \/ now = Before(newest) \/ newest < today - RevisionDays
                          \/ Magnitude(now - Before(newest)) * Rounding < Magnitude(now)

RestatementsKept == VintagesTrue /\ RevisionsTold /\ BarFresh

(* models.py: superseded_at is ALFRED's realtime_end, None for the current *)
(* value only.  So a vintage with a newer one beside it is not open.       *)
SupersededSaysSo ==
    macro.pc = "idle" => \A r, s \in vintages :
        r.vintage < s.vintage => r.superseded # StillCurrent

=============================================================================
