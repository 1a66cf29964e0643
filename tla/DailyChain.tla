----------------------------- MODULE DailyChain -----------------------------
(***************************************************************************)
(* The daily half of the local pipeline.  market heads the chain: its cron *)
(* slot starts a gate that waits for a bronze snapshot younger than two    *)
(* hours.  Every later stage is started by the asset events of the stages  *)
(* before it, queued per consumer and consumed when its run starts:        *)
(*                                                                         *)
(*   market -> macro -> resolve -> cluster                                 *)
(*                         |          |                                    *)
(*                         +-- and ---+-> enrich                           *)
(*                                                                         *)
(* Data is abstracted to the day it was read.  Day d begins when the       *)
(* market slot of d comes due, whatever is still at work: a run may take   *)
(* hours, and an event outlives a night in which the host sleeps.          *)
(***************************************************************************)
EXTENDS Integers

CONSTANTS
    MaxDay,      \* bound: the last day of the model
    MayFail,     \* whether runs fail or jam before the last day
    Sleeps       \* whether the host may sleep into a new day

Stages == {"market", "macro", "resolve", "cluster", "enrich"}

ASSUME MaxDayAssumption == MaxDay \in Nat \ {0}
ASSUME FlagsAssumption == {MayFail, Sleeps} \subseteq BOOLEAN

VARIABLES
    day,       \* today
    bronze,    \* day of the newest documents ingest_monitor committed
    fresh,     \* bronze has a snapshot less than BRONZE_MAX_AGE_HOURS old
    due,       \* the market slot of today has not been started yet
    phase,     \* what the run of each stage is doing
    queued,    \* for each stage, the stages whose event it has not consumed
    began,     \* day on which the latest run of each stage read its window
    built,     \* day of the run that last wrote the table of each stage
    paired     \* what the latest run of enrich found: mentions and clusters

VARIABLE
    overnight  \* history: the days that began with the chain at work

vars == <<day, bronze, fresh, due, phase, queued, began, built, paired, overnight>>

-----------------------------------------------------------------------------

(* The schedule of each stage.                                             *)
Needs(s) ==
    CASE s = "market"  -> {}
      [] s = "macro"   -> {"market"}
      [] s = "resolve" -> {"macro"}
      [] s = "cluster" -> {"resolve"}
      [] s = "enrich"  -> {"resolve", "cluster"}

Idle(s) == phase[s] = "idle"

(* An AND of assets is met when each has an event.                         *)
Met(s) == s # "market" /\ queued[s] = Needs(s)

(* max_active_runs=1.                                                      *)
Triggered(s) == Idle(s) /\ Met(s)

(* The chain is on its way: a stage will emit, or an event is waiting.     *)
(* What enrich still does with what it has read changes nothing, and       *)
(* neither does a run that is jammed and will be failed.                   *)
AtWork ==
    \/ \E s \in Stages \ {"enrich"} : phase[s] \in {"gate", "running"}
    \/ \E s \in Stages : Met(s)

-----------------------------------------------------------------------------

Init ==
    /\ day = 1 /\ bronze = 1
    /\ fresh = TRUE
    /\ due = TRUE
    /\ phase = [s \in Stages |-> "idle"]
    /\ queued = [s \in Stages |-> {}]
    /\ began = [s \in Stages |-> 0]
    /\ built = [s \in Stages |-> 0]
    /\ paired = [mentions |-> 0, clusters |-> 0]
    /\ overnight = {}

(* The next market slot comes due.  On a host that is awake ingest_monitor *)
(* and process have been running every hour; one that slept has committed  *)
(* nothing since.  What was running goes on, or turns out to be jammed.    *)
NewDay ==
    /\ day < MaxDay
    /\ day' = day + 1
    /\ due' = TRUE
    /\ \/ /\ bronze' = day'
          /\ fresh' = TRUE
       \/ /\ Sleeps
          /\ fresh' = FALSE
          /\ UNCHANGED bronze
    /\ overnight' = overnight \cup (IF AtWork THEN {day'} ELSE {})
    /\ UNCHANGED <<phase, queued, began, built, paired>>

(* ingest_monitor: commit_staged.                                          *)
CommitBronze ==
    /\ bronze' = day
    /\ fresh' = TRUE
    /\ UNCHANGED <<day, due, phase, queued, began, built, paired, overnight>>

(* maintenance: rewrite_data_files commits a snapshot of bronze.           *)
Sweep ==
    /\ fresh' = TRUE
    /\ UNCHANGED <<day, bronze, due, phase, queued, began, built, paired, overnight>>

(* Two hours pass without a snapshot.                                      *)
Age ==
    /\ fresh' = FALSE
    /\ UNCHANGED <<day, bronze, due, phase, queued, began, built, paired, overnight>>

-----------------------------------------------------------------------------

(* The scheduler creates market's run for today's slot.                    *)
StartMarket ==
    /\ due
    /\ Idle("market")
    /\ due' = FALSE
    /\ phase' = [phase EXCEPT !["market"] = "gate"]
    /\ UNCHANGED <<day, bronze, fresh, queued, began, built, paired, overnight>>

(* Mutant: the gate does not look at the snapshot's age.                   *)
OpenBlindly ==
    /\ phase["market"] = "gate"
    /\ phase' = [phase EXCEPT !["market"] = "running"]
    /\ began' = [began EXCEPT !["market"] = day]
    /\ UNCHANGED <<day, bronze, fresh, due, queued, built, paired, overnight>>

(* wait_for_fresh_bronze succeeds, and market_window_task reads its window.*)
OpenGate ==
    /\ phase["market"] = "gate"
    /\ fresh
    /\ phase' = [phase EXCEPT !["market"] = "running"]
    /\ began' = [began EXCEPT !["market"] = day]
    /\ UNCHANGED <<day, bronze, fresh, due, queued, built, paired, overnight>>

(* A stage reads its window; enrich reads the tables of resolve and cluster*)
(* as they are.                                                            *)
Reads(s) ==
    /\ began' = [began EXCEPT ![s] = day]
    /\ paired' = IF s = "enrich" THEN [mentions |-> built["resolve"],
                                       clusters |-> built["cluster"]]
                 ELSE paired

(* Mutant: one of the two assets is enough (an OR).                        *)
StartOnAny(s) ==
    /\ s # "market" /\ Idle(s) /\ queued[s] # {}
    /\ phase' = [phase EXCEPT ![s] = "running"]
    /\ queued' = [queued EXCEPT ![s] = {}]
    /\ Reads(s)
    /\ UNCHANGED <<day, bronze, fresh, due, built, overnight>>

(* Its assets start a stage, which reads its tables.                       *)
Start(s) ==
    /\ Triggered(s)
    /\ phase' = [phase EXCEPT ![s] = "running"]
    /\ queued' = [queued EXCEPT ![s] = {}]
    /\ Reads(s)
    /\ UNCHANGED <<day, bronze, fresh, due, built, overnight>>

(* The stage's task succeeds: its table is written and its asset emitted.  *)
Finish(s) ==
    /\ phase[s] = "running"
    /\ phase' = [phase EXCEPT ![s] = "idle"]
    /\ built' = [built EXCEPT ![s] = began[s]]
    /\ queued' = [c \in Stages |-> IF s \in Needs(c) THEN queued[c] \cup {s}
                                                     ELSE queued[c]]
    /\ UNCHANGED <<day, bronze, fresh, due, began, paired, overnight>>

(* A task that does not succeed may have written its table before.         *)
MaybeBuilt(s) ==
    \/ UNCHANGED built
    \/ phase[s] = "running" /\ built' = [built EXCEPT ![s] = began[s]]

(* The task raises, or the gate times out.                                 *)
Fail(s) ==
    /\ MayFail /\ day < MaxDay
    /\ phase[s] \in {"gate", "running"}
    /\ phase' = [phase EXCEPT ![s] = "idle"]
    /\ MaybeBuilt(s)
    /\ UNCHANGED <<day, bronze, fresh, due, queued, began, paired, overnight>>

(* The host froze under a task: Airflow never learns how it ended.         *)
Jam(s) ==
    /\ MayFail /\ day < MaxDay
    /\ phase[s] \in {"gate", "running"}
    /\ phase' = [phase EXCEPT ![s] = "jammed"]
    /\ MaybeBuilt(s)
    /\ UNCHANGED <<day, bronze, fresh, due, queued, began, paired, overnight>>

(* Mutant: no dagrun_timeout ends a jammed run.                            *)
NoTimeout(s) == FALSE /\ UNCHANGED vars

(* Mutant: the run it fails still counts against max_active_runs.          *)
TimeoutKeepsRun(s) ==
    /\ phase[s] = "jammed"
    /\ phase' = [phase EXCEPT ![s] = "failed"]
    /\ UNCHANGED <<day, bronze, fresh, due, queued, began, built, paired, overnight>>

(* dagrun_timeout fails a run that has not ended.                          *)
Timeout(s) ==
    /\ phase[s] = "jammed"
    /\ phase' = [phase EXCEPT ![s] = "idle"]
    /\ UNCHANGED <<day, bronze, fresh, due, queued, began, built, paired, overnight>>

-----------------------------------------------------------------------------

Hourly == CommitBronze \/ Age

Stage(s) == Start(s) \/ Finish(s) \/ Timeout(s)

Next ==
    \/ NewDay
    \/ Hourly
    \/ StartMarket
    \/ OpenGate
    \/ \E s \in Stages : Stage(s) \/ Fail(s) \/ Jam(s)

(* The chain as it runs by itself, next to the hourly DAGs.                *)
Spec == Init /\ [][Next]_vars

(* The same with maintenance finding bronze files to compact.              *)
SpecWithSweeps == Init /\ [][Next \/ Sweep]_vars

(* Days pass, Airflow schedules what can run, tasks end, and ingest_monitor*)
(* commits again and again: a gate that keeps looking sees it one day.     *)
FairSpec ==
    /\ Spec
    /\ WF_vars(NewDay) /\ WF_vars(StartMarket)
    /\ WF_vars(CommitBronze) /\ SF_vars(OpenGate)
    /\ \A s \in Stages : WF_vars(Stage(s))

-----------------------------------------------------------------------------

TypeOK ==
    /\ day \in Nat /\ bronze \in Nat
    /\ fresh \in BOOLEAN /\ due \in BOOLEAN
    /\ phase \in [Stages -> {"idle", "gate", "running", "jammed"}]
    /\ queued \in [Stages -> SUBSET Stages]
    /\ began \in [Stages -> Nat] /\ built \in [Stages -> Nat]
    /\ paired \in [mentions : Nat, clusters : Nat]
    /\ overnight \subseteq 1..day

(* "This DAG blocks until bronze has been committed recently, and          *)
(* everything downstream inherits that wait": on a day that began with the *)
(* chain at rest no stage, from market to enrich, reads its tables or has  *)
(* written one before bronze has that day's commit - whatever failed or    *)
(* jammed before, and also after days whose chain went on over the night.  *)
(* On such an overnight day the stages still to come read what there is.   *)
GateHolds ==
    day \notin overnight =>
        \A s \in Stages : day \in {began[s], built[s]} => bronze = day

(* enrich never pairs the mentions of one day with the clusters of another,*)
(* whatever stage failed or jammed before: the AND is there to keep "both  *)
(* halves rebuilt from the same day".  It does as long as every day began  *)
(* with the chain at rest.  Once two days of the chain have overlapped it  *)
(* need not, and the days after are not to be trusted either: a resolve    *)
(* that overtakes the cluster run of the day before leaves an event of     *)
(* cluster behind, which every later resolve completes.                    *)
SameDay ==
    overnight = {} => paired.mentions = paired.clusters

(* Why GateHolds: what goes on, or is waiting, went past today's gate.     *)
PastGate ==
    /\ fresh => bronze = day
    /\ \A s \in Stages : began[s] <= day /\ built[s] <= day
    /\ day \notin overnight /\ bronze # day =>
          \A s \in Stages : /\ ~ Met(s)
                            /\ phase[s] = "running" => s = "enrich"
                            /\ day \notin {began[s], built[s]}

(* Why SameDay: each day one token travels down the chain.  A stage has it *)
(* when it is at work, or its events have come.                            *)
Token(s) ==
    \/ s # "enrich" /\ phase[s] \in {"gate", "running"}
    \/ s = "market" /\ due
    \/ Met(s)

OneToken ==
    /\ \A s, c \in Stages : Token(s) /\ Token(c) => s = c
    /\ phase["market"] \in {"gate", "running"} => ~ due
    /\ \A s \in Stages \ {"enrich"} : phase[s] = "running" => queued[s] = {}

(* The events enrich is left with: never those of cluster alone, and never *)
(* cluster's without the mentions its clusters were built from.            *)
EventsPaired ==
    /\ Token("cluster") => "resolve" \in queued["enrich"] /\ built["resolve"] = day
    /\ "cluster" \in queued["enrich"] =>
          "resolve" \in queued["enrich"] /\ built["resolve"] = built["cluster"]

(* What the stage that has the token read, it read today.                  *)
TokenIsToday ==
    \A s \in Stages \ {"enrich"} : phase[s] = "running" => began[s] = day

(* Events come from the stages a consumer needs.                           *)
QueuesOK == \A s \in Stages : queued[s] \subseteq Needs(s)

IInv ==
    /\ TypeOK /\ QueuesOK /\ PastGate
    /\ overnight = {} => OneToken /\ EventsPaired /\ TokenIsToday /\ SameDay

(* Whatever failed, jammed, was left in a queue or went on over the night, *)
(* on the first day nothing fails the chain runs to its end again, with    *)
(* the mentions of that day.                                               *)
ChainRecovers ==
    <>(built["enrich"] = MaxDay /\ paired.mentions = MaxDay)

=============================================================================
