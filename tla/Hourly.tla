------------------------------- MODULE Hourly -------------------------------
(***************************************************************************)
(* The hourly half of the local pipeline: ingest_monitor commits what the  *)
(* pollers staged into bronze, its BRONZE_COMMITTED event starts process,  *)
(* and process runs three independent tasks that each normalize one closed *)
(* hour of bronze into their own silver table.                             *)
(*                                                                         *)
(* Hours are counted from 1.  A document stands for everything one source  *)
(* fetched in one hour.  No task is retried, so a failure ends the task.   *)
(***************************************************************************)
EXTENDS Integers

CONSTANTS
    Kinds,           \* what the pollers fetch: records [source, parses]
    MaxHour,         \* bound: the last hour of the model
    Timely,          \* the host is awake: an hour's work ends within the hour
    CommitMayFail,   \* whether commit_staged may fail
    TaskMayFail      \* whether a task of process may fail

Sources == {"rss", "hackernews", "hn_scores"}

ASSUME KindsAssumption == Kinds \subseteq [source : Sources, parses : BOOLEAN]
ASSUME MaxHourAssumption == MaxHour \in Nat \ {0}
ASSUME FlagsAssumption == {Timely, CommitMayFail, TaskMayFail} \subseteq BOOLEAN

VARIABLES
    hour,      \* the wall clock
    staged,    \* documents in the staging prefix
    bronze,    \* bronze.raw_documents
    silver,    \* each task's table
    rejects,   \* silver.parse_rejects
    commit,    \* the latest run of ingest_monitor
    pending,   \* slot whose BRONZE_COMMITTED process has not consumed, or 0
    runSlot,   \* slot whose event started the latest run of process
    task,      \* the tasks of that run
    closed     \* history: hours each task normalized on the event of their slot

vars == <<hour, staged, bronze, silver, rejects,
          commit, pending, runSlot, task, closed>>

-----------------------------------------------------------------------------

Tasks == {"articles", "comments", "scores"}

Document == [hour : Nat, source : Sources, parses : BOOLEAN]

(* NON_ARTICLE_SOURCES, and the one source each other pass reads.          *)
Reads(t) ==
    CASE t = "articles" -> Sources \ {"hn_scores"}
      [] t = "comments" -> {"hackernews"}
      [] t = "scores"   -> {"hn_scores"}

(* Mutant: the hour still open instead of the one that closed.             *)
OpenHour == hour

(* Mutant: an hour too far back.                                           *)
HourBefore == hour - 2

(* window_bounds: the closed hour before now.                              *)
ClosedHour == hour - 1

(* _bronze_window: the documents of bronze a task reads for its window.    *)
Window(t) == {d \in bronze : d.hour = task[t].window /\ d.source \in Reads(t)}

Done(t) == task[t].pc = "done"

(* Nothing local is left to do in this hour.                               *)
Quiet ==
    /\ commit.slot = hour
    /\ commit.pc \in {"done", "failed"}
    /\ pending = 0
    /\ \A t \in Tasks : Done(t)

-----------------------------------------------------------------------------

Init ==
    /\ hour = 1
    /\ staged = {}
    /\ bronze = {}
    /\ silver = [t \in Tasks |-> {}]
    /\ rejects = {}
    /\ commit = [pc |-> "done", slot |-> 0, seen |-> {}]
    /\ pending = 0
    /\ runSlot = 0
    /\ task = [t \in Tasks |-> [pc |-> "done", window |-> 0]]
    /\ closed = [t \in Tasks |-> {}]

(* The clock.  A host that is asleep or slow does not stop it.             *)
Tick ==
    /\ hour < MaxHour
    /\ Timely => Quiet
    /\ hour' = hour + 1
    /\ UNCHANGED <<staged, bronze, silver, rejects,
                   commit, pending, runSlot, task, closed>>

(* A poller stages what it fetched this hour, or the end of the previous   *)
(* one: a poll that straddles the boundary is staged within two minutes    *)
(* and ingest_monitor starts at five minutes past.                         *)
Poll(k) ==
    /\ \E h \in {hour, hour - 1} :
          /\ h > 0
          /\ h < hour => commit.slot < hour
          /\ staged' = staged \cup {[hour |-> h, source |-> k.source,
                                     parses |-> k.parses]}
    /\ UNCHANGED <<hour, bronze, silver, rejects,
                   commit, pending, runSlot, task, closed>>

-----------------------------------------------------------------------------
(* ingest_monitor: one scheduled run an hour, never two at once, and with  *)
(* catchup=False only the latest slot after a sleep.                       *)

StartCommit ==
    /\ commit.pc \in {"done", "failed"}
    /\ commit.slot < hour
    /\ commit' = [pc |-> "sync", slot |-> hour, seen |-> {}]
    /\ UNCHANGED <<hour, staged, bronze, silver, rejects,
                   pending, runSlot, task, closed>>

(* A failed run is simply re-run by hand.                                  *)
RerunCommit ==
    /\ commit.pc = "failed"
    /\ commit' = [commit EXCEPT !.pc = "sync"]
    /\ UNCHANGED <<hour, staged, bronze, silver, rejects,
                   pending, runSlot, task, closed>>

(* sync_staging: mirror the prefix.                                        *)
Sync ==
    /\ commit.pc = "sync"
    /\ commit' = [commit EXCEPT !.pc = "merge", !.seen = staged]
    /\ UNCHANGED <<hour, staged, bronze, silver, rejects,
                   pending, runSlot, task, closed>>

(* Mutant: the event leaves before the MERGE.                              *)
MergeAfterEvent ==
    /\ commit.pc = "merge"
    /\ commit' = [commit EXCEPT !.pc = "costs"]
    /\ UNCHANGED <<hour, staged, bronze, silver, rejects,
                   pending, runSlot, task, closed>>

(* commit: insert what bronze does not have yet.                           *)
Merge ==
    /\ commit.pc = "merge"
    /\ bronze' = bronze \cup commit.seen
    /\ commit' = [commit EXCEPT !.pc = "costs"]
    /\ UNCHANGED <<hour, staged, silver, rejects,
                   pending, runSlot, task, closed>>

(* Mutant: the task has no outlet, so its success emits nothing.           *)
EmitNothing ==
    /\ commit.pc = "costs"
    /\ commit' = [commit EXCEPT !.pc = "done"]
    /\ UNCHANGED <<hour, staged, bronze, silver, rejects,
                   pending, runSlot, task, closed>>

(* Mutant: the event stands for the hour it is emitted in.                 *)
EmitThisHour ==
    /\ commit.pc = "costs"
    /\ commit' = [commit EXCEPT !.pc = "done"]
    /\ pending' = hour
    /\ UNCHANGED <<hour, staged, bronze, silver, rejects,
                   runSlot, task, closed>>

(* record_costs, then the task succeeds and BRONZE_COMMITTED is emitted.   *)
Emit ==
    /\ commit.pc = "costs"
    /\ commit' = [commit EXCEPT !.pc = "done"]
    /\ pending' = commit.slot
    /\ UNCHANGED <<hour, staged, bronze, silver, rejects,
                   runSlot, task, closed>>

(* commit_staged raises or its run times out: no event, whatever it did.   *)
CommitFails ==
    /\ CommitMayFail
    /\ commit.pc \in {"sync", "merge", "costs"}
    /\ commit' = [commit EXCEPT !.pc = "failed"]
    /\ UNCHANGED <<hour, staged, bronze, silver, rejects,
                   pending, runSlot, task, closed>>

-----------------------------------------------------------------------------
(* process: started by the event, one run at a time.                       *)

StartProcess ==
    /\ pending # 0
    /\ \A t \in Tasks : Done(t)
    /\ pending' = 0
    /\ runSlot' = pending
    /\ task' = [t \in Tasks |-> [pc |-> "ready", window |-> 0]]
    /\ UNCHANGED <<hour, staged, bronze, silver, rejects, commit, closed>>

(* Each task asks for the window itself, when it starts.                   *)
StartTask(t) ==
    /\ task[t].pc = "ready"
    /\ task' = [task EXCEPT ![t] = [pc |-> "merge", window |-> ClosedHour]]
    /\ UNCHANGED <<hour, staged, bronze, silver, rejects,
                   commit, pending, runSlot, closed>>

(* Record that task t normalized the hour its event's slot closed.         *)
Close(t) ==
    closed' = IF task[t].window + 1 = runSlot
              THEN [closed EXCEPT ![t] = @ \cup {task[t].window}]
              ELSE closed

(* The task's insert-only MERGE into its table.  Only articles has a       *)
(* second MERGE to do.                                                     *)
MergeRows(t) ==
    /\ task[t].pc = "merge"
    /\ silver' = [silver EXCEPT ![t] = @ \cup {d \in Window(t) : d.parses}]
    /\ IF t = "articles"
       THEN /\ task' = [task EXCEPT ![t].pc = "rejects"]
            /\ UNCHANGED closed
       ELSE /\ task' = [task EXCEPT ![t].pc = "done"]
            /\ Close(t)
    /\ UNCHANGED <<hour, staged, bronze, rejects, commit, pending, runSlot>>

(* Mutant: the articles pass ends without writing its rejects.             *)
NoRejects(t) ==
    /\ task[t].pc = "rejects"
    /\ task' = [task EXCEPT ![t].pc = "done"]
    /\ Close(t)
    /\ UNCHANGED <<hour, staged, bronze, silver, rejects,
                   commit, pending, runSlot>>

(* normalize_window: what did not parse is quarantined, in a commit of its *)
(* own.                                                                    *)
MergeRejects(t) ==
    /\ task[t].pc = "rejects"
    /\ rejects' = rejects \cup {d \in Window(t) : ~ d.parses}
    /\ task' = [task EXCEPT ![t].pc = "done"]
    /\ Close(t)
    /\ UNCHANGED <<hour, staged, bronze, silver, commit, pending, runSlot>>

(* The task raises or the run times out.                                   *)
TaskFails(t) ==
    /\ TaskMayFail
    /\ ~ Done(t)
    /\ task' = [task EXCEPT ![t].pc = "done"]
    /\ UNCHANGED <<hour, staged, bronze, silver, rejects,
                   commit, pending, runSlot, closed>>

-----------------------------------------------------------------------------

Commit == StartCommit \/ Sync \/ Merge \/ Emit

Process ==
    \/ StartProcess
    \/ \E t \in Tasks : StartTask(t) \/ MergeRows(t) \/ MergeRejects(t)

Failure ==
    \/ CommitFails
    \/ RerunCommit
    \/ \E t \in Tasks : TaskFails(t)

Next ==
    \/ Tick
    \/ \E k \in Kinds : Poll(k)
    \/ Commit
    \/ Process
    \/ Failure

Spec == Init /\ [][Next]_vars

(* Airflow schedules whatever can run, and time passes.                    *)
FairSpec == Spec /\ WF_vars(Tick) /\ WF_vars(Commit) /\ WF_vars(Process)

-----------------------------------------------------------------------------

TypeOK ==
    /\ hour \in Nat \ {0}
    /\ staged \subseteq Document
    /\ bronze \subseteq Document
    /\ silver \in [Tasks -> SUBSET Document]
    /\ rejects \subseteq Document
    /\ commit \in [pc : {"sync", "merge", "costs", "done", "failed"},
                   slot : Nat, seen : SUBSET Document]
    /\ pending \in Nat
    /\ runSlot \in Nat
    /\ task \in [Tasks -> [pc : {"ready", "merge", "rejects", "done"},
                           window : Nat]]
    /\ closed \in [Tasks -> SUBSET Nat]

(* What task t owes a document it reads: a row, or a reject if it is the   *)
(* pass that keeps rejects.                                                *)
Settled(d, t) ==
    IF d.parses THEN d \in silver[t] ELSE t = "articles" => d \in rejects

(* When a commit of slot h + 1 succeeds and a task of the run it starts is *)
(* given hour h, every document staged for h reaches that task's table or  *)
(* the rejects - also those staged after the hour ended, whatever failed   *)
(* in other tasks, runs and hours.                                         *)
OnTime ==
    \A t \in Tasks : \A d \in staged :
        d.hour \in closed[t] /\ d.source \in Reads(t) => Settled(d, t)

(* Why OnTime holds.  Once slot s of ingest_monitor has started, nothing   *)
(* more is staged for an hour before s; so what that run mirrors, merges   *)
(* and announces covers those hours, and keeps covering them.              *)
Before(s) == {d \in staged : d.hour < s}

CommitOK ==
    /\ commit.slot <= hour
    /\ commit.pc = "merge" => Before(commit.slot) \subseteq commit.seen
    /\ commit.pc = "costs" => Before(commit.slot) \subseteq bronze

EventOK ==
    /\ pending <= commit.slot /\ Before(pending) \subseteq bronze
    /\ runSlot <= commit.slot /\ Before(runSlot) \subseteq bronze

RowsOK ==
    \A t \in Tasks : task[t].pc = "rejects" /\ task[t].window + 1 = runSlot =>
        \A d \in Before(runSlot) :
            d.hour = task[t].window /\ d.source \in Reads(t) /\ d.parses =>
                d \in silver[t]

ClosedOK == \A t \in Tasks : \A h \in closed[t] : h < commit.slot

IInv == TypeOK /\ CommitOK /\ EventOK /\ RowsOK /\ ClosedOK /\ OnTime

(* On a host that keeps up and with nothing failing, no document of an     *)
(* hour before the last closed one is missing from silver.                 *)
NothingLeftBehind ==
    \A t \in Tasks : \A d \in staged :
        d.hour + 1 < hour /\ d.source \in Reads(t) => Settled(d, t)

(* ... and every document gets there.                                      *)
Settles ==
    \A t \in Tasks, h \in 1..(MaxHour - 1), k \in Kinds :
        LET d == [hour |-> h, source |-> k.source, parses |-> k.parses]
        IN  k.source \in Reads(t) => (d \in staged ~> Settled(d, t))

(* "A failed commit here is safe to simply re-run": after the next commit  *)
(* succeeded and process is done, silver has what bronze has of every      *)
(* closed hour.                                                            *)
RerunIsEnough ==
    Quiet /\ commit.pc = "done" =>
        \A t \in Tasks : \A d \in bronze :
            d.hour < hour /\ d.source \in Reads(t) => Settled(d, t)

=============================================================================
