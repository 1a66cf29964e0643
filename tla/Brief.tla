------------------------------- MODULE Brief --------------------------------
(***************************************************************************)
(* The brief DAG: an hourly window of cron slots in the afternoon, each    *)
(* asking first whether today's brief went out already, then building,     *)
(* mailing and recording the edition it mailed in an Airflow Variable.     *)
(* catchup=False: of the slots that passed unseen only the newest gets a   *)
(* run.  The day can change under a run at any moment.                     *)
(***************************************************************************)
EXTENDS BriefItems

CONSTANTS
    MaxDay,      \* bound: the last day of the model
    MaxSlots,    \* bound: slots of one day's window
    Retries,     \* retries of the mail task
    MaxLost,     \* bound: deliveries whose marker is lost
    MayFail      \* whether runs fail or jam before the last day

ASSUME BriefAssumption ==
    /\ MaxDay \in Nat \ {0} /\ Days = 1..MaxDay
    /\ MaxSlots \in Nat \ {0} /\ Retries \in Nat /\ MaxLost \in Nat
    /\ MayFail \in BOOLEAN

Never == 0

VARIABLES
    today,       \* brief_date() now
    slots,       \* how many of today's slots have passed
    slot,        \* day of the newest slot that has no run yet, or Never
    run,         \* the DAG run; its logical day is Never for a manual one
    lastSent,    \* the Variable brief_last_sent_date
    inbox,       \* how often each edition was delivered
    lost         \* how many of those deliveries left no marker

dagVars == <<today, slots, slot, run, lastSent, inbox, lost>>
vars == <<dagVars, itemVars>>

NoRun == [pc |-> "none", logical |-> Never, now |-> Never, edition |-> Never,
          tries |-> 0]

Init ==
    /\ ItemsInit
    /\ today = 1 /\ slots = 0 /\ slot = Never
    /\ run = NoRun
    /\ lastSent = Never
    /\ inbox = [d \in Days |-> 0]
    /\ lost = [d \in Days |-> 0]

Trouble == MayFail /\ today < MaxDay

-----------------------------------------------------------------------------
(* The clock and the scheduler.                                            *)

NewDay ==
    /\ today < MaxDay
    /\ today' = today + 1
    /\ slots' = 0
    /\ UNCHANGED <<slot, run, lastSent, inbox, lost, itemVars>>

(* A slot passes; one that still waits for its run is forgotten.           *)
Tick ==
    /\ slots < MaxSlots
    /\ slots' = slots + 1
    /\ slot' = today
    /\ UNCHANGED <<today, run, lastSent, inbox, lost, itemVars>>

(* max_active_runs=1.                                                      *)
StartRun ==
    /\ slot # Never
    /\ run.pc = "none"
    /\ run' = [NoRun EXCEPT !.pc = "due", !.logical = slot]
    /\ slot' = Never
    /\ UNCHANGED <<today, slots, lastSent, inbox, lost, itemVars>>

StartManual ==
    /\ run.pc = "none"
    /\ run' = [NoRun EXCEPT !.pc = "due"]
    /\ UNCHANGED <<today, slots, slot, lastSent, inbox, lost, itemVars>>

-----------------------------------------------------------------------------
(* The tasks.                                                              *)

Edition == IF run.logical = Never THEN today ELSE run.logical

(* Mutant: due asks only whether the slot's edition was sent.              *)
DueAnyDay ==
    /\ run.pc = "due"
    /\ run' = IF lastSent = Edition THEN NoRun ELSE [run EXCEPT !.pc = "build"]
    /\ UNCHANGED <<today, slots, slot, lastSent, inbox, lost, itemVars>>

(* due: a slot of another day, or a brief that went out, ends the run.     *)
Due ==
    /\ run.pc = "due"
    /\ run' = IF Edition # today \/ lastSent = Edition
              THEN NoRun ELSE [run EXCEPT !.pc = "build"]
    /\ UNCHANGED <<today, slots, slot, lastSent, inbox, lost, itemVars>>

(* build.run reads the clock for its window, its staleness check and the   *)
(* date of its rows.                                                       *)
Build ==
    /\ run.pc = "build"
    /\ run' = [run EXCEPT !.pc = "render", !.now = today]
    /\ UNCHANGED <<today, slots, slot, lastSent, inbox, lost, itemVars>>

(* write_brief is given no date and reads the clock again for the header   *)
(* and the name of the file.                                               *)
Render ==
    /\ run.pc = "render"
    /\ run' = [run EXCEPT !.pc = "record", !.edition = today]
    /\ UNCHANGED <<today, slots, slot, lastSent, inbox, lost, itemVars>>

(* write_brief_items; a brief that showed nothing records nothing.         *)
RecordNothing ==
    /\ run.pc = "record"
    /\ writer.pc = "idle"
    /\ run' = [run EXCEPT !.pc = "mail"]
    /\ UNCHANGED <<today, slots, slot, lastSent, inbox, lost, itemVars>>

RecordDelete ==
    /\ run.pc = "record"
    /\ \E shown \in SUBSET Clusters : Delete(run.now, shown)
    /\ UNCHANGED dagVars

RecordSelect ==
    /\ run.pc = "record"
    /\ SelectMarked
    /\ UNCHANGED dagVars

RecordInsert ==
    /\ run.pc = "record"
    /\ InsertRows
    /\ run' = [run EXCEPT !.pc = "mail"]
    /\ UNCHANGED <<today, slots, slot, lastSent, inbox, lost>>

(* mail: the file is sent.                                                 *)
Send ==
    /\ run.pc = "mail"
    /\ inbox' = [inbox EXCEPT ![run.edition] = @ + 1]
    /\ run' = [run EXCEPT !.pc = "marker"]
    /\ UNCHANGED <<today, slots, slot, lastSent, lost, itemVars>>

(* Mutant: the marker is taken from the clock.                             *)
SetMarkerToday ==
    /\ run.pc = "marker"
    /\ lastSent' = today
    /\ run' = NoRun
    /\ UNCHANGED <<today, slots, slot, inbox, lost, itemVars>>

(* mail: the marker is the date in the file's name.                        *)
SetMarker ==
    /\ run.pc = "marker"
    /\ lastSent' = run.edition
    /\ run' = NoRun
    /\ UNCHANGED <<today, slots, slot, inbox, lost, itemVars>>

-----------------------------------------------------------------------------
(* Failures.                                                               *)

(* Mutant: the mail task is retried for ever.                              *)
RetryAlways == [run EXCEPT !.pc = "mail", !.tries = @ + 1]

(* The mail task raises: it is retried Retries times, then the run ends.   *)
Retry == IF run.tries < Retries
         THEN [run EXCEPT !.pc = "mail", !.tries = @ + 1] ELSE NoRun

SendFails ==
    /\ Trouble
    /\ run.pc = "mail"
    /\ run' = Retry
    /\ UNCHANGED <<today, slots, slot, lastSent, inbox, lost, itemVars>>

(* A delivery is not yet known to the marker.                              *)
Lose(e) ==
    /\ lost[e] < MaxLost
    /\ lost' = [lost EXCEPT ![e] = @ + 1]

(* The connection breaks after the server took the message.                *)
SendUnsure ==
    /\ Trouble
    /\ run.pc = "mail"
    /\ inbox' = [inbox EXCEPT ![run.edition] = @ + 1]
    /\ Lose(run.edition)
    /\ run' = Retry
    /\ UNCHANGED <<today, slots, slot, lastSent, itemVars>>

(* Variable.set raises.                                                    *)
MarkFails ==
    /\ Trouble
    /\ run.pc = "marker"
    /\ Lose(run.edition)
    /\ run' = Retry
    /\ UNCHANGED <<today, slots, slot, lastSent, inbox, itemVars>>

(* due or build raises, between two queries of write_brief_items included. *)
BuildFails ==
    /\ Trouble
    /\ run.pc \in {"due", "build", "render", "record"}
    /\ run' = NoRun
    /\ writer' = NoWriter
    /\ UNCHANGED <<today, slots, slot, lastSent, inbox, lost, rows, reader,
                   confirmed>>

(* The host froze under a task: Airflow never learns how it ended.         *)
Jam ==
    /\ Trouble
    /\ run.pc \notin {"none", "jammed"}
    /\ run' = [run EXCEPT !.pc = "jammed"]
    /\ writer' = NoWriter
    /\ IF run.pc = "marker" THEN Lose(run.edition) ELSE UNCHANGED lost
    /\ UNCHANGED <<today, slots, slot, lastSent, inbox, rows, reader,
                   confirmed>>

(* dagrun_timeout fails a run that has not ended.                          *)
Timeout ==
    /\ run.pc = "jammed"
    /\ run' = NoRun
    /\ UNCHANGED <<today, slots, slot, lastSent, inbox, lost, itemVars>>

-----------------------------------------------------------------------------

RunStep ==
    \/ Due \/ Build \/ Render
    \/ RecordNothing \/ RecordDelete \/ RecordSelect \/ RecordInsert
    \/ Send \/ SetMarker \/ Timeout

Failure == SendFails \/ SendUnsure \/ MarkFails \/ BuildFails \/ Jam

Next ==
    \/ NewDay \/ Tick \/ StartRun \/ StartManual
    \/ RunStep
    \/ Failure
    \/ Feedback /\ UNCHANGED dagVars

Spec == Init /\ [][Next]_vars

(* Days pass, slots come due, the scheduler creates runs and tasks end.    *)
FairSpec ==
    /\ Spec
    /\ WF_vars(NewDay) /\ WF_vars(Tick) /\ WF_vars(StartRun)
    /\ WF_vars(RunStep)

-----------------------------------------------------------------------------

DagTypeOK ==
    /\ today \in Days /\ slots \in 0..MaxSlots
    /\ slot \in Days \cup {Never} /\ lastSent \in Days \cup {Never}
    /\ run \in [pc : {"none", "due", "build", "render", "record", "mail",
                     "marker", "jammed"},
                logical : Days \cup {Never}, now : Days \cup {Never},
                edition : Days \cup {Never}, tries : 0..Retries]
    /\ inbox \in [Days -> Nat] /\ lost \in [Days -> Nat]

TypeOK == DagTypeOK /\ ItemsTypeOK

(* "A duplicate brief in the inbox is worse than a late one": an edition is*)
(* delivered again only if every delivery before it lost its marker.       *)
OncePerEdition == \A d \in Days : inbox[d] <= lost[d] + 1

(* "The marker names the edition that was actually delivered."             *)
MarkerHonest == lastSent # Never => inbox[lastSent] > 0

(* Why both hold.  A run past due is about an edition newer than the last  *)
(* marker, although the day may have changed under it ...                  *)
Ahead ==
    /\ lastSent <= today
    /\ run.pc \in {"build", "render"} => lastSent < today
    /\ run.pc \in {"render", "record", "mail", "marker"} => run.now \in Days
    /\ run.pc \in {"record", "mail", "marker"} =>
          run.edition \in Days /\ lastSent < run.edition /\ run.edition <= today

(* ... of which every delivery lost its marker, the one that is about to be*)
(* marked excepted.                                                        *)
Deliveries ==
    /\ run.pc = "marker" => inbox[run.edition] > 0
    /\ \A d \in Days :
          lastSent < d =>
              inbox[d] <= lost[d] + (IF run.pc = "marker" /\ run.edition = d
                                     THEN 1 ELSE 0)

DagInv ==
    DagTypeOK /\ Ahead /\ Deliveries /\ OncePerEdition /\ MarkerHonest

IInv == DagInv /\ ItemsInv

(* Whatever failed or jammed on the days before, the brief of the first day*)
(* without failures is mailed.                                             *)
BriefRecovers == <>(inbox[MaxDay] > 0)

(* The date the staleness check compares against "has to mean the same date*)
(* the header will carry".                                                 *)
OneDate == run.edition # Never => run.edition = run.now

=============================================================================
