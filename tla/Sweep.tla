-------------------------------- MODULE Sweep --------------------------------
(***************************************************************************)
(* The nightly maintenance of the Iceberg tables (maintenance_dag.py,      *)
(* spark/jobs/maintain.py): every table that exists is compacted, its old  *)
(* snapshots are expired and its orphan files removed, while the writers   *)
(* of the pipeline go on committing; one row per table says how it went.   *)
(*                                                                         *)
(* A table is its commits.  The three procedures are Iceberg's and each    *)
(* may fail; the task is tried twice, and can die before it has recorded   *)
(* anything.                                                               *)
(***************************************************************************)
EXTENDS Integers, Sequences, SequencesExt, FiniteSets, FiniteSetsExt

CONSTANTS
    Swept,           \* MAINTAINED_TABLES: a sequence
    MinInputFiles,   \* below this rewrite_data_files does nothing
    Retention,       \* SNAPSHOT_RETENTION_DAYS
    RetainLast,      \* retain_last
    LastNight,       \* bound: nights
    MaxCommits       \* bound: commits, the compactions' included

ASSUME SweepAssumption ==
    /\ Swept \in Seq(STRING)
    /\ MinInputFiles \in Nat \ {0, 1} /\ RetainLast \in Nat \ {0}
    /\ Retention \in Nat /\ LastNight \in Nat /\ MaxCommits \in Nat

VARIABLES
    night,       \* the date
    log,         \* every commit ever: a sequence of [table, at, files]
    snapshots,   \* the commits Iceberg still has
    sweep,       \* the attempt under way, or how the last one ended
    record       \* ops.maintenance_runs: this night's rows, the others stay

sweepVars == <<night, log, snapshots, sweep, record>>

-----------------------------------------------------------------------------

NoTable == "none"

CommitsOf(t, I) == {i \in I : log[i].table = t}
Present(t) == CommitsOf(t, DOMAIN log) # {}              \* _table_exists
FileCount(t) == log[Max(CommitsOf(t, DOMAIN log))].files  \* _file_count

(* The rest of the tables an attempt found, by their place in the list; the*)
(* one it works on is the first.                                           *)
Tended == Swept[Min(sweep.left)]
Later == sweep.left \ {Min(sweep.left)}

(* A row; and, as history, whether an operation on the table failed and    *)
(* whether a writer came between the two counts.                           *)
NoRow == [table |-> NoTable, before |-> 0, after |-> 0, rewritten |-> 0, added |-> 0,
          error |-> FALSE, failed |-> FALSE, disturbed |-> FALSE]

NotYet == [pc |-> "waits", try |-> 0, left |-> {}, hidden |-> {}, row |-> NoRow,
           rows |-> {}]

SweepInit ==
    /\ night = 0
    /\ log = <<>> /\ snapshots = {}
    /\ sweep = NotYet
    /\ record = {}

(* A writer of the pipeline appends a file, and creates the table with the *)
(* first one.                                                              *)
WriterCommits(t) ==
    /\ Len(log) < MaxCommits
    /\ log' = Append(log, [table |-> t, at |-> night,
                           files |-> IF Present(t) THEN FileCount(t) + 1 ELSE 1])
    /\ snapshots' = snapshots \cup {Len(log')}
    /\ sweep' = IF t # sweep.row.table THEN sweep ELSE [sweep EXCEPT !.row.disturbed = TRUE]
    /\ UNCHANGED <<night, record>>

-----------------------------------------------------------------------------
(* One table                                                               *)


(* Mutant: an operation that succeeds clears the error of an earlier one.  *)
ErrorOfLast(error, ok) == ~ok

(* error = error or ...                                                    *)
ErrorOfAny(error, ok) == error \/ ~ok

(* The row after an operation that succeeded or failed.                    *)
After(row, ok) == [row EXCEPT !.error = ErrorOfAny(@, ok), !.failed = @ \/ ~ok]

Advance(op, next, ok, row) ==
    /\ sweep.pc = op
    /\ sweep' = [sweep EXCEPT !.pc = next, !.row = After(row, ok)]
    /\ UNCHANGED <<night, record>>

Finished(row) ==
    sweep' = [sweep EXCEPT !.pc = IF Later # {} THEN "count" ELSE "record",
                           !.left = Later, !.row = NoRow, !.rows = @ \cup {row}]

(* An unreadable table gets no operation at all.                           *)
Count(ok) ==
    /\ sweep.pc = "count"
    /\ LET row == [NoRow EXCEPT !.table = Tended]
       IN  IF ok THEN sweep' = [sweep EXCEPT !.pc = "rewrite",
                                   !.row = [row EXCEPT !.before = FileCount(row.table)]]
           ELSE Finished(After(row, FALSE))
    /\ UNCHANGED <<night, log, snapshots, record>>

(* The fragments of any partitions that have enough of them become one     *)
(* file; a compaction that rewrites nothing commits nothing.               *)
Rewrite(n) ==
    /\ sweep.pc = "rewrite" /\ n <= FileCount(sweep.row.table)
    /\ Len(log) < MaxCommits
    /\ log' = Append(log, [table |-> sweep.row.table, at |-> night,
                           files |-> FileCount(sweep.row.table) - n + 1])
    /\ snapshots' = snapshots \cup {Len(log')}
    /\ Advance("rewrite", "expire", TRUE,
               [sweep.row EXCEPT !.rewritten = n, !.added = 1])

RewriteNothing(ok) ==
    /\ Advance("rewrite", "expire", ok, sweep.row)
    /\ UNCHANGED <<log, snapshots>>

(* older_than and retain_last                                              *)
Expired(t) ==
    {i \in CommitsOf(t, snapshots) :
        /\ log[i].at < night - Retention
        /\ Cardinality({j \in CommitsOf(t, snapshots) : j > i}) >= RetainLast}

Expire(ok) ==
    /\ Advance("expire", "orphans", ok, sweep.row)
    /\ snapshots' = IF ok THEN snapshots \ Expired(sweep.row.table) ELSE snapshots
    /\ UNCHANGED log

(* A warehouse Hadoop cannot list is a skip, and as good as a success.     *)
Orphans(ok) ==
    /\ Advance("orphans", "recount", ok, sweep.row)
    /\ UNCHANGED <<log, snapshots>>

Recount(ok) ==
    /\ sweep.pc = "recount"
    /\ Finished(After([sweep.row EXCEPT !.after =
                       IF ok THEN FileCount(sweep.row.table) ELSE sweep.row.before], ok))
    /\ UNCHANGED <<night, log, snapshots, record>>

-----------------------------------------------------------------------------
(* The task                                                                *)

(* 02:00, or the retry.  Any error of the DESCRIBE hides a table.          *)
BeginSweep ==
    /\ sweep.pc \in {"waits", "retry"}
    /\ \E hidden \in SUBSET {t \in Range(Swept) : Present(t)} :
          LET left == {i \in DOMAIN Swept : Present(Swept[i]) /\ Swept[i] \notin hidden}
          IN  sweep' = [NotYet EXCEPT !.pc = IF left = {} THEN "record" ELSE "count",
                                      !.try = sweep.try + 1, !.left = left,
                                      !.hidden = hidden]
    /\ UNCHANGED <<night, log, snapshots, record>>

AttemptFailed == IF sweep.try = 1 THEN "retry" ELSE "failed"

(* The MERGE on run_id and table_name, then the failure on the aggregate.  *)
(* A run_id is the second the attempt began: a retry has its own.          *)
RecordRows ==
    /\ sweep.pc = "record"
    /\ record' = record \cup
          {[try |-> sweep.try, row |-> r] : r \in sweep.rows}
    /\ sweep' = [sweep EXCEPT !.pc = IF \E r \in sweep.rows : r.error
                                     THEN AttemptFailed ELSE "succeeded",
                              !.rows = {}]
    /\ UNCHANGED <<night, log, snapshots>>

Working == sweep.pc \notin {"waits", "retry", "failed", "succeeded"}

(* The session that cannot be built, a refused MERGE, the host; or the     *)
(* timeout of the run, after which nothing is tried again.                 *)
SweepDies ==
    /\ Working
    /\ \E end \in {AttemptFailed, "failed"} :
          sweep' = [sweep EXCEPT !.pc = end, !.left = {}, !.row = NoRow, !.rows = {}]
    /\ UNCHANGED <<night, log, snapshots, record>>

(* The next date: one run at a time, none made up for.                     *)
NextNight ==
    /\ ~Working /\ sweep.pc # "retry" /\ night < LastNight
    /\ night' = night + 1
    /\ sweep' = NotYet
    /\ record' = {}
    /\ UNCHANGED <<log, snapshots>>

SweepNext ==
    \/ \E t \in Range(Swept) : WriterCommits(t)
    \/ BeginSweep \/ RecordRows \/ SweepDies \/ NextNight
    \/ \E ok \in BOOLEAN : \/ Count(ok) \/ RewriteNothing(ok) \/ Expire(ok)
                          \/ Orphans(ok) \/ Recount(ok)
    \/ \E n \in MinInputFiles..MaxCommits : Rewrite(n)

-----------------------------------------------------------------------------

SweepSpec == SweepInit /\ [][SweepNext]_sweepVars

SweepTypeOK ==
    /\ night \in 0..LastNight
    /\ Len(log) \in 0..MaxCommits /\ snapshots \subseteq DOMAIN log
    /\ \A i \in DOMAIN log : log[i].files \in 1..MaxCommits /\ log[i].at \in 0..night
    /\ sweep.pc \in {"waits", "retry", "failed", "succeeded", "record",
                    "count", "rewrite", "expire", "orphans", "recount"}
    /\ sweep.try \in 0..2
    /\ \A e \in record : e.row.table \in Range(Swept) /\ e.row.error \in BOOLEAN

(* A row is clean only if no operation on its table failed, whatever       *)
(* succeeded after it; and the files it says compaction saved are the ones *)
(* it saved, when no writer came between the two counts.                   *)
RowsTrue ==
    \A r \in {e.row : e \in record} :
        /\ r.error = r.failed
        /\ ~r.error /\ ~r.disturbed => r.before - r.after = r.rewritten - r.added

(* A night is green only if its last attempt left a clean row of every     *)
(* table there was before the date and that could be described, and an     *)
(* attempt that recorded a fault was followed by another.                  *)
NightTold ==
    sweep.pc = "succeeded" =>
        /\ \A i \in DOMAIN log : log[i].at < night /\ log[i].table \notin sweep.hidden =>
              \E e \in record : /\ e.try = sweep.try /\ ~e.row.error
                                /\ e.row.table = log[i].table
        /\ \A e \in record : e.row.failed => e.try < sweep.try

(* What a table looked like on a day of the retention can be read, unless  *)
(* it had been like that since before the retention.                       *)
AsOfReadable ==
    \A t \in Range(Swept) : \A d \in (night - Retention)..night :
        LET until == {i \in CommitsOf(t, DOMAIN log) : log[i].at <= d}
        IN  until # {} => Max(until) \in snapshots \/ log[Max(until)].at < night - Retention

SweepHonest == RowsTrue /\ NightTold /\ AsOfReadable

=============================================================================
