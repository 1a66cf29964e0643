----------------------------- MODULE BriefItems -----------------------------
(***************************************************************************)
(* gold.brief_items: what the reader was shown and what they thought of it.*)
(* A build replaces the rows of its day with three Athena queries, DELETE, *)
(* SELECT and INSERT; signal feedback marks a row with a SELECT, an UPDATE *)
(* and a SELECT that reads it back.  Each query is atomic, and nothing     *)
(* keeps the two commands from interleaving.                               *)
(***************************************************************************)
EXTENDS Integers

CONSTANTS
    Days,        \* brief dates
    Clusters,    \* story clusters
    Marks,       \* the marks a reader leaves, "up" and "down"
    None,        \* user_feedback IS NULL; also the mark of "clear"
    Stamps       \* created_at: tells the rows of two builds apart

ASSUME MarksAssumption == None \notin Marks

Values == Marks \cup {None}

Row == [day : Days, cluster : Clusters, created : Stamps, mark : Values]

VARIABLES
    rows,        \* the table
    writer,      \* the build that is recording what it showed
    reader,      \* the feedback command
    confirmed    \* the mark the reader was last told is stored

itemVars == <<rows, writer, reader, confirmed>>

-----------------------------------------------------------------------------

RowsOf(d) == {r \in rows : r.day = d}

RowsFor(d, c) == {r \in RowsOf(d) : r.cluster = c}

NoWriter == [pc |-> "idle", day |-> None, shown |-> {}, marked |-> {}]

NoReader == [pc |-> "idle", day |-> None, cluster |-> None, mark |-> None]

ItemsInit ==
    /\ rows = {}
    /\ writer = NoWriter
    /\ reader = NoReader
    /\ confirmed = [dc \in Days \X Clusters |-> None]

-----------------------------------------------------------------------------
(* write_brief_items.                                                      *)

(* Mutant: the DELETE does not spare marked rows.                          *)
DeleteAll(d, shown) ==
    /\ writer.pc = "idle"
    /\ shown # {}
    /\ rows' = rows \ RowsOf(d)
    /\ writer' = [pc |-> "select", day |-> d, shown |-> shown, marked |-> {}]
    /\ UNCHANGED <<reader, confirmed>>

(* DELETE the day's rows that carry no mark.                               *)
Delete(d, shown) ==
    /\ writer.pc = "idle"
    /\ shown # {}
    /\ rows' = {r \in rows : r.day = d => r.mark # None}
    /\ writer' = [pc |-> "select", day |-> d, shown |-> shown, marked |-> {}]
    /\ UNCHANGED <<reader, confirmed>>

(* Mutant: the rows that survived the DELETE are not looked up.            *)
SelectNothing ==
    /\ writer.pc = "select"
    /\ writer' = [writer EXCEPT !.pc = "insert"]
    /\ UNCHANGED <<rows, reader, confirmed>>

(* SELECT the clusters that still have a row.                              *)
SelectMarked ==
    /\ writer.pc = "select"
    /\ writer' = [pc |-> "insert", day |-> writer.day, shown |-> writer.shown,
                  marked |-> {r.cluster : r \in RowsOf(writer.day)}]
    /\ UNCHANGED <<rows, reader, confirmed>>

(* INSERT an unmarked row for every shown cluster that has none.           *)
InsertRows ==
    /\ writer.pc = "insert"
    /\ \E now \in Stamps :
          /\ \A r \in RowsOf(writer.day) : r.created # now
          /\ rows' = rows \cup {[day |-> writer.day, cluster |-> c,
                                 created |-> now, mark |-> None] :
                                    c \in writer.shown \ writer.marked}
    /\ writer' = NoWriter
    /\ UNCHANGED <<reader, confirmed>>

(* A query fails or the build dies: what was deleted stays deleted.        *)
WriteFails ==
    /\ writer.pc # "idle"
    /\ writer' = NoWriter
    /\ UNCHANGED <<rows, reader, confirmed>>

-----------------------------------------------------------------------------
(* run_feedback.                                                           *)

(* SELECT the row: an id that is not in the brief is refused.              *)
Find(d, c, m) ==
    /\ reader.pc = "idle"
    /\ RowsFor(d, c) # {}
    /\ reader' = [pc |-> "update", day |-> d, cluster |-> c, mark |-> m]
    /\ UNCHANGED <<rows, writer, confirmed>>

(* UPDATE what rows the cluster now has in that brief, if any.             *)
Update ==
    /\ reader.pc = "update"
    /\ rows' = {IF r \in RowsFor(reader.day, reader.cluster)
                THEN [r EXCEPT !.mark = reader.mark] ELSE r : r \in rows}
    /\ reader' = [reader EXCEPT !.pc = "confirm"]
    /\ confirmed' = [confirmed EXCEPT ![<<reader.day, reader.cluster>>] = None]
    /\ UNCHANGED writer

(* SELECT what was stored, and tell the reader.                            *)
Confirm ==
    LET found == RowsFor(reader.day, reader.cluster)
    IN  /\ reader.pc = "confirm"
        /\ \E v \in IF found = {} THEN {None} ELSE {r.mark : r \in found} :
              confirmed' = [confirmed EXCEPT ![<<reader.day, reader.cluster>>] = v]
        /\ reader' = NoReader
        /\ UNCHANGED <<rows, writer>>

(* The command's UPDATE or second SELECT raises.                           *)
FeedbackFails ==
    /\ reader.pc # "idle"
    /\ reader' = NoReader
    /\ UNCHANGED <<rows, writer, confirmed>>

-----------------------------------------------------------------------------

Write ==
    \/ \E d \in Days, shown \in SUBSET Clusters : Delete(d, shown)
    \/ SelectMarked
    \/ InsertRows
    \/ WriteFails

Feedback ==
    \/ \E d \in Days, c \in Clusters, m \in Values : Find(d, c, m)
    \/ Update
    \/ Confirm
    \/ FeedbackFails

ItemsSpec == ItemsInit /\ [][Write \/ Feedback]_itemVars

-----------------------------------------------------------------------------

ItemsTypeOK ==
    /\ rows \subseteq Row
    /\ writer \in [pc : {"idle", "select", "insert"}, day : Days \cup {None},
                   shown : SUBSET Clusters, marked : SUBSET Clusters]
    /\ IF writer.pc = "idle" THEN writer = NoWriter ELSE writer.day \in Days
    /\ reader \in [pc : {"idle", "update", "confirm"}, day : Days \cup {None},
                   cluster : Clusters \cup {None}, mark : Values]
    /\ reader.pc # "idle" => reader.day \in Days /\ reader.cluster \in Clusters
    /\ confirmed \in [Days \X Clusters -> Values]

(* "Re-running make brief for the same date must not double the rows",     *)
(* whatever the reader marks or clears meanwhile and wherever an earlier   *)
(* build stopped.                                                          *)
NoDoubleRow ==
    \A r, q \in rows : r.day = q.day /\ r.cluster = q.cluster => r = q

(* "... and it must not silently discard a mark the reader already left":  *)
(* a mark the reader was told is stored stays until they change it.        *)
MarksStay ==
    \A d \in Days, c \in Clusters :
        confirmed[<<d, c>>] \in Marks =>
            \E r \in rows : r.day = d /\ r.cluster = c
                            /\ r.mark = confirmed[<<d, c>>]

(* What the INSERT relies on: nothing the SELECT missed has appeared since.*)
NoneMissed ==
    writer.pc = "insert" =>
        {r.cluster : r \in RowsOf(writer.day)} \subseteq writer.marked

ItemsInv == ItemsTypeOK /\ NoDoubleRow /\ MarksStay /\ NoneMissed

=============================================================================
