----------------------------- MODULE Dimension ------------------------------
(***************************************************************************)
(* silver.dim_entities: load_entities of spark/jobs/resolve.py, which keeps*)
(* the history of every entity as intervals of validity (SCD2).            *)
(*                                                                         *)
(* A load compares the committed dictionary snapshot with the current rows,*)
(* closes the rows of what changed in one commit and appends the new rows  *)
(* in another, both dated with the snapshot's built_at.  It can die before,*)
(* between and after them; a retry, or the load of a later snapshot, goes  *)
(* on from the rows that are there.  Snapshots are numbered by built_at,   *)
(* which only moves forward.                                               *)
(***************************************************************************)
EXTENDS Integers

CONSTANTS
    Entities,     \* entity ids
    Names,        \* what the columns of SCD2_TRACKED can say of an entity
    Unlisted,     \* what a snapshot says of an entity it does not list
    MaxSnapshot   \* bound: dictionary snapshots

ASSUME DimensionAssumption == MaxSnapshot \in Nat \ {0} /\ Unlisted \notin Names

VARIABLES
    says,     \* what every snapshot says; Unlisted before it is built
    newest,   \* the committed snapshot
    rows,     \* the table
    load,     \* the load under way, or the last one
    loaded    \* snapshots some load has finished with

dimensionVars == <<says, newest, rows, load, loaded>>

-----------------------------------------------------------------------------

(* VALID_TO_OPEN is after every snapshot.                                  *)
Open == MaxSnapshot + 1

(* Mutant: dated from the day before its snapshot.                         *)
NewRowDayBefore(e, name, from) ==
    [entity |-> e, name |-> name, from |-> from - 1, to |-> Open]

(* _scd2_row.                                                              *)
NewRow(e, name, from) == [entity |-> e, name |-> name, from |-> from, to |-> Open]

(* is_current is carried beside valid_to and always written with it.       *)
Current == {r \in rows : r.to = Open}

DimensionInit ==
    /\ says \in [1..MaxSnapshot -> [Entities -> Names \cup {Unlisted}]]
    /\ newest = 1
    /\ rows = {}
    /\ load = [pc |-> "idle", snapshot |-> 1, close |-> {}, insert |-> {}]
    /\ loaded = {}

(* build writes dictionary.json and somebody commits it.                   *)
NewSnapshot ==
    /\ newest < MaxSnapshot
    /\ newest' = newest + 1
    /\ UNCHANGED <<says, rows, load, loaded>>

(* load_entities reads the current rows and the snapshot, and compares: an *)
(* entity without a current row is new, one whose tracked columns agree is *)
(* unchanged, and one the snapshot does not list is left as it is.         *)
BeginLoad ==
    /\ load.pc = "idle"
    /\ LET listed == {e \in Entities : says[newest][e] # Unlisted}
           same == {r.entity : r \in {q \in Current : q.name = says[newest][q.entity]}}
           known == {r.entity : r \in Current}
       IN  load' = [pc |-> "close", snapshot |-> newest,
                    close |-> (listed \cap known) \ same,
                    insert |-> listed \ same]
    /\ UNCHANGED <<says, newest, rows, loaded>>

(* Mutant: the UPDATE closes every row of the entity, not the current one. *)
CloseHistory ==
    /\ load.pc = "close"
    /\ rows' = {IF r.entity \in load.close
                THEN [entity |-> r.entity, name |-> r.name, from |-> r.from,
                      to |-> load.snapshot] ELSE r : r \in rows}
    /\ load' = [load EXCEPT !.pc = "append"]
    /\ UNCHANGED <<says, newest, loaded>>

(* UPDATE ... SET valid_to = boundary, is_current = false WHERE is_current.*)
Close ==
    /\ load.pc = "close"
    /\ rows' = {IF r \in Current /\ r.entity \in load.close
                THEN [entity |-> r.entity, name |-> r.name, from |-> r.from,
                      to |-> load.snapshot] ELSE r : r \in rows}
    /\ load' = [pc |-> "append", snapshot |-> load.snapshot,
                close |-> load.close, insert |-> load.insert]
    /\ UNCHANGED <<says, newest, loaded>>

AppendRows ==
    /\ load.pc = "append"
    /\ rows' = rows \cup {NewRow(e, says[load.snapshot][e], load.snapshot) :
                            e \in load.insert}
    /\ load' = [pc |-> "idle", snapshot |-> load.snapshot,
                close |-> {}, insert |-> {}]
    /\ loaded' = loaded \cup {load.snapshot}
    /\ UNCHANGED <<says, newest>>

LoadDies ==
    /\ load.pc # "idle"
    /\ load' = [pc |-> "idle", snapshot |-> load.snapshot,
                close |-> {}, insert |-> {}]
    /\ UNCHANGED <<says, newest, rows, loaded>>

DimensionNext == NewSnapshot \/ BeginLoad \/ Close \/ AppendRows \/ LoadDies

-----------------------------------------------------------------------------

Rows == [entity : Entities, name : Names, from : 1..MaxSnapshot,
         to : 1..(MaxSnapshot + 1)]

DimensionTypeOK ==
    /\ says \in [1..MaxSnapshot -> [Entities -> Names \cup {Unlisted}]]
    /\ newest \in 1..MaxSnapshot
    /\ rows \subseteq Rows
    /\ load \in [pc : {"idle", "close", "append"}, snapshot : 1..MaxSnapshot,
                 close : SUBSET Entities, insert : SUBSET Entities]
    /\ loaded \subseteq 1..MaxSnapshot

(* valid_from <= t < valid_to                                              *)
Covers(r, t) == r.from <= t /\ t < r.to

(* Of every entity at most one row covers an instant (so at most one is    *)
(* current, and the brief's join never doubles a mention), and an as-of    *)
(* read at a snapshot that was loaded gives what that snapshot said of the *)
(* entities it lists - for good, whatever is loaded later, dies between    *)
(* the two commits, is retried or skips a snapshot.                        *)
HistoryTrue ==
    /\ \A q, r \in rows : \A t \in 1..(MaxSnapshot + 1) :
          q.entity = r.entity /\ Covers(q, t) /\ Covers(r, t) => q = r
    /\ \A t \in loaded, e \in Entities : says[t][e] # Unlisted =>
          \E r \in rows : r.entity = e /\ Covers(r, t) /\ r.name = says[t][e]

=============================================================================
