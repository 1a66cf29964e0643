---------------------------- MODULE BriefProofs -----------------------------
(***************************************************************************)
(* What holds of gold.brief_items and of the brief DAG for any number of   *)
(* days, slots, clusters, retries and lost markers.                        *)
(*                                                                         *)
(* The two parts are proved separately.  Of the items: ItemsInv is an      *)
(* inductive invariant of BriefItems, and every step of the DAG is one of  *)
(* its steps or leaves its variables alone.  Of the mails: a run that      *)
(* passed due is about an edition newer than the last marker (Ahead), and  *)
(* every delivery of such an edition lost its marker (Deliveries).         *)
(***************************************************************************)
EXTENDS Brief, TLAPS

-----------------------------------------------------------------------------
(* gold.brief_items.                                                       *)

(* An empty table satisfies the invariant.                                 *)
LEMMA ItemsStart == ItemsInit => ItemsInv
<1> SUFFICES ASSUME ItemsInit PROVE ItemsInv
    OBVIOUS
<1>1. ItemsTypeOK
      BY DEF ItemsInit, ItemsTypeOK, NoWriter, NoReader, Values
<1>2. NoDoubleRow /\ NoneMissed
      BY DEF ItemsInit, NoDoubleRow, NoneMissed, NoWriter
<1>3. MarksStay
      BY MarksAssumption DEF ItemsInit, MarksStay
<1> QED BY <1>1, <1>2, <1>3 DEF ItemsInv

(* A step of a build keeps it.                                             *)
LEMMA WriteKeeps == ItemsInv /\ Write => ItemsInv'
<1> SUFFICES ASSUME ItemsInv, Write PROVE ItemsInv'
    OBVIOUS
<1> USE DEF ItemsInv
<1>1. ASSUME NEW d \in Days, NEW shown \in SUBSET Clusters, Delete(d, shown)
      PROVE  ItemsInv'
  <2>1. ItemsTypeOK'
        BY <1>1 DEF Delete, ItemsTypeOK
  <2>2. NoDoubleRow'
        BY <1>1 DEF Delete, NoDoubleRow
  <2>3. MarksStay'
    <3>1. confirmed' = confirmed
          BY <1>1 DEF Delete
    <3> SUFFICES ASSUME NEW e \in Days, NEW c \in Clusters,
                        confirmed'[<<e, c>>] \in Marks
                 PROVE  \E r \in rows' : r.day = e /\ r.cluster = c
                                         /\ r.mark = confirmed'[<<e, c>>]
        BY DEF MarksStay
    <3>2. PICK r \in rows : r.day = e /\ r.cluster = c
                            /\ r.mark = confirmed[<<e, c>>]
          BY <3>1 DEF MarksStay
    <3>3. r.mark # None
          BY <3>1, <3>2, MarksAssumption
    <3> QED BY <1>1, <3>1, <3>2, <3>3 DEF Delete
  <2>4. NoneMissed'
        BY <1>1 DEF Delete, NoneMissed
  <2> QED BY <2>1, <2>2, <2>3, <2>4
<1>2. ASSUME SelectMarked PROVE ItemsInv'
  <2>1. ItemsTypeOK'
        BY <1>2 DEF SelectMarked, ItemsTypeOK, RowsOf, Row
  <2>2. NoDoubleRow' /\ MarksStay'
        BY <1>2 DEF SelectMarked, NoDoubleRow, MarksStay, RowsFor, RowsOf
  <2>3. NoneMissed'
        BY <1>2 DEF SelectMarked, NoneMissed, RowsOf
  <2> QED BY <2>1, <2>2, <2>3
<1>3. ASSUME InsertRows PROVE ItemsInv'
  <2>1. PICK now \in Stamps :
           rows' = rows \cup {[day |-> writer.day, cluster |-> c,
                               created |-> now, mark |-> None] :
                                  c \in writer.shown \ writer.marked}
        BY <1>3 DEF InsertRows
  <2> DEFINE new == {[day |-> writer.day, cluster |-> c,
                      created |-> now, mark |-> None] :
                        c \in writer.shown \ writer.marked}
  <2>2. writer' = NoWriter /\ UNCHANGED <<reader, confirmed>>
        BY <1>3 DEF InsertRows
  <2>3. new \subseteq Row
        BY <1>3 DEF InsertRows, ItemsTypeOK, Row, Values
  <2>4. ItemsTypeOK'
        BY <2>1, <2>2, <2>3 DEF ItemsTypeOK, NoWriter
  <2>5. \A q \in new : \A r \in rows : r.day = q.day => r.cluster # q.cluster
        BY <1>3 DEF InsertRows, NoneMissed, RowsOf
  <2>6. \A q, r \in new : q.cluster = r.cluster => q = r
        OBVIOUS
  <2>7. NoDoubleRow'
        BY <2>1, <2>5, <2>6 DEF NoDoubleRow
  <2>8. MarksStay'
    <3> HIDE DEF new
    <3>1. rows \subseteq rows'
          BY <2>1
    <3> QED BY <2>2, <3>1 DEF MarksStay
  <2>9. NoneMissed'
        BY <2>2 DEF NoneMissed, NoWriter
  <2> QED BY <2>4, <2>7, <2>8, <2>9
<1>4. ASSUME WriteFails PROVE ItemsInv'
  <2>1. ItemsTypeOK'
        BY <1>4 DEF WriteFails, ItemsTypeOK, NoWriter
  <2>2. NoDoubleRow' /\ MarksStay' /\ NoneMissed'
        BY <1>4 DEF WriteFails, NoDoubleRow, MarksStay, NoneMissed,
                    RowsFor, RowsOf, NoWriter
  <2> QED BY <2>1, <2>2
<1> QED BY <1>1, <1>2, <1>3, <1>4 DEF Write

(* A step of the reader keeps it.                                          *)
LEMMA FeedbackKeeps == ItemsInv /\ Feedback => ItemsInv'
<1> SUFFICES ASSUME ItemsInv, Feedback PROVE ItemsInv'
    OBVIOUS
<1> USE DEF ItemsInv
<1>1. ASSUME NEW d \in Days, NEW c \in Clusters, NEW m \in Values, Find(d, c, m)
      PROVE  ItemsInv'
      BY <1>1 DEF Find, ItemsTypeOK, NoDoubleRow, MarksStay, NoneMissed,
                  RowsFor, RowsOf
<1>2. ASSUME Update PROVE ItemsInv'
  <2> DEFINE dc == <<reader.day, reader.cluster>>
             New(r) == IF r \in RowsFor(reader.day, reader.cluster)
                       THEN [r EXCEPT !.mark = reader.mark] ELSE r
  <2>1. /\ rows' = {New(r) : r \in rows}
        /\ confirmed' = [confirmed EXCEPT ![<<reader.day, reader.cluster>>] = None]
        /\ reader' = [reader EXCEPT !.pc = "confirm"]
        /\ writer' = writer
        BY <1>2 DEF Update
  <2>2. /\ reader.day \in Days
        /\ reader.cluster \in Clusters
        /\ reader.mark \in Values
        BY <1>2 DEF Update, ItemsTypeOK
  <2>3. \A r \in rows : /\ New(r) \in Row
                        /\ New(r).day = r.day
                        /\ New(r).cluster = r.cluster
        BY <2>2 DEF ItemsTypeOK, Row
  <2>4. ItemsTypeOK'
    <3>1. rows' \subseteq Row
          BY <2>1, <2>3
    <3>2. confirmed' \in [Days \X Clusters -> Values]
          BY <2>1 DEF ItemsTypeOK, Values
    <3>3. /\ reader' \in [pc : {"idle", "update", "confirm"},
                          day : Days \cup {None},
                          cluster : Clusters \cup {None}, mark : Values]
          /\ reader'.day = reader.day /\ reader'.cluster = reader.cluster
          BY <2>1 DEF ItemsTypeOK
    <3> QED BY <3>1, <3>2, <3>3, <2>1, <2>2 DEF ItemsTypeOK
  <2>5. NoDoubleRow'
    <3> SUFFICES ASSUME NEW a \in rows', NEW b \in rows',
                        a.day = b.day, a.cluster = b.cluster
                 PROVE  a = b
        BY DEF NoDoubleRow
    <3>1. PICK r \in rows : a = New(r)
          BY <2>1
    <3>2. PICK q \in rows : b = New(q)
          BY <2>1
    <3> HIDE DEF New
    <3>3. r = q
          BY <2>3, <3>1, <3>2 DEF NoDoubleRow
    <3> QED BY <3>1, <3>2, <3>3
  <2>6. MarksStay'
    <3> SUFFICES ASSUME NEW d \in Days, NEW c \in Clusters,
                        confirmed'[<<d, c>>] \in Marks
                 PROVE  \E r \in rows' : r.day = d /\ r.cluster = c
                                         /\ r.mark = confirmed'[<<d, c>>]
        BY DEF MarksStay
    <3>1. <<d, c>> # dc /\ dc \in Days \X Clusters
          BY <2>1, <2>2, MarksAssumption DEF ItemsTypeOK
    <3>2. confirmed'[<<d, c>>] = confirmed[<<d, c>>]
          BY <2>1, <3>1 DEF ItemsTypeOK
    <3>3. PICK r \in rows : r.day = d /\ r.cluster = c
                            /\ r.mark = confirmed[<<d, c>>]
          BY <3>2 DEF MarksStay
    <3>4. New(r) = r
          BY <3>1, <3>3 DEF RowsFor, RowsOf
    <3> QED BY <2>1, <3>2, <3>3, <3>4 DEF RowsFor, RowsOf
  <2>7. NoneMissed'
    <3>1. \A q \in rows' : \E r \in rows : q.day = r.day /\ q.cluster = r.cluster
          BY <2>1, <2>3
    <3> QED BY <2>1, <3>1 DEF NoneMissed, RowsOf
  <2> QED BY <2>4, <2>5, <2>6, <2>7
<1>3. ASSUME Confirm PROVE ItemsInv'
  <2>1. PICK v \in IF RowsFor(reader.day, reader.cluster) = {} THEN {None}
                   ELSE {r.mark : r \in RowsFor(reader.day, reader.cluster)} :
           confirmed' = [confirmed EXCEPT ![<<reader.day, reader.cluster>>] = v]
        BY <1>3 DEF Confirm
  <2>2. reader' = NoReader /\ rows' = rows /\ writer' = writer
        BY <1>3 DEF Confirm
  <2>3. ItemsTypeOK'
    <3>1. v \in Values
          BY <2>1 DEF RowsFor, RowsOf, ItemsTypeOK, Row, Values
    <3>2. confirmed' \in [Days \X Clusters -> Values]
          BY <2>1, <3>1 DEF ItemsTypeOK
    <3>3. reader' \in [pc : {"idle", "update", "confirm"}, day : Days \cup {None},
                       cluster : Clusters \cup {None}, mark : Values]
          BY <2>2 DEF NoReader, Values
    <3> QED BY <2>2, <3>2, <3>3 DEF ItemsTypeOK, NoReader
  <2>4. MarksStay'
    <3> SUFFICES ASSUME NEW d \in Days, NEW c \in Clusters,
                        confirmed'[<<d, c>>] \in Marks
                 PROVE  \E r \in rows : r.day = d /\ r.cluster = c
                                        /\ r.mark = confirmed'[<<d, c>>]
        BY <2>2 DEF MarksStay
    <3>1. CASE d = reader.day /\ c = reader.cluster
      <4>1. confirmed'[<<d, c>>] = v
            BY <2>1, <3>1 DEF ItemsTypeOK
      <4>2. v # None
            BY <4>1, MarksAssumption
      <4> QED BY <4>1, <4>2, <3>1, <2>1 DEF RowsFor, RowsOf
    <3>2. CASE ~ (d = reader.day /\ c = reader.cluster)
      <4>1. confirmed'[<<d, c>>] = confirmed[<<d, c>>]
            BY <2>1, <3>2 DEF ItemsTypeOK
      <4> QED BY <4>1 DEF MarksStay
    <3> QED BY <3>1, <3>2
  <2>5. NoDoubleRow' /\ NoneMissed'
        BY <2>2 DEF NoDoubleRow, NoneMissed, RowsOf
  <2> QED BY <2>3, <2>4, <2>5
<1>4. ASSUME FeedbackFails PROVE ItemsInv'
  <2>1. ItemsTypeOK'
        BY <1>4 DEF FeedbackFails, ItemsTypeOK, NoReader, Values
  <2>2. NoDoubleRow' /\ MarksStay' /\ NoneMissed'
        BY <1>4 DEF FeedbackFails, NoDoubleRow, MarksStay, NoneMissed,
                    RowsFor, RowsOf
  <2> QED BY <2>1, <2>2
<1> QED BY <1>1, <1>2, <1>3, <1>4 DEF Feedback

(* So does a step that leaves the table and its users alone.               *)
LEMMA ItemsStep ==
  ItemsInv /\ [Write \/ Feedback]_itemVars => ItemsInv'
<1>1. ItemsInv /\ UNCHANGED itemVars => ItemsInv'
      BY DEF ItemsInv, ItemsTypeOK, NoDoubleRow, MarksStay, NoneMissed,
             RowsFor, RowsOf, itemVars
<1> QED BY <1>1, WriteKeeps, FeedbackKeeps

-----------------------------------------------------------------------------
(* The DAG.                                                                *)

(* It starts in a state of the invariant.                                  *)
LEMMA BriefStart == Init => IInv
<1> SUFFICES ASSUME Init PROVE IInv
    OBVIOUS
<1> USE BriefAssumption
<1>1. ItemsInv
      BY ItemsStart DEF Init
<1>2. DagTypeOK
      BY DEF Init, DagTypeOK, NoRun, Never
<1>3. Ahead /\ Deliveries
      BY DEF Init, Ahead, Deliveries, NoRun, Never
<1>4. OncePerEdition /\ MarkerHonest
      BY DEF Init, OncePerEdition, MarkerHonest
<1> QED BY <1>1, <1>2, <1>3, <1>4 DEF IInv, DagInv

(* A step of the DAG is a step of the items or leaves them alone.          *)
LEMMA BriefToItems ==
  IInv /\ [Next]_vars => [Write \/ Feedback]_itemVars
<1> SUFFICES ASSUME IInv, [Next]_vars PROVE [Write \/ Feedback]_itemVars
    OBVIOUS
<1>1. ASSUME RecordDelete PROVE Write
  <2>1. run.now \in Days
        BY <1>1 DEF RecordDelete, IInv, DagInv, Ahead
  <2> QED BY <1>1, <2>1 DEF RecordDelete, Write
<1>2. RecordSelect \/ RecordInsert => Write
      BY DEF RecordSelect, RecordInsert, Write
<1>3. ASSUME BuildFails \/ Jam PROVE Write \/ UNCHANGED itemVars
  <2>1. /\ writer' = NoWriter
        /\ UNCHANGED <<rows, reader, confirmed>>
        BY <1>3 DEF BuildFails, Jam
  <2>2. CASE writer.pc # "idle"
        BY <2>1, <2>2 DEF Write, WriteFails
  <2>3. CASE writer.pc = "idle"
        BY <2>1, <2>3 DEF itemVars, IInv, ItemsInv, ItemsTypeOK
  <2> QED BY <2>2, <2>3
<1>4. \/ NewDay \/ Tick \/ StartRun \/ StartManual
      \/ Due \/ Build \/ Render \/ RecordNothing
      \/ Send \/ SetMarker \/ Timeout
      \/ SendFails \/ SendUnsure \/ MarkFails
      \/ UNCHANGED vars
      => UNCHANGED itemVars
      BY DEF NewDay, Tick, StartRun, StartManual, Due, Build, Render,
             RecordNothing, Send, SetMarker, Timeout, SendFails, SendUnsure,
             MarkFails, vars, itemVars
<1> QED BY <1>1, <1>2, <1>3, <1>4 DEF Next, RunStep, Failure

(* What the steps of the clock and of the scheduler keep.                  *)
LEMMA ClockKeeps ==
  DagInv /\ (NewDay \/ Tick \/ StartRun \/ StartManual) => DagInv'
<1> SUFFICES ASSUME DagInv, NewDay \/ Tick \/ StartRun \/ StartManual
             PROVE  DagInv'
    OBVIOUS
<1> USE BriefAssumption DEF DagInv, Never
<1>1. /\ UNCHANGED <<lastSent, inbox, lost>>
      /\ today <= today' /\ today' \in Days
      BY DEF NewDay, Tick, StartRun, StartManual, DagTypeOK
<1>2. \/ UNCHANGED run
      \/ run' \in [pc : {"due"}, logical : Days \cup {Never},
                   now : {Never}, edition : {Never}, tries : {0}]
      BY DEF NewDay, Tick, StartRun, StartManual, DagTypeOK, NoRun
<1>3. DagTypeOK'
  <2>1. slots' \in 0..MaxSlots /\ slot' \in Days \cup {Never}
        BY DEF NewDay, Tick, StartRun, StartManual, DagTypeOK
  <2> QED BY <1>1, <1>2, <2>1 DEF DagTypeOK
<1>4. Ahead'
  <2>1. today \in Nat /\ today' \in Nat /\ lastSent \in Nat
        /\ run.edition \in Nat
        BY <1>1 DEF DagTypeOK
  <2>2. lastSent' <= today'
        BY <1>1, <2>1 DEF Ahead
  <2>3. CASE UNCHANGED run
        BY <1>1, <2>1, <2>2, <2>3 DEF Ahead
  <2>4. CASE run'.pc = "due"
        BY <2>2, <2>4 DEF Ahead
  <2> QED BY <1>2, <2>3, <2>4
<1>5. Deliveries'
      BY <1>1, <1>2 DEF Deliveries, DagTypeOK, StartRun, StartManual,
                        NewDay, Tick
<1>6. OncePerEdition' /\ MarkerHonest'
      BY <1>1 DEF OncePerEdition, MarkerHonest
<1> QED BY <1>3, <1>4, <1>5, <1>6

(* A task that raised is tried again or has ended its run.                 *)
LEMMA RetryType ==
  ASSUME DagTypeOK
  PROVE  /\ Retry \in [pc : {"none", "mail"},
                       logical : Days \cup {Never}, now : Days \cup {Never},
                       edition : Days \cup {Never}, tries : 0..Retries]
         /\ Retry.pc = "mail" => /\ Retry.now = run.now
                                 /\ Retry.edition = run.edition
<1> USE BriefAssumption DEF DagTypeOK, Never, Retry
<1>1. CASE run.tries < Retries
  <2>1. run.tries + 1 \in 0..Retries
        BY <1>1
  <2>2. Retry = [pc |-> "mail", logical |-> run.logical, now |-> run.now,
                 edition |-> run.edition, tries |-> run.tries + 1]
        BY <1>1
  <2> QED BY <2>1, <2>2, SMTT(30)
<1>2. CASE ~ (run.tries < Retries)
      BY <1>2 DEF NoRun
<1> QED BY <1>1, <1>2

(* What the steps that change only the run keep: it ends, or moves on to a *)
(* task about today.                                                       *)
LEMMA RunKeeps ==
  ASSUME DagInv,
         Due \/ Build \/ Render \/ RecordNothing \/ RecordDelete
             \/ RecordSelect \/ RecordInsert \/ Timeout \/ SendFails
             \/ BuildFails
  PROVE  DagInv'
<1> USE BriefAssumption DEF DagInv, Never
<1>1. UNCHANGED <<today, slots, slot, lastSent, inbox, lost>>
      BY DEF Due, Build, Render, RecordNothing, RecordDelete, RecordSelect,
             RecordInsert, Timeout, SendFails, BuildFails, dagVars
<1>2. run' \in [pc : {"none", "due", "build", "render", "record", "mail",
                     "marker", "jammed"},
                logical : Days \cup {Never}, now : Days \cup {Never},
                edition : Days \cup {Never}, tries : 0..Retries]
  <2>1. CASE Due \/ RecordNothing \/ RecordInsert
    <3>1. \/ run' = NoRun
          \/ run' = [run EXCEPT !.pc = "build"]
          \/ run' = [run EXCEPT !.pc = "mail"]
          BY <2>1 DEF Due, RecordNothing, RecordInsert
    <3>2. CASE run' = NoRun
          BY <3>2 DEF NoRun
    <3>3. CASE run' = [run EXCEPT !.pc = "build"]
          BY <3>3 DEF DagTypeOK
    <3>4. CASE run' = [run EXCEPT !.pc = "mail"]
          BY <3>4 DEF DagTypeOK
    <3> QED BY <3>1, <3>2, <3>3, <3>4
  <2>5. CASE Build
    <3>1. run' = [pc |-> "render", logical |-> run.logical, now |-> today,
                  edition |-> run.edition, tries |-> run.tries]
          BY <2>5 DEF Build, DagTypeOK
    <3> QED BY <3>1 DEF DagTypeOK
  <2>6. CASE Render
    <3>1. run' = [pc |-> "record", logical |-> run.logical, now |-> run.now,
                  edition |-> today, tries |-> run.tries]
          BY <2>6 DEF Render, DagTypeOK
    <3> QED BY <3>1 DEF DagTypeOK
  <2>2. CASE RecordDelete \/ RecordSelect
        BY <2>2 DEF RecordDelete, RecordSelect, dagVars, DagTypeOK
  <2>3. CASE Timeout \/ BuildFails
        BY <2>3 DEF Timeout, BuildFails, NoRun
  <2>4. CASE SendFails
    <3>1. run' = Retry
          BY <2>4 DEF SendFails
    <3> QED BY <3>1, RetryType
  <2> QED BY <2>1, <2>2, <2>3, <2>4, <2>5, <2>6
<1>3. DagTypeOK'
  <2>1. /\ today' = today /\ slots' = slots /\ slot' = slot
        /\ lastSent' = lastSent /\ inbox' = inbox /\ lost' = lost
        BY <1>1
  <2> QED BY <1>2, <2>1 DEF DagTypeOK
<1>4. today \in Days /\ lastSent \in Nat /\ run.edition \in Nat
      BY DEF DagTypeOK
<1>5. Ahead'
  <2>1. CASE Due
    <3>1. run'.pc \in {"none", "build"}
          BY <2>1 DEF Due, NoRun, DagTypeOK
    <3>2. run'.pc = "build" => lastSent # today
          BY <2>1 DEF Due, NoRun
    <3> QED BY <1>1, <1>4, <3>1, <3>2 DEF Ahead
  <2>2. CASE Build
        BY <1>1, <1>4, <2>2 DEF Build, Ahead, DagTypeOK
  <2>3. CASE Render
        BY <1>1, <1>4, <2>3 DEF Render, Ahead, DagTypeOK
  <2>4. CASE RecordNothing \/ RecordDelete \/ RecordSelect
        BY <1>1, <1>4, <2>4
        DEF RecordNothing, RecordDelete, RecordSelect, dagVars, Ahead, DagTypeOK
  <2>5. CASE RecordInsert
        BY <1>1, <1>4, <2>5 DEF RecordInsert, Ahead, DagTypeOK
  <2>6. CASE Timeout \/ BuildFails
        BY <1>1, <2>6 DEF Timeout, BuildFails, NoRun, Ahead
  <2>7. CASE SendFails
        BY <1>1, <1>4, <2>7, RetryType DEF SendFails, Ahead
  <2> QED BY <2>1, <2>2, <2>3, <2>4, <2>5, <2>6, <2>7
<1>6. Deliveries'
  <2>1. run.pc # "marker" /\ run'.pc # "marker"
    <3>1. CASE SendFails
          BY <3>1, RetryType DEF SendFails
    <3>2. CASE RecordDelete \/ RecordSelect
          BY <3>2 DEF RecordDelete, RecordSelect, dagVars
    <3>3. CASE Due \/ RecordNothing \/ RecordInsert
      <4>1. \/ run' = NoRun
            \/ run' = [run EXCEPT !.pc = "build"]
            \/ run' = [run EXCEPT !.pc = "mail"]
            BY <3>3 DEF Due, RecordNothing, RecordInsert
      <4>2. run.pc \in {"due", "record"}
            BY <3>3 DEF Due, RecordNothing, RecordInsert
      <4>3. CASE run' = NoRun
            BY <4>2, <4>3 DEF NoRun
      <4>4. CASE run' = [run EXCEPT !.pc = "build"]
            BY <4>2, <4>4 DEF DagTypeOK
      <4>5. CASE run' = [run EXCEPT !.pc = "mail"]
            BY <4>2, <4>5 DEF DagTypeOK
      <4> QED BY <4>1, <4>3, <4>4, <4>5
    <3>5. CASE Build \/ Render
          BY <3>5 DEF Build, Render, DagTypeOK
    <3>4. CASE Timeout \/ BuildFails
          BY <3>4 DEF Timeout, BuildFails, NoRun
    <3> QED BY <3>1, <3>2, <3>3, <3>4, <3>5
  <2> QED BY <1>1, <2>1 DEF Deliveries
<1>7. OncePerEdition' /\ MarkerHonest'
      BY <1>1 DEF OncePerEdition, MarkerHonest
<1> QED BY <1>3, <1>5, <1>6, <1>7

(* What the steps that deliver, mark or lose a marker keep.                *)
LEMMA MailKeeps ==
  ASSUME DagInv,
         Send \/ SetMarker \/ SendUnsure \/ MarkFails \/ Jam
  PROVE  DagInv'
<1> USE BriefAssumption DEF DagInv, Never
<1> DEFINE e == run.edition
<1>1. /\ today \in Nat /\ lastSent \in Nat
      /\ \A d \in Days : d \in Nat /\ inbox[d] \in Nat /\ lost[d] \in Nat
      BY DEF DagTypeOK
<1>2. ASSUME Send PROVE DagInv'
  <2>1. e \in Days /\ lastSent < e
        BY <1>2 DEF Send, Ahead
  <2>2. /\ inbox' = [inbox EXCEPT ![e] = @ + 1]
        /\ run' = [run EXCEPT !.pc = "marker"]
        /\ run.pc = "mail"
        /\ UNCHANGED <<today, slots, slot, lastSent, lost>>
        BY <1>2 DEF Send
  <2>3. /\ inbox' \in [Days -> Nat]
        /\ inbox'[e] = inbox[e] + 1
        /\ \A d \in Days \ {e} : inbox'[d] = inbox[d]
    <3>1. inbox \in [Days -> Nat] /\ inbox[e] + 1 \in Nat
          BY <1>1, <2>1 DEF DagTypeOK
    <3> HIDE DEF e
    <3> QED BY <2>1, <2>2, <3>1
  <2>4. run'.pc = "marker" /\ run'.edition = e /\ run'.now = run.now
        BY <2>2 DEF DagTypeOK
  <2>5. DagTypeOK'
        BY <2>2, <2>3 DEF DagTypeOK
  <2>6. Ahead'
        BY <2>2, <2>4 DEF Ahead
  <2>7. inbox[e] <= lost[e]
        BY <1>1, <2>1, <2>2 DEF Deliveries
  <2>8. Deliveries' /\ OncePerEdition'
        BY <1>1, <2>1, <2>2, <2>3, <2>4, <2>7, SMTT(30) DEF Deliveries, OncePerEdition
  <2>9. MarkerHonest'
        BY <1>1, <2>1, <2>2, <2>3 DEF MarkerHonest, DagTypeOK
  <2> QED BY <2>5, <2>6, <2>8, <2>9
<1>3. ASSUME SetMarker PROVE DagInv'
  <2>1. e \in Days /\ lastSent < e /\ e <= today /\ inbox[e] > 0
        BY <1>3 DEF SetMarker, Ahead, Deliveries
  <2>2. /\ lastSent' = e /\ run' = NoRun /\ run.pc = "marker"
        /\ UNCHANGED <<today, slots, slot, inbox, lost>>
        BY <1>3 DEF SetMarker
  <2>3. DagTypeOK'
        BY <2>1, <2>2, SMTT(30) DEF DagTypeOK, NoRun
  <2>4. Ahead'
        BY <2>1, <2>2 DEF Ahead, NoRun
  <2>5. Deliveries'
    <3> SUFFICES ASSUME NEW d \in Days, e < d PROVE inbox[d] <= lost[d] + 0
        BY <2>2 DEF Deliveries, NoRun
    <3>1. lastSent < d /\ e # d
          BY <1>1, <2>1
    <3> QED BY <2>2, <3>1 DEF Deliveries
  <2>6. OncePerEdition' /\ MarkerHonest'
        BY <2>1, <2>2 DEF OncePerEdition, MarkerHonest
  <2> QED BY <2>3, <2>4, <2>5, <2>6
<1>4. ASSUME SendUnsure PROVE DagInv'
  <2>1. e \in Days /\ lastSent < e
        BY <1>4 DEF SendUnsure, Ahead
  <2>2. /\ inbox' = [inbox EXCEPT ![e] = @ + 1]
        /\ lost' = [lost EXCEPT ![e] = @ + 1]
        /\ run' = Retry /\ run.pc = "mail"
        /\ UNCHANGED <<today, slots, slot, lastSent>>
        BY <1>4 DEF SendUnsure, Lose
  <2>3. /\ inbox' \in [Days -> Nat] /\ lost' \in [Days -> Nat]
        /\ inbox'[e] = inbox[e] + 1 /\ lost'[e] = lost[e] + 1
        /\ \A d \in Days \ {e} : inbox'[d] = inbox[d] /\ lost'[d] = lost[d]
    <3>1. /\ inbox \in [Days -> Nat] /\ inbox[e] + 1 \in Nat
          /\ lost \in [Days -> Nat] /\ lost[e] + 1 \in Nat
          BY <1>1, <2>1, SMTT(30) DEF DagTypeOK
    <3> HIDE DEF e
    <3> QED BY <2>1, <2>2, <3>1
  <2>4. DagTypeOK'
        BY <2>2, <2>3, RetryType DEF DagTypeOK
  <2>5. Ahead'
        BY <2>2, RetryType DEF Ahead
  <2>6. run'.pc # "marker"
        BY <2>2, RetryType
  <2>7. Deliveries'
        BY <1>1, <2>1, <2>2, <2>3, <2>6 DEF Deliveries
  <2>8. OncePerEdition'
    <3> SUFFICES ASSUME NEW d \in Days PROVE inbox'[d] <= lost'[d] + 1
        BY DEF OncePerEdition
    <3>1. CASE d = e
      <4>1. inbox[e] <= lost[e] + 1
            BY <2>1 DEF OncePerEdition
      <4> HIDE DEF e
      <4> QED BY <1>1, <2>1, <2>3, <3>1, <4>1
    <3>2. CASE d # e
          BY <2>3, <3>2 DEF OncePerEdition
    <3> QED BY <3>1, <3>2
  <2>9. MarkerHonest'
    <3>1. lastSent \in Days \cup {Never} /\ lastSent' = lastSent /\ lastSent # e
          BY <1>1, <2>1, <2>2 DEF DagTypeOK
    <3> QED BY <2>3, <3>1 DEF MarkerHonest
  <2> QED BY <2>4, <2>5, <2>7, <2>8, <2>9
<1>5. ASSUME MarkFails \/ Jam PROVE DagInv'
  <2>1. \/ /\ run.pc = "marker" /\ e \in Days
           /\ lost' = [lost EXCEPT ![e] = @ + 1]
        \/ run.pc # "marker" /\ lost' = lost
        BY <1>5 DEF MarkFails, Jam, Lose, Ahead
  <2>2. /\ lost' \in [Days -> Nat]
        /\ \A d \in Days : lost'[d] >= lost[d]
        /\ run.pc = "marker" => lost'[e] = lost[e] + 1
    <3>1. lost \in [Days -> Nat]
          BY DEF DagTypeOK
    <3>2. CASE run.pc # "marker"
          BY <1>1, <2>1, <3>1, <3>2
    <3>3. CASE run.pc = "marker"
      <4> HIDE DEF e
      <4>1. e \in Days /\ lost' = [lost EXCEPT ![e] = @ + 1]
            BY <2>1, <3>3
      <4>2. lost[e] + 1 \in Nat /\ lost[e] + 1 >= lost[e]
            BY <1>1, <4>1
      <4>3. \A d \in Days : lost'[d] = IF d = e THEN lost[e] + 1 ELSE lost[d]
            BY <3>1, <4>1
      <4>4. lost' \in [Days -> Nat]
            BY <3>1, <4>1, <4>2
      <4> QED BY <1>1, <4>1, <4>2, <4>3, <4>4
    <3> QED BY <3>2, <3>3
  <2>3. UNCHANGED <<today, slots, slot, lastSent, inbox>>
        BY <1>5 DEF MarkFails, Jam
  <2>4. /\ run' \in [pc : {"none", "mail", "jammed"},
                     logical : Days \cup {Never}, now : Days \cup {Never},
                     edition : Days \cup {Never}, tries : 0..Retries]
        /\ run'.pc = "mail" => /\ run.pc = "marker" /\ run'.now = run.now
                               /\ run'.edition = run.edition
    <3>1. CASE MarkFails
      <4>1. run' = Retry /\ run.pc = "marker"
            BY <3>1 DEF MarkFails
      <4> QED BY <4>1, RetryType
    <3>2. CASE Jam
          BY <3>2 DEF Jam, DagTypeOK
    <3> QED BY <1>5, <3>1, <3>2
  <2>5. DagTypeOK'
        BY <2>2, <2>3, <2>4 DEF DagTypeOK
  <2>6. Ahead'
        BY <2>3, <2>4 DEF Ahead
  <2>7. Deliveries'
    <3> SUFFICES ASSUME NEW d \in Days, lastSent < d
                 PROVE  inbox[d] <= lost'[d]
        BY <1>1, <2>2, <2>3, <2>4 DEF Deliveries
    <3>1. CASE run.pc = "marker" /\ e = d
          BY <1>1, <2>2, <3>1 DEF Deliveries
    <3>2. CASE ~ (run.pc = "marker" /\ e = d)
      <4>1. inbox[d] <= lost[d]
            BY <1>1, <3>2 DEF Deliveries
      <4>2. lost'[d] \in Nat
            BY <2>2
      <4> QED BY <1>1, <2>2, <4>1, <4>2
    <3> QED BY <3>1, <3>2
  <2>8. OncePerEdition'
    <3> SUFFICES ASSUME NEW d \in Days PROVE inbox[d] <= lost'[d] + 1
        BY <2>3 DEF OncePerEdition
    <3>1. inbox[d] <= lost[d] + 1 /\ lost'[d] \in Nat /\ lost'[d] >= lost[d]
          BY <2>2 DEF OncePerEdition
    <3> QED BY <1>1, <3>1
  <2>9. MarkerHonest'
        BY <2>3 DEF MarkerHonest
  <2> QED BY <2>5, <2>6, <2>7, <2>8, <2>9
<1> QED BY <1>2, <1>3, <1>4, <1>5

(* IInv is inductive.                                                      *)
LEMMA BriefStep == IInv /\ [Next]_vars => IInv'
<1> SUFFICES ASSUME IInv, [Next]_vars PROVE IInv'
    OBVIOUS
<1>1. ItemsInv'
      BY BriefToItems, ItemsStep DEF IInv
<1>2. DagInv
      BY DEF IInv
<1>3. ASSUME UNCHANGED dagVars PROVE DagInv'
      BY <1>2, <1>3 DEF DagInv, DagTypeOK, Ahead, Deliveries, OncePerEdition,
                        MarkerHonest, dagVars
<1>4. UNCHANGED vars \/ (Feedback /\ UNCHANGED dagVars) => UNCHANGED dagVars
      BY DEF vars
<1>5. DagInv'
      BY <1>2, <1>3, <1>4, ClockKeeps, RunKeeps, MailKeeps
      DEF Next, RunStep, Failure
<1> QED BY <1>1, <1>5 DEF IInv

-----------------------------------------------------------------------------

(* TypeOK holds whatever fails, for any number of days, slots and clusters.*)
THEOREM BriefTypeCorrect == Spec => []TypeOK
<1>1. IInv => TypeOK
      BY DEF IInv, DagInv, ItemsInv, TypeOK
<1> QED BY <1>1, BriefStart, BriefStep, PTL DEF Spec

(* An edition is mailed a second time only when every earlier delivery of  *)
(* it lost its marker, however the day changes under the run.              *)
THEOREM BriefOncePerEdition == Spec => []OncePerEdition
<1>1. IInv => OncePerEdition
      BY DEF IInv, DagInv
<1> QED BY <1>1, BriefStart, BriefStep, PTL DEF Spec

(* The Variable never names an edition that nobody received.               *)
THEOREM BriefMarkerHonest == Spec => []MarkerHonest
<1>1. IInv => MarkerHonest
      BY DEF IInv, DagInv
<1> QED BY <1>1, BriefStart, BriefStep, PTL DEF Spec

(* The DAG uses gold.brief_items only the way BriefItems describes.        *)
THEOREM BriefImplementsItems == Spec => ItemsSpec
<1>1. Init => ItemsInit
      BY DEF Init
<1> QED BY <1>1, BriefStart, BriefStep, BriefToItems, PTL DEF Spec, ItemsSpec

(* A brief never has two rows for one cluster: builds that die anywhere and*)
(* a reader who marks in between included.                                 *)
THEOREM BriefNoDoubleRow == Spec => []NoDoubleRow
<1>1. IInv => NoDoubleRow
      BY DEF IInv, ItemsInv
<1> QED BY <1>1, BriefStart, BriefStep, PTL DEF Spec

(* A mark the reader was told is stored survives every later build.        *)
THEOREM BriefMarksStay == Spec => []MarksStay
<1>1. IInv => MarksStay
      BY DEF IInv, ItemsInv
<1> QED BY <1>1, BriefStart, BriefStep, PTL DEF Spec

=============================================================================
