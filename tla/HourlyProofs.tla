---------------------------- MODULE HourlyProofs ----------------------------
(* What Hourly guarantees for any number of hours, any kinds of document   *)
(* and whatever fails.                                                     *)
EXTENDS Hourly, TLAPS

-----------------------------------------------------------------------------

(* The initial state satisfies the inductive invariant.                    *)
LEMMA InitIInv == Init => IInv
<1> SUFFICES ASSUME Init PROVE IInv
    OBVIOUS
<1>1. TypeOK
    BY DEF Init, TypeOK, Tasks, Document
<1>2. CommitOK /\ EventOK /\ RowsOK /\ ClosedOK /\ OnTime
    BY DEF Init, CommitOK, EventOK, RowsOK, ClosedOK, OnTime, Before, Tasks
<1> QED
    BY <1>1, <1>2 DEF IInv

(* Every step preserves the type invariant.                                *)
LEMMA NextTypeOK == TypeOK /\ [Next]_vars => TypeOK'
<1> SUFFICES ASSUME TypeOK, [Next]_vars PROVE TypeOK'
    OBVIOUS
<1> USE DEF TypeOK
<1>1. CASE Tick
    BY <1>1 DEF Tick
<1>2. ASSUME NEW k \in Kinds, Poll(k) PROVE TypeOK'
    BY <1>2, KindsAssumption DEF Poll, Document
<1>3. CASE StartCommit
    BY <1>3 DEF StartCommit
<1>4. CASE RerunCommit
    BY <1>4 DEF RerunCommit
<1>5. CASE Sync
    BY <1>5 DEF Sync
<1>6. CASE Merge
    BY <1>6 DEF Merge
<1>7. CASE Emit
    BY <1>7 DEF Emit
<1>8. CASE CommitFails
    BY <1>8 DEF CommitFails
<1>9. CASE StartProcess
    BY <1>9 DEF StartProcess
<1>10. ASSUME NEW t \in Tasks, StartTask(t) PROVE TypeOK'
    BY <1>10 DEF StartTask, ClosedHour
<1>11. ASSUME NEW t \in Tasks, MergeRows(t) PROVE TypeOK'
    BY <1>11 DEF MergeRows, Window, Close
<1>12. ASSUME NEW t \in Tasks, MergeRejects(t) PROVE TypeOK'
    BY <1>12 DEF MergeRejects, Window, Close
<1>13. ASSUME NEW t \in Tasks, TaskFails(t) PROVE TypeOK'
    BY <1>13 DEF TaskFails
<1>14. CASE UNCHANGED vars
    BY <1>14 DEF vars
<1> QED
    BY <1>1, <1>2, <1>3, <1>4, <1>5, <1>6, <1>7, <1>8, <1>9, <1>10, <1>11,
       <1>12, <1>13, <1>14
    DEF Next, Commit, Process, Failure

(* Polling adds a document only to an hour the running slot has not closed.*)
LEMMA PollBefore ==
    ASSUME IInv, NEW k \in Kinds, Poll(k), NEW s \in Nat, s <= commit.slot
    PROVE  {d \in staged' : d.hour < s} = Before(s)
<1>1. PICK h \in {hour, hour - 1} :
         /\ h > 0
         /\ h < hour => commit.slot < hour
         /\ staged' = staged \cup {[hour |-> h, source |-> k.source,
                                    parses |-> k.parses]}
    BY DEF Poll
<1>2. hour \in Nat /\ commit.slot \in Nat /\ commit.slot <= hour
    BY DEF IInv, TypeOK, CommitOK
<1>3. ~ (h < s)
    BY <1>1, <1>2
<1> QED
    BY <1>1, <1>3 DEF Before

(* Every step preserves the inductive invariant.                           *)
LEMMA NextIInv == IInv /\ [Next]_vars => IInv'
<1> SUFFICES ASSUME IInv, [Next]_vars PROVE IInv'
    OBVIOUS
<1>0. TypeOK /\ TypeOK'
    BY NextTypeOK DEF IInv
<1>1. CASE Tick
    <2>1. CommitOK'
        BY <1>0, <1>1 DEF Tick, IInv, TypeOK, CommitOK, Before
    <2> QED
        BY <1>0, <1>1, <2>1 DEF Tick, IInv, EventOK, RowsOK, ClosedOK, OnTime,
                                Before, Settled
<1>2. ASSUME NEW k \in Kinds, Poll(k) PROVE IInv'
    <2>1. /\ UNCHANGED <<hour, bronze, silver, rejects,
                         commit, pending, runSlot, task, closed>>
          /\ commit.slot \in Nat /\ pending \in Nat /\ runSlot \in Nat
        BY <1>0, <1>2 DEF Poll, TypeOK
    <2>2. \A s \in Nat : s <= commit.slot => Before(s)' = Before(s)
        BY <1>2, PollBefore DEF Before
    <2>3. CommitOK' /\ EventOK'
        BY <2>1, <2>2 DEF IInv, CommitOK, EventOK
    <2>4. RowsOK'
        BY <2>1, <2>2 DEF IInv, EventOK, RowsOK
    <2>5. ClosedOK'
        BY <2>1 DEF IInv, ClosedOK
    <2>6. OnTime'
        <3> SUFFICES ASSUME NEW t \in Tasks, NEW d \in staged',
                            d.hour \in closed[t], d.source \in Reads(t)
                     PROVE  Settled(d, t)
            BY <2>1 DEF OnTime, Settled
        <3>1. d.hour \in Nat /\ d.hour < commit.slot
            BY <1>0 DEF IInv, ClosedOK, TypeOK
        <3>2. d \in Before(commit.slot)'
            BY <2>1, <3>1 DEF Before
        <3> QED
            BY <2>1, <2>2, <3>2 DEF IInv, OnTime, Before
    <2> QED
        BY <1>0, <2>3, <2>4, <2>5, <2>6 DEF IInv
<1>3. CASE StartCommit
    <2>1. /\ commit' = [pc |-> "sync", slot |-> hour, seen |-> {}]
          /\ commit.slot < hour /\ hour \in Nat /\ commit.slot \in Nat
          /\ pending \in Nat /\ runSlot \in Nat /\ closed \in [Tasks -> SUBSET Nat]
          /\ UNCHANGED <<hour, staged, bronze, silver, rejects,
                         pending, runSlot, task, closed>>
        BY <1>0, <1>3 DEF StartCommit, TypeOK
    <2>2. CommitOK' /\ EventOK' /\ ClosedOK'
        BY <2>1 DEF IInv, CommitOK, EventOK, ClosedOK, Before
    <2>3. RowsOK' /\ OnTime'
        BY <2>1 DEF IInv, RowsOK, OnTime, Before, Settled
    <2> QED
        BY <1>0, <2>2, <2>3 DEF IInv
<1>4. CASE RerunCommit \/ Sync \/ Merge \/ Emit \/ CommitFails
    <2>1. /\ commit'.slot = commit.slot
          /\ bronze \subseteq bronze'
          /\ UNCHANGED <<hour, staged, silver, rejects, runSlot, task, closed>>
        BY <1>0, <1>4 DEF RerunCommit, Sync, Merge, Emit, CommitFails, TypeOK
    <2>2. CommitOK'
        <3>1. CASE RerunCommit \/ Emit \/ CommitFails
            BY <1>0, <2>1, <3>1
            DEF IInv, CommitOK, TypeOK, RerunCommit, Emit, CommitFails
        <3>2. CASE Sync
            BY <1>0, <2>1, <3>2 DEF IInv, CommitOK, TypeOK, Sync, Before
        <3>3. CASE Merge
            BY <1>0, <2>1, <3>3 DEF IInv, CommitOK, TypeOK, Merge, Before
        <3> QED
            BY <1>4, <3>1, <3>2, <3>3
    <2>3. EventOK'
        <3>1. CASE Emit
            BY <1>0, <2>1, <3>1
            DEF IInv, CommitOK, EventOK, TypeOK, Emit, Before
        <3>2. CASE RerunCommit \/ Sync \/ Merge \/ CommitFails
            BY <1>0, <2>1, <3>2 DEF IInv, EventOK, RerunCommit, Sync, Merge,
                                   CommitFails, Before
        <3> QED
            BY <1>4, <3>1, <3>2
    <2>4. RowsOK' /\ ClosedOK' /\ OnTime'
        BY <2>1 DEF IInv, RowsOK, ClosedOK, OnTime, Before, Settled
    <2> QED
        BY <1>0, <2>2, <2>3, <2>4 DEF IInv
<1>5. CASE StartProcess
    <2>1. /\ pending' = 0 /\ runSlot' = pending
          /\ \A t \in Tasks : task'[t].pc = "ready"
          /\ UNCHANGED <<hour, staged, bronze, silver, rejects, commit, closed>>
        BY <1>5 DEF StartProcess
    <2>2. CommitOK' /\ ClosedOK' /\ OnTime'
        BY <2>1 DEF IInv, CommitOK, ClosedOK, OnTime, Before, Settled
    <2>3. Before(0)' = {}
        BY <1>0 DEF Before, TypeOK, Document
    <2>4. EventOK'
        BY <1>0, <2>1, <2>3 DEF IInv, EventOK, TypeOK, Before
    <2>5. RowsOK'
        BY <2>1 DEF RowsOK
    <2> QED
        BY <1>0, <2>2, <2>4, <2>5 DEF IInv
<1>6. ASSUME NEW t \in Tasks, StartTask(t) \/ TaskFails(t) PROVE IInv'
    <2>1. /\ task'[t].pc # "rejects"
          /\ \A u \in Tasks \ {t} : task'[u] = task[u]
          /\ UNCHANGED <<hour, staged, bronze, silver, rejects,
                         commit, pending, runSlot, closed>>
        BY <1>0, <1>6 DEF StartTask, TaskFails, TypeOK
    <2>2. CommitOK' /\ EventOK' /\ ClosedOK' /\ OnTime'
        BY <2>1 DEF IInv, CommitOK, EventOK, ClosedOK, OnTime, Before, Settled
    <2>3. RowsOK'
        BY <2>1 DEF IInv, RowsOK, Before
    <2> QED
        BY <1>0, <2>2, <2>3 DEF IInv
<1>7. ASSUME NEW t \in Tasks, MergeRows(t) PROVE IInv'
    <2>1. /\ silver'[t] = silver[t] \cup {d \in Window(t) : d.parses}
          /\ \A u \in Tasks : silver[u] \subseteq silver'[u]
          /\ \A u \in Tasks \ {t} : task'[u] = task[u] /\ closed'[u] = closed[u]
          /\ task'[t].window = task[t].window
          /\ UNCHANGED <<hour, staged, bronze, rejects, commit, pending, runSlot>>
        BY <1>0, <1>7 DEF MergeRows, TypeOK, Close
    <2>2. /\ task'[t].pc = "rejects" => closed'[t] = closed[t]
          /\ task'[t].pc # "rejects" => t # "articles"
          /\ \A h \in closed'[t] : \/ h \in closed[t]
                                   \/ /\ h = task[t].window /\ h + 1 = runSlot
                                      /\ t # "articles"
        BY <1>0, <1>7 DEF MergeRows, TypeOK, Close
    <2>3. \A d \in Before(runSlot) :
             d.hour = task[t].window /\ d.source \in Reads(t) /\ d.parses =>
                 d \in silver'[t]
        BY <2>1 DEF IInv, EventOK, Window
    <2>4. CommitOK' /\ EventOK'
        BY <2>1 DEF IInv, CommitOK, EventOK, Before
    <2>5. RowsOK'
        BY <2>1, <2>3 DEF IInv, RowsOK, Before
    <2>6. ClosedOK'
        BY <1>0, <2>1, <2>2 DEF IInv, ClosedOK, EventOK, TypeOK
    <2>7. OnTime'
        <3> SUFFICES ASSUME NEW u \in Tasks, NEW d \in staged,
                            d.hour \in closed'[u], d.source \in Reads(u)
                     PROVE  Settled(d, u)'
            BY <2>1 DEF OnTime
        <3>1. CASE d.hour \in closed[u]
            BY <2>1, <3>1 DEF IInv, OnTime, Settled
        <3>2. CASE d.hour \notin closed[u]
            <4>1. u = t /\ d.hour = task[t].window /\ d.hour + 1 = runSlot
                  /\ t # "articles"
                BY <2>1, <2>2, <3>2
            <4>2. d \in Before(runSlot)
                BY <1>0, <4>1 DEF Before, TypeOK, Document
            <4> QED
                BY <2>3, <4>1, <4>2 DEF Settled
        <3> QED
            BY <3>1, <3>2
    <2> QED
        BY <1>0, <2>4, <2>5, <2>6, <2>7 DEF IInv
<1>8. ASSUME NEW t \in Tasks, MergeRejects(t) PROVE IInv'
    <2>1. /\ rejects' = rejects \cup {d \in Window(t) : ~ d.parses}
          /\ task[t].pc = "rejects" /\ task'[t].pc = "done"
          /\ \A u \in Tasks \ {t} : task'[u] = task[u] /\ closed'[u] = closed[u]
          /\ \A h \in closed'[t] : \/ h \in closed[t]
                                   \/ h = task[t].window /\ h + 1 = runSlot
          /\ UNCHANGED <<hour, staged, bronze, silver, commit, pending, runSlot>>
        BY <1>0, <1>8 DEF MergeRejects, TypeOK, Close
    <2>2. CommitOK' /\ EventOK'
        BY <2>1 DEF IInv, CommitOK, EventOK, Before
    <2>3. RowsOK'
        BY <2>1 DEF IInv, RowsOK, Before
    <2>4. ClosedOK'
        BY <1>0, <2>1 DEF IInv, ClosedOK, EventOK, TypeOK
    <2>5. OnTime'
        <3> SUFFICES ASSUME NEW u \in Tasks, NEW d \in staged,
                            d.hour \in closed'[u], d.source \in Reads(u)
                     PROVE  Settled(d, u)'
            BY <2>1 DEF OnTime
        <3>1. CASE d.hour \in closed[u]
            BY <2>1, <3>1 DEF IInv, OnTime, Settled
        <3>2. CASE d.hour \notin closed[u]
            <4>1. u = t /\ d.hour = task[t].window /\ d.hour + 1 = runSlot
                BY <2>1, <3>2
            <4>2. d \in Before(runSlot)
                BY <1>0, <4>1 DEF Before, TypeOK, Document
            <4>3. d.parses => d \in silver[t]
                BY <2>1, <4>1, <4>2 DEF IInv, RowsOK
            <4>4. ~ d.parses => d \in rejects'
                BY <2>1, <4>1, <4>2 DEF IInv, EventOK, Window
            <4> QED
                BY <2>1, <4>1, <4>3, <4>4 DEF Settled
        <3> QED
            BY <3>1, <3>2
    <2> QED
        BY <1>0, <2>2, <2>3, <2>4, <2>5 DEF IInv
<1>9. CASE UNCHANGED vars
    BY <1>0, <1>9 DEF vars, IInv, CommitOK, EventOK, RowsOK, ClosedOK, OnTime,
                      Before, Settled
<1> QED
    BY <1>1, <1>2, <1>3, <1>4, <1>5, <1>6, <1>7, <1>8, <1>9
    DEF Next, Commit, Process, Failure

-----------------------------------------------------------------------------

(* The state of the hourly pipeline is well formed, whatever fails.        *)
THEOREM HourlyTypeCorrect == Spec => []TypeOK
<1>1. Init => TypeOK
    BY InitIInv DEF IInv
<1> QED
    BY <1>1, NextTypeOK, PTL DEF Spec

(* An hour normalized on the event of its own slot is complete in silver,  *)
(* for any sources, any number of hours and any failures around it.        *)
THEOREM HourlyOnTime == Spec => []OnTime
<1>1. IInv => OnTime
    BY DEF IInv
<1> QED
    BY <1>1, InitIInv, NextIInv, PTL DEF Spec
-----------------------------------------------------------------------------
(* A host that keeps up, with nothing failing: the clock waits for the     *)
(* hour's work, so commit, event and run are all of this hour or the one   *)
(* before, and every task normalizes the hour its slot closed.             *)

(* How far this hour's work got: not started, committing, announced, with  *)
(* process.                                                                *)
Stage ==
    \/ commit.pc = "done" /\ commit.slot + 1 = hour
       /\ pending = 0 /\ runSlot + 1 = hour
    \/ commit.pc \in {"sync", "merge", "costs"} /\ commit.slot = hour
       /\ pending = 0 /\ runSlot + 1 = hour
    \/ commit.pc = "done" /\ commit.slot = hour
       /\ pending = hour /\ runSlot + 1 = hour
    \/ commit.pc = "done" /\ commit.slot = hour
       /\ pending = 0 /\ runSlot = hour

AtWork ==
    \A t \in Tasks : ~ Done(t) =>
        /\ runSlot = hour
        /\ task[t].pc # "ready" => task[t].window + 1 = hour

(* Every hour is closed by every task in the hour that follows it.         *)
Closed ==
    \A t \in Tasks : \A h \in 0..(hour - 1) :
        h + 1 < hour \/ (runSlot = hour /\ Done(t)) => h \in closed[t]

InStep == Stage /\ AtWork /\ Closed

(* The initial state is at the start of the first hour's work.             *)
LEMMA InitInStep == Init => InStep
    BY DEF Init, InStep, Stage, AtWork, Closed, Done

(* On such a host every step keeps the hour's work in step.                *)
LEMMA NextInStep ==
    ASSUME Timely, ~ CommitMayFail, ~ TaskMayFail, IInv, InStep, [Next]_vars
    PROVE  InStep'
<1>0. TypeOK
    BY DEF IInv
<1>1. CASE Tick
    <2>1. /\ hour' = hour + 1 /\ runSlot = hour /\ pending = 0
          /\ commit.slot = hour /\ commit.pc = "done"
          /\ hour \in Nat
          /\ \A t \in Tasks : Done(t)
          /\ UNCHANGED <<commit, pending, runSlot, task, closed>>
        BY <1>0, <1>1 DEF Tick, Quiet, InStep, Stage, TypeOK
    <2>2. Stage' /\ AtWork'
        BY <2>1 DEF Stage, AtWork, Done
    <2>3. Closed'
        BY <1>0, <2>1 DEF InStep, Closed, Done, TypeOK
    <2> QED
        BY <2>2, <2>3 DEF InStep
<1>2. ASSUME NEW k \in Kinds, Poll(k) PROVE InStep'
    BY <1>2 DEF Poll, InStep, Stage, AtWork, Closed, Done
<1>3. CASE StartCommit \/ RerunCommit \/ Sync \/ Merge \/ Emit \/ CommitFails
    <2>1. UNCHANGED <<hour, runSlot, task, closed>>
        BY <1>3 DEF StartCommit, RerunCommit, Sync, Merge, Emit, CommitFails
    <2>2. Stage'
        <3>1. CASE StartCommit
            BY <1>0, <2>1, <3>1 DEF InStep, Stage, TypeOK, StartCommit
        <3>2. CASE Sync
            BY <1>0, <2>1, <3>2 DEF InStep, Stage, TypeOK, Sync
        <3>3. CASE Merge
            BY <1>0, <2>1, <3>3 DEF InStep, Stage, TypeOK, Merge
        <3>4. CASE Emit
            BY <1>0, <2>1, <3>4 DEF InStep, Stage, TypeOK, Emit
        <3>5. CASE RerunCommit \/ CommitFails
            BY <3>5 DEF InStep, Stage, RerunCommit, CommitFails
        <3> QED
            BY <1>3, <3>1, <3>2, <3>3, <3>4, <3>5
    <2> QED
        BY <2>1, <2>2 DEF InStep, AtWork, Closed, Done
<1>4. CASE StartProcess
    <2>1. /\ pending = hour /\ runSlot' = hour /\ pending' = 0
          /\ commit.pc = "done" /\ commit.slot = hour
          /\ \A t \in Tasks : task'[t].pc = "ready"
          /\ UNCHANGED <<hour, commit, closed>>
        BY <1>0, <1>4 DEF StartProcess, InStep, Stage, TypeOK
    <2>2. Stage' /\ AtWork'
        BY <2>1 DEF Stage, AtWork
    <2>3. Closed'
        BY <1>0, <2>1 DEF InStep, Closed, Done, TypeOK
    <2> QED
        BY <2>2, <2>3 DEF InStep
<1>5. ASSUME NEW t \in Tasks, StartTask(t) PROVE InStep'
    <2>1. /\ task'[t] = [pc |-> "merge", window |-> hour - 1]
          /\ runSlot = hour
          /\ \A u \in Tasks \ {t} : task'[u] = task[u]
          /\ UNCHANGED <<hour, commit, pending, runSlot, closed>>
        BY <1>0, <1>5 DEF StartTask, ClosedHour, InStep, AtWork, Done, TypeOK
    <2> QED
        BY <1>0, <2>1 DEF InStep, Stage, AtWork, Closed, Done, TypeOK
<1>6. ASSUME NEW t \in Tasks, MergeRows(t) \/ MergeRejects(t) PROVE InStep'
    <2>1. /\ runSlot = hour /\ task[t].window + 1 = hour
          /\ task'[t].window = task[t].window /\ task'[t].pc # "ready"
          /\ \A u \in Tasks \ {t} : task'[u] = task[u] /\ closed'[u] = closed[u]
          /\ closed[t] \subseteq closed'[t]
          /\ UNCHANGED <<hour, commit, pending, runSlot>>
        BY <1>0, <1>6
        DEF MergeRows, MergeRejects, Close, InStep, AtWork, Done, TypeOK
    <2>2. task'[t].pc = "done" => task[t].window \in closed'[t]
        BY <1>0, <1>6, <2>1 DEF MergeRows, MergeRejects, Close, TypeOK
    <2>3. Stage' /\ AtWork'
        BY <2>1 DEF InStep, Stage, AtWork, Done
    <2>4. Closed'
        <3> SUFFICES ASSUME NEW u \in Tasks, NEW h \in 0..(hour - 1),
                            h + 1 < hour \/ Done(u)'
                     PROVE  h \in closed'[u]
            BY <2>1 DEF Closed
        <3>1. CASE h + 1 < hour \/ u # t
            BY <1>0, <2>1, <3>1 DEF InStep, Closed, Done, TypeOK
        <3>2. CASE h + 1 = hour /\ u = t /\ Done(u)'
            BY <1>0, <2>1, <2>2, <3>2 DEF Done, TypeOK
        <3> QED
            BY <1>0, <3>1, <3>2 DEF TypeOK
    <2> QED
        BY <2>3, <2>4 DEF InStep
<1>7. ASSUME NEW t \in Tasks, TaskFails(t) PROVE InStep'
    BY <1>7 DEF TaskFails
<1>8. CASE UNCHANGED vars
    BY <1>8 DEF vars, InStep, Stage, AtWork, Closed, Done
<1> QED
    BY <1>1, <1>2, <1>3, <1>4, <1>5, <1>6, <1>7, <1>8
    DEF Next, Commit, Process, Failure

(* On a host that keeps up and with nothing failing, no document of an     *)
(* hour before the last closed one is missing from silver: each hour was   *)
(* normalized on its own event, and what is normalized on its own event is *)
(* complete, also what was staged just after the hour ended.               *)
THEOREM HourlyNothingLeftBehind ==
    ASSUME Timely, ~ CommitMayFail, ~ TaskMayFail
    PROVE  Spec => []NothingLeftBehind
<1>1. Init => IInv /\ InStep
    BY InitIInv, InitInStep
<1>2. IInv /\ InStep /\ [Next]_vars => IInv' /\ InStep'
    BY NextIInv, NextInStep
<1>3. IInv /\ InStep => NothingLeftBehind
    <2> SUFFICES ASSUME IInv, InStep, NEW t \in Tasks, NEW d \in staged,
                        d.hour + 1 < hour, d.source \in Reads(t)
                 PROVE  Settled(d, t)
        BY DEF NothingLeftBehind
    <2>1. d.hour \in Nat /\ hour \in Nat
        BY DEF IInv, TypeOK, Document
    <2>2. d.hour \in closed[t]
        BY <2>1 DEF InStep, Closed
    <2> QED
        BY <2>2 DEF IInv, OnTime
<1> QED
    BY <1>1, <1>2, <1>3, PTL DEF Spec

=============================================================================
