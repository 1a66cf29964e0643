------------------------------- MODULE Streak -------------------------------
(***************************************************************************)
(* How many mornings in a row there has been a brief (ops/streak.py), as   *)
(* the page says it (brief/build.py, brief/read.py) and as a reader of the *)
(* table finds it.  A day counts when gold.brief_items has a row of it;    *)
(* a build reads the streak and prints it before it writes its own rows,   *)
(* and writes them by a DELETE and an INSERT (module BriefItems).  A build *)
(* can be of an earlier date (signal brief --date) and can die anywhere.   *)
(***************************************************************************)
EXTENDS Integers, FiniteSets, FiniteSetsExt

CONSTANTS
    LiveTolerance,   \* LIVE_TOLERANCE_DAYS
    LastMorning      \* bound: days

ASSUME StreakAssumption == LiveTolerance \in 0..1 /\ LastMorning \in Nat \ {0}

VARIABLES
    morning,     \* the date
    tableMade,   \* gold.brief_items exists
    briefed,     \* the days it has a row of
    spared,      \* those with a row the reader has marked
    edition      \* the build under way, or the last one: its day and its streak

streakVars == <<morning, tableMade, briefed, spared, edition>>

-----------------------------------------------------------------------------
(* compute_streak                                                          *)

NoStreak == [current |-> 0, longest |-> 0, started |-> 0, missing |-> {}, last |-> 0]
StreakUnknown == [NoStreak EXCEPT !.last = -1]   \* None: the read found no table

(* One pass over the days in order: the run in progress, the longest, the  *)
(* days skipped.                                                           *)
Started(d) == [current |-> 1, longest |-> 1, started |-> d, missing |-> {}, last |-> d]

Continued(s, d) ==
    LET next == d = s.last + 1
        run == IF next THEN s.current + 1 ELSE 1
    IN  [current |-> run, longest |-> Max({s.longest, run}),
         started |-> IF next THEN s.started ELSE d,
         missing |-> s.missing \cup (s.last + 1)..(d - 1),
         last |-> d]

Previous(days, d) == Max({e \in days : e < d})

Computed(days) ==
    LET pass[d \in days] ==
            IF d = Min(days) THEN Started(d)
            ELSE Continued(pass[Previous(days, d)], d)
    IN  IF days = {} THEN NoStreak ELSE pass[Max(days)]

(* is_live, at a moment                                                    *)
Live(streak, asOf) == streak.current > 0 /\ asOf - streak.last <= LiveTolerance

-----------------------------------------------------------------------------

StreakInit ==
    /\ morning = 1
    /\ tableMade = FALSE
    /\ briefed = {} /\ spared = {}
    /\ edition = [pc |-> "none", day |-> 0, says |-> NoStreak]

NextMorning ==
    /\ morning < LastMorning
    /\ morning' = morning + 1
    /\ UNCHANGED <<tableMade, briefed, spared, edition>>

(* signal brief feedback: a mark given or cleared.                         *)
MarkRow(d) ==
    /\ d \in briefed
    /\ spared' \in {spared \cup {d}, spared \ {d}}
    /\ UNCHANGED <<morning, tableMade, briefed, edition>>

(* Mutant: without the day that is being built.                            *)
StreakOfTable(d) == IF tableMade THEN Computed(briefed) ELSE StreakUnknown

(* read_brief_streak including the day being built, as an optional read.   *)
StreakRead(d) == IF tableMade THEN Computed(briefed \cup {d}) ELSE StreakUnknown

Building == edition.pc \in {"rendered", "deleted"}

(* The page is rendered with the streak that was read.                     *)
Render(d) ==
    /\ ~Building
    /\ edition' = [pc |-> "rendered", day |-> d, says |-> StreakRead(d)]
    /\ UNCHANGED <<morning, tableMade, briefed, spared>>

(* write_brief_items of a page that shows nothing writes nothing.          *)
RecordNothing ==
    /\ edition.pc = "rendered"
    /\ edition' = [edition EXCEPT !.pc = "none"]
    /\ UNCHANGED <<morning, tableMade, briefed, spared>>

(* Otherwise the table is made, and the rows of the day go unless marked.  *)
ClearDay ==
    /\ edition.pc = "rendered"
    /\ tableMade' = TRUE
    /\ briefed' = briefed \ ({edition.day} \ spared)
    /\ edition' = [edition EXCEPT !.pc = "deleted"]
    /\ UNCHANGED <<morning, spared>>

RecordDay ==
    /\ edition.pc = "deleted"
    /\ briefed' = briefed \cup {edition.day}
    /\ edition' = [edition EXCEPT !.pc = "recorded"]
    /\ UNCHANGED <<morning, tableMade, spared>>

BuildDies ==
    /\ Building
    /\ edition' = [edition EXCEPT !.pc = "none"]
    /\ UNCHANGED <<morning, tableMade, briefed, spared>>

StreakNext ==
    \/ NextMorning \/ RecordNothing \/ ClearDay \/ RecordDay \/ BuildDies
    \/ \E d \in 1..morning : MarkRow(d) \/ Render(d)

StreakSpec == StreakInit /\ [][StreakNext]_streakVars

-----------------------------------------------------------------------------

StreakTypeOK ==
    /\ morning \in 1..LastMorning /\ tableMade \in BOOLEAN
    /\ spared \subseteq briefed /\ briefed \subseteq 1..morning
    /\ edition.pc \in {"none", "rendered", "deleted", "recorded"}
    /\ edition.says.current \in 0..LastMorning

(* What is counted is what the table has, however the days came into it:   *)
(* runs that cannot be extended, the last one current, and every hole.     *)
CountTrue ==
    LET s == Computed(briefed)
        runs == {I \in {a..b : a, b \in briefed} : I # {} /\ I \subseteq briefed}
    IN  IF briefed = {} THEN s = NoStreak
        ELSE /\ s.started..Max(briefed) \in runs /\ s.started - 1 \notin briefed
             /\ s.current = Cardinality(s.started..Max(briefed))
             /\ s.longest = Max({Cardinality(I) : I \in runs})
             /\ s.missing = {d \in 1..morning : /\ d \notin briefed
                                                /\ \E a, b \in briefed : a < d /\ d < b}

(* "Day n" is a claim about mornings up to this one: there was a brief on  *)
(* each of the n - 1 before it.                                            *)
LiveClaim ==
    LET s == Computed(briefed)
    IN  Live(s, morning) => \A k \in 1..(s.current - 1) : morning - k \in briefed

(* The page counts itself: once its rows are in, what it printed is what   *)
(* the table says; only a page before the table was made does not know.    *)
PageCounts ==
    edition.pc = "recorded" =>
        IF edition.says = StreakUnknown THEN briefed = {edition.day}
        ELSE edition.says = Computed(briefed)

StreakTrue == CountTrue /\ LiveClaim /\ PageCounts

=============================================================================
