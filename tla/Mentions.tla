------------------------------ MODULE Mentions ------------------------------
(***************************************************************************)
(* silver.entity_mentions: resolve_window of spark/jobs/resolve.py, and the*)
(* brief that reads what it wrote.                                         *)
(*                                                                         *)
(* A run takes the articles of the last Window ticks, resolves them against*)
(* the dictionary it finds and replaces whole day partitions.  The window  *)
(* is not aligned to days: the partition of its first day is replaced by   *)
(* the mentions of a part of that day.                                     *)
(***************************************************************************)
EXTENDS Integers, FiniteSets

CONSTANTS
    Pages,          \* articles
    Window,         \* RESOLVE_WINDOW_HOURS and the brief's, in ticks
    DayLength,      \* ticks of a day
    MaxTick,        \* bound: time
    MaxDictionary   \* bound: dictionary snapshots committed

ASSUME MentionsAssumption ==
    /\ Window \in Nat \ {0} /\ DayLength \in Nat \ {0}
    /\ MaxTick \in Nat /\ MaxDictionary \in Nat

VARIABLES
    tick,         \* the clock
    published,    \* silver.articles: the event date of every article in it
    dictionary,   \* the committed dictionary snapshot
    mentions,     \* silver.entity_mentions
    resolver,     \* the run under way, or the last one
    resolved      \* articles some run has committed the mentions of

mentionsVars == <<tick, published, dictionary, mentions, resolver, resolved>>

-----------------------------------------------------------------------------

Absent == -1

Arrived == {p \in Pages : published[p] # Absent}

Day(t) == t \div DayLength

Idle == [pc |-> "idle", read |-> {}, rows |-> {}]

MentionsInit ==
    /\ tick = 0
    /\ published = [p \in Pages |-> Absent]
    /\ dictionary = 1
    /\ mentions = {}
    /\ resolver = Idle
    /\ resolved = {}

MentionsTick ==
    /\ tick < MaxTick
    /\ tick' = tick + 1
    /\ UNCHANGED <<published, dictionary, mentions, resolver, resolved>>

(* process: an article reaches silver, at any time after it was published -*)
(* or before, for a source that dates its articles ahead.  A page without a*)
(* name of a company in it has no mentions and is left out.                *)
Normalized(p) ==
    /\ published[p] = Absent
    /\ \E t \in 0..(tick + 1) : published' = [published EXCEPT ![p] = t]
    /\ UNCHANGED <<tick, dictionary, mentions, resolver, resolved>>

NewDictionary ==
    /\ dictionary < MaxDictionary
    /\ dictionary' = dictionary + 1
    /\ UNCHANGED <<tick, published, mentions, resolver, resolved>>

(* Mutant: the window starts a tick late.                                  *)
InLateWindow(t, until) == until - Window < t /\ t < until

(* read_window: event_date in [since, until).                              *)
InWindow(t, until) == until - Window <= t /\ t < until

(* resolve_window reads the dictionary and its window, and computes.       *)
Resolve ==
    /\ resolver.pc = "idle"
    /\ LET read == {p \in Arrived : InWindow(published[p], tick)}
       IN  resolver' = [pc |-> "write", read |-> read,
                        rows |-> {[page |-> p, at |-> published[p],
                                   dictionary |-> dictionary] : p \in read}]
    /\ UNCHANGED <<tick, published, dictionary, mentions, resolved>>

(* _overwrite: the day partitions of the rows are replaced by them, in one *)
(* commit; no rows, no write.                                              *)
WriteMentions ==
    /\ resolver.pc = "write"
    /\ mentions' = {m \in mentions :
                      \A r \in resolver.rows : Day(r.at) # Day(m.at)}
                   \cup resolver.rows
    /\ resolver' = [resolver EXCEPT !.pc = "idle"]
    /\ resolved' = resolved \cup resolver.read
    /\ UNCHANGED <<tick, published, dictionary>>

ResolverDies ==
    /\ resolver.pc = "write"
    /\ resolver' = [resolver EXCEPT !.pc = "idle"]
    /\ UNCHANGED <<tick, published, dictionary, mentions, resolved>>

MentionsNext ==
    \/ MentionsTick
    \/ \E p \in Pages : Normalized(p)
    \/ NewDictionary
    \/ Resolve
    \/ WriteMentions
    \/ ResolverDies

-----------------------------------------------------------------------------

MentionsTypeOK ==
    /\ tick \in Nat
    /\ published \in [Pages -> Nat \cup {Absent}]
    /\ dictionary \in Nat
    /\ mentions \subseteq [page : Pages, at : Nat, dictionary : Nat]
    /\ resolver \in [pc : {"idle", "write"}, read : SUBSET Pages,
                     rows : SUBSET [page : Pages, at : Nat, dictionary : Nat]]
    /\ resolved \subseteq Pages

(* read_cluster_entities: the mentions the brief joins are those whose     *)
(* event_date is in its own window, which ends now.                        *)
Wanted(t) == tick - Window <= t /\ t < tick

Readable == {m \in mentions : Wanted(m.at)}

(* A brief finds the mentions of every article of its window that was ever *)
(* resolved, and no article has two answers: replacing the partition of a  *)
(* part of a day drops only what no brief reads any more, whatever arrived *)
(* late, died or was run again with another dictionary in between.         *)
MentionsStay ==
    /\ \A p \in resolved : Wanted(published[p]) =>
          \E m \in Readable : m.page = p
    /\ \A m, n \in mentions : m.page = n.page => m = n

=============================================================================
