------------------------------ MODULE Pollers ------------------------------
(***************************************************************************)
(* The pollers that re-read what they have already read: the conditional   *)
(* GET of a feed (sources/feed.py), the Hacker News ranking                *)
(* (sources/hn_scores.py), the market bars (sources/market.py) and the     *)
(* ALFRED vintages (sources/macro.py), each inside the Lambda handler.     *)
(*                                                                         *)
(* They differ from Ingest in what their State is for.  There is no        *)
(* position; the State says what content was seen last and since when it   *)
(* has not moved, and ops/health.py turns those two into the verdict of a  *)
(* dead feed.  Time is kept as ages: how long ago a timestamp was taken,   *)
(* counted up to one more than the longest SLA, which is all a comparison  *)
(* with an SLA can tell apart.                                             *)
(***************************************************************************)
EXTENDS Naturals

CONSTANTS
    Slots,        \* Lambda executions of this poller that may overlap
    Count,        \* bound: series, tickers or ranked items one poll asks for
    None,         \* an absent validator or timestamp
    FreshSla,     \* freshness_sla_seconds
    ContentSla,   \* content_staleness_sla_seconds
    MaxVersion    \* bound: versions of the content the upstream publishes

ASSUME CountAssumption == Count \in Nat \ {0}
ASSUME NoneAssumption == None \notin Nat
ASSUME SlaAssumption == FreshSla \in Nat /\ ContentSla \in Nat
ASSUME VersionAssumption == MaxVersion \in Nat \ {0}

VARIABLES
    kind,       \* which of the four pollers this deployment runs
    upstream,   \* the version of the content the upstream serves
    since,      \* age of that version
    saved,      \* the State item in DynamoDB
    staged,     \* documents in the staging prefix
    run         \* what each execution is doing
    
vars == <<kind, upstream, since, saved, staged, run>>

-----------------------------------------------------------------------------

Kinds == {"feed", "scores", "market", "macro"}

Versions == 1..MaxVersion

(* What a failed request leaves in place of a version: the text of the     *)
(* failure, which is the payload of its ERROR document.                    *)
Fault == 0

(* The place of the ranking itself, asked for before its items.            *)
Ranking == 0

(* The requests of one poll that become documents.                         *)
Asked == IF kind = "feed" THEN {1} ELSE 1..Count

Answers == (0..Count) \X (0..MaxVersion)

Oldest == (IF FreshSla < ContentSla THEN ContentSla ELSE FreshSla) + 1

Ages == 0..Oldest

(* Ages stop growing where no SLA can tell them apart any more.            *)
Older(age) == IF age = None \/ age = Oldest THEN age ELSE age + 1

(* What each poller's content hash may be taken over.  The text of a       *)
(* failure moves the hash of the market and of no other.                   *)
Hashable == (IF kind = "scores" THEN {Ranking} ELSE Asked) \X
            (IF kind = "market" THEN 0..MaxVersion ELSE Versions)

(* A content hash is the set of answers it was taken over, {} when there   *)
(* is none: equal hashes are equal answers.  Failures are counted as none  *)
(* or some.                                                                *)
State == [etag    : Versions \cup {None},
          hash    : SUBSET Hashable,
          success : Ages \cup {None},
          change  : Ages \cup {None}]

FreshState == [etag |-> None, hash |-> {}, 
               success |-> None, change |-> None]

Idle == [pc |-> "idle", state |-> FreshState, got |-> {}]

(* A source's first poll finds no item.  One whose item was written before *)
(* the content fields existed has a validator and no content clock.        *)
Init ==
    /\ kind \in Kinds
    /\ upstream = 1
    /\ since = 0
    /\ \/ saved = FreshState /\ staged = {}
       \/ /\ kind = "feed"
          /\ saved = [etag |-> 1, hash |-> {}, 
                      success |-> 0, change |-> None]
          /\ staged = {<<1, 1>>}
    /\ run = [s \in Slots |-> Idle]

-----------------------------------------------------------------------------
(***************************************************************************)
(* One invocation.                                                         *)
(***************************************************************************)

Becomes(s, pc, state, got) ==
    run' = [run EXCEPT ![s] = [pc |-> pc, state |-> state, got |-> got]]

UpstreamUnchanged == UNCHANGED <<kind, upstream, since>>

(* handler: store.load.                                                    *)
Load(s) ==
    /\ run[s].pc = "idle"
    /\ Becomes(s, "asking", saved, {})
    /\ UNCHANGED <<saved, staged>>
    /\ UpstreamUnchanged

(* The State after a poll that counts as a success.                        *)
Succeeded(etag, hash, change) ==
    [etag |-> etag, hash |-> hash,
     success |-> 0, change |-> change]

(* Mutant: the clock runs from the first body on, whatever follows.        *)
FirstBodyOnly(old, hash) == IF old.hash = {} THEN 0 ELSE old.change

(* The content clock restarts when the hash moves; a first hash moves it.  *)
ChangeAfter(old, hash) == IF hash # old.hash THEN 0 ELSE old.change

(* Mutant: a 304 leaves a clock that was never started alone.              *)
NotModifiedUnseeded(s) ==
    /\ kind = "feed"
    /\ run[s].pc = "asking"
    /\ run[s].state.etag = upstream
    /\ LET old == run[s].state
       IN  Becomes(s, "storing", Succeeded(old.etag, old.hash, old.change), {})
    /\ UNCHANGED <<saved, staged>>
    /\ UpstreamUnchanged

(* poll_feed: 304.  It starts the content clock if nothing has and moves   *)
(* it in no other case.                                                    *)
NotModified(s) ==
    /\ kind = "feed"
    /\ run[s].pc = "asking"
    /\ run[s].state.etag = upstream
    /\ LET old == run[s].state
       IN  Becomes(s, "storing",
                   Succeeded(old.etag, old.hash,
                             IF old.change = None THEN 0 ELSE old.change), {})
    /\ UNCHANGED <<saved, staged>>
    /\ UpstreamUnchanged

(* poll_feed: a body.  An answer without a validator keeps the old one,    *)
(* which names the body it came with and not this one.                     *)
FeedAnswers(s) ==
    /\ kind = "feed"
    /\ run[s].pc = "asking"
    /\ \E etag \in {upstream, run[s].state.etag} :
          LET old == run[s].state
              got == {<<1, upstream>>}
          IN  Becomes(s, "storing",
                      Succeeded(etag, got, ChangeAfter(old, got)), got)
    /\ UNCHANGED <<saved, staged>>
    /\ UpstreamUnchanged

(* Mutant: a failed fetch records the validator that came with it.         *)
FeedFailsAnew(s) ==
    /\ kind = "feed"
    /\ run[s].pc = "asking"
    /\ Becomes(s, "storing", [run[s].state EXCEPT !.etag = upstream],
               {<<1, Fault>>})
    /\ UNCHANGED <<saved, staged>>
    /\ UpstreamUnchanged

(* Mutant: a failed fetch records the hash of its failure text.            *)
FeedFailsHashed(s) ==
    /\ kind = "feed"
    /\ run[s].pc = "asking"
    /\ Becomes(s, "storing", [run[s].state EXCEPT !.hash = {<<1, Fault>>}],
               {<<1, Fault>>})
    /\ UNCHANGED <<saved, staged>>
    /\ UpstreamUnchanged

(* _error_result: an ERROR document, and the validator is kept.            *)
FeedFails(s) ==
    /\ kind = "feed"
    /\ run[s].pc = "asking"
    /\ Becomes(s, "storing", run[s].state, {<<1, Fault>>})
    /\ UNCHANGED <<saved, staged>>
    /\ UpstreamUnchanged

(* hn_scores.poll: no ranking, so no document.                             *)
RankingFails(s) ==
    /\ kind = "scores"
    /\ run[s].pc = "asking"
    /\ Becomes(s, "storing", run[s].state, {})
    /\ UNCHANGED <<saved, staged>>
    /\ UpstreamUnchanged

(* macro._error_batch: the key cannot be read.  One ERROR document per     *)
(* series, and a State built from nothing.                                 *)
KeyFails(s) ==
    /\ kind = "macro"
    /\ run[s].pc = "asking"
    /\ Becomes(s, "storing", FreshState, {<<i, Fault>> : i \in Asked})
    /\ UNCHANGED <<saved, staged>>
    /\ UpstreamUnchanged

(* What each poller takes its content hash over: the ranking, every        *)
(* payload and failure text, or the payloads alone.                        *)
Hashed(answers) ==
    CASE kind = "scores" -> {<<Ranking, upstream>>}
      [] kind = "macro"  -> {a \in answers : a[2] # Fault}
      [] OTHER           -> answers

(* _fetch_item, _fetch_ticker, _fetch_series for each place of the list:   *)
(* what was served, or the text of the failure.  Then the poll returns.    *)
(* Only macro looks at whether anything was answered at all.               *)
Walk(s, faulty) ==
    LET old     == run[s].state
        answers == {<<i, IF i \in faulty THEN Fault ELSE upstream>> : i \in Asked}
        hash    == Hashed(answers)
    IN  /\ kind # "feed"
        /\ run[s].pc = "asking"
        /\ Becomes(s, "storing",
                   IF hash = {} THEN old
                   ELSE Succeeded(old.etag, hash, ChangeAfter(old, hash)),
                   answers)
        /\ UNCHANGED <<saved, staged>>
        /\ UpstreamUnchanged

(* write_staging: one object per hour, the earlier hour first.  The walk   *)
(* may cross an hour anywhere.                                             *)
PutObject(s) ==
    /\ run[s].pc = "storing"
    /\ \E cut \in Asked :
          LET object == {a \in run[s].got : a[1] <= cut}
          IN  /\ object # {}
              /\ staged' = staged \cup object
              /\ Becomes(s, "storing", run[s].state, run[s].got \ object)
    /\ UNCHANGED saved
    /\ UpstreamUnchanged

(* Mutant: the State is saved before the documents are staged.             *)
SaveFirst(s) ==
    /\ run[s].pc = "storing"
    /\ saved' = run[s].state
    /\ IF run[s].got = {} THEN Becomes(s, "idle", FreshState, {})
                          ELSE UNCHANGED run
    /\ UNCHANGED staged
    /\ UpstreamUnchanged

(* handler: store.save, the whole item at once, after every object.        *)
Save(s) ==
    /\ run[s].pc = "storing"
    /\ run[s].got = {}
    /\ saved' = run[s].state
    /\ Becomes(s, "idle", FreshState, {})
    /\ UNCHANGED staged
    /\ UpstreamUnchanged

(* The Lambda dies between two steps.                                      *)
Crash(s) ==
    /\ run[s].pc # "idle"
    /\ Becomes(s, "idle", FreshState, {})
    /\ UNCHANGED <<saved, staged>>
    /\ UpstreamUnchanged

-----------------------------------------------------------------------------
(***************************************************************************)
(* The surroundings.                                                       *)
(***************************************************************************)

Publish ==
    /\ upstream < MaxVersion
    /\ upstream' = upstream + 1
    /\ since' = 0
    /\ UNCHANGED <<kind, saved, staged, run>>

Aged(state) == [etag |-> state.etag, hash |-> state.hash,
                success |-> Older(state.success),
                change |-> Older(state.change)]

Tick ==
    /\ since' = Older(since)
    /\ saved' = Aged(saved)
    /\ run' = [s \in Slots |-> [pc |-> run[s].pc, state |-> Aged(run[s].state),
                                got |-> run[s].got]]
    /\ UNCHANGED <<kind, upstream, staged>>

(* Steps of an invocation in which something fails.                        *)
Trouble(s) ==
    \/ FeedFails(s) \/ RankingFails(s) \/ KeyFails(s) \/ Crash(s)
    \/ \E faulty \in (SUBSET Asked) \ {{}} : Walk(s, faulty)

Step(s) ==
    \/ Load(s) \/ NotModified(s) \/ FeedAnswers(s) \/ FeedFails(s)
    \/ RankingFails(s) \/ KeyFails(s)
    \/ \E faulty \in SUBSET Asked : Walk(s, faulty)
    \/ PutObject(s) \/ Save(s)

Next ==
    \/ \E s \in Slots : Step(s) \/ Crash(s)
    \/ Publish \/ Tick

(* Time passes; EventBridge keeps invoking and the Lambda keeps running.   *)
Fairness == WF_vars(Tick) /\ \A s \in Slots : WF_vars(Step(s))

Spec == Init /\ [][Next]_vars /\ Fairness

-----------------------------------------------------------------------------
(***************************************************************************)
(* ops/health.assess_source, the statuses that read the State.             *)
(***************************************************************************)

Status(state) ==
    CASE state.success = None -> "never_succeeded"
      [] state.success # None /\ state.success > FreshSla -> "stale"
      [] /\ state.success # None /\ state.success <= FreshSla
         /\ state.change # None /\ state.change > ContentSla -> "dead_feed"
      [] OTHER -> "ok"

-----------------------------------------------------------------------------

(* Type invariant of the State item, the executions and the staging prefix.*)
(* What a poller must not hash is in no State, whatever failed.            *)
TypeOK ==
    /\ kind \in Kinds
    /\ upstream \in Versions
    /\ since \in Ages
    /\ saved \in State
    /\ staged \subseteq Answers
    /\ run \in [Slots -> [pc : {"idle", "asking", "storing"},
                          state : State,
                          got : SUBSET Answers]]

(* What the saved State stands for is staged: the body its validator names,*)
(* so that a 304 never answers for a body nobody kept, and every payload   *)
(* its content hash was taken over.  The handler's order, stage then save, *)
(* under crashes, hour boundaries and overlapping executions.              *)
Acknowledged ==
    /\ saved.etag # None => <<1, saved.etag>> \in staged
    /\ kind # "scores" => saved.hash \subseteq staged

(* The dead-feed clock never counts more time than the content it vouches  *)
(* for has stood still: if the State has seen what the upstream serves,    *)
(* its clock started after that version appeared.  "Late to flag, never    *)
(* early" (feed.py), for saves that overlap and regress as well.           *)
NeverEarly ==
    (\E a \in saved.hash : a[2] = upstream)
       => saved.change # None /\ saved.change <= since

(* Failures and crashes end.                                               *)
Calm == <>[][\A s \in Slots : ~Trouble(s)]_vars

(* Executions stop overlapping.                                            *)
Serial == \A s, t \in Slots : s = t \/ run[s].pc = "idle" \/ run[t].pc = "idle"

(* A source whose content has stopped moving is reported for good: by its  *)
(* content clock, or, if its polls stop too, by its success clock.  A feed *)
(* and the ranking need only that polls stop overlapping, since a poll that*)
(* saves an older State over a newer one restarts the clock.  The market   *)
(* and macro hashes move with which requests failed, so there failures must*)
(* end as well.                                                            *)
DeadFeedReported ==
    <>[]Serial /\ (kind \in {"feed", "scores"} \/ Calm)
       => <>[](Status(saved) # "ok")

(* Once failures end, what the upstream serves ends up staged: neither a   *)
(* 304 nor a lost save hides it for good.                                  *)
UpToDate ==
    Calm => []<>(\A i \in Asked : <<i, upstream>> \in staged)
=============================================================================
