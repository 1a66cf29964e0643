--------------------------- MODULE PollersProofs ---------------------------
(***************************************************************************)
(* What a re-reading poller has acknowledged is staged, and its dead-feed  *)
(* clock is never early: for any number of overlapping executions, of      *)
(* series, of versions and any SLAs.                                       *)
(*                                                                         *)
(* Both are stated of the saved State, and a save copies the State of an   *)
(* execution.  So the invariant says them of every State in flight as      *)
(* well, counting the documents the execution still has to stage; and it   *)
(* adds that no State has seen a version that is not published yet, which  *)
(* is why a new version cannot be in a hash with an older clock.           *)
(***************************************************************************)
EXTENDS Pollers, TLAPS

(* What holds of a State whose documents are staged or in docs.            *)
Accounted(state, docs) ==
    /\ state.etag # None => <<1, state.etag>> \in staged \cup docs
    /\ kind # "scores" => state.hash \subseteq staged \cup docs

Honest(state) ==
    /\ \A a \in state.hash : a[2] <= upstream
    /\ (\E a \in state.hash : a[2] = upstream)
          => state.change # None /\ state.change <= since

IInv ==
    /\ TypeOK
    /\ Accounted(saved, {})
    /\ Honest(saved)
    /\ \A s \in Slots : /\ run[s].pc = "asking" => run[s].got = {}
                        /\ Accounted(run[s].state, run[s].got)
                        /\ Honest(run[s].state)

USE CountAssumption, NoneAssumption, SlaAssumption, VersionAssumption

LEMMA AgesType ==
    /\ Oldest \in Nat /\ 0 \in Ages
    /\ \A age \in Ages \cup {None} : Older(age) \in Ages \cup {None}
    /\ \A age \in Ages : Older(age) \in Ages
    /\ \A age, other \in Ages : age <= other => Older(age) <= Older(other)
  BY DEF Oldest, Ages, Older

LEMMA FreshType == FreshState \in State /\ Fault \in Nat
  BY DEF FreshState, State, Fault

(* A deployment runs one poller.                                           *)
LEMMA SameKind == kind' = kind => State' = State
  <1>1. kind' = kind => Hashable' = Hashable
    BY DEF Hashable, Asked
  <1> QED  BY <1>1 DEF State

(* A step that gives one execution a new record leaves the others alone.   *)
LEMMA OneBecomes ==
    ASSUME TypeOK, NEW s \in Slots, NEW pc \in {"idle", "asking", "storing"},
           NEW state \in State, NEW got \in SUBSET Answers,
           Becomes(s, pc, state, got)
    PROVE  /\ \A t \in Slots : run'[t] = IF t = s
                 THEN [pc |-> pc, state |-> state, got |-> got] ELSE run[t]
           /\ run' \in [Slots -> [pc : {"idle", "asking", "storing"},
                                  state : State, got : SUBSET Answers]]
  <1>1. [pc |-> pc, state |-> state, got |-> got]
           \in [pc : {"idle", "asking", "storing"},
                state : State, got : SUBSET Answers]
    OBVIOUS
  <1> QED  BY <1>1 DEF Becomes, TypeOK

(* Any such step keeps the invariant if the new record is accounted for and*)
(* honest.                                                                 *)
LEMMA OneKeeps ==
    ASSUME IInv, NEW s \in Slots, NEW pc \in {"idle", "asking", "storing"},
           NEW state \in State, NEW got \in SUBSET Answers,
           Becomes(s, pc, state, got), UpstreamUnchanged,
           saved' \in State, staged' \subseteq Answers, staged \subseteq staged',
           pc = "asking" => got = {},
           Accounted(saved, {})', Honest(saved)',
           Accounted(state, got)', Honest(state)
    PROVE  IInv'
  <1>1. /\ \A t \in Slots : run'[t] = IF t = s
              THEN [pc |-> pc, state |-> state, got |-> got] ELSE run[t]
        /\ run' \in [Slots -> [pc : {"idle", "asking", "storing"},
                               state : State, got : SUBSET Answers]]
    BY OneBecomes DEF IInv
  <1>2. TypeOK'
    BY <1>1, SameKind DEF TypeOK, IInv, UpstreamUnchanged
  <1>3. ASSUME NEW t \in Slots
        PROVE  /\ run[t]'.pc = "asking" => run[t]'.got = {}
               /\ Accounted(run[t].state, run[t].got)'
               /\ Honest(run[t].state)'
    <2>1. CASE t = s
      <3>1. run'[t] = [pc |-> pc, state |-> state, got |-> got]
        BY <1>1, <2>1
      <3> QED  BY <3>1 DEF Accounted, Honest, UpstreamUnchanged
    <2>2. CASE t # s
      <3>1. run'[t] = run[t]
        BY <1>1, <2>2
      <3> QED  BY <3>1 DEF IInv, Accounted, Honest, UpstreamUnchanged
    <2> QED  BY <2>1, <2>2
  <1> QED  BY <1>2, <1>3 DEF IInv

(* The record an execution holds, and what IInv says of it.                *)
LEMMA Holds ==
    ASSUME IInv, NEW s \in Slots
    PROVE  /\ run[s].state \in State /\ run[s].got \in SUBSET Answers
           /\ saved \in State /\ staged \subseteq Answers
           /\ upstream \in Versions /\ since \in Ages
           /\ run[s].pc = "asking" => run[s].got = {}
           /\ Accounted(run[s].state, run[s].got) /\ Honest(run[s].state)
           /\ Accounted(saved, {}) /\ Honest(saved)
  BY DEF IInv, TypeOK

(* A step that leaves saved and staged alone leaves what is said of saved. *)
LEMMA SavedKept ==
    ASSUME IInv, UNCHANGED <<saved, staged>>, UpstreamUnchanged
    PROVE  /\ saved' \in State /\ staged' \subseteq Answers
           /\ staged \subseteq staged'
           /\ Accounted(saved, {})' /\ Honest(saved)'
  BY DEF IInv, TypeOK, Accounted, Honest, UpstreamUnchanged

LEMMA FreshKept ==
    /\ FreshState \in State /\ Honest(FreshState)
    /\ \A docs : Accounted(FreshState, docs)
    /\ \A docs : Accounted(FreshState, docs)'
  BY FreshType DEF FreshState, Honest, Accounted

LEMMA LoadKeeps == ASSUME IInv, NEW s \in Slots, Load(s) PROVE IInv'
  <1>1. PICK state \in State : state = saved
    BY Holds
  <1>2. Becomes(s, "asking", state, {}) /\ UpstreamUnchanged
    BY <1>1 DEF Load
  <1>3. Accounted(state, {})' /\ Honest(state)
    BY <1>1, Holds DEF Load, Accounted, Honest, UpstreamUnchanged
  <1> QED  BY <1>2, <1>3, OneKeeps, SavedKept DEF Load

(* The State after a success, of which the hash is new or not.             *)
LEMMA SucceededKeeps ==
    ASSUME IInv, NEW s \in Slots, run[s].pc = "asking",
           NEW etag \in Versions \cup {None}, NEW hash \in SUBSET Hashable,
           NEW got \in SUBSET Answers, NEW change \in Ages \cup {None},
           Becomes(s, "storing", Succeeded(etag, hash, change), got),
           UNCHANGED <<saved, staged>>, UpstreamUnchanged,
           Accounted(Succeeded(etag, hash, change), got),
           Honest(Succeeded(etag, hash, change))
    PROVE  IInv'
  <1>1. PICK state \in State : state = Succeeded(etag, hash, change)
    BY AgesType DEF Succeeded, State
  <1>2. Becomes(s, "storing", state, got) /\ Honest(state)
    BY <1>1
  <1>3. Accounted(state, got)
    BY <1>1
  <1>4. Accounted(state, got)'
    BY <1>3 DEF Accounted, UpstreamUnchanged
  <1> QED  BY <1>2, <1>4, OneKeeps, SavedKept

LEMMA NotModifiedKeeps ==
    ASSUME IInv, NEW s \in Slots, NotModified(s) PROVE IInv'
  <1> DEFINE old == run[s].state
             change == IF old.change = None THEN 0 ELSE old.change
  <1>1. old \in State /\ Accounted(old, {}) /\ Honest(old) /\ since \in Ages
    BY Holds DEF NotModified
  <1>2. /\ old.etag \in Versions \cup {None} /\ old.hash \in SUBSET Hashable
        /\ change \in Ages \cup {None}
    BY <1>1, AgesType DEF State
  <1>3. Succeeded(old.etag, old.hash, change)
           = [etag |-> old.etag, hash |-> old.hash,
              success |-> 0, change |-> change]
    BY DEF Succeeded
  <1>4. Accounted(Succeeded(old.etag, old.hash, change), {})
    BY <1>1, <1>3 DEF Accounted
  <1>5. Honest(Succeeded(old.etag, old.hash, change))
    BY <1>1, <1>3 DEF Honest
  <1>6. \A etag \in Versions \cup {None}, hash \in SUBSET Hashable,
            moved \in Ages \cup {None} :
          /\ Becomes(s, "storing", Succeeded(etag, hash, moved), {})
          /\ Accounted(Succeeded(etag, hash, moved), {})
          /\ Honest(Succeeded(etag, hash, moved))
          => IInv'
    BY SucceededKeeps DEF NotModified
  <1> QED  BY <1>2, <1>4, <1>5, <1>6 DEF NotModified

(* A hash over answers of one moment moves the clock unless it is the old  *)
(* hash, whose clock is honest already.                                    *)
LEMMA ChangeHonest ==
    ASSUME IInv, NEW s \in Slots, NEW hash \in SUBSET Hashable,
           \A a \in hash : a[2] <= upstream,
           NEW etag
    PROVE  /\ ChangeAfter(run[s].state, hash) \in Ages \cup {None}
           /\ Honest(Succeeded(etag, hash, ChangeAfter(run[s].state, hash)))
  <1> DEFINE old == run[s].state
             change == ChangeAfter(old, hash)
  <1>1. old \in State /\ Honest(old) /\ since \in Ages
    BY Holds
  <1>2. change = IF hash # old.hash THEN 0 ELSE old.change
    BY DEF ChangeAfter
  <1>3. change \in Ages \cup {None}
    BY <1>1, <1>2, AgesType DEF State
  <1>4. Succeeded(etag, hash, change) = [etag |-> etag, hash |-> hash,
                                         success |-> 0, change |-> change]
    BY DEF Succeeded
  <1>5. ASSUME \E a \in hash : a[2] = upstream
        PROVE  change # None /\ change <= since
    <2>1. CASE hash # old.hash
      BY <1>1, <1>2, <2>1, AgesType DEF Ages
    <2>2. CASE hash = old.hash
      BY <1>1, <1>2, <1>5, <2>2 DEF Honest
    <2> QED  BY <2>1, <2>2
  <1>6. Honest(Succeeded(etag, hash, change))
    BY <1>4, <1>5 DEF Honest
  <1> QED  BY <1>3, <1>6

LEMMA AnswerTypes ==
    /\ \A i \in Asked : i \in 0..Count /\ i \in Nat
    /\ upstream \in Versions =>
          /\ upstream \in 0..MaxVersion /\ upstream \in Nat
          /\ \A i \in 0..Count : <<i, upstream>> \in Answers
          /\ \A i \in 0..Count : <<i, Fault>> \in Answers
          /\ kind # "scores" => \A i \in Asked : <<i, upstream>> \in Hashable
          /\ kind = "scores" => <<Ranking, upstream>> \in Hashable
    /\ kind = "market" => \A i \in Asked : <<i, Fault>> \in Hashable
    /\ kind = "feed" => 1 \in Asked
    /\ 1 \in 0..Count
  BY DEF Asked, Versions, Answers, Hashable, Fault, Ranking

LEMMA FeedAnswersKeeps ==
    ASSUME IInv, NEW s \in Slots, FeedAnswers(s) PROVE IInv'
  <1> DEFINE old == run[s].state
             got == {<<1, upstream>>}
             change == ChangeAfter(old, got)
  <1>1. /\ old \in State /\ Accounted(old, {}) /\ upstream \in Versions
    BY Holds DEF FeedAnswers
  <1>2. /\ got \in SUBSET Answers /\ got \in SUBSET Hashable
        /\ \A a \in got : a[2] <= upstream
    BY <1>1, AnswerTypes DEF FeedAnswers
  <1>3. PICK etag \in {upstream, old.etag} :
          Becomes(s, "storing", Succeeded(etag, got, change), got)
    BY DEF FeedAnswers
  <1>4. etag \in Versions \cup {None}
    BY <1>1 DEF State
  <1>5. change \in Ages \cup {None} /\ Honest(Succeeded(etag, got, change))
    BY <1>2, ChangeHonest
  <1>6. Accounted(Succeeded(etag, got, change), got)
    BY <1>1 DEF Accounted, Succeeded
  <1>7. /\ \E hash \in SUBSET Hashable : hash = got
        /\ \E docs \in SUBSET Answers : docs = got
    BY <1>2
  <1> HIDE DEF got, change
  <1>9. PICK hash \in SUBSET Hashable, docs \in SUBSET Answers : hash = got /\ docs = got
    BY <1>7
  <1>8. PICK moved \in Ages \cup {None} : moved = change
    BY <1>5
  <1> QED
    BY <1>3, <1>4, <1>5, <1>6, <1>8, <1>9, SucceededKeeps DEF FeedAnswers

(* A poll that keeps the State it loaded, whatever documents it made.      *)
LEMMA OldKept ==
    ASSUME IInv, NEW s \in Slots, run[s].pc = "asking",
           NEW got \in SUBSET Answers,
           Becomes(s, "storing", run[s].state, got),
           UNCHANGED <<saved, staged>>, UpstreamUnchanged
    PROVE  IInv'
  <1>1. PICK state \in State : state = run[s].state
    BY Holds
  <1>2. Becomes(s, "storing", state, got) /\ Honest(state)
    BY <1>1, Holds
  <1>3. Accounted(state, got)'
    BY <1>1, Holds DEF Accounted, UpstreamUnchanged
  <1> QED  BY <1>2, <1>3, OneKeeps, SavedKept

LEMMA FeedFailsKeeps == ASSUME IInv, NEW s \in Slots, FeedFails(s) PROVE IInv'
  <1>1. {<<1, Fault>>} \in SUBSET Answers
    BY Holds, AnswerTypes
  <1>2. PICK got \in SUBSET Answers : got = {<<1, Fault>>}
    BY <1>1
  <1> QED  BY <1>2, OldKept DEF FeedFails

LEMMA RankingFailsKeeps ==
    ASSUME IInv, NEW s \in Slots, RankingFails(s) PROVE IInv'
  BY OldKept DEF RankingFails

LEMMA KeyFailsKeeps == ASSUME IInv, NEW s \in Slots, KeyFails(s) PROVE IInv'
  <1>1. {<<i, Fault>> : i \in Asked} \in SUBSET Answers
    BY Holds, AnswerTypes
  <1>2. PICK got \in SUBSET Answers : got = {<<i, Fault>> : i \in Asked}
    BY <1>1
  <1>3. PICK state \in State : state = FreshState
    BY FreshKept
  <1>4. Becomes(s, "storing", state, got)
    BY <1>2, <1>3 DEF KeyFails
  <1> QED  BY <1>3, <1>4, FreshKept, OneKeeps, SavedKept DEF KeyFails

LEMMA WalkKeeps ==
    ASSUME IInv, NEW s \in Slots, NEW faulty \in SUBSET Asked, Walk(s, faulty)
    PROVE  IInv'
  <1> DEFINE old == run[s].state
             got == {<<i, IF i \in faulty THEN Fault ELSE upstream>> : i \in Asked}
             hash == Hashed(got)
             change == ChangeAfter(old, hash)
  <1>1. /\ old \in State /\ Accounted(old, {}) /\ upstream \in Versions
    BY Holds DEF Walk
  <1>2. got \in SUBSET Answers /\ \A a \in got : a[2] <= upstream
    BY <1>1, AnswerTypes DEF Fault
  <1>3. <<Ranking, upstream>>[2] <= upstream
    BY <1>1, AnswerTypes
  <1>11. \A a \in got : \E i \in Asked : a = <<i, Fault>> \/ a = <<i, upstream>>
    OBVIOUS
  <1> HIDE DEF got
  <1>4. hash \in SUBSET Hashable /\ \A a \in hash : a[2] <= upstream
    <2>1. \A a \in hash : a[2] <= upstream
      BY <1>2, <1>3 DEF Hashed
    <2>2. CASE kind = "scores"
      BY <1>1, <2>2, AnswerTypes DEF Hashed
    <2>3. CASE kind = "market"
      <3>1. hash = got
        BY <2>3 DEF Hashed
      <3>2. \A a \in got : a \in Hashable
        BY <1>1, <1>11, <2>3, AnswerTypes
      <3> QED  BY <2>1, <3>1, <3>2
    <2>4. CASE kind = "macro"
      BY <1>1, <1>11, <2>4, AnswerTypes DEF Hashed, Fault
    <2> QED
      BY <2>1, <2>2, <2>3, <2>4, Holds DEF Walk, IInv, TypeOK, Kinds
  <1>5. kind # "scores" => hash \subseteq got
    BY DEF Hashed
  <1>6. old.etag \in Versions \cup {None}
    BY <1>1 DEF State
  <1> HIDE DEF hash
  <1>7. /\ change \in Ages \cup {None}
        /\ Honest(Succeeded(old.etag, hash, change))
    BY <1>4, ChangeHonest
  <1>8. Accounted(Succeeded(old.etag, hash, change), got)
    BY <1>1, <1>5 DEF Accounted, Succeeded
  <1>9. CASE hash = {}
    <2>1. Becomes(s, "storing", old, got)
      BY <1>9 DEF Walk, got, hash
    <2>2. PICK docs \in SUBSET Answers : docs = got
      BY <1>2
    <2> QED  BY <2>1, <2>2, OldKept DEF Walk
  <1>10. CASE hash # {}
    <2>1. Becomes(s, "storing", Succeeded(old.etag, hash, change), got)
      BY <1>10 DEF Walk, got, hash
    <2>2. /\ \E docs \in SUBSET Answers : docs = got
          /\ \E etag \in Versions \cup {None} : etag = old.etag
          /\ \E h \in SUBSET Hashable : h = hash
          /\ \E moved \in Ages \cup {None} : moved = change
      BY <1>2, <1>4, <1>6, <1>7
    <2> HIDE DEF change
    <2>3. PICK docs \in SUBSET Answers, etag \in Versions \cup {None},
               h \in SUBSET Hashable, moved \in Ages \cup {None} :
            docs = got /\ etag = old.etag /\ h = hash /\ moved = change
      BY <2>2
    <2>4. /\ Becomes(s, "storing", Succeeded(etag, h, moved), docs)
          /\ Accounted(Succeeded(etag, h, moved), docs)
          /\ Honest(Succeeded(etag, h, moved))
      BY <2>1, <2>3, <1>7, <1>8
    <2> QED  BY <2>4, SucceededKeeps DEF Walk
  <1> QED  BY <1>9, <1>10

LEMMA PutObjectKeeps == ASSUME IInv, NEW s \in Slots, PutObject(s) PROVE IInv'
  <1>1. PICK cut \in Asked :
          /\ staged' = staged \cup {a \in run[s].got : a[1] <= cut}
          /\ Becomes(s, "storing", run[s].state,
                     run[s].got \ {a \in run[s].got : a[1] <= cut})
    BY DEF PutObject
  <1> DEFINE rest == run[s].got \ {a \in run[s].got : a[1] <= cut}
  <1>2. PICK state \in State, got \in SUBSET Answers :
          state = run[s].state /\ got = rest
    BY Holds
  <1>3. staged \subseteq staged' /\ staged' \subseteq Answers
    BY <1>1, Holds
  <1>4. staged' \cup got = staged \cup run[s].got
    BY <1>1, <1>2
  <1>5. Accounted(state, got)'
    BY <1>2, <1>4, Holds DEF Accounted, PutObject, UpstreamUnchanged
  <1>6. Honest(state)
    BY <1>2, Holds
  <1>7. saved' \in State /\ Accounted(saved, {})' /\ Honest(saved)'
    BY <1>3, Holds DEF Accounted, Honest, PutObject, UpstreamUnchanged
  <1>8. Becomes(s, "storing", state, got) /\ UpstreamUnchanged
    BY <1>1, <1>2 DEF PutObject
  <1> QED  BY <1>3, <1>5, <1>6, <1>7, <1>8, OneKeeps

LEMMA SaveKeeps == ASSUME IInv, NEW s \in Slots, Save(s) PROVE IInv'
  <1>1. PICK state \in State : state = FreshState
    BY FreshKept
  <1>2. Becomes(s, "idle", state, {}) /\ UpstreamUnchanged
    BY <1>1 DEF Save
  <1>3. saved' \in State /\ staged' \subseteq Answers /\ staged \subseteq staged'
    BY Holds DEF Save
  <1>4. Accounted(saved, {})' /\ Honest(saved)'
    BY Holds DEF Save, Accounted, Honest, UpstreamUnchanged
  <1> QED  BY <1>1, <1>2, <1>3, <1>4, FreshKept, OneKeeps

LEMMA CrashKeeps == ASSUME IInv, NEW s \in Slots, Crash(s) PROVE IInv'
  <1>1. PICK state \in State : state = FreshState
    BY FreshKept
  <1>2. Becomes(s, "idle", state, {})
    BY <1>1 DEF Crash
  <1> QED  BY <1>1, <1>2, FreshKept, OneKeeps, SavedKept DEF Crash

(* A version nobody has seen is in no hash.                                *)
LEMMA PublishKeeps == ASSUME IInv, Publish PROVE IInv'
  <1>1. /\ kind' = kind /\ saved' = saved /\ staged' = staged /\ run' = run
        /\ upstream' = upstream + 1 /\ since' = 0
    BY DEF Publish
  <1>2. TypeOK'
    BY <1>1, AgesType, SameKind DEF IInv, TypeOK, Publish, Versions
  <1>3. ASSUME NEW state \in State, Honest(state)
        PROVE  /\ \A a \in state.hash : a[2] <= upstream + 1 /\ a[2] # upstream + 1
    <2>1. \A a \in state.hash : a[2] \in Nat /\ a[2] <= upstream
      BY <1>3 DEF State, Hashable, Versions, Honest
    <2>2. upstream \in Nat
      BY DEF IInv, TypeOK, Versions
    <2> QED  BY <2>1, <2>2
  <1>4. Honest(saved)'
    BY <1>1, <1>3 DEF Honest, IInv, TypeOK
  <1>5. Accounted(saved, {})'
    BY <1>1 DEF Accounted, IInv
  <1>6. ASSUME NEW s \in Slots
        PROVE  /\ run[s]'.pc = "asking" => run[s]'.got = {}
               /\ Accounted(run[s].state, run[s].got)'
               /\ Honest(run[s].state)'
    <2>1. run[s].state \in State /\ Honest(run[s].state)
      BY Holds
    <2>2. Honest(run[s].state)'
      BY <1>1, <1>3, <2>1 DEF Honest
    <2>3. Accounted(run[s].state, run[s].got)'
      BY <1>1, Holds DEF Accounted
    <2> QED  BY <1>1, <2>2, <2>3, Holds
  <1> QED  BY <1>2, <1>4, <1>5, <1>6 DEF IInv

LEMMA AgedHonest ==
    ASSUME NEW state \in State, Tick, IInv, Honest(state)
    PROVE  /\ Aged(state) \in State
           /\ \A a \in state.hash : a[2] <= upstream
           /\ (\E a \in state.hash : a[2] = upstream)
                 => Older(state.change) # None /\ Older(state.change) <= since'
  <1>1. /\ state.success \in Ages \cup {None} /\ state.change \in Ages \cup {None}
        /\ state.etag \in Versions \cup {None} /\ state.hash \in SUBSET Hashable
    BY DEF State
  <1>2. Aged(state) = [etag |-> state.etag, hash |-> state.hash,
                       success |-> Older(state.success),
                       change |-> Older(state.change)]
    BY DEF Aged
  <1>3. Aged(state) \in State
    BY <1>1, <1>2, AgesType DEF State
  <1>4. ASSUME \E a \in state.hash : a[2] = upstream
        PROVE  Older(state.change) # None /\ Older(state.change) <= since'
    <2>1. state.change \in Ages /\ state.change <= since /\ since \in Ages
      BY <1>1, <1>4 DEF Honest, IInv, TypeOK
    <2>2. Older(state.change) \in Ages /\ Older(state.change) <= Older(since)
      BY <2>1, AgesType
    <2> QED  BY <2>2 DEF Tick, Ages
  <1> QED  BY <1>3, <1>4 DEF Honest

LEMMA TickKeeps == ASSUME IInv, Tick PROVE IInv'
  <1>1. /\ kind' = kind /\ upstream' = upstream /\ staged' = staged
        /\ since' = Older(since) /\ saved' = Aged(saved)
    BY DEF Tick
  <1>2. /\ run' \in [Slots -> [pc : {"idle", "asking", "storing"},
                               state : State, got : SUBSET Answers]]
        /\ \A s \in Slots : /\ run'[s].pc = run[s].pc
                             /\ run'[s].state = Aged(run[s].state)
                             /\ run'[s].got = run[s].got
    <2>1. ASSUME NEW s \in Slots
          PROVE  [pc |-> run[s].pc, state |-> Aged(run[s].state), got |-> run[s].got]
                    \in [pc : {"idle", "asking", "storing"},
                         state : State, got : SUBSET Answers]
      <3>1. run[s].pc \in {"idle", "asking", "storing"} /\ run[s].state \in State
            /\ run[s].got \in SUBSET Answers /\ Honest(run[s].state)
        BY DEF IInv, TypeOK
      <3>2. Aged(run[s].state) \in State
        BY <3>1, AgedHonest
      <3> QED  BY <3>1, <3>2
    <2> QED  BY <2>1 DEF Tick
  <1>3. TypeOK'
    BY <1>1, <1>2, AgesType, AgedHonest, SameKind DEF IInv, TypeOK
  <1>4. \A state \in State : /\ Aged(state).etag = state.etag
                             /\ Aged(state).hash = state.hash
                             /\ Aged(state).change = Older(state.change)
    BY DEF Aged
  <1>5. Accounted(saved, {})'
    BY <1>1, <1>4 DEF Accounted, IInv, TypeOK
  <1>6. Honest(saved)'
    BY <1>1, <1>4, AgedHonest, Holds DEF Honest, IInv, TypeOK
  <1>7. ASSUME NEW s \in Slots
        PROVE  /\ run[s]'.pc = "asking" => run[s]'.got = {}
               /\ Accounted(run[s].state, run[s].got)'
               /\ Honest(run[s].state)'
    <2>1. run[s].state \in State /\ Honest(run[s].state)
      BY Holds
    <2>2. Honest(run[s].state)'
      BY <1>1, <1>2, <1>4, <2>1, AgedHonest DEF Honest
    <2>3. Accounted(run[s].state, run[s].got)'
      BY <1>1, <1>2, <1>4, <2>1, Holds, SMTT(30) DEF Accounted
    <2> QED  BY <1>2, <2>2, <2>3, Holds
  <1> QED  BY <1>3, <1>5, <1>6, <1>7 DEF IInv

LEMMA InitHolds == Init => IInv
  <1> SUFFICES ASSUME Init PROVE IInv
    OBVIOUS
  <1>1. Idle \in [pc : {"idle", "asking", "storing"}, state : State,
                  got : SUBSET Answers]
    BY FreshKept DEF Idle
  <1>2. saved \in State /\ staged \subseteq Answers
    <2>1. CASE saved = FreshState /\ staged = {}
      BY <2>1, FreshKept
    <2>2. CASE /\ saved = [etag |-> 1, hash |-> {}, success |-> 0, change |-> None]
               /\ staged = {<<1, 1>>}
      BY <2>2, AgesType DEF State, Versions, Answers
    <2> QED  BY <2>1, <2>2 DEF Init
  <1>3. TypeOK
    BY <1>1, <1>2, AgesType DEF Init, TypeOK, Versions
  <1>4. Accounted(saved, {}) /\ Honest(saved)
    <2>1. CASE saved = FreshState
      BY <2>1, FreshKept
    <2>2. CASE /\ saved = [etag |-> 1, hash |-> {}, success |-> 0, change |-> None]
               /\ staged = {<<1, 1>>}
      BY <2>2 DEF Accounted, Honest
    <2> QED  BY <2>1, <2>2 DEF Init
  <1>5. \A s \in Slots : run[s] = Idle
    BY DEF Init
  <1> QED  BY <1>3, <1>4, <1>5, FreshKept DEF IInv, Idle

LEMMA NextKeeps == IInv /\ [Next]_vars => IInv'
  <1> SUFFICES ASSUME IInv, [Next]_vars PROVE IInv'
    OBVIOUS
  <1>1. CASE UNCHANGED vars
    BY <1>1, SameKind DEF vars, IInv, TypeOK, Accounted, Honest
  <1>2. ASSUME NEW s \in Slots, Step(s) PROVE IInv'
    BY <1>2, LoadKeeps, NotModifiedKeeps, FeedAnswersKeeps, FeedFailsKeeps,
       RankingFailsKeeps, KeyFailsKeeps, WalkKeeps, PutObjectKeeps, SaveKeeps
       DEF Step
  <1> QED  BY <1>1, <1>2, CrashKeeps, PublishKeeps, TickKeeps DEF Next

(* The State item, the executions and the staging prefix keep their types, *)
(* and no State holds a hash of what its poller does not hash.             *)
THEOREM PollersTypeCorrect == Spec => []TypeOK
  <1>1. IInv => TypeOK
    BY DEF IInv
  <1> QED  BY InitHolds, NextKeeps, <1>1, PTL DEF Spec

(* Nothing is acknowledged, by validator or by hash, that is not staged.   *)
THEOREM PollersAcknowledged == Spec => []Acknowledged
  <1>1. IInv => Acknowledged
    BY DEF IInv, Accounted, Acknowledged
  <1> QED  BY InitHolds, NextKeeps, <1>1, PTL DEF Spec

(* The dead-feed clock is never early.                                     *)
THEOREM PollersNeverEarly == Spec => []NeverEarly
  <1>1. IInv => NeverEarly
    BY DEF IInv, Honest, NeverEarly
  <1> QED  BY InitHolds, NextKeeps, <1>1, PTL DEF Spec
=============================================================================
