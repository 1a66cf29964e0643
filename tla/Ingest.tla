------------------------------- MODULE Ingest -------------------------------
(***************************************************************************)
(* The ingestion half of Signal Brief for a source that is read by         *)
(* position: the Hacker News poller inside its Lambda handler, the         *)
(* DynamoDB item that holds its State, and the S3 staging prefix.          *)
(*                                                                         *)
(* An invocation loads the State, asks Hacker News for its newest id, walks*)
(* the ids above the watermark one request at a time, stages one object    *)
(* per (date, hour) partition and only then saves the new State.  It can   *)
(* die between any two of these steps.  A slot is one execution AWS allows *)
(* at a time: one slot is reserved concurrency 1, two slots are the        *)
(* unreserved default of infra/terraform/main/lambda.tf.                   *)
(***************************************************************************)
EXTENDS Integers

CONSTANTS
    Slots,        \* Lambda executions of this poller that may overlap
    Batch,        \* MAX_ITEMS_PER_POLL
    Seed,         \* watermark already stored when the model starts, or None
    None,         \* an absent watermark
    MayCrash,     \* whether an invocation may die part way
    MaxItem,      \* bound: newest id Hacker News reaches
    MaxFailures   \* bound: consecutive_failures counted

ASSUME BatchAssumption == Batch \in Nat \ {0}
ASSUME BoundsAssumption == MaxItem \in Nat /\ MaxFailures \in Nat
ASSUME NoneAssumption == None \notin Nat
ASSUME SeedAssumption == Seed \in (0..MaxItem) \cup {None}
ASSUME MayCrashAssumption == MayCrash \in BOOLEAN

VARIABLES
    frontier,   \* /maxitem.json: the newest id Hacker News has given out
    saved,      \* the State item in DynamoDB
    staged,     \* documents in the staging prefix
    run         \* what each slot is doing

vars == <<frontier, saved, staged, run>>

-----------------------------------------------------------------------------

(* An answer, null for an item that is gone, or none.                      *)
Outcomes == {"answered", "error"}

Items == 1..MaxItem

(* The fields of State this poller reads back: its position and its streak *)
(* of failures.                                                            *)
State == [watermark : Nat \cup {None}, failures : Nat]

(* A document and the half of an hour boundary it was fetched on: a poll   *)
(* takes minutes at most, so it sees one boundary or none.                 *)
Document == [item : Nat, outcome : Outcomes, part : {0, 1}]

Idle == [pc |-> "idle", state |-> [watermark |-> None, failures |-> 0],
         next |-> 1, last |-> 0, part |-> 0, docs |-> {}]

Fetching(s) == run[s].pc = "items" /\ run[s].next <= run[s].last

Fetched(s) == run[s].pc = "items" /\ run[s].next > run[s].last

(* The ids that have a staged document, whatever its outcome.              *)
StagedItems == {d.item : d \in staged}

(***************************************************************************)
(* Steps of one invocation.                                                *)
(***************************************************************************)

Init ==
    /\ frontier \in 1..MaxItem
    /\ Seed # None => Seed <= frontier
    /\ saved = [watermark |-> Seed, failures |-> 0]
    /\ staged = {}
    /\ run = [s \in Slots |-> Idle]

(* handler: store.load.                                                    *)
Load(s) ==
    /\ run[s].pc = "idle"
    /\ run' = [run EXCEPT ![s] = [Idle EXCEPT !.pc = "frontier",
                                              !.state = saved]]
    /\ UNCHANGED <<frontier, saved, staged>>

(* Mutant: a failed poll saves a fresh State, as macro's _error_batch does.*)
FrontierFailsFresh(s) ==
    /\ run[s].pc = "frontier"
    /\ run[s].state.failures < MaxFailures
    /\ run' = [run EXCEPT ![s].pc = "items",
                          ![s].state = [watermark |-> None, failures |-> 1]]
    /\ UNCHANGED <<frontier, saved, staged>>

(* Mutant: a failed poll counts the streak down.                           *)
FrontierFailsDown(s) ==
    /\ run[s].pc = "frontier"
    /\ run[s].state.failures < MaxFailures
    /\ run' = [run EXCEPT ![s].pc = "items",
                          ![s].state.failures = @ - 1]
    /\ UNCHANGED <<frontier, saved, staged>>

(* poll: maxitem could not be read, so there is nothing to fetch and the   *)
(* failure is counted.                                                     *)
FrontierFails(s) ==
    /\ run[s].pc = "frontier"
    /\ run[s].state.failures < MaxFailures
    /\ run' = [run EXCEPT ![s].pc = "items",
                          ![s].state.failures = @ + 1]
    /\ UNCHANGED <<frontier, saved, staged>>

(* Mutant: every poll starts at the frontier, not only the first.          *)
StartAtFrontier(watermark) == frontier

(* Mutant: a poll starts at the last id it has, not after it.              *)
StartAtWatermark(watermark) == IF watermark = None THEN frontier ELSE watermark

(* Where a poll starts.  A first-ever poll starts at the frontier.         *)
StartOf(watermark) == IF watermark = None THEN frontier ELSE watermark + 1

(* poll: the range of ids this invocation walks, at most Batch of them.    *)
FrontierKnown(s) ==
    LET start == StartOf(run[s].state.watermark)
        full  == start + Batch - 1
    IN  /\ run[s].pc = "frontier"
        /\ run' = [run EXCEPT ![s].pc = "items",
                              ![s].next = start,
                              ![s].last = IF full < frontier
                                          THEN full ELSE frontier,
                              ![s].state.failures = 0]
        /\ UNCHANGED <<frontier, saved, staged>>

(* poll, _fetch_item: every id answered or not becomes a document and moves*)
(* the watermark past it.                                                  *)
FetchItem(s) ==
    /\ Fetching(s)
    /\ \E outcome \in Outcomes, part \in {run[s].part, 1} :
          run' = [run EXCEPT
                    ![s].docs = @ \cup {[item |-> run[s].next,
                                         outcome |-> outcome,
                                         part |-> part]},
                    ![s].part = part,
                    ![s].next = @ + 1,
                    ![s].state.watermark = run[s].next]
    /\ UNCHANGED <<frontier, saved, staged>>

(* The documents write_staging puts in its next object: partitions are     *)
(* written in sorted order, the earlier hour first.                        *)
NextObject(s) ==
    LET early == {d \in run[s].docs : d.part = 0}
    IN  IF early # {} THEN early ELSE run[s].docs

(* Mutant: only the first partition of a poll is written.                  *)
PutFirstObject(s) ==
    /\ Fetched(s)
    /\ run[s].docs # {}
    /\ staged' = staged \cup {[item |-> d.item, outcome |-> d.outcome] :
                                d \in NextObject(s)}
    /\ run' = [run EXCEPT ![s].docs = {}]
    /\ UNCHANGED <<frontier, saved>>

(* write_staging: one put_object.                                          *)
PutObject(s) ==
    /\ Fetched(s)
    /\ run[s].docs # {}
    /\ staged' = staged \cup {[item |-> d.item, outcome |-> d.outcome] :
                                d \in NextObject(s)}
    /\ run' = [run EXCEPT ![s].docs = @ \ NextObject(s)]
    /\ UNCHANGED <<frontier, saved>>

(* Mutant: the handler saves before staging ("the other order").           *)
SaveFirst(s) ==
    /\ Fetched(s)
    /\ saved' = run[s].state
    /\ run' = [run EXCEPT ![s] = Idle]
    /\ UNCHANGED <<frontier, staged>>

(* handler: store.save, after the last object.  put_item replaces the whole*)
(* item, whoever wrote it last.                                            *)
Save(s) ==
    /\ Fetched(s)
    /\ run[s].docs = {}
    /\ saved' = run[s].state
    /\ run' = [run EXCEPT ![s] = Idle]
    /\ UNCHANGED <<frontier, staged>>

(* The invocation times out or raises: nothing local survives.             *)
Crash(s) ==
    /\ MayCrash
    /\ run[s].pc # "idle"
    /\ run' = [run EXCEPT ![s] = Idle]
    /\ UNCHANGED <<frontier, saved, staged>>

(* Hacker News gives out one more id.                                      *)
NewItem ==
    /\ frontier < MaxItem
    /\ frontier' = frontier + 1
    /\ UNCHANGED <<saved, staged, run>>

Step(s) ==
    \/ Load(s)
    \/ FrontierFails(s)
    \/ FrontierKnown(s)
    \/ FetchItem(s)
    \/ PutObject(s)
    \/ Save(s)

Next ==
    \/ NewItem
    \/ \E s \in Slots : Step(s) \/ Crash(s)

Spec == Init /\ [][Next]_vars

(* EventBridge keeps invoking the poller and a live Lambda keeps running;  *)
(* Hacker News need not ever publish another item.                         *)
Progress(s) ==
    Load(s) \/ FrontierKnown(s) \/ FetchItem(s) \/ PutObject(s) \/ Save(s)

Fairness == \A s \in Slots : WF_vars(Progress(s))

FairSpec == Spec /\ Fairness

-----------------------------------------------------------------------------

TypeOK ==
    /\ frontier \in Nat
    /\ saved \in State
    /\ staged \subseteq [item : Nat, outcome : Outcomes]
    /\ run \in [Slots -> [pc : {"idle", "frontier", "items"}, state : State,
                          next : Nat, last : Nat, part : {0, 1},
                          docs : SUBSET Document]]

(* Once a source has a watermark, every id from there to the saved         *)
(* watermark has a staged document, whatever crashed, failed or overlapped *)
(* in between: staging before saving is what makes a lost save harmless.   *)
NoGap == Seed # None => \A i \in (Seed + 1)..saved.watermark :
                            i \in StagedItems

(* What is staged has no hole: no id is missing between two staged ones.   *)
(* The handler and lambda.tf both promise duplicates, never loss, for a    *)
(* lost save and for overlapping invocations.                              *)
NoHole == \A i, k \in StagedItems : \A j \in i..k : j \in StagedItems

(* Why NoGap and NoHole hold: at every moment of every invocation its own  *)
(* watermark is covered by what is staged together with the documents it   *)
(* still holds, and the documents of the later hour are the later ids.     *)
Covered(delivered, watermark) ==
    /\ watermark \in Nat
    /\ watermark >= Seed
    /\ \A i \in (Seed + 1)..watermark : i \in delivered

Held(s) == {d.item : d \in run[s].docs}

LoadedOK(s) ==
    run[s].pc = "frontier" =>
        /\ Covered(StagedItems, run[s].state.watermark)
        /\ run[s].docs = {} /\ run[s].part = 0
        /\ run[s].next > run[s].last

WalkOK(s) ==
    run[s].pc = "items" =>
        /\ Covered(StagedItems \cup Held(s), run[s].state.watermark)
        /\ Fetching(s) => run[s].next = run[s].state.watermark + 1
        /\ \A d \in run[s].docs : d.item \in (Seed + 1)..run[s].state.watermark
        /\ \A d, e \in run[s].docs : d.part = 0 /\ e.item < d.item => e.part = 0
        /\ run[s].part = 0 => \A d \in run[s].docs : d.part = 0

StagedOK ==
    \A p \in StagedItems : p > Seed /\ Covered(StagedItems, p)

IInv ==
    /\ TypeOK
    /\ Covered(StagedItems, saved.watermark)
    /\ StagedOK
    /\ \A s \in Slots : LoadedOK(s) /\ WalkOK(s)

(* From some moment on no invocation dies and maxitem can be read.  (A Save*)
(* that finds nothing new to save is the same step as a Crash.)            *)
Recovered ==
    <>[][\A s \in Slots : (Crash(s) => Save(s)) /\ ~ FrontierFails(s)]_vars

(* If the failures end, every id Hacker News gives out is staged: the      *)
(* backlog of an outage is worked off Batch ids at a time.                 *)
CatchUp ==
    Recovered => \A i \in Items :
        (frontier >= i /\ Seed # None /\ i > Seed) ~> (i \in StagedItems)

(* The pollers, the State item and the staging prefix keep the promise of  *)
(* AtLeastOnce, with what is staged as delivered and the saved watermark as*)
(* the acknowledged position.                                              *)
Promise == INSTANCE AtLeastOnce WITH delivered <- StagedItems,
                                     acked <- saved.watermark

KeepsPromise == Promise!Spec

=============================================================================
