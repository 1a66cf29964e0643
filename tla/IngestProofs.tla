---------------------------- MODULE IngestProofs ----------------------------
(***************************************************************************)
(* Proofs about Ingest for any number of overlapping invocations, any      *)
(* batch size and any history of crashes and failures, once the source has *)
(* a watermark; and for one execution at a time.                           *)
(***************************************************************************)
EXTENDS MCIngest, FiniteSetTheorems, TLAPS

(* The types of all variables are kept by every step, seeded or not.       *)
LEMMA TypeInit == Init => TypeOK
  BY BoundsAssumption, SeedAssumption
  DEF Init, TypeOK, State, Idle, Document, Outcomes

LEMMA TypeStep == TypeOK /\ [Next]_vars => TypeOK'
<1> SUFFICES ASSUME TypeOK, [Next]_vars PROVE TypeOK'
  OBVIOUS
<1> USE DEF TypeOK
<1>1. CASE NewItem
  BY <1>1 DEF NewItem
<1>2. ASSUME NEW s \in Slots, Load(s) PROVE TypeOK'
  BY <1>2 DEF Load, Idle, State, Document
<1>3. ASSUME NEW s \in Slots, FrontierFails(s) PROVE TypeOK'
  BY <1>3 DEF FrontierFails, State
<1>4. ASSUME NEW s \in Slots, FrontierKnown(s) PROVE TypeOK'
  <2> DEFINE start == StartOf(run[s].state.watermark)
             full == start + Batch - 1
             top == IF full < frontier THEN full ELSE frontier
  <2>1. start \in Nat
    BY DEF StartOf, State
  <2>2. top \in Nat
    BY <2>1, BatchAssumption
  <2>3. [run[s].state EXCEPT !.failures = 0] \in State
    BY DEF State
  <2>4. /\ run' = [run EXCEPT ![s] = [run[s] EXCEPT !.pc = "items",
                      !.next = start, !.last = top,
                      !.state = [run[s].state EXCEPT !.failures = 0]]]
        /\ UNCHANGED <<frontier, saved, staged>>
    BY <1>4 DEF FrontierKnown
  <2> HIDE DEF start, top
  <2>5. [run[s] EXCEPT !.pc = "items", !.next = start, !.last = top,
                       !.state = [run[s].state EXCEPT !.failures = 0]]
          \in [pc : {"idle", "frontier", "items"}, state : State, next : Nat,
               last : Nat, part : {0, 1}, docs : SUBSET Document]
    BY <2>1, <2>2, <2>3
  <2> QED
    BY <2>4, <2>5
<1>5. ASSUME NEW s \in Slots, FetchItem(s) PROVE TypeOK'
  BY <1>5 DEF FetchItem, State, Document
<1>6. ASSUME NEW s \in Slots, PutObject(s) PROVE TypeOK'
  <2>1. \A d \in NextObject(s) : d \in Document
    BY DEF NextObject
  <2>2. staged' \subseteq [item : Nat, outcome : Outcomes]
    BY <1>6, <2>1 DEF PutObject, Document
  <2> QED
    BY <1>6, <2>2 DEF PutObject
<1>7. ASSUME NEW s \in Slots, Save(s) PROVE TypeOK'
  BY <1>7 DEF Save, Idle, State, Document
<1>8. ASSUME NEW s \in Slots, Crash(s) PROVE TypeOK'
  BY <1>8 DEF Crash, Idle, State, Document
<1>9. CASE UNCHANGED vars
  BY <1>9 DEF vars
<1> QED
  BY <1>1, <1>2, <1>3, <1>4, <1>5, <1>6, <1>7, <1>8, <1>9 DEF Next, Step

(* Type correctness of the poller, its State item and the staging prefix.  *)
THEOREM IngestTypeCorrect == Spec => []TypeOK
  BY TypeInit, TypeStep, PTL DEF Spec

-----------------------------------------------------------------------------

(* Being covered survives the delivery of more documents.                  *)
LEMMA CoveredGrows ==
  ASSUME NEW D, NEW E, NEW w, D \subseteq E, Covered(D, w)
  PROVE  Covered(E, w)
  BY DEF Covered

(* A slot that does not move keeps its part of the invariant while staging *)
(* grows.                                                                  *)
LEMMA OtherSlot ==
  ASSUME NEW s \in Slots, LoadedOK(s), WalkOK(s), run'[s] = run[s],
         StagedItems \subseteq StagedItems'
  PROVE  LoadedOK(s)' /\ WalkOK(s)'
<1>1. Held(s)' = Held(s)
  BY DEF Held
<1>2. LoadedOK(s)'
  BY CoveredGrows DEF LoadedOK
<1>3. StagedItems \cup Held(s) \subseteq StagedItems' \cup Held(s)'
  BY <1>1
<1>4. ASSUME run[s].pc = "items"
      PROVE  Covered(StagedItems' \cup Held(s)', run[s].state.watermark)
  BY <1>3, <1>4, CoveredGrows DEF WalkOK
<1>5. Fetching(s)' = Fetching(s)
  BY DEF Fetching
<1>6. WalkOK(s)'
  BY <1>1, <1>4, <1>5 DEF WalkOK
<1> QED
  BY <1>2, <1>6

(* The moving slot s keeps the invariant; the others follow from OtherSlot.*)
LEMMA OneSlotMoves ==
  ASSUME IInv, TypeOK', NEW s \in Slots,
         \A r \in Slots \ {s} : run'[r] = run[r],
         StagedItems \subseteq StagedItems',
         Covered(StagedItems', saved'.watermark),
         StagedOK', LoadedOK(s)', WalkOK(s)'
  PROVE  IInv'
<1>1. \A r \in Slots : LoadedOK(r)' /\ WalkOK(r)'
  BY OtherSlot DEF IInv
<1> QED
  BY <1>1 DEF IInv

LEMMA InvInit == Seed \in Nat /\ Init => IInv
<1> SUFFICES ASSUME Seed \in Nat, Init PROVE IInv
  OBVIOUS
<1>1. TypeOK
  BY TypeInit
<1>2. StagedItems = {}
  BY DEF Init, StagedItems
<1>3. Covered(StagedItems, saved.watermark)
  BY DEF Init, Covered
<1>4. \A s \in Slots : run[s].pc = "idle"
  BY DEF Init, Idle
<1> QED
  BY <1>1, <1>2, <1>3, <1>4 DEF IInv, StagedOK, LoadedOK, WalkOK

(* A slot that has just become idle satisfies its part of the invariant.   *)
LEMMA IdleSlot ==
  ASSUME NEW s \in Slots, run'[s] = Idle
  PROVE  LoadedOK(s)' /\ WalkOK(s)'
  BY DEF Idle, LoadedOK, WalkOK

(* Loading: what is saved is covered.                                      *)
LEMMA LoadKeeps ==
  ASSUME IInv, TypeOK', NEW s \in Slots, Load(s)
  PROVE  IInv'
<1>1. run'[s] = [Idle EXCEPT !.pc = "frontier", !.state = saved]
  BY DEF Load, IInv, TypeOK
<1>2. \A r \in Slots \ {s} : run'[r] = run[r]
  BY DEF Load, IInv, TypeOK
<1>3. saved' = saved /\ StagedItems' = StagedItems
  BY DEF Load, StagedItems
<1>4. LoadedOK(s)' /\ WalkOK(s)'
  BY <1>1, <1>3 DEF LoadedOK, WalkOK, Idle, IInv
<1>5. Covered(StagedItems', saved'.watermark) /\ StagedOK'
  BY <1>3 DEF IInv, StagedOK
<1> QED
  BY <1>2, <1>3, <1>4, <1>5, OneSlotMoves

(* A poll that could not read maxitem keeps the watermark it loaded and    *)
(* holds no document.                                                      *)
LEMMA FrontierFailsKeeps ==
  ASSUME IInv, TypeOK', NEW s \in Slots, FrontierFails(s)
  PROVE  IInv'
<1>1. /\ run'[s].pc = "items"
      /\ run'[s].state.watermark = run[s].state.watermark
      /\ run'[s].docs = run[s].docs
      /\ run'[s].part = run[s].part
      /\ run'[s].next = run[s].next
      /\ run'[s].last = run[s].last
      /\ run[s].pc = "frontier"
  BY DEF FrontierFails, IInv, TypeOK, State
<1>2. \A r \in Slots \ {s} : run'[r] = run[r]
  BY DEF FrontierFails, IInv, TypeOK
<1>3. saved' = saved /\ StagedItems' = StagedItems
  BY DEF FrontierFails, StagedItems
<1>4. Covered(StagedItems, run[s].state.watermark) /\ run[s].docs = {}
  BY <1>1 DEF IInv, LoadedOK
<1>5. Held(s)' = {}
  BY <1>1, <1>4 DEF Held
<1>6. ~ Fetching(s)'
  BY <1>1 DEF Fetching, IInv, LoadedOK, TypeOK
<1>7. LoadedOK(s)' /\ WalkOK(s)'
  BY <1>1, <1>3, <1>4, <1>5, <1>6 DEF LoadedOK, WalkOK
<1>8. Covered(StagedItems', saved'.watermark) /\ StagedOK'
  BY <1>3 DEF IInv, StagedOK
<1> QED
  BY <1>2, <1>3, <1>7, <1>8, OneSlotMoves

(* A poll starts right above the watermark it loaded.                      *)
LEMMA FrontierKnownKeeps ==
  ASSUME IInv, TypeOK', NEW s \in Slots, FrontierKnown(s)
  PROVE  IInv'
<1>1. /\ run'[s].pc = "items"
      /\ run'[s].state.watermark = run[s].state.watermark
      /\ run'[s].docs = run[s].docs
      /\ run'[s].part = run[s].part
      /\ run'[s].next = StartOf(run[s].state.watermark)
      /\ run[s].pc = "frontier"
  BY SMTT(30) DEF FrontierKnown, IInv, TypeOK, State
<1>2. \A r \in Slots \ {s} : run'[r] = run[r]
  BY DEF FrontierKnown, IInv, TypeOK
<1>3. saved' = saved /\ StagedItems' = StagedItems
  BY DEF FrontierKnown, StagedItems
<1>4. Covered(StagedItems, run[s].state.watermark) /\ run[s].docs = {}
  BY <1>1 DEF IInv, LoadedOK
<1>5. Held(s)' = {}
  BY <1>1, <1>4 DEF Held
<1>6. run'[s].next = run'[s].state.watermark + 1
  BY <1>1, <1>4, NoneAssumption DEF StartOf, Covered
<1>7. LoadedOK(s)' /\ WalkOK(s)'
  BY <1>1, <1>3, <1>4, <1>5, <1>6 DEF LoadedOK, WalkOK
<1>8. Covered(StagedItems', saved'.watermark) /\ StagedOK'
  BY <1>3 DEF IInv, StagedOK
<1> QED
  BY <1>2, <1>3, <1>7, <1>8, OneSlotMoves

(* Fetching an id moves the watermark past it and holds its document.      *)
LEMMA FetchItemKeeps ==
  ASSUME IInv, TypeOK', NEW s \in Slots, FetchItem(s), Seed \in Nat
  PROVE  IInv'
<1> DEFINE n == run[s].next
<1>1. PICK outcome \in Outcomes, part \in {run[s].part, 1} :
        run' = [run EXCEPT
                    ![s].docs = @ \cup {[item |-> n, outcome |-> outcome,
                                         part |-> part]},
                    ![s].part = part,
                    ![s].next = @ + 1,
                    ![s].state.watermark = n]
  BY DEF FetchItem
<1> DEFINE doc == [item |-> n, outcome |-> outcome, part |-> part]
<1>2. /\ run'[s].pc = run[s].pc
      /\ run'[s].docs = run[s].docs \cup {doc}
      /\ run'[s].part = part
      /\ run'[s].next = n + 1
      /\ run'[s].state.watermark = n
  BY <1>1 DEF IInv, TypeOK, State
<1>3. \A r \in Slots \ {s} : run'[r] = run[r]
  BY <1>1 DEF IInv, TypeOK
<1>4. saved' = saved /\ StagedItems' = StagedItems
  BY DEF FetchItem, StagedItems
<1>5. /\ run[s].pc = "items"
      /\ Covered(StagedItems \cup Held(s), run[s].state.watermark)
      /\ n = run[s].state.watermark + 1
      /\ \A d \in run[s].docs : d.item \in (Seed + 1)..run[s].state.watermark
      /\ \A d, e \in run[s].docs : d.part = 0 /\ e.item < d.item => e.part = 0
      /\ run[s].part = 0 => \A d \in run[s].docs : d.part = 0
  BY DEF FetchItem, Fetching, IInv, WalkOK
<1>6. Held(s)' = Held(s) \cup {n}
  <2>1. Held(s)' = {d.item : d \in run[s].docs \cup {doc}}
    BY <1>2 DEF Held
  <2>2. doc.item = n
    OBVIOUS
  <2> QED
    BY <2>1, <2>2 DEF Held
<1>7. Covered(StagedItems' \cup Held(s)', n)
  BY <1>4, <1>5, <1>6 DEF Covered
<1> HIDE DEF n
<1>8. \A d \in run'[s].docs : d.item \in (Seed + 1)..n
  BY <1>2, <1>5 DEF Covered
<1>9. part = 0 => \A d \in run'[s].docs : d.part = 0
  BY <1>2, <1>5 DEF IInv, TypeOK
<1>10. \A d, e \in run'[s].docs : d.part = 0 /\ e.item < d.item => e.part = 0
  BY <1>2, <1>5, <1>9 DEF Covered
<1>11. LoadedOK(s)' /\ WalkOK(s)'
  BY <1>2, <1>5, <1>7, <1>8, <1>9, <1>10 DEF LoadedOK, WalkOK
<1>12. Covered(StagedItems', saved'.watermark) /\ StagedOK'
  BY <1>4 DEF IInv, StagedOK
<1> QED
  BY <1>3, <1>4, <1>11, <1>12, OneSlotMoves

(* Staging an object moves documents from the invocation to the prefix; the*)
(* object of the earlier hour holds the earlier ids.                       *)
LEMMA PutObjectKeeps ==
  ASSUME IInv, TypeOK', NEW s \in Slots, PutObject(s), Seed \in Nat
  PROVE  IInv'
<1> DEFINE object == NextObject(s)
           left == run[s].docs \ object
           w == run[s].state.watermark
<1>1. /\ run'[s].pc = "items"
      /\ run'[s].docs = left
      /\ run'[s].part = run[s].part
      /\ run'[s].next = run[s].next
      /\ run'[s].last = run[s].last
      /\ run'[s].state.watermark = w
      /\ run[s].pc = "items"
      /\ run[s].next > run[s].last
  BY DEF PutObject, Fetched, IInv, TypeOK, State
<1>2. \A r \in Slots \ {s} : run'[r] = run[r]
  BY DEF PutObject, IInv, TypeOK
<1>3. object \subseteq run[s].docs
  BY DEF NextObject
<1>4. StagedItems' = StagedItems \cup {d.item : d \in object}
  <2>1. staged' = staged \cup {[item |-> d.item, outcome |-> d.outcome] :
                                 d \in object}
    BY DEF PutObject
  <2> HIDE DEF object
  <2>2. \A d \in object : [item |-> d.item, outcome |-> d.outcome].item = d.item
    OBVIOUS
  <2>3. ASSUME NEW x \in StagedItems'
        PROVE  x \in StagedItems \cup {d.item : d \in object}
    BY <2>1, <2>2 DEF StagedItems
  <2>4. ASSUME NEW x \in StagedItems \cup {d.item : d \in object}
        PROVE  x \in StagedItems'
    BY <2>1, <2>2 DEF StagedItems
  <2> QED
    BY <2>3, <2>4
<1>5. /\ Covered(StagedItems \cup Held(s), w)
      /\ \A d \in run[s].docs : d.item \in (Seed + 1)..w
      /\ \A d, e \in run[s].docs : d.part = 0 /\ e.item < d.item => e.part = 0
      /\ run[s].part = 0 => \A d \in run[s].docs : d.part = 0
  BY <1>1 DEF IInv, WalkOK
<1>6. \A d \in object, e \in run[s].docs : e.item <= d.item =>
         e.item \in {f.item : f \in object}
  BY <1>5, Seed \in Nat DEF NextObject, Covered
<1> HIDE DEF object
<1>7. StagedItems \cup Held(s) \subseteq StagedItems' \cup Held(s)'
  BY <1>1, <1>4 DEF Held
<1>8. Covered(StagedItems' \cup Held(s)', w)
  BY <1>5, <1>7, CoveredGrows
<1>9. ~ Fetching(s)'
  BY <1>1 DEF Fetching, IInv, TypeOK
<1>10. left \subseteq run[s].docs
  OBVIOUS
<1>11. LoadedOK(s)' /\ WalkOK(s)'
  BY <1>1, <1>5, <1>8, <1>9, <1>10 DEF LoadedOK, WalkOK
<1>12. StagedOK'
  <2> SUFFICES ASSUME NEW p \in StagedItems'
               PROVE  p > Seed /\ Covered(StagedItems', p)
    BY DEF StagedOK
  <2>1. CASE p \in StagedItems
    BY <2>1, <1>4, CoveredGrows DEF IInv, StagedOK
  <2>2. CASE p \in {d.item : d \in object}
    <3>1. PICK d \in object : p = d.item
      BY <2>2
    <3>2. p \in (Seed + 1)..w
      BY <3>1, <1>3, <1>5
    <3>3. ASSUME NEW i \in (Seed + 1)..p PROVE i \in StagedItems'
      <4>1. i \in StagedItems \cup Held(s)
        BY <3>2, <1>5, Seed \in Nat DEF Covered
      <4>2. CASE i \in Held(s)
        <5>1. PICK e \in run[s].docs : i = e.item
          BY <4>2 DEF Held
        <5> QED
          BY <5>1, <3>1, <1>6, <1>4
      <4> QED
        BY <4>1, <4>2, <1>4
    <3> QED
      BY <3>2, <3>3, <1>5, Seed \in Nat DEF Covered
  <2> QED
    BY <2>1, <2>2, <1>4
<1>13. Covered(StagedItems', saved'.watermark)
  BY <1>4, CoveredGrows DEF IInv, PutObject
<1> QED
  BY <1>2, <1>4, <1>11, <1>12, <1>13, OneSlotMoves

(* Saving publishes a watermark whose documents are all staged.            *)
LEMMA SaveKeeps ==
  ASSUME IInv, TypeOK', NEW s \in Slots, Save(s)
  PROVE  IInv'
<1>1. run'[s] = Idle /\ \A r \in Slots \ {s} : run'[r] = run[r]
  BY DEF Save, IInv, TypeOK
<1>2. StagedItems' = StagedItems
  BY DEF Save, StagedItems
<1>3. Held(s) = {}
  BY DEF Save, Held
<1>4. Covered(StagedItems \cup Held(s), run[s].state.watermark)
  BY DEF Save, Fetched, IInv, WalkOK
<1>5. Covered(StagedItems', saved'.watermark)
  BY <1>2, <1>3, <1>4 DEF Save
<1>6. StagedOK'
  BY <1>2 DEF IInv, StagedOK
<1> QED
  BY <1>1, <1>2, <1>5, <1>6, IdleSlot, OneSlotMoves

LEMMA CrashKeeps ==
  ASSUME IInv, TypeOK', NEW s \in Slots, Crash(s)
  PROVE  IInv'
<1>1. run'[s] = Idle /\ \A r \in Slots \ {s} : run'[r] = run[r]
  BY DEF Crash, IInv, TypeOK
<1>2. saved' = saved /\ StagedItems' = StagedItems
  BY DEF Crash, StagedItems
<1>3. Covered(StagedItems', saved'.watermark) /\ StagedOK'
  BY <1>2 DEF IInv, StagedOK
<1> QED
  BY <1>1, <1>2, <1>3, IdleSlot, OneSlotMoves

(* A step that leaves saved, staged and run alone keeps the invariant.     *)
LEMMA QuietKeeps ==
  ASSUME IInv, TypeOK', UNCHANGED <<saved, staged, run>>
  PROVE  IInv'
<1>1. StagedItems' = StagedItems
  BY DEF StagedItems
<1>2. \A s \in Slots : LoadedOK(s)' /\ WalkOK(s)'
  BY <1>1, OtherSlot DEF IInv
<1> QED
  BY <1>1, <1>2 DEF IInv, StagedOK

LEMMA InvStep == Seed \in Nat /\ IInv /\ [Next]_vars => IInv'
<1> SUFFICES ASSUME Seed \in Nat, IInv, [Next]_vars PROVE IInv'
  OBVIOUS
<1>1. TypeOK'
  BY TypeStep DEF IInv
<1>2. CASE NewItem \/ UNCHANGED vars
  BY <1>1, <1>2, QuietKeeps DEF NewItem, vars
<1>3. ASSUME NEW s \in Slots, Step(s) \/ Crash(s) PROVE IInv'
  BY <1>1, <1>3, LoadKeeps, FrontierFailsKeeps, FrontierKnownKeeps,
     FetchItemKeeps, PutObjectKeeps, SaveKeeps, CrashKeeps DEF Step
<1> QED
  BY <1>2, <1>3 DEF Next

(* IInv implies the two properties it was built for.                       *)
LEMMA InvNoLoss == Seed \in Nat /\ IInv => NoGap /\ NoHole
<1> SUFFICES ASSUME Seed \in Nat, IInv PROVE NoGap /\ NoHole
  OBVIOUS
<1>1. NoGap
  BY DEF IInv, NoGap, Covered
<1>2. NoHole
  BY DEF IInv, NoHole, StagedOK, Covered
<1> QED
  BY <1>1, <1>2

(* Once a source has a watermark, staging has no gap below the saved       *)
(* watermark: for any number of overlapping invocations and any crashes,   *)
(* at-least-once holds because staging comes before saving.                *)
THEOREM IngestNoGap ==
  ASSUME Seed \in Nat PROVE Spec => []NoGap
<1>1. Init => IInv
  BY InvInit
<1>2. IInv /\ [Next]_vars => IInv'
  BY InvStep
<1>3. IInv => NoGap
  BY InvNoLoss
<1> QED
  BY <1>1, <1>2, <1>3, PTL DEF Spec

(* Nor is there a hole between two staged ids.                             *)
THEOREM IngestNoHole ==
  ASSUME Seed \in Nat PROVE Spec => []NoHole
<1>1. Init => IInv
  BY InvInit
<1>2. IInv /\ [Next]_vars => IInv'
  BY InvStep
<1>3. IInv => NoHole
  BY InvNoLoss
<1> QED
  BY <1>1, <1>2, <1>3, PTL DEF Spec

-----------------------------------------------------------------------------

(* Every step of the pollers, seen through what is staged and the saved    *)
(* watermark, is a delivery, an acknowledgement or nothing.                *)
LEMMA PromiseStep ==
  ASSUME Seed \in Nat, IInv, IInv', [Next]_vars
  PROVE  [Promise!Next]_<<StagedItems, saved.watermark>>
<1>1. CASE UNCHANGED <<saved, staged>>
  BY <1>1 DEF StagedItems
<1>2. ASSUME NEW s \in Slots, PutObject(s)
      PROVE  Promise!Deliver
  <2>1. StagedItems \subseteq StagedItems' /\ UNCHANGED saved.watermark
    BY <1>2 DEF PutObject, StagedItems
  <2>2. \A p \in StagedItems' : Covered(StagedItems', p)
    BY DEF IInv, StagedOK
  <2> QED
    BY <2>1, <2>2 DEF Promise!Deliver, Promise!CompleteTo, Covered
<1>3. ASSUME NEW s \in Slots, Save(s)
      PROVE  Promise!Acknowledge
  <2>1. StagedItems' = StagedItems
    BY <1>3 DEF Save, StagedItems
  <2>2. Covered(StagedItems', saved'.watermark)
    BY DEF IInv
  <2> QED
    BY <2>1, <2>2 DEF Promise!Acknowledge, Promise!CompleteTo, Covered
<1>4. \/ UNCHANGED <<saved, staged>>
      \/ \E s \in Slots : PutObject(s) \/ Save(s)
  BY DEF Next, Step, NewItem, Load, FrontierFails, FrontierKnown, FetchItem,
         Crash, vars
<1> QED
  BY <1>1, <1>2, <1>3, <1>4 DEF Promise!Next

(* The pollers implement AtLeastOnce.                                      *)
THEOREM IngestKeepsPromise ==
  ASSUME Seed \in Nat PROVE Spec => KeepsPromise
<1>1. Init => IInv
  BY InvInit
<1>2. IInv /\ [Next]_vars => IInv'
  BY InvStep
<1>3. Init => Promise!Init
  BY DEF Init, Promise!Init, StagedItems
<1>4. IInv /\ IInv' /\ [Next]_vars
        => [Promise!Next]_<<StagedItems, saved.watermark>>
  BY PromiseStep
<1> QED
  BY <1>1, <1>2, <1>3, <1>4, PTL DEF Spec, KeepsPromise, Promise!Spec

-----------------------------------------------------------------------------

(* With one execution at a time nobody saves between its load and its own  *)
(* save: what it loaded is what is saved, and it walks above that.         *)
AboveSaved(s) ==
    /\ run[s].pc = "frontier" => /\ run[s].state.watermark = saved.watermark
                                 /\ run[s].next = 1 /\ run[s].last = 0
    /\ Fetching(s) => saved.watermark = None \/ run[s].next > saved.watermark

OneWalk ==
    /\ TypeOK
    /\ allowed \subseteq Slots
    /\ Alone => \A s \in allowed : AboveSaved(s)

(* A single execution is the only one there is.                            *)
LEMMA TheOnlyOne ==
  ASSUME IsFiniteSet(Slots), allowed \subseteq Slots, Alone, NEW r \in allowed, NEW s \in allowed
  PROVE  r = s
<1>1. PICK x : allowed = {x}
  <2>1. IsFiniteSet(allowed)
    BY FS_Subset
  <2> QED
    BY <2>1, FS_Singleton DEF Alone
<1> QED
  BY <1>1

(* What a step of an execution does to its own walk.                       *)
LEMMA WalkStep ==
  ASSUME TypeOK, NEW s \in Slots, AboveSaved(s), Step(s) \/ Crash(s)
  PROVE  AboveSaved(s)'
<1> USE DEF TypeOK
<1>1. CASE Load(s)
  BY <1>1 DEF Load, AboveSaved, Idle, Fetching
<1>2. CASE FrontierFails(s)
  <2>1. /\ run'[s].pc = "items" /\ run'[s].next = run[s].next
        /\ run'[s].last = run[s].last /\ saved' = saved /\ run[s].pc = "frontier"
    BY <1>2 DEF FrontierFails, State
  <2> QED
    BY <2>1 DEF AboveSaved, Fetching
<1>3. CASE FrontierKnown(s)
  <2>1. /\ run'[s].pc = "items" /\ saved' = saved /\ run[s].pc = "frontier"
        /\ run'[s].next = StartOf(run[s].state.watermark)
    BY <1>3, SMTT(30) DEF FrontierKnown, State
  <2>2. run[s].state.watermark = saved.watermark
    BY <2>1 DEF AboveSaved
  <2>3. saved.watermark \in Nat \cup {None}
    BY DEF State
  <2>4. saved.watermark # None => run'[s].next > saved.watermark
    BY <2>1, <2>2, <2>3 DEF StartOf
  <2> QED
    BY <2>1, <2>4 DEF AboveSaved, Fetching
<1>4. CASE FetchItem(s)
  <2>1. /\ run'[s].pc = "items" /\ saved' = saved /\ run'[s].next = run[s].next + 1
        /\ Fetching(s)
    BY <1>4 DEF FetchItem, Fetching, State
  <2>2. run[s].next \in Nat /\ saved.watermark \in Nat \cup {None}
    BY DEF State
  <2> QED
    BY <2>1, <2>2 DEF AboveSaved
<1>5. CASE PutObject(s)
  <2>1. /\ run'[s].pc = run[s].pc /\ run'[s].next = run[s].next
        /\ run'[s].last = run[s].last /\ saved' = saved /\ Fetched(s)
    BY <1>5 DEF PutObject
  <2> QED
    BY <2>1 DEF AboveSaved, Fetched, Fetching
<1>6. CASE Save(s) \/ Crash(s)
  <2>1. run'[s] = Idle
    BY <1>6 DEF Save, Crash
  <2> QED
    BY <2>1 DEF AboveSaved, Fetching, Idle
<1> QED
  BY <1>1, <1>2, <1>3, <1>4, <1>5, <1>6 DEF Step

(* Nobody has begun; and the steps keep it.                                *)
LEMMA OneWalkInit == IsFiniteSet(Slots) /\ Slots # {} /\ MCInit => OneWalk
<1> SUFFICES ASSUME Slots # {}, MCInit PROVE OneWalk
  OBVIOUS
<1>1. TypeOK
  BY TypeInit DEF MCInit
<1>2. allowed \subseteq Slots
  BY DEF MCInit
<1>3. \A s \in Slots : run[s] = Idle
  BY DEF MCInit, Init
<1> QED
  BY <1>1, <1>2, <1>3 DEF OneWalk, AboveSaved, Fetching, Idle

LEMMA OneWalkStep == IsFiniteSet(Slots) /\ OneWalk /\ [MCNext]_MCvars => OneWalk'
<1> SUFFICES ASSUME IsFiniteSet(Slots), OneWalk, [MCNext]_MCvars PROVE OneWalk'
  OBVIOUS
<1>1. /\ allowed' = allowed /\ allowed \subseteq Slots /\ TypeOK
      /\ Alone => \A s \in allowed : AboveSaved(s)
  BY DEF OneWalk, MCNext, MCvars
<1>2. TypeOK'
  <2>1. [Next]_vars
    BY <1>1 DEF MCNext, MCvars, Next
  <2> QED
    BY <1>1, <2>1, TypeStep
<1>3. Alone' <=> Alone
  BY <1>1 DEF Alone
<1>4. ASSUME Alone, NEW s \in allowed PROVE AboveSaved(s)'
  <2>1. AboveSaved(s) /\ s \in Slots
    BY <1>1, <1>4
  <2>2. CASE UNCHANGED <<saved, run>>
    BY <2>1, <2>2 DEF AboveSaved, Fetching
  <2>3. CASE \E r \in allowed : Step(r) \/ Crash(r)
    <3>1. Step(s) \/ Crash(s)
      BY <1>1, <1>4, <2>3, TheOnlyOne
    <3> QED
      BY <1>1, <2>1, <3>1, WalkStep
  <2> QED
    BY <2>2, <2>3 DEF MCNext, MCvars, NewItem, vars
<1> QED
  BY <1>1, <1>2, <1>3, <1>4 DEF OneWalk

(* Whoever holds a document more than before fetched it above the watermark. *)
LEMMA OneWalkAction ==
  IsFiniteSet(Slots) /\ OneWalk /\ [MCNext]_MCvars =>
      [Alone => \A s \in Slots : run'[s].docs \subseteq run[s].docs
                                 \/ saved.watermark = None
                                 \/ run[s].next > saved.watermark]_MCvars
<1> SUFFICES ASSUME IsFiniteSet(Slots), OneWalk, MCNext, Alone, NEW s \in Slots
             PROVE  \/ run'[s].docs \subseteq run[s].docs
                    \/ saved.watermark = None \/ run[s].next > saved.watermark
  OBVIOUS
<1>1. TypeOK /\ allowed \subseteq Slots /\ \A r \in allowed : AboveSaved(r)
  BY DEF OneWalk
<1>2. CASE run' = run
  BY <1>2
<1>3. ASSUME NEW r \in allowed, Step(r) \/ Crash(r), r # s
      PROVE  run'[s] = run[s]
  BY <1>1, <1>3 DEF Step, Load, FrontierFails, FrontierKnown, FetchItem, PutObject,
                    Save, Crash, TypeOK
<1>4. ASSUME s \in allowed, Step(s) \/ Crash(s), ~ FetchItem(s)
      PROVE  run'[s].docs \subseteq run[s].docs
  <2>1. CASE Load(s) \/ Save(s) \/ Crash(s)
    <3>1. run'[s] = Idle \/ run'[s] = [Idle EXCEPT !.pc = "frontier", !.state = saved]
      BY <1>1, <2>1 DEF Load, Save, Crash, TypeOK
    <3>2. Idle.docs = {} /\ [Idle EXCEPT !.pc = "frontier", !.state = saved].docs = {}
      BY DEF Idle
    <3>3. run'[s].docs = {}
      BY <3>1, <3>2
    <3> QED
      BY <3>3
  <2>2. CASE FrontierFails(s) \/ FrontierKnown(s)
    <3>1. run'[s].docs = run[s].docs
      BY <1>1, <2>2 DEF FrontierFails, FrontierKnown, TypeOK
    <3> QED
      BY <3>1
  <2>3. CASE PutObject(s)
    <3>1. run'[s].docs = run[s].docs \ NextObject(s)
      BY <1>1, <2>3 DEF PutObject, TypeOK
    <3> QED
      BY <3>1
  <2> QED
    BY <1>4, <2>1, <2>2, <2>3 DEF Step
<1>5. ASSUME s \in allowed, FetchItem(s)
      PROVE  saved.watermark = None \/ run[s].next > saved.watermark
  BY <1>1, <1>5 DEF AboveSaved, FetchItem
<1>6. run' = run \/ \E r \in allowed : Step(r) \/ Crash(r)
  BY DEF MCNext, NewItem
<1> QED
  BY <1>2, <1>3, <1>4, <1>5, <1>6

(* With one execution at a time an id the saved watermark has passed is    *)
(* never requested again, whatever dies or fails on the way and whether or *)
(* not the source was seeded.                                              *)
THEOREM IngestNoRefetch ==
  ASSUME IsFiniteSet(Slots), Slots # {} PROVE MCSpec => NoRefetch
<1>1. MCInit => OneWalk
  BY OneWalkInit
<1>2. OneWalk /\ [MCNext]_MCvars => OneWalk'
  BY OneWalkStep
<1>3. OneWalk /\ [MCNext]_MCvars =>
      [Alone => \A s \in Slots : run'[s].docs \subseteq run[s].docs
                                 \/ saved.watermark = None
                                 \/ run[s].next > saved.watermark]_MCvars
  BY OneWalkAction
<1> QED
  BY <1>1, <1>2, <1>3, PTL DEF MCSpec, NoRefetch

=============================================================================
