---------------------------- MODULE AtLeastOnce ----------------------------
(***************************************************************************)
(* What the pollers promise the rest of the system about a source that is  *)
(* read by position: every position up to the acknowledged one has been    *)
(* delivered, and what is delivered has no hole.  Delivering a position    *)
(* again is allowed.                                                       *)
(***************************************************************************)
EXTENDS Integers

CONSTANT Seed      \* the position acknowledged before the first delivery

VARIABLES
    delivered,     \* positions handed over
    acked          \* the position the source will be resumed from

(* No position between the seed and p is missing from D.                   *)
CompleteTo(D, p) == \A i \in (Seed + 1)..p : i \in D

Init == delivered = {} /\ acked = Seed

(* Some positions are handed over, possibly for the second time.           *)
Deliver ==
    /\ delivered \subseteq delivered'
    /\ \A p \in delivered' : CompleteTo(delivered', p)
    /\ UNCHANGED acked

(* The source is told where to resume.  A late writer may move it back.    *)
Acknowledge ==
    /\ acked' >= Seed
    /\ CompleteTo(delivered, acked')
    /\ UNCHANGED delivered

Next == Deliver \/ Acknowledge

Spec == Init /\ [][Next]_<<delivered, acked>>

=============================================================================
