------------------------------ MODULE MCIngest ------------------------------
(* Ingest with one execution at a time, as reserved concurrency 1 gives, or *)
(* with the executions of the unreserved default, one id fewer to fetch.    *)
EXTENDS Ingest, FiniteSets

VARIABLE allowed   \* the executions AWS lets run

MCvars == <<vars, allowed>>

Alone == Cardinality(allowed) = 1

MCInit ==
    /\ Init
    /\ allowed \in {{CHOOSE s \in Slots : TRUE}, Slots}
    /\ Alone \/ frontier < MaxItem

Allowed(A) == A /\ UNCHANGED allowed

MCNext ==
    /\ \/ NewItem /\ (Alone \/ frontier' < MaxItem)
       \/ \E s \in allowed : Step(s) \/ Crash(s)
    /\ UNCHANGED allowed

MCSpec ==
    /\ MCInit /\ [][MCNext]_MCvars
    /\ \A s \in Slots : WF_MCvars(s \in allowed /\ Allowed(Progress(s)))

(* With one execution at a time an id the watermark has passed is never    *)
(* requested again (SPEC 6.2: raw payloads are never re-fetched).          *)
NoRefetch ==
    [][Alone => \A s \in Slots : run'[s].docs \subseteq run[s].docs
                                 \/ saved.watermark = None
                                 \/ run[s].next > saved.watermark]_MCvars

=============================================================================
