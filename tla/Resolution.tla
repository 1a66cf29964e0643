----------------------------- MODULE Resolution -----------------------------
(* The two tables the resolve DAG writes (resolve_dag.py), one task after   *)
(* the other or, after failures and by hand, in any order: the mentions of  *)
(* companies and the dimension they are joined to.                          *)
EXTENDS Mentions, Dimension

resolutionVars == <<mentionsVars, dimensionVars>>

ResolutionInit == MentionsInit /\ DimensionInit

ResolutionNext ==
    \/ MentionsNext /\ UNCHANGED dimensionVars
    \/ DimensionNext /\ UNCHANGED mentionsVars

ResolutionSpec == ResolutionInit /\ [][ResolutionNext]_resolutionVars

ResolutionTypeOK == MentionsTypeOK /\ DimensionTypeOK

(* Mentions stay readable for as long as a brief reads them, and the       *)
(* dimension says what its dictionaries said.                              *)
ResolveTrue == MentionsStay /\ HistoryTrue

=============================================================================
