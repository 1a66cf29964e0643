---------------------------- MODULE Maintenance -----------------------------
(* What keeps the tables in shape: the nightly sweep of all of them and the *)
(* repair of silver.articles by hand.  Nothing schedules one after the      *)
(* other: Iceberg's snapshots are what keeps them apart (maintenance_dag).  *)
EXTENDS SilverArticles, Sweep

maintenanceVars == <<silverVars, sweepVars>>

MaintenanceInit == SilverInit /\ SweepInit

MaintenanceNext ==
    \/ SilverNext /\ UNCHANGED sweepVars
    \/ SweepNext /\ UNCHANGED silverVars

MaintenanceSpec == MaintenanceInit /\ [][MaintenanceNext]_maintenanceVars

(* What keeps the tables in shape does not lie about it and loses nothing:  *)
(* the repair of duplicates no article, the sweep no fault and no day.      *)
MaintenanceTrue == ArticlesKept /\ SweepHonest

=============================================================================
