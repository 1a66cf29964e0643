------------------------------ MODULE MCBrief -------------------------------
(* Brief over two or three days with a handful of clusters.                 *)
EXTENDS Brief

MCDays == 1..MaxDay

=============================================================================
