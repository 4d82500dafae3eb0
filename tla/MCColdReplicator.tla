--------------------------- MODULE MCColdReplicator ---------------------------
(* Instances of ColdReplicator for TLC: a high-frequency table with a      *)
(* safety lag and a low-frequency one without.                             *)
EXTENDS ColdReplicator

CONSTANTS h1, h2, h3, l1, l2   \* rows of table 1 (high) and table 2 (low)

MCTableOf == [r \in Rows |-> IF r \in {h1, h2, h3} THEN 1 ELSE 2]
MCStamp == [r \in Rows |-> CASE r = h1 -> 2 [] r = h2 -> 5 [] r = h3 -> 6
                             [] r = l1 -> 4 [] OTHER -> 6]
MCLag == [t \in Tables |-> IF t = 1 THEN 1 ELSE 0]
MCMaxCatchup == [t \in Tables |-> 2]
===============================================================================
