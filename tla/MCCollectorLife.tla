---------------------------- MODULE MCCollectorLife ----------------------------
(* CollectorLife with two groups: an exchange with three managers and one  *)
(* with a single manager, then another with a single manager.              *)
EXTENDS CollectorLife

MCPlan == <<<<3, 1>>, <<1>>>>
===============================================================================
