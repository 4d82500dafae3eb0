------------------------------ MODULE MCHotBatch ------------------------------
(***************************************************************************)
(* A small instance of HotBatch: two order book rows and more, one of them *)
(* refused by the server, and one trade.                                   *)
(***************************************************************************)
EXTENDS HotBatch

CONSTANTS b1, b2, b3, t1

book == 1
trade == 2
MCTypeOf == [r \in Rows |-> IF r = t1 THEN trade ELSE book]
MCThreshold == [t \in Types |-> IF t = book THEN 3 ELSE 2]
===============================================================================
