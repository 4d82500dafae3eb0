------------------------------ MODULE WindowCopy ------------------------------
(***************************************************************************)
(* What the hot-to-cold replicator promises, without windows, queries,     *)
(* retries or a state file.  A source store receives rows; a copier copies *)
(* any of them, any number of times, to a destination; a mark per table    *)
(* says how far the copier has come, and a floor per table says from where *)
(* it has been copying.  The promise: between its floor and its mark a     *)
(* table has no hole, and the source forgets no row above the floor that   *)
(* the destination does not hold.                                          *)
(***************************************************************************)
EXTENDS Integers

CONSTANTS
  Rows,     \* the rows the producers may ever write
  Tables,   \* the replicated tables
  TableOf,  \* the table of a row
  Stamp,    \* the timestamp of a row
  Times     \* the times a mark or a floor can have

VARIABLES
  live,     \* rows in the source
  known,    \* rows that reached the source while their time was still open
  copied,   \* rows of which the destination has a copy
  floor,    \* per table, the first time the copier vouches for
  mark      \* per table, the time up to which it vouches; 0 when it has none

vars == <<live, known, copied, floor, mark>>

Init ==
  /\ live \subseteq Rows
  /\ known = live
  /\ copied = {}
  /\ floor = [t \in Tables |-> 0]
  /\ mark = [t \in Tables |-> 0]

(* A row the copier must not miss: its time is not closed by the mark.     *)
Arrive(r) ==
  /\ r \notin live
  /\ Stamp[r] >= mark[TableOf[r]]
  /\ live' = live \cup {r}
  /\ known' = known \cup {r}
  /\ UNCHANGED <<copied, floor, mark>>

(* A row that comes too late: nothing is promised about it.                *)
ArriveLate(r) ==
  /\ live' = live \cup {r}
  /\ UNCHANGED <<known, copied, floor, mark>>

Copy(S) ==
  /\ S \subseteq live
  /\ copied' = copied \cup S
  /\ UNCHANGED <<live, known, floor, mark>>

(* The mark of a table passes only over rows that have been copied.        *)
Advance(t, m) ==
  /\ m > mark[t]
  /\ \A r \in known :
       TableOf[r] = t /\ floor[t] <= Stamp[r] /\ Stamp[r] < m => r \in copied
  /\ mark' = [mark EXCEPT ![t] = m]
  /\ UNCHANGED <<live, known, copied, floor>>

(* A copier may start again from a later floor, without a mark or with the *)
(* new floor as its mark, never with an earlier one.                       *)
Rebase(t, f) ==
  /\ f >= floor[t]
  /\ floor' = [floor EXCEPT ![t] = f]
  /\ \/ mark' = mark
     \/ f >= mark[t] /\ mark' = [mark EXCEPT ![t] = f]
  /\ UNCHANGED <<live, known, copied>>

LoseMarks ==
  /\ mark' = [t \in Tables |-> 0]
  /\ UNCHANGED <<live, known, copied, floor>>

Forget(S) ==
  /\ \A r \in S \cap known : Stamp[r] >= floor[TableOf[r]] => r \in copied
  /\ live' = live \ S
  /\ UNCHANGED <<known, copied, floor, mark>>

Next ==
  \/ \E r \in Rows : Arrive(r) \/ ArriveLate(r)
  \/ \E S \in SUBSET Rows : Copy(S) \/ Forget(S)
  \/ \E t \in Tables, m \in Times : Advance(t, m) \/ Rebase(t, m)
  \/ LoseMarks

Spec == Init /\ [][Next]_vars
===============================================================================
