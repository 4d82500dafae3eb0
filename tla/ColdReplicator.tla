---------------------------- MODULE ColdReplicator ----------------------------
(***************************************************************************)
(* HotToColdReplicator of services/cold-storage-service/replication.py:    *)
(* the loop that copies rows window by window from the hot ClickHouse to   *)
(* the cold one, remembers in a state file how far each table has come,    *)
(* and deletes from the hot side what lies well below that watermark.      *)
(*                                                                         *)
(* One action is one statement sent to a ClickHouse server, or one access  *)
(* to the state file: between two of them rows keep arriving in the hot    *)
(* store, time passes, and the process can be killed.  A statement can     *)
(* fail, or fail after the server has done (some of) it.  Timestamps are   *)
(* integers; a row is an element of Rows with a table and a timestamp.     *)
(***************************************************************************)
EXTENDS Integers, FiniteSets, FiniteSetsExt

CONSTANTS
  Rows,             \* the rows the collectors may ever write
  NTables,          \* DEFAULT_TABLES, as 1..NTables in that order
  TableOf,          \* Rows -> Tables
  Stamp,            \* Rows -> the row's "timestamp" column
  Modes,            \* subset of {"full", "recent", "off"}: bootstrap settings
  Window,           \* window_minutes_all
  Lag,              \* safety_lag_minutes_high / _low of a table
  MaxCatchup,       \* max_catchup_windows_high / _low of a table
  RecentSpan,       \* bootstrap_minutes_high / _low
  CleanupDelay,     \* cleanup_delay_minutes
  StartTime,        \* the clock at the first start
  MaxTime,          \* bound: the clock stops here
  MaxFaults         \* bound: failed statements, kills and resets together

Tables == 1..NTables

ASSUME RowsAssumption ==
  /\ IsFiniteSet(Rows)
  /\ TableOf \in [Rows -> Tables]
  /\ Stamp \in [Rows -> Nat \ {0}]
ASSUME SettingsAssumption ==
  /\ NTables \in Nat
  /\ Modes \subseteq {"full", "recent", "off"}
  /\ Window \in Nat \ {0}
  /\ Lag \in [Tables -> Nat]
  /\ MaxCatchup \in [Tables -> Nat]
  /\ RecentSpan \in Nat
  /\ CleanupDelay \in Nat
(* Epoch milliseconds: the clock is far above every setting.               *)
ASSUME ClockAssumption ==
  /\ MaxTime \in Nat /\ StartTime \in 0..MaxTime /\ MaxFaults \in Nat
  /\ \A t \in Tables : StartTime > Lag[t] + Window

VARIABLES
  now,      \* the clock
  hot,      \* rows in the hot store
  cold,     \* copies of each row in the cold store
  file,     \* the state file sync_state.json
  mode,     \* the bootstrap setting of this deployment
  pc,       \* where run_once is
  tbl,      \* the table it is at
  start,    \* now_ms of run_once
  cur, end, \* the window at hand: last_ms / hot_min and cold_min / safety end
  tally,    \* hot_cnt, or hot_recent
  tries,    \* attempts of the cold count
  processed,\* windows of this table done in this round
  save,     \* what is being written to the state file
  arrived,  \* history: rows that were ever written to the hot store
  late,     \* history: those that came after their safety lag
  origin,   \* history: where the watermark of each table started from
  faults    \* history: failed statements, kills and resets so far

locals == <<tbl, start, cur, end, tally, tries, processed>>
history == <<arrived, late, origin>>
world == <<now, hot, arrived, late>>
vars == <<now, hot, cold, file, mode, pc, locals, save, history, faults>>

States == [kind : {"absent", "torn", "json"}, wm : [Tables -> Nat], done : BOOLEAN]
Blank(k) == [kind |-> k, wm |-> [t \in Tables |-> 0], done |-> FALSE]

(* "idle" is asyncio.sleep; "woken" a process that has not slept yet.      *)
RunPcs == {"woken", "idle", "boot", "bootCold", "bootCount", "bootTotal", "bootInsert",
           "seed", "backfill", "saveSeed", "saveMark", "rep", "win", "hotCount",
           "coldCount", "saveWin", "clean"}
SavePcs == {"saveSeed", "saveMark", "saveWin"}

SafetyEnd(t) == start - Lag[t]

(* Mutant: a window that reaches past the safety end.                      *)
WinEndPastSafety == cur + Window
WinEnd == IF cur + Window < SafetyEnd(tbl) THEN cur + Window ELSE SafetyEnd(tbl)

(* Mutant: "timestamp <= end" instead of "<".                              *)
BetweenInclusive(t, a, b) ==
  {r \in Rows : TableOf[r] = t /\ a <= Stamp[r] /\ Stamp[r] <= b}
Between(t, a, b) == {r \in Rows : TableOf[r] = t /\ a <= Stamp[r] /\ Stamp[r] < b}
ColdCount(S) == Cardinality({r \in S : cold[r] > 0})

(* SELECT min(timestamp); over no rows it reads as 0.                      *)
StampsOrZero == {0} \cup {Stamp[r] : r \in Rows}
IsEarliest(m, S) ==
  \/ S = {} /\ m = 0
  \/ m \in {Stamp[r] : r \in S} /\ \A r \in S : m <= Stamp[r]

Fault == faults < MaxFaults /\ faults' = faults + 1

(* _scalar_hot, _scalar_cold: any error reads as 0.                        *)
Scalar(answer, value) ==
  \/ answer = value /\ faults' = faults
  \/ answer = 0 /\ value # 0 /\ Fault

Copies(S) == [r \in Rows |-> IF r \in S THEN cold[r] + 1 ELSE cold[r]]

(* _exec_cold of an INSERT ... SELECT, and its failure: the server may     *)
(* have copied any part of the selection before the error came back.       *)
Insert(S) == cold' = Copies(S) /\ faults' = faults
InsertFails(S) == Fault /\ \E part \in SUBSET S : cold' = Copies(part)

(* _set_state_ms up to the truncation by open(..., "w"); an unreadable or  *)
(* missing file counts as {}.                                              *)
OpenStateFile(content) == file' = Blank("torn") /\ save' = content

(* Mutant: the file is rewritten without the other tables' watermarks.     *)
WithMarkAlone(t, ms) ==
  [kind |-> "json", done |-> FALSE,
   wm |-> [u \in Tables |-> IF u = t THEN ms ELSE 0]]
WithMark(t, ms) == [kind |-> "json", wm |-> [file.wm EXCEPT ![t] = ms],
                    done |-> file.done]

(* json.dump and close; if the file has been unlinked meanwhile, the       *)
(* written inode is gone.                                                  *)
WriteStateFile ==
  /\ file' = IF file.kind = "torn" THEN save ELSE file
  /\ save' = Blank("absent")

-------------------------------------------------------------------------------

Init ==
  /\ now = StartTime
  /\ hot \in SUBSET {r \in Rows : Stamp[r] <= StartTime}
  /\ cold = [r \in Rows |-> 0]
  /\ file = Blank("absent")
  /\ mode \in Modes
  /\ pc = "woken"
  /\ tbl = 1 /\ start = StartTime /\ cur = 0 /\ end = 0
  /\ tally = 0 /\ tries = 0 /\ processed = 0
  /\ save = Blank("absent")
  /\ arrived = hot /\ late = {}
  /\ origin = [t \in Tables |-> 0]
  /\ faults = 0

-------------------------------------------------------------------------------
(* The world around the replicator.                                        *)

Tick ==
  /\ now < MaxTime
  /\ now' = now + 1
  /\ UNCHANGED <<hot, cold, file, mode, pc, locals, save, history, faults>>

(* The hot storage service inserts a row, some time after its timestamp.   *)
Ingest(r) ==
  /\ r \notin arrived
  /\ Stamp[r] <= now
  /\ hot' = hot \cup {r}
  /\ arrived' = arrived \cup {r}
  /\ late' = IF Stamp[r] < now - Lag[TableOf[r]] THEN late \cup {r} ELSE late
  /\ UNCHANGED <<now, cold, file, mode, pc, locals, save, origin, faults>>

(* SIGKILL, or the container dies.                                         *)
Crash ==
  /\ pc # "down"
  /\ Fault
  /\ pc' = "down"
  /\ save' = Blank("absent")
  /\ UNCHANGED <<world, cold, file, mode, locals, origin>>

(* stop(): the loop gives up control only in asyncio.sleep, so a stop      *)
(* finds it between two rounds ("idle"); a new process begins with a round.*)
Stop ==
  /\ pc = "idle"
  /\ pc' = "down"
  /\ UNCHANGED <<world, cold, file, mode, locals, save, origin, faults>>

Restart ==
  /\ pc = "down"
  /\ pc' = "woken"
  /\ UNCHANGED <<world, cold, file, mode, locals, save, origin, faults>>

(* manage_all.sh cold:full-backfill removes the state file, then restarts. *)
ResetState ==
  /\ file.kind # "absent"
  /\ Fault
  /\ file' = Blank("absent")
  /\ UNCHANGED <<world, cold, mode, pc, locals, save, origin>>

-------------------------------------------------------------------------------
(* run_once and the bootstrap.                                             *)

Goto(label, t) == pc' = label /\ tbl' = t

RunOnce ==
  /\ pc \in {"woken", "idle"}
  /\ start' = now
  /\ Goto(IF mode # "off" /\ ~file.done THEN "boot" ELSE "rep", 1)
  /\ UNCHANGED <<world, cold, file, mode, cur, end, tally, tries, processed,
                 save, origin, faults>>

ReadHotMin ==
  /\ pc = "boot" /\ tbl <= NTables /\ mode = "full"
  /\ \E m \in StampsOrZero :
       /\ IsEarliest(m, {r \in hot : TableOf[r] = tbl})
       /\ Scalar(cur', m)
  /\ Goto("bootCold", tbl)
  /\ UNCHANGED <<world, cold, file, mode, start, end, tally, tries, processed,
                 save, origin>>

ReadColdMin ==
  /\ pc = "bootCold"
  /\ \E m \in StampsOrZero :
       /\ IsEarliest(m, {r \in Rows : TableOf[r] = tbl /\ cold[r] > 0})
       /\ Scalar(end', m)
  /\ Goto("bootCount", tbl)
  /\ UNCHANGED <<world, cold, file, mode, start, cur, tally, tries, processed,
                 save, origin>>

(* An empty cold table is seeded up to the safety end; otherwise only what *)
(* is older than the oldest cold row is filled in.                         *)
CountColdTable ==
  /\ pc = "bootCount"
  /\ LET total == ColdCount({r \in Rows : TableOf[r] = tbl})
     IN \/ Scalar(0, total) /\ Goto("seed", tbl) /\ end' = SafetyEnd(tbl)
        \/ /\ total # 0 /\ faults' = faults /\ end' = end
           /\ IF cur > 0 /\ (end = 0 \/ cur < end)
              THEN Goto("backfill", tbl) ELSE Goto("boot", tbl + 1)
  /\ UNCHANGED <<world, cold, file, mode, start, cur, tally, tries, processed,
                 save, origin>>

FillPending == cur > 0 /\ end > 0 /\ cur < end

(* Mutant: the last backfill window is not cut at the safety end.          *)
FillEndUncut == cur + Window
FillEnd == IF cur + Window < end THEN cur + Window ELSE end

(* One window of _range_insert_windows.                                    *)
FillWindow ==
  /\ pc \in {"seed", "backfill"}
  /\ FillPending
  /\ Insert(hot \cap Between(tbl, cur, FillEnd))
  /\ cur' = FillEnd
  /\ UNCHANGED <<world, file, mode, pc, tbl, start, end, tally, tries, processed,
                 save, origin>>

(* A failed INSERT breaks the loop over the range.                         *)
FillFails ==
  /\ pc \in {"seed", "backfill"}
  /\ FillPending
  /\ InsertFails(hot \cap Between(tbl, cur, FillEnd))
  /\ cur' = end
  /\ UNCHANGED <<world, file, mode, pc, tbl, start, end, tally, tries, processed,
                 save, origin>>

(* Finished or broken off, a seeded table gets the safety end as its       *)
(* watermark.                                                              *)
SeedDone ==
  /\ pc = "seed" /\ ~FillPending
  /\ OpenStateFile(WithMark(tbl, SafetyEnd(tbl)))
  /\ origin' = [origin EXCEPT ![tbl] = SafetyEnd(tbl)]
  /\ Goto("saveSeed", tbl)
  /\ UNCHANGED <<world, cold, mode, start, cur, end, tally, tries, processed,
                 faults>>

BackfillDone ==
  /\ pc = "backfill" /\ ~FillPending
  /\ Goto("boot", tbl + 1)
  /\ UNCHANGED <<world, cold, file, mode, start, cur, end, tally, tries,
                 processed, save, origin, faults>>

SaveSeed ==
  /\ pc = "saveSeed"
  /\ WriteStateFile
  /\ Goto("boot", tbl + 1)
  /\ UNCHANGED <<world, cold, mode, start, cur, end, tally, tries, processed,
                 origin, faults>>

(* The older bootstrap: only the last minutes, only into an empty table.   *)
Recent(t) == {r \in hot : TableOf[r] = t /\ Stamp[r] >= now - RecentSpan}

CountRecent ==
  /\ pc = "boot" /\ tbl <= NTables /\ mode = "recent"
  /\ Scalar(tally', Cardinality(Recent(tbl)))
  /\ Goto("bootTotal", tbl)
  /\ UNCHANGED <<world, cold, file, mode, start, cur, end, tries, processed,
                 save, origin>>

CountColdTotal ==
  /\ pc = "bootTotal"
  /\ LET total == ColdCount({r \in Rows : TableOf[r] = tbl})
     IN \/ Scalar(0, total) /\ IF tally > 0 THEN Goto("bootInsert", tbl)
                                            ELSE Goto("boot", tbl + 1)
        \/ total # 0 /\ faults' = faults /\ Goto("boot", tbl + 1)
  /\ UNCHANGED <<world, cold, file, mode, start, cur, end, tally, tries,
                 processed, save, origin>>

InsertRecent ==
  /\ pc = "bootInsert"
  /\ Insert(Recent(tbl)) \/ InsertFails(Recent(tbl))
  /\ Goto("boot", tbl + 1)
  /\ UNCHANGED <<world, file, mode, start, cur, end, tally, tries, processed,
                 save, origin>>

(* _BOOTSTRAP_DONE is written whatever happened above, unless the file     *)
(* cannot be parsed.                                                       *)
MarkBootstrapDone ==
  /\ pc = "boot" /\ tbl > NTables
  /\ IF file.kind = "torn"
     THEN Goto("rep", 1) /\ UNCHANGED <<file, save>>
     ELSE /\ OpenStateFile([kind |-> "json", wm |-> file.wm, done |-> TRUE])
          /\ Goto("saveMark", tbl)
  /\ UNCHANGED <<world, cold, mode, start, cur, end, tally, tries, processed,
                 origin, faults>>

SaveMark ==
  /\ pc = "saveMark"
  /\ WriteStateFile
  /\ Goto("rep", 1)
  /\ UNCHANGED <<world, cold, mode, start, cur, end, tally, tries, processed,
                 origin, faults>>

-------------------------------------------------------------------------------
(* _replicate_table_window.                                                *)

(* Without a watermark a table starts one window before the safety end.    *)
StartTable ==
  /\ pc = "rep" /\ tbl <= NTables
  /\ processed' = 0
  /\ IF file.wm[tbl] > 0
     THEN cur' = file.wm[tbl] /\ origin' = origin
     ELSE /\ cur' = SafetyEnd(tbl) - Window
          /\ origin' = [origin EXCEPT ![tbl] = IF @ > cur' THEN @ ELSE cur']
  /\ Goto("win", tbl)
  /\ UNCHANGED <<world, cold, file, mode, start, end, tally, tries, save, faults>>


(* Mutant: only whole windows are copied.                                  *)
WholeWindowPending ==
  processed < MaxCatchup[tbl] /\ cur + Window < SafetyEnd(tbl)
WindowPending == processed < MaxCatchup[tbl] /\ WinEnd > cur

CopyWindow ==
  /\ pc = "win" /\ WindowPending
  /\ Insert(hot \cap Between(tbl, cur, WinEnd))
  /\ Goto("hotCount", tbl)
  /\ UNCHANGED <<world, file, mode, start, cur, end, tally, tries, processed,
                 save, origin>>

(* The exception is counted by run_once, which goes on with the next table.*)
CopyWindowFails ==
  /\ pc = "win" /\ WindowPending
  /\ InsertFails(hot \cap Between(tbl, cur, WinEnd))
  /\ Goto("rep", tbl + 1)
  /\ UNCHANGED <<world, file, mode, start, cur, end, tally, tries, processed,
                 save, origin>>

WindowsDone ==
  /\ pc = "win" /\ ~WindowPending
  /\ Goto("rep", tbl + 1)
  /\ UNCHANGED <<world, cold, file, mode, start, cur, end, tally, tries,
                 processed, save, origin, faults>>

CountHotWindow ==
  /\ pc = "hotCount"
  /\ Scalar(tally', Cardinality(hot \cap Between(tbl, cur, WinEnd)))
  /\ tries' = 0
  /\ Goto("coldCount", tbl)
  /\ UNCHANGED <<world, cold, file, mode, start, cur, end, processed, save, origin>>

(* SELECT count() counts every copy of a row.                              *)
ColdCopies(S) == MapThenSumSet(LAMBDA r : cold[r], S)

(* The cold count is asked for up to three times: "while attempts < 3".    *)

(* Mutant: "while attempts <= 3".                                          *)
FourAttempts == 4
Attempts == 3
CountColdWindow ==
  /\ pc = "coldCount"
  /\ \E c \in {0, ColdCopies(Between(tbl, cur, WinEnd))} :
       /\ Scalar(c, ColdCopies(Between(tbl, cur, WinEnd)))
       /\ \/ /\ c >= tally
             /\ OpenStateFile(WithMark(tbl, WinEnd))
             /\ Goto("saveWin", tbl) /\ tries' = tries
          \/ /\ c < tally /\ tries + 1 < Attempts
             /\ Goto("coldCount", tbl) /\ tries' = tries + 1
             /\ UNCHANGED <<file, save>>
          \/ /\ c < tally /\ tries + 1 >= Attempts
             /\ Goto("rep", tbl + 1) /\ tries' = tries + 1
             /\ UNCHANGED <<file, save>>
  /\ UNCHANGED <<world, cold, mode, start, cur, end, tally, processed, origin>>

SaveWindow ==
  /\ pc = "saveWin"
  /\ WriteStateFile
  /\ cur' = WinEnd
  /\ processed' = processed + 1
  /\ Goto("win", tbl)
  /\ UNCHANGED <<world, cold, mode, start, end, tally, tries, origin, faults>>

TablesDone ==
  /\ pc = "rep" /\ tbl > NTables
  /\ Goto(IF CleanupDelay > 0 THEN "clean" ELSE "idle", 1)
  /\ UNCHANGED <<world, cold, file, mode, start, cur, end, tally, tries,
                 processed, save, origin, faults>>

(* _cleanup_by_watermark, one table: ALTER TABLE ... DELETE.               *)

(* Mutant: the delay is added to the watermark, not taken from it.         *)
CutoffAhead(t) == file.wm[t] + CleanupDelay
Cutoff(t) == file.wm[t] - CleanupDelay

CleanTable ==
  /\ pc = "clean" /\ tbl <= NTables
  /\ LET doomed == IF file.wm[tbl] > 0 /\ Cutoff(tbl) > 0 /\ Cutoff(tbl) < now
                   THEN {r \in hot : TableOf[r] = tbl /\ Stamp[r] < Cutoff(tbl)}
                   ELSE {}
     IN \/ hot' = hot \ doomed /\ faults' = faults
        \/ doomed # {} /\ hot' = hot /\ Fault
        \/ doomed # {} /\ hot' = hot \ doomed /\ Fault
  /\ Goto("clean", tbl + 1)
  /\ UNCHANGED <<now, cold, file, mode, start, cur, end, tally, tries, processed,
                 save, history>>

CleanupDone ==
  /\ pc = "clean" /\ tbl > NTables
  /\ Goto("idle", 1)
  /\ UNCHANGED <<world, cold, file, mode, start, cur, end, tally, tries,
                 processed, save, origin, faults>>

-------------------------------------------------------------------------------

Bootstrap ==
  \/ ReadHotMin \/ ReadColdMin \/ CountColdTable \/ FillWindow \/ FillFails
  \/ SeedDone \/ SaveSeed \/ BackfillDone \/ CountRecent \/ CountColdTotal
  \/ InsertRecent \/ MarkBootstrapDone \/ SaveMark

Replicate ==
  \/ StartTable \/ CopyWindow \/ CopyWindowFails \/ WindowsDone
  \/ CountHotWindow \/ CountColdWindow \/ SaveWindow \/ TablesDone

Cleanup == CleanTable \/ CleanupDone

Work == RunOnce \/ Bootstrap \/ Replicate \/ Cleanup

Next ==
  \/ Tick
  \/ \E r \in Rows : Ingest(r)
  \/ Crash \/ Stop \/ Restart \/ ResetState
  \/ Work

Spec == Init /\ [][Next]_vars

(* The loop runs for as long as the process does, a supervisor restarts    *)
(* the process, and time passes.  Rows arrive when they like.              *)
Fairness == WF_vars(Work) /\ WF_vars(Restart) /\ WF_vars(Tick)
FairSpec == Spec /\ Fairness

-------------------------------------------------------------------------------
(* Properties.                                                             *)

(* Every variable keeps its type; the copy counts never go negative.       *)
TypeOK ==
  /\ now \in 0..MaxTime /\ start \in 0..now
  /\ hot \subseteq Rows
  /\ cold \in [Rows -> Nat]
  /\ file \in States /\ save \in States
  /\ mode \in Modes
  /\ pc \in RunPcs \cup {"down"}
  /\ tbl \in 1..(NTables + 1)
  /\ cur \in Nat /\ end \in Nat /\ tally \in Nat
  /\ tries \in 0..3 /\ processed \in Nat
  /\ arrived \subseteq Rows /\ late \subseteq Rows
  /\ origin \in [Tables -> Nat]
  /\ faults \in Nat

Punctual == arrived \ late

(* The rows a state file claims are in the cold store: those of a table    *)
(* from where its watermark started up to the watermark.                   *)
Vouched(state) ==
  \A r \in Punctual : /\ origin[TableOf[r]] <= Stamp[r]
                      /\ Stamp[r] < state.wm[TableOf[r]]
                      => cold[r] > 0

(* A row that was in the hot store before its safety lag ran out, and lies *)
(* between the point where its table's watermark started and the watermark *)
(* in the state file, has a copy in the cold store: whatever failed, was   *)
(* retried or restarted, the loop leaves no hole behind it.                *)
NoHoleBelowWatermark == Vouched(file)

(* Cleanup by watermark is the only thing that deletes hot rows: of the    *)
(* punctual rows above the starting point none is in neither store.        *)
NoneInNeitherStore ==
  \A r \in Punctual : Stamp[r] >= origin[TableOf[r]] => r \in hot \/ cold[r] > 0

(* With nothing failed and no row late, the full-history bootstrap and the *)
(* loop together copy every row below the watermark exactly once, and no   *)
(* row twice, and cleanup deletes only copied rows: the hand-over from the *)
(* bootstrap to the loop neither misses a row nor repeats one.             *)
FaultFreeExactlyOnce ==
  mode = "full" /\ faults = 0 /\ late = {} =>
    \A r \in arrived :
      /\ cold[r] <= 1
      /\ Stamp[r] < file.wm[TableOf[r]] => cold[r] = 1
      /\ r \in hot \/ cold[r] = 1

(* Every extra copy of a row in the cold store is paid for by a failure, a *)
(* kill, a reset or a late row; the "recent" bootstrap alone costs one     *)
(* more, because it leaves no watermark for the loop to start from.        *)
DuplicatesPaidFor ==
  \A r \in Rows : cold[r] <= 1 + faults + Cardinality(late)
                           + (IF mode = "recent" THEN 1 ELSE 0)

(* How far the replicator has come: the watermark in the state file, or,   *)
(* while the file is being rewritten, the one on its way into it.          *)
Mark == IF pc \in SavePcs /\ file.kind = "torn" THEN save.wm ELSE file.wm

(* Once faults stop (MaxFaults bounds them), every punctual row that is in *)
(* the hot store at or above its table's watermark, and older than the     *)
(* last safety end, is eventually copied, unless the watermark is lost (by *)
(* a reset, or a kill while the file is being written), or a bootstrap     *)
(* that was interrupted begins again and seeds the table beyond the row.   *)
Owed(r) ==
  LET t == TableOf[r]
  IN r \in hot \cap Punctual /\ Mark[t] > 0 /\ Stamp[r] >= Mark[t]
                             /\ Stamp[r] < MaxTime - Lag[t]
GivenUp(r) == Mark[TableOf[r]] = 0 \/ origin[TableOf[r]] > Stamp[r]
OwedRowsAreCopied == \A r \in Rows : Owed(r) ~> cold[r] > 0 \/ GivenUp(r)

(* "Compensating cleanup by watermark (the cold side is confirmed to have  *)
(* received)", replication.py:191: a row leaves the hot store only when    *)
(* the cold store has it.                                                  *)
DeletedRowsAreCopied ==
  \A r \in arrived : r \in hot \/ cold[r] > 0

(* The loop implements the promise of WindowCopy: punctual rows are what   *)
(* it must not miss, a mark is final once the state file is being written. *)
Promise == INSTANCE WindowCopy WITH
  Times <- 0..MaxTime,
  live <- hot,
  known <- Punctual,
  copied <- {r \in Rows : cold[r] > 0},
  floor <- origin,
  mark <- Mark
KeepsPromise == Promise!Spec
===============================================================================
