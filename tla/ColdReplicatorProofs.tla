------------------------- MODULE ColdReplicatorProofs -------------------------
(***************************************************************************)
(* Theorems about ColdReplicator, for every set of rows, every number of   *)
(* tables, every setting and every number of faults.                       *)
(***************************************************************************)
EXTENDS ColdReplicator, FiniteSetTheorems, WellFoundedInduction, TLAPS

BootPcs == {"bootCold", "bootCount", "bootTotal", "bootInsert",
            "seed", "backfill", "saveSeed"}
WindowPcs == {"win", "hotCount", "coldCount", "saveWin"}

(* Everything punctual of the current table below x has been copied.       *)
CopiedUpTo(x) ==
  \A r \in Punctual : TableOf[r] = tbl /\ origin[tbl] <= Stamp[r] /\ Stamp[r] < x
                      => cold[r] > 0

(* A mark or an origin never passes the safety end of the latest round.    *)
BoundedMarks ==
  /\ StartTime <= start
  /\ \A t \in Tables : /\ origin[t] <= SafetyEnd(t)
                       /\ file.wm[t] <= SafetyEnd(t)
                       /\ save.wm[t] <= SafetyEnd(t)

HistoryOK == hot \subseteq arrived /\ late \subseteq arrived

FileOK ==
  /\ file.kind # "json" => \A t \in Tables : file.wm[t] = 0
  /\ pc \in SavePcs => file.kind # "json" /\ save.kind = "json"

(* Where the current table stands while its windows are copied.            *)
WindowOK ==
  /\ pc \in BootPcs \cup WindowPcs => tbl \in Tables
  /\ pc = "seed" => end = SafetyEnd(tbl)
  /\ pc \in WindowPcs => CopiedUpTo(cur) /\ cur <= SafetyEnd(tbl)
  /\ pc \in WindowPcs \ {"saveWin"} => file.wm[tbl] <= cur
  /\ pc \in WindowPcs \ {"win"} => CopiedUpTo(WinEnd) /\ cur < WinEnd
  /\ pc = "saveWin" => save.wm[tbl] = WinEnd
  /\ pc = "coldCount" => tries < 3

IInv ==
  /\ TypeOK
  /\ HistoryOK
  /\ BoundedMarks
  /\ FileOK
  /\ WindowOK
  /\ NoneInNeitherStore
  /\ NoHoleBelowWatermark
  /\ pc \in SavePcs => Vouched(save)

-------------------------------------------------------------------------------
(* The settings, and the operators the actions are built from.             *)

LEMMA SafetyEndFacts ==
  ASSUME start \in Nat, StartTime <= start, NEW t \in Tables
  PROVE  SafetyEnd(t) \in Nat /\ SafetyEnd(t) > Window
BY SettingsAssumption, ClockAssumption DEF SafetyEnd

LEMMA BlankFacts ==
  ASSUME NEW k \in {"absent", "torn", "json"}
  PROVE  /\ Blank(k) \in States
         /\ Blank(k).kind = k
         /\ \A t \in Tables : Blank(k).wm[t] = 0
BY DEF Blank, States

LEMMA WithMarkFacts ==
  ASSUME file \in States, NEW t \in Tables, NEW ms \in Nat
  PROVE  /\ WithMark(t, ms) \in States
         /\ WithMark(t, ms).kind = "json"
         /\ WithMark(t, ms).wm = [file.wm EXCEPT ![t] = ms]
         /\ WithMark(t, ms).wm[t] = ms
         /\ \A u \in Tables \ {t} : WithMark(t, ms).wm[u] = file.wm[u]
BY DEF WithMark, States

LEMMA CopiesFacts ==
  ASSUME cold \in [Rows -> Nat], NEW S
  PROVE  /\ Copies(S) \in [Rows -> Nat]
         /\ \A r \in Rows : cold[r] > 0 => Copies(S)[r] > 0
         /\ \A r \in Rows \cap S : Copies(S)[r] > 0
BY DEF Copies

LEMMA InsertFacts ==
  ASSUME TypeOK, NEW S, Insert(S) \/ InsertFails(S)
  PROVE  /\ cold' \in [Rows -> Nat] /\ faults' \in Nat
         /\ \A r \in Rows : cold[r] > 0 => cold'[r] > 0
<1>1. cold \in [Rows -> Nat] /\ faults \in Nat
  BY DEF TypeOK
<1>2. PICK part : cold' = Copies(part)
  BY DEF Insert, InsertFails
<1>3. faults' \in Nat
  BY <1>1, ClockAssumption DEF Insert, InsertFails, Fault
<1> QED
  BY <1>1, <1>2, <1>3, CopiesFacts

LEMMA ScalarFacts ==
  ASSUME faults \in Nat, NEW answer, NEW value, Scalar(answer, value)
  PROVE  faults' \in Nat /\ (answer = value \/ answer = 0)
BY DEF Scalar, Fault

LEMMA WriteFacts ==
  ASSUME TypeOK, WriteStateFile
  PROVE  file' \in States /\ save' \in States
BY BlankFacts DEF TypeOK, WriteStateFile

LEMMA CountFacts ==
  ASSUME NEW S \in SUBSET Rows
  PROVE  Cardinality(S) \in Nat
BY RowsAssumption, FS_Subset, FS_CardinalityType

LEMMA WinEndFacts ==
  ASSUME cur \in Nat, start \in Nat, StartTime <= start, tbl \in Tables
  PROVE  WinEnd \in Nat /\ WinEnd <= SafetyEnd(tbl)
BY SafetyEndFacts, SettingsAssumption DEF WinEnd

LEMMA FillEndFacts ==
  ASSUME cur \in Nat, end \in Nat
  PROVE  FillEnd \in Nat
BY SettingsAssumption DEF FillEnd

-------------------------------------------------------------------------------
(* Steps that leave the stores' contents and the marks alone, or only add  *)
(* copies: the data part of the invariant survives them.                   *)

LEMMA QuietStep ==
  ASSUME IInv, TypeOK', WindowOK', pc' \notin SavePcs,
         UNCHANGED <<hot, file, arrived, late, origin, start>>,
         save' = save \/ save' = Blank("absent"),
         \A r \in Rows : cold[r] > 0 => cold'[r] > 0
  PROVE  IInv'
<1>1. HistoryOK' /\ FileOK'
  BY DEF IInv, HistoryOK, FileOK
<1>2. BoundedMarks'
  <2>1. start \in Nat /\ StartTime <= start /\ start' = start
    BY DEF IInv, TypeOK, BoundedMarks
  <2>2. \A t \in Tables : save'.wm[t] <= SafetyEnd(t)
    BY <2>1, BlankFacts, SafetyEndFacts DEF IInv, BoundedMarks
  <2> QED
    BY <2>1, <2>2 DEF IInv, BoundedMarks, SafetyEnd
<1>3. NoneInNeitherStore' /\ NoHoleBelowWatermark'
  <2>1. Punctual' = Punctual /\ Punctual \subseteq Rows
    BY DEF Punctual, IInv, TypeOK
  <2> QED
    BY <2>1 DEF IInv, NoneInNeitherStore, NoHoleBelowWatermark, Vouched
<1> QED
  BY <1>1, <1>2, <1>3 DEF IInv

(* The same, for the window part: nothing the window depends on moves.     *)
LEMMA SameWindow ==
  ASSUME IInv,
         UNCHANGED <<file, arrived, late, origin, start, tbl, cur, end, save, tries>>,
         \A r \in Rows : cold[r] > 0 => cold'[r] > 0,
         pc' = pc
  PROVE  WindowOK'
<1>1. Punctual' = Punctual /\ Punctual \subseteq Rows
  BY DEF Punctual, IInv, TypeOK
<1>2. WinEnd' = WinEnd /\ SafetyEnd(tbl)' = SafetyEnd(tbl)
  BY DEF WinEnd, SafetyEnd
<1>3. CopiedUpTo(cur) => CopiedUpTo(cur)'
  BY <1>1 DEF CopiedUpTo
<1>4. CopiedUpTo(WinEnd) => CopiedUpTo(WinEnd)'
  BY <1>1, <1>2 DEF CopiedUpTo
<1> QED
  BY <1>2, <1>3, <1>4 DEF IInv, WindowOK

(* Outside the window loop and the seed only the table index is at stake.  *)
LEMMA NoWindow ==
  ASSUME pc' \notin WindowPcs, pc' # "seed", pc' \in BootPcs => tbl' \in Tables
  PROVE  WindowOK'
BY DEF WindowOK, BootPcs, WindowPcs

LEMMA TickStep == ASSUME IInv, Tick PROVE IInv'
<1> USE DEF Tick, locals, history
<1>1. TypeOK'
  BY ClockAssumption DEF IInv, TypeOK
<1>2. WindowOK'
  BY <1>1, SameWindow
<1>3. Punctual' = Punctual
  BY DEF Punctual
<1> QED
  BY <1>1, <1>2, <1>3 DEF IInv, HistoryOK, BoundedMarks, FileOK, SafetyEnd,
     NoneInNeitherStore, NoHoleBelowWatermark, Vouched

LEMMA ProcessStep == ASSUME IInv, Crash \/ Stop \/ Restart PROVE IInv'
<1> USE DEF Crash, Stop, Restart, locals, world
<1>1. TypeOK'
  BY BlankFacts DEF IInv, TypeOK, Fault, RunPcs
<1>2. WindowOK'
  BY NoWindow DEF WindowPcs, BootPcs
<1> QED
  BY <1>1, <1>2, QuietStep DEF SavePcs

LEMMA RunOnceStep == ASSUME IInv, RunOnce PROVE IInv'
<1> USE DEF RunOnce, Goto, world
<1>1. start' = now /\ start <= now /\ now \in Nat /\ start \in Nat
  BY ClockAssumption DEF IInv, TypeOK
<1>2. TypeOK'
  <2>1. pc' \in {"boot", "rep"} /\ tbl' = 1 /\ now' = now
    OBVIOUS
  <2> QED
    BY <1>1, <2>1, SettingsAssumption DEF IInv, TypeOK, RunPcs
<1>3. WindowOK'
  BY NoWindow DEF WindowPcs, BootPcs
<1>4. BoundedMarks'
  <2>1. StartTime <= start'
    BY <1>1, ClockAssumption DEF IInv, BoundedMarks
  <2>2. ASSUME NEW t \in Tables
        PROVE  SafetyEnd(t) <= SafetyEnd(t)' /\ SafetyEnd(t) \in Int
                 /\ SafetyEnd(t)' \in Int
    BY <1>1, SettingsAssumption DEF SafetyEnd
  <2>3. ASSUME NEW t \in Tables
        PROVE  origin[t] \in Nat /\ file.wm[t] \in Nat /\ save.wm[t] \in Nat
    BY DEF IInv, TypeOK, States
  <2> QED
    BY <2>1, <2>2, <2>3 DEF IInv, BoundedMarks
<1>5. pc' \notin SavePcs
  BY DEF SavePcs
<1>6. Punctual' = Punctual
  BY DEF Punctual
<1> QED
  BY <1>2, <1>3, <1>4, <1>5, <1>6 DEF IInv, HistoryOK, FileOK,
     NoneInNeitherStore, NoHoleBelowWatermark, Vouched

LEMMA IngestStep == ASSUME IInv, NEW r \in Rows, Ingest(r) PROVE IInv'
<1> USE DEF Ingest, locals
<1>1. TypeOK'
  BY DEF IInv, TypeOK
<1>2. Punctual' \subseteq Punctual \cup {r}
  BY DEF Punctual
<1>3. r \in Punctual' => r \in hot' /\ Stamp[r] >= SafetyEnd(TableOf[r])
  <2>1. TableOf[r] \in Tables /\ Stamp[r] \in Nat
    BY RowsAssumption
  <2>2. now \in Nat /\ start \in Nat /\ start <= now /\ Lag[TableOf[r]] \in Nat
    BY <2>1, ClockAssumption, SettingsAssumption DEF IInv, TypeOK
  <2> QED
    BY <2>1, <2>2 DEF Punctual, SafetyEnd
<1>4. \A t \in Tables : SafetyEnd(t)' = SafetyEnd(t)
  BY DEF SafetyEnd
<1>5. HistoryOK' /\ FileOK' /\ BoundedMarks'
  BY <1>4 DEF IInv, HistoryOK, FileOK, BoundedMarks
<1>6. NoneInNeitherStore'
  BY <1>2, <1>3 DEF IInv, NoneInNeitherStore
<1>7. ASSUME NEW st, st \in States, Vouched(st),
             \A t \in Tables : st.wm[t] <= SafetyEnd(t)
      PROVE  \A q \in Punctual' : /\ origin[TableOf[q]] <= Stamp[q]
                                  /\ Stamp[q] < st.wm[TableOf[q]]
                                  => cold[q] > 0
  <2>1. TableOf[r] \in Tables /\ Stamp[r] \in Nat /\ st.wm[TableOf[r]] \in Nat
    BY <1>7, RowsAssumption DEF States
  <2>2. SafetyEnd(TableOf[r]) \in Nat
    BY <2>1, SafetyEndFacts, ClockAssumption DEF IInv, TypeOK, BoundedMarks
  <2>3. r \in Punctual' => ~(Stamp[r] < st.wm[TableOf[r]])
    BY <1>3, <1>7, <2>1, <2>2
  <2> QED
    BY <1>2, <1>7, <2>3 DEF Vouched
<1>8. NoHoleBelowWatermark' /\ (pc' \in SavePcs => Vouched(save)')
  BY <1>7 DEF IInv, TypeOK, BoundedMarks, NoHoleBelowWatermark, Vouched
<1>9. ASSUME tbl \in Tables, NEW x \in Nat, CopiedUpTo(x), x <= SafetyEnd(tbl)
      PROVE  \A q \in Punctual' : /\ TableOf[q] = tbl
                                  /\ origin[tbl] <= Stamp[q] /\ Stamp[q] < x
                                  => cold[q] > 0
  <2>1. TableOf[r] \in Tables /\ Stamp[r] \in Nat
    BY RowsAssumption
  <2>2. SafetyEnd(tbl) \in Nat
    BY <1>9, SafetyEndFacts, ClockAssumption DEF IInv, TypeOK, BoundedMarks
  <2>3. r \in Punctual' /\ TableOf[r] = tbl => ~(Stamp[r] < x)
    BY <1>3, <1>9, <2>1, <2>2
  <2> QED
    BY <1>2, <1>9, <2>3 DEF CopiedUpTo
<1>10. WindowOK'
  <2>1. WinEnd' = WinEnd
    BY <1>4 DEF WinEnd, SafetyEnd
  <2>2. tbl \in Tables => WinEnd \in Nat /\ WinEnd <= SafetyEnd(tbl)
    BY WinEndFacts, ClockAssumption DEF IInv, TypeOK, BoundedMarks
  <2>3. pc \in WindowPcs => CopiedUpTo(cur)'
    BY <1>9 DEF IInv, TypeOK, WindowOK, CopiedUpTo
  <2>4. pc \in WindowPcs \ {"win"} => CopiedUpTo(WinEnd)'
    BY <1>9, <2>1, <2>2 DEF IInv, WindowOK, CopiedUpTo
  <2>5. SafetyEnd(tbl)' = SafetyEnd(tbl)
    BY DEF SafetyEnd
  <2> QED
    BY <2>1, <2>3, <2>4, <2>5 DEF IInv, WindowOK
<1> QED
  BY <1>1, <1>5, <1>6, <1>8, <1>10 DEF IInv

LEMMA ResetStep == ASSUME IInv, ResetState PROVE IInv'
<1> USE DEF ResetState, locals, world
<1>1. file' \in States /\ file'.kind = "absent" /\ \A t \in Tables : file'.wm[t] = 0
  BY BlankFacts
<1>2. TypeOK'
  BY <1>1 DEF IInv, TypeOK, Fault
<1>3. Punctual' = Punctual /\ Punctual \subseteq Rows
  BY DEF Punctual, IInv, TypeOK
<1>4. HistoryOK' /\ FileOK' /\ NoneInNeitherStore'
  BY <1>1, <1>3 DEF IInv, HistoryOK, FileOK, NoneInNeitherStore
<1>5. BoundedMarks'
  BY <1>1, SafetyEndFacts, ClockAssumption DEF IInv, TypeOK, BoundedMarks, SafetyEnd
<1>6. NoHoleBelowWatermark'
  BY <1>1, <1>3, RowsAssumption DEF NoHoleBelowWatermark, Vouched
<1>7. pc' \in SavePcs => Vouched(save)'
  BY <1>3 DEF IInv, Vouched
<1>8. WindowOK'
  <2>1. WinEnd' = WinEnd /\ \A t \in Tables : SafetyEnd(t)' = SafetyEnd(t)
    BY DEF WinEnd, SafetyEnd
  <2>2. \A x : CopiedUpTo(x)' = CopiedUpTo(x)
    BY <1>3 DEF CopiedUpTo
  <2> QED
    BY <1>1, <2>1, <2>2 DEF IInv, TypeOK, WindowOK, BootPcs, WindowPcs
<1> QED
  BY <1>2, <1>4, <1>5, <1>6, <1>7, <1>8 DEF IInv

-------------------------------------------------------------------------------
(* The bootstrap.                                                          *)

LEMMA InvFacts ==
  ASSUME IInv
  PROVE  /\ now \in Nat /\ start \in Nat /\ start <= now /\ StartTime <= start
         /\ cur \in Nat /\ end \in Nat /\ faults \in Nat
         /\ file \in States /\ hot \in SUBSET Rows
         /\ \A t \in Tables : SafetyEnd(t) \in Nat
BY SafetyEndFacts, ClockAssumption DEF IInv, TypeOK, BoundedMarks

LEMMA NextTable ==
  ASSUME tbl \in Tables
  PROVE  tbl + 1 \in 1..(NTables + 1) /\ tbl \in 1..(NTables + 1)
BY SettingsAssumption DEF Tables

LEMMA TableInRange ==
  ASSUME TypeOK, tbl <= NTables
  PROVE  tbl \in Tables
BY SettingsAssumption DEF TypeOK, Tables

LEMMA ReadMinStep == ASSUME IInv, ReadHotMin \/ ReadColdMin PROVE IInv'
<1> USE DEF ReadHotMin, ReadColdMin, Goto, world
<1>1. tbl \in Tables /\ tbl' = tbl
  BY TableInRange DEF IInv, WindowOK, BootPcs
<1>2. cur' \in Nat /\ end' \in Nat /\ faults' \in Nat
  <2>1. StampsOrZero \subseteq Nat
    BY RowsAssumption DEF StampsOrZero
  <2>2. CASE ReadHotMin
    <3>1. PICK m \in StampsOrZero : Scalar(cur', m)
      BY <2>2
    <3> QED
      BY <2>1, <2>2, <3>1, InvFacts, ScalarFacts
  <2>3. CASE ReadColdMin
    <3>1. PICK m \in StampsOrZero : Scalar(end', m)
      BY <2>3
    <3> QED
      BY <2>1, <2>3, <3>1, InvFacts, ScalarFacts
  <2> QED
    BY <2>2, <2>3
<1>3. TypeOK'
  BY <1>1, <1>2, NextTable DEF IInv, TypeOK, RunPcs
<1>4. WindowOK'
  BY <1>1, NoWindow DEF WindowPcs, BootPcs
<1> QED
  BY <1>3, <1>4, QuietStep DEF SavePcs

LEMMA CountColdTableStep == ASSUME IInv, CountColdTable PROVE IInv'
<1> USE DEF CountColdTable, Goto, world
<1>1. tbl \in Tables
  BY DEF IInv, WindowOK, BootPcs
<1>2. /\ faults' \in Nat
      /\ \/ pc' = "seed" /\ tbl' = tbl /\ end' = SafetyEnd(tbl)
         \/ pc' = "backfill" /\ tbl' = tbl /\ end' = end
         \/ pc' = "boot" /\ tbl' = tbl + 1 /\ end' = end
  BY InvFacts, ScalarFacts
<1>3. TypeOK'
  BY <1>1, <1>2, InvFacts, NextTable DEF IInv, TypeOK, RunPcs
<1>4. WindowOK'
  BY <1>1, <1>2 DEF WindowOK, WindowPcs, BootPcs, SafetyEnd
<1> QED
  BY <1>2, <1>3, <1>4, QuietStep DEF SavePcs

LEMMA FillStep == ASSUME IInv, FillWindow \/ FillFails PROVE IInv'
<1> USE DEF FillWindow, FillFails, world
<1>1. /\ cold' \in [Rows -> Nat] /\ faults' \in Nat
      /\ \A r \in Rows : cold[r] > 0 => cold'[r] > 0
  BY InsertFacts DEF IInv
<1>2. cur' \in Nat
  BY InvFacts, FillEndFacts
<1>3. TypeOK'
  BY <1>1, <1>2 DEF IInv, TypeOK
<1>4. WindowOK'
  BY DEF IInv, WindowOK, WindowPcs, BootPcs, SafetyEnd
<1> QED
  BY <1>1, <1>3, <1>4, QuietStep DEF SavePcs

LEMMA SeedDoneStep == ASSUME IInv, SeedDone PROVE IInv'
<1> USE DEF SeedDone, Goto, world, OpenStateFile
<1>1. tbl \in Tables /\ tbl' = tbl
  BY DEF IInv, WindowOK, BootPcs
<1> DEFINE W == WithMark(tbl, SafetyEnd(tbl))
<1>2. /\ file' \in States /\ file'.kind = "torn" /\ \A t \in Tables : file'.wm[t] = 0
      /\ save' = W /\ save' \in States
      /\ W.wm[tbl] = SafetyEnd(tbl)
      /\ \A u \in Tables \ {tbl} : W.wm[u] = file.wm[u]
  BY <1>1, InvFacts, BlankFacts, WithMarkFacts
<1>3. /\ origin' \in [Tables -> Nat] /\ origin'[tbl] = SafetyEnd(tbl)
      /\ \A u \in Tables \ {tbl} : origin'[u] = origin[u]
      /\ \A u \in Tables : origin[u] \in Nat /\ origin[u] <= origin'[u]
  BY <1>1, InvFacts DEF IInv, TypeOK, BoundedMarks
<1>4. TypeOK'
  BY <1>1, <1>2, <1>3, NextTable DEF IInv, TypeOK, RunPcs
<1>5. HistoryOK' /\ FileOK'
  <2>1. W.kind = "json"
    BY <1>1, InvFacts, WithMarkFacts
  <2> QED
    BY <1>2, <2>1 DEF IInv, HistoryOK, FileOK
<1>6. BoundedMarks'
  BY <1>1, <1>2, <1>3, InvFacts DEF IInv, BoundedMarks, SafetyEnd
<1>7. WindowOK'
  BY <1>1, NoWindow DEF WindowPcs
<1>8. Punctual' = Punctual /\ Punctual \subseteq Rows
  BY DEF Punctual, IInv, TypeOK
<1>9. NoneInNeitherStore'
  <2>1. \A r \in Punctual : TableOf[r] \in Tables /\ Stamp[r] \in Nat
    BY <1>8, RowsAssumption
  <2> QED
    BY <1>3, <1>8, <2>1 DEF IInv, NoneInNeitherStore
<1>10. NoHoleBelowWatermark' /\ Vouched(save)'
  <2>1. \A r \in Punctual : TableOf[r] \in Tables /\ Stamp[r] \in Nat
    BY <1>8, RowsAssumption
  <2>2. NoHoleBelowWatermark'
    BY <1>2, <1>8, <2>1 DEF NoHoleBelowWatermark, Vouched
  <2>3. ASSUME NEW r \in Punctual, origin'[TableOf[r]] <= Stamp[r],
               Stamp[r] < W.wm[TableOf[r]]
        PROVE  cold[r] > 0
    <3>1. CASE TableOf[r] = tbl
      BY <1>2, <1>3, <2>1, <2>3, <3>1, InvFacts
    <3>2. CASE TableOf[r] # tbl
      BY <1>2, <1>3, <2>1, <2>3, <3>2 DEF IInv, NoHoleBelowWatermark, Vouched
    <3> QED
      BY <3>1, <3>2
  <2> QED
    BY <1>2, <1>8, <2>2, <2>3 DEF Vouched
<1> QED
  BY <1>4, <1>5, <1>6, <1>7, <1>9, <1>10 DEF IInv

(* Closing the state file: it now says what was prepared, or is gone.      *)
LEMMA SaveStep ==
  ASSUME IInv, WriteStateFile, pc \in SavePcs,
         TypeOK', WindowOK', pc' \notin SavePcs,
         UNCHANGED <<hot, cold, arrived, late, origin, start>>
  PROVE  IInv'
<1> USE DEF WriteStateFile
<1>1. file' = save \/ file' = file
  OBVIOUS
<1>2. save'.kind = "absent" /\ \A t \in Tables : save'.wm[t] = 0
  BY BlankFacts
<1>3. HistoryOK' /\ FileOK'
  BY <1>1 DEF IInv, HistoryOK, FileOK
<1>4. BoundedMarks'
  BY <1>1, <1>2, InvFacts DEF IInv, BoundedMarks, SafetyEnd
<1>5. Punctual' = Punctual
  BY DEF Punctual
<1>6. NoneInNeitherStore' /\ NoHoleBelowWatermark'
  BY <1>1, <1>5 DEF IInv, NoneInNeitherStore, NoHoleBelowWatermark, Vouched
<1> QED
  BY <1>3, <1>4, <1>6 DEF IInv

LEMMA QuietBootStep ==
  ASSUME IInv, BackfillDone \/ CountRecent \/ CountColdTotal \/ InsertRecent
  PROVE  IInv'
<1> USE DEF BackfillDone, CountRecent, CountColdTotal, InsertRecent, Goto, world
<1>1. tbl \in Tables
  BY TableInRange DEF IInv, WindowOK, BootPcs
<1>2. \/ pc' \in {"bootTotal", "bootInsert"} /\ tbl' = tbl
      \/ pc' = "boot" /\ tbl' = tbl + 1
  OBVIOUS
<1>3. tally' \in Nat /\ faults' \in Nat
  <2>1. Cardinality(Recent(tbl)) \in Nat
    BY InvFacts, CountFacts DEF Recent
  <2>2. tally \in Nat
    BY DEF IInv, TypeOK
  <2> QED
    BY <2>1, <2>2, InvFacts, ScalarFacts, InsertFacts DEF IInv
<1>4. cold' \in [Rows -> Nat] /\ \A r \in Rows : cold[r] > 0 => cold'[r] > 0
  BY InsertFacts DEF IInv, TypeOK
<1>5. TypeOK'
  BY <1>1, <1>2, <1>3, <1>4, NextTable DEF IInv, TypeOK, RunPcs
<1>6. WindowOK'
  BY <1>1, <1>2, NoWindow DEF WindowPcs, BootPcs
<1> QED
  BY <1>2, <1>4, <1>5, <1>6, QuietStep DEF SavePcs

LEMMA SaveBootStep == ASSUME IInv, SaveSeed \/ SaveMark PROVE IInv'
<1> USE DEF SaveSeed, SaveMark, Goto, world
<1>1. pc = "saveSeed" => tbl \in Tables
  BY DEF IInv, WindowOK, BootPcs
<1>2. tbl' \in 1..(NTables + 1)
  BY <1>1, NextTable, SettingsAssumption
<1>3. TypeOK'
  BY <1>2, WriteFacts DEF IInv, TypeOK, RunPcs
<1>4. WindowOK'
  BY NoWindow DEF WindowPcs, BootPcs
<1> QED
  BY <1>3, <1>4, SaveStep DEF SavePcs

LEMMA MarkBootstrapStep == ASSUME IInv, MarkBootstrapDone PROVE IInv'
<1> USE DEF MarkBootstrapDone, Goto, world, OpenStateFile
<1>1. WindowOK'
  BY NoWindow DEF WindowPcs, BootPcs
<1>2. CASE file.kind = "torn"
  <2>1. TypeOK'
    BY <1>2, SettingsAssumption DEF IInv, TypeOK, RunPcs
  <2> QED
    BY <1>1, <1>2, <2>1, QuietStep DEF SavePcs
<1>3. CASE file.kind # "torn"
  <2>1. /\ file' \in States /\ file'.kind = "torn"
        /\ \A t \in Tables : file'.wm[t] = 0
    BY <1>3, BlankFacts
  <2>2. /\ save' = [kind |-> "json", wm |-> file.wm, done |-> TRUE]
        /\ pc' = "saveMark" /\ tbl' = tbl
    BY <1>3
  <2>3. save' \in States /\ save'.kind = "json" /\ save'.wm = file.wm
    BY <2>2, InvFacts DEF States
  <2>4. TypeOK'
    BY <2>1, <2>2, <2>3 DEF IInv, TypeOK, RunPcs
  <2>5. HistoryOK' /\ FileOK'
    BY <2>1, <2>3 DEF IInv, HistoryOK, FileOK
  <2>6. BoundedMarks'
    BY <2>1, <2>3, InvFacts DEF IInv, BoundedMarks, SafetyEnd
  <2>7. Punctual' = Punctual /\ Punctual \subseteq Rows
    BY DEF Punctual, IInv, TypeOK
  <2>8. NoneInNeitherStore' /\ Vouched(save)'
    BY <2>3, <2>7 DEF IInv, NoneInNeitherStore, NoHoleBelowWatermark, Vouched
  <2>9. NoHoleBelowWatermark'
    BY <2>1, <2>7, RowsAssumption DEF NoHoleBelowWatermark, Vouched
  <2> QED
    BY <1>1, <2>4, <2>5, <2>6, <2>8, <2>9 DEF IInv
<1> QED
  BY <1>2, <1>3

-------------------------------------------------------------------------------
(* The window loop.                                                        *)

LEMMA StartTableStep == ASSUME IInv, StartTable PROVE IInv'
<1> USE DEF StartTable, Goto, world
<1>1. tbl \in Tables /\ tbl' = tbl /\ pc' = "win"
  BY TableInRange DEF IInv
<1>2. Punctual' = Punctual /\ Punctual \subseteq Rows
  BY DEF Punctual, IInv, TypeOK
<1>3. \A r \in Punctual : TableOf[r] \in Tables /\ Stamp[r] \in Nat
  BY <1>2, RowsAssumption
<1>4. SafetyEnd(tbl) \in Nat /\ SafetyEnd(tbl) - Window \in Nat
  BY <1>1, InvFacts, SafetyEndFacts, SettingsAssumption
<1>5. /\ origin' \in [Tables -> Nat] /\ cur' \in Nat /\ cur' <= SafetyEnd(tbl)
      /\ \A u \in Tables : /\ origin[u] \in Nat /\ origin[u] <= origin'[u]
                          /\ origin'[u] <= SafetyEnd(u)
      /\ file.wm[tbl] <= cur'
  <2>1. CASE file.wm[tbl] > 0
    BY <1>1, <2>1 DEF IInv, TypeOK, States, BoundedMarks
  <2>2. CASE ~(file.wm[tbl] > 0)
    <3>1. file.wm[tbl] = 0
      BY <1>1, <2>2 DEF IInv, TypeOK, States
    <3>2. /\ cur' = SafetyEnd(tbl) - Window
          /\ origin' = [origin EXCEPT ![tbl] = IF @ > cur' THEN @ ELSE cur']
      BY <2>2
    <3>3. cur' \in Nat /\ cur' <= SafetyEnd(tbl)
      BY <1>4, <3>2, SettingsAssumption
    <3>4. origin \in [Tables -> Nat] /\ \A u \in Tables : origin[u] <= SafetyEnd(u)
      BY DEF IInv, TypeOK, BoundedMarks
    <3> QED
      BY <1>1, <3>1, <3>2, <3>3, <3>4
  <2> QED
    BY <2>1, <2>2
<1>6. TypeOK'
  BY <1>1, <1>5, NextTable DEF IInv, TypeOK, RunPcs
<1>7. HistoryOK' /\ FileOK'
  BY <1>1 DEF IInv, HistoryOK, FileOK, SavePcs
<1>8. BoundedMarks'
  BY <1>5, InvFacts DEF IInv, BoundedMarks, SafetyEnd
<1>9. NoneInNeitherStore'
  BY <1>2, <1>3, <1>5 DEF IInv, NoneInNeitherStore
<1>10. NoHoleBelowWatermark'
  BY <1>2, <1>3, <1>5 DEF IInv, NoHoleBelowWatermark, Vouched
<1>11. CopiedUpTo(cur)'
  <2>1. CASE file.wm[tbl] > 0
    BY <1>1, <1>2, <2>1 DEF IInv, NoHoleBelowWatermark, Vouched, CopiedUpTo
  <2>2. CASE ~(file.wm[tbl] > 0)
    <3>1. origin'[tbl] >= cur'
      BY <1>1, <1>4, <2>2 DEF IInv, TypeOK
    <3> QED
      BY <1>1, <1>2, <1>3, <1>5, <3>1 DEF CopiedUpTo
  <2> QED
    BY <2>1, <2>2
<1>12. WindowOK'
  BY <1>1, <1>5, <1>11 DEF WindowOK, BootPcs, WindowPcs, SafetyEnd
<1> QED
  BY <1>1, <1>6, <1>7, <1>8, <1>9, <1>10, <1>12 DEF IInv, SavePcs

(* A copied window: every punctual row of it was in the hot store, or has  *)
(* a copy already.                                                         *)
LEMMA CopyWindowStep == ASSUME IInv, CopyWindow PROVE IInv'
<1> USE DEF CopyWindow, Goto, world
<1>1. tbl \in Tables
  BY DEF IInv, WindowOK, WindowPcs
<1>2. /\ cold' \in [Rows -> Nat] /\ faults' \in Nat
      /\ \A r \in Rows : cold[r] > 0 => cold'[r] > 0
  BY InsertFacts DEF IInv
<1>3. TypeOK'
  BY <1>1, <1>2, NextTable DEF IInv, TypeOK, RunPcs
<1>4. Punctual' = Punctual /\ Punctual \subseteq Rows
  BY DEF Punctual, IInv, TypeOK
<1>5. WinEnd' = WinEnd /\ SafetyEnd(tbl)' = SafetyEnd(tbl)
  BY DEF WinEnd, SafetyEnd
<1>6. CopiedUpTo(cur)'
  BY <1>2, <1>4 DEF IInv, WindowOK, WindowPcs, CopiedUpTo
<1>7. CopiedUpTo(WinEnd)'
  <2>1. SUFFICES ASSUME NEW r \in Punctual, TableOf[r] = tbl,
                        origin[tbl] <= Stamp[r], Stamp[r] < WinEnd
                 PROVE  cold'[r] > 0
    BY <1>4, <1>5 DEF CopiedUpTo
  <2>2. r \in Rows /\ Stamp[r] \in Nat
    BY <1>4, RowsAssumption
  <2>3. CASE Stamp[r] < cur
    BY <1>2, <2>1, <2>2, <2>3 DEF IInv, WindowOK, WindowPcs, CopiedUpTo
  <2>4. CASE ~(Stamp[r] < cur) /\ r \in hot
    <3>1. r \in hot \cap Between(tbl, cur, WinEnd)
      BY <2>1, <2>2, <2>4, InvFacts DEF Between
    <3>2. cold' = Copies(hot \cap Between(tbl, cur, WinEnd))
      BY DEF Insert
    <3> QED
      BY <2>2, <3>1, <3>2, CopiesFacts DEF IInv, TypeOK
  <2>5. CASE r \notin hot
    BY <1>2, <2>1, <2>2, <2>5 DEF IInv, NoneInNeitherStore
  <2> QED
    BY <2>3, <2>4, <2>5
<1>8. cur < WinEnd
  BY <1>1, InvFacts, WinEndFacts DEF WindowPending
<1>9. WindowOK'
  BY <1>1, <1>5, <1>6, <1>7, <1>8 DEF IInv, WindowOK, WindowPcs, BootPcs
<1> QED
  BY <1>2, <1>3, <1>9, QuietStep DEF SavePcs

LEMMA LeaveTableStep ==
  ASSUME IInv, CopyWindowFails \/ WindowsDone \/ TablesDone \/ CleanupDone
  PROVE  IInv'
<1> USE DEF CopyWindowFails, WindowsDone, TablesDone, CleanupDone, Goto, world
<1>1. pc = "win" => tbl \in Tables
  BY DEF IInv, WindowOK, WindowPcs
<1>2. pc' \in {"rep", "clean", "idle"} /\ tbl' \in 1..(NTables + 1)
  BY <1>1, NextTable, SettingsAssumption
<1>3. /\ cold' \in [Rows -> Nat] /\ faults' \in Nat
      /\ \A r \in Rows : cold[r] > 0 => cold'[r] > 0
  BY InsertFacts DEF IInv, TypeOK
<1>4. TypeOK'
  BY <1>2, <1>3 DEF IInv, TypeOK, RunPcs
<1>5. WindowOK'
  BY <1>2, NoWindow DEF WindowPcs, BootPcs
<1> QED
  BY <1>2, <1>3, <1>4, <1>5, QuietStep DEF SavePcs

LEMMA CountHotStep == ASSUME IInv, CountHotWindow PROVE IInv'
<1> USE DEF CountHotWindow, Goto, world
<1>1. tbl \in Tables
  BY DEF IInv, WindowOK, WindowPcs
<1>2. tally' \in Nat /\ faults' \in Nat
  <2>1. Cardinality(hot \cap Between(tbl, cur, WinEnd)) \in Nat
    BY InvFacts, CountFacts
  <2> QED
    BY <2>1, InvFacts, ScalarFacts
<1>3. TypeOK'
  BY <1>1, <1>2, NextTable DEF IInv, TypeOK, RunPcs
<1>4. Punctual' = Punctual /\ WinEnd' = WinEnd /\ SafetyEnd(tbl)' = SafetyEnd(tbl)
  BY DEF Punctual, WinEnd, SafetyEnd
<1>5. WindowOK'
  BY <1>4 DEF IInv, WindowOK, WindowPcs, BootPcs, CopiedUpTo
<1> QED
  BY <1>3, <1>5, QuietStep DEF SavePcs

LEMMA CountColdStep == ASSUME IInv, CountColdWindow PROVE IInv'
<1> USE DEF CountColdWindow, Goto, world, OpenStateFile, Attempts
<1>1. /\ tbl \in Tables
      /\ tries \in 0..3 /\ faults' \in Nat
  BY InvFacts, ScalarFacts DEF IInv, TypeOK, WindowOK, WindowPcs
<1>2. Punctual' = Punctual /\ Punctual \subseteq Rows
  BY DEF Punctual, IInv, TypeOK
<1> DEFINE Save == /\ file' = Blank("torn") /\ save' = WithMark(tbl, WinEnd)
                   /\ pc' = "saveWin" /\ tbl' = tbl /\ tries' = tries
           Again == /\ UNCHANGED <<file, save>>
                    /\ pc' = "coldCount" /\ tbl' = tbl
                    /\ tries' = tries + 1 /\ tries + 1 < 3
           Fail == /\ UNCHANGED <<file, save>>
                   /\ pc' = "rep" /\ tbl' = tbl + 1
                   /\ tries' = tries + 1 /\ tries + 1 >= 3
<1>3. /\ Save \/ Again \/ Fail
      /\ UNCHANGED <<now, hot, arrived, late, cold, mode, start, cur, end, tally,
                     processed, origin>>
      /\ pc = "coldCount"
  OBVIOUS
<1> HIDE DEF CountColdWindow
<1>4. CASE Again \/ Fail
  <2>1. /\ UNCHANGED <<file, save>>
        /\ \/ pc' = "coldCount" /\ tbl' = tbl /\ tries' \in 0..3
           \/ pc' = "rep" /\ tbl' = tbl + 1 /\ tries' \in 0..3
        /\ pc' = "coldCount" => tries' < 3
    BY <1>1, <1>3, <1>4 DEF IInv, WindowOK
  <2>2. TypeOK'
    BY <1>1, <1>3, <2>1, NextTable DEF IInv, TypeOK, RunPcs
  <2>3. tbl' = tbl => WinEnd' = WinEnd /\ SafetyEnd(tbl)' = SafetyEnd(tbl)
    BY <1>3 DEF WinEnd, SafetyEnd
  <2>4. WindowOK'
    BY <1>2, <1>3, <2>1, <2>3 DEF IInv, WindowOK, WindowPcs, BootPcs, CopiedUpTo
  <2> QED
    BY <1>3, <2>1, <2>2, <2>4, QuietStep DEF SavePcs
<1>5. CASE Save
  <2>1. /\ file' = Blank("torn") /\ save' = WithMark(tbl, WinEnd)
        /\ pc' = "saveWin" /\ tbl' = tbl /\ tries' = tries
    BY <1>5
  <2>2. WinEnd \in Nat /\ WinEnd <= SafetyEnd(tbl)
    BY <1>1, InvFacts, WinEndFacts
  <2>3. /\ save' \in States /\ save'.kind = "json" /\ save'.wm[tbl] = WinEnd
        /\ \A u \in Tables \ {tbl} : save'.wm[u] = file.wm[u]
    <3>1. file \in States /\ tbl \in Tables
      BY <1>1, InvFacts
    <3> DEFINE W == WithMark(tbl, WinEnd)
    <3>2. /\ W \in States /\ W.kind = "json" /\ W.wm[tbl] = WinEnd
          /\ \A u \in Tables \ {tbl} : W.wm[u] = file.wm[u]
      BY <2>2, <3>1, WithMarkFacts
    <3>3. save' = W
      BY <2>1
    <3> QED
      BY <3>2, <3>3
  <2>4. /\ file' \in States /\ file'.kind = "torn"
        /\ \A t \in Tables : file'.wm[t] = 0
    BY <2>1, BlankFacts
  <2>5. TypeOK'
    BY <1>1, <1>3, <2>1, <2>3, <2>4, NextTable DEF IInv, TypeOK, RunPcs
  <2>6. HistoryOK' /\ FileOK'
    BY <1>3, <2>3, <2>4 DEF IInv, HistoryOK, FileOK
  <2>7. BoundedMarks'
    BY <1>1, <1>3, <2>2, <2>3, <2>4, InvFacts DEF IInv, BoundedMarks, SafetyEnd
  <2>8. WinEnd' = WinEnd /\ SafetyEnd(tbl)' = SafetyEnd(tbl)
    BY <1>3, <2>1 DEF WinEnd, SafetyEnd
  <2>9. WindowOK'
    BY <1>1, <1>2, <1>3, <2>1, <2>2, <2>3, <2>8
       DEF IInv, WindowOK, WindowPcs, BootPcs, CopiedUpTo
  <2>10. NoneInNeitherStore'
    BY <1>2, <1>3 DEF IInv, NoneInNeitherStore
  <2>11. NoHoleBelowWatermark'
    BY <1>2, <1>3, <2>4, RowsAssumption DEF NoHoleBelowWatermark, Vouched
  <2>12. Vouched(save)'
    <3>1. SUFFICES ASSUME NEW r \in Punctual, origin[TableOf[r]] <= Stamp[r],
                          Stamp[r] < save'.wm[TableOf[r]]
                   PROVE  cold[r] > 0
      BY <1>2, <1>3 DEF Vouched
    <3>2. CASE TableOf[r] = tbl
      BY <1>3, <2>3, <3>1, <3>2 DEF IInv, WindowOK, WindowPcs, CopiedUpTo
    <3>3. CASE TableOf[r] # tbl
      BY <1>2, <1>3, <2>3, <3>1, <3>3, RowsAssumption DEF IInv, NoHoleBelowWatermark, Vouched
    <3> QED
      BY <3>2, <3>3
  <2> QED
    BY <2>5, <2>6, <2>7, <2>9, <2>10, <2>11, <2>12 DEF IInv
<1> QED
  BY <1>3, <1>4, <1>5

LEMMA SaveWindowStep == ASSUME IInv, SaveWindow PROVE IInv'
<1> USE DEF SaveWindow, Goto, world
<1>1. tbl \in Tables /\ tbl' = tbl /\ pc' = "win"
  BY DEF IInv, WindowOK, WindowPcs
<1>2. WinEnd \in Nat /\ WinEnd <= SafetyEnd(tbl)
  BY <1>1, InvFacts, WinEndFacts
<1>3. processed' \in Nat
  BY DEF IInv, TypeOK
<1>4. TypeOK'
  BY <1>1, <1>2, <1>3, NextTable, WriteFacts DEF IInv, TypeOK, RunPcs
<1>5. Punctual' = Punctual /\ SafetyEnd(tbl)' = SafetyEnd(tbl)
  BY DEF Punctual, SafetyEnd
<1>6. CopiedUpTo(cur)'
  BY <1>5 DEF IInv, WindowOK, WindowPcs, CopiedUpTo
<1>7. file'.wm[tbl] <= cur'
  <2>1. file.kind # "json" /\ file.wm[tbl] = 0
    BY <1>1 DEF IInv, FileOK, SavePcs
  <2>2. save.wm[tbl] = WinEnd
    BY DEF IInv, WindowOK
  <2> QED
    BY <1>2, <2>1, <2>2 DEF WriteStateFile
<1>8. WindowOK'
  BY <1>1, <1>2, <1>5, <1>6, <1>7 DEF WindowOK, WindowPcs, BootPcs
<1> QED
  BY <1>1, <1>4, <1>8, SaveStep DEF SavePcs

(* Cleanup: what it deletes lies below the watermark, and what lies below  *)
(* the watermark and above the origin has been copied.                     *)
LEMMA CleanTableStep == ASSUME IInv, CleanTable PROVE IInv'
<1> USE DEF CleanTable, Goto, history
<1>1. tbl \in Tables
  BY TableInRange DEF IInv
<1>2. faults' \in Nat /\ hot' \subseteq hot
  BY InvFacts DEF Fault
<1>3. TypeOK'
  BY <1>1, <1>2, NextTable DEF IInv, TypeOK, RunPcs
<1>4. WindowOK'
  BY NoWindow DEF WindowPcs, BootPcs
<1>5. Punctual' = Punctual /\ Punctual \subseteq Rows
  BY DEF Punctual, IInv, TypeOK
<1>6. HistoryOK' /\ FileOK' /\ BoundedMarks'
  BY <1>2 DEF IInv, HistoryOK, FileOK, BoundedMarks, SafetyEnd, SavePcs
<1>7. NoneInNeitherStore'
  <2>1. ASSUME NEW r \in Punctual, Stamp[r] >= origin[TableOf[r]],
               r \in hot, r \notin hot'
        PROVE  cold[r] > 0
    <3>1. TableOf[r] = tbl /\ Stamp[r] < Cutoff(tbl) /\ Stamp[r] \in Nat
      BY <1>5, <2>1, RowsAssumption
    <3>2. Cutoff(tbl) <= file.wm[tbl] /\ file.wm[tbl] \in Nat /\ Cutoff(tbl) \in Int
      BY <1>1, SettingsAssumption, InvFacts DEF Cutoff, States
    <3>3. origin[tbl] \in Nat
      BY <1>1 DEF IInv, TypeOK
    <3> QED
      BY <2>1, <3>1, <3>2, <3>3 DEF IInv, NoHoleBelowWatermark, Vouched
  <2> QED
    BY <1>5, <2>1 DEF IInv, NoneInNeitherStore
<1>8. NoHoleBelowWatermark'
  BY <1>5 DEF IInv, NoHoleBelowWatermark, Vouched
<1> QED
  BY <1>3, <1>4, <1>6, <1>7, <1>8 DEF IInv, SavePcs

-------------------------------------------------------------------------------
(* The inductive invariant, and the theorems.                              *)

LEMMA InitInv == Init => IInv
<1> SUFFICES ASSUME Init PROVE IInv
  OBVIOUS
<1> USE DEF Init
<1>1. \A k \in {"absent", "torn"} :
        Blank(k) \in States /\ Blank(k).kind = k /\ \A t \in Tables : Blank(k).wm[t] = 0
  BY BlankFacts
<1>2. TypeOK
  BY <1>1, ClockAssumption, SettingsAssumption DEF TypeOK, RunPcs
<1>3. BoundedMarks
  BY <1>1, SafetyEndFacts, ClockAssumption DEF BoundedMarks
<1>4. NoHoleBelowWatermark
  BY <1>1, RowsAssumption DEF NoHoleBelowWatermark, Vouched, Punctual
<1> QED
  BY <1>1, <1>2, <1>3, <1>4 DEF IInv, HistoryOK, FileOK, WindowOK, SavePcs, BootPcs,
     WindowPcs, NoneInNeitherStore, Punctual

LEMMA StutterInv == ASSUME IInv, UNCHANGED vars PROVE IInv'
BY DEF vars, locals, history, IInv, TypeOK, HistoryOK, BoundedMarks, SafetyEnd, FileOK,
   WindowOK, CopiedUpTo, WinEnd, NoneInNeitherStore, NoHoleBelowWatermark, Vouched, Punctual

LEMMA NextInv == IInv /\ [Next]_vars => IInv'
<1> SUFFICES ASSUME IInv, [Next]_vars PROVE IInv'
  OBVIOUS
<1>1. CASE Tick
  BY <1>1, TickStep
<1>2. CASE \E r \in Rows : Ingest(r)
  BY <1>2, IngestStep
<1>3. CASE Crash \/ Stop \/ Restart
  BY <1>3, ProcessStep
<1>4. CASE ResetState
  BY <1>4, ResetStep
<1>5. CASE RunOnce
  BY <1>5, RunOnceStep
<1>6. CASE Bootstrap
  BY <1>6, ReadMinStep, CountColdTableStep, FillStep, SeedDoneStep, SaveBootStep,
     QuietBootStep, MarkBootstrapStep DEF Bootstrap
<1>7. CASE Replicate
  BY <1>7, StartTableStep, CopyWindowStep, LeaveTableStep, CountHotStep, CountColdStep,
     SaveWindowStep DEF Replicate
<1>8. CASE Cleanup
  BY <1>8, CleanTableStep, LeaveTableStep DEF Cleanup
<1>9. CASE UNCHANGED vars
  BY <1>9, StutterInv
<1> QED
  BY <1>1, <1>2, <1>3, <1>4, <1>5, <1>6, <1>7, <1>8, <1>9 DEF Next, Work

(* The inductive invariant of the replicator holds in every behaviour: the *)
(* types, what the window at hand has copied, and what the state file may  *)
(* vouch for at each point of the program.                                 *)
THEOREM Invariance == Spec => []IInv
BY InitInv, NextInv, PTL DEF Spec

(* Type correctness, for every behaviour of the replicator.                *)
THEOREM TypeCorrect == Spec => []TypeOK
<1>1. IInv => TypeOK
  BY DEF IInv
<1> QED
  BY <1>1, Invariance, PTL

(* The loop leaves no hole between a watermark and where it started.       *)
THEOREM NoHole == Spec => []NoHoleBelowWatermark
<1>1. IInv => NoHoleBelowWatermark
  BY DEF IInv
<1> QED
  BY <1>1, Invariance, PTL

(* Cleanup by watermark removes no punctual row above the origin before    *)
(* the cold store has a copy of it.                                        *)
THEOREM CleanupSafe == Spec => []NoneInNeitherStore
<1>1. IInv => NoneInNeitherStore
  BY DEF IInv
<1> QED
  BY <1>1, Invariance, PTL

-------------------------------------------------------------------------------
(* The replicator implements the promise of WindowCopy: every step of it   *)
(* is a step of the abstract copier, or changes nothing the copier shows.  *)

Copied == {r \in Rows : cold[r] > 0}
P_vars == <<hot, Punctual, Copied, origin, Mark>>

(* A safety end that is a time at all is one the marks may have.           *)
LEMMA SafetyEndInTimes ==
  ASSUME IInv, NEW t \in Tables, NEW x \in Nat, x <= SafetyEnd(t)
  PROVE  x \in 0..MaxTime
<1>1. Lag[t] \in Nat /\ MaxTime \in Nat
  BY SettingsAssumption, ClockAssumption
<1>2. now \in 0..MaxTime /\ start \in 0..now
  BY DEF IInv, TypeOK
<1>3. start - Lag[t] <= MaxTime /\ start - Lag[t] \in Int
  BY <1>1, <1>2
<1> QED
  BY <1>1, <1>3 DEF SafetyEnd

LEMMA InitPromise == Init => Promise!Init
<1> SUFFICES ASSUME Init PROVE Promise!Init
  OBVIOUS
<1>1. Mark = [t \in Tables |-> 0]
  BY BlankFacts DEF Init, Mark, SavePcs, Blank
<1>2. Punctual = hot /\ Copied = {}
  BY DEF Init, Punctual, Copied
<1> QED
  BY <1>1, <1>2 DEF Init, Promise!Init, Copied

(* A step that leaves the stores, the history and the mark alone stutters, *)
(* and one that only adds copies of hot rows is a Copy.                    *)
LEMMA StutterOrCopy ==
  ASSUME IInv, UNCHANGED <<hot, arrived, late, origin>>, Mark' = Mark,
         cold' = cold \/ \E S \in SUBSET hot : cold' = Copies(S)
  PROVE  [Promise!Next]_P_vars
<1>1. Punctual' = Punctual
  BY DEF Punctual
<1>2. CASE cold' = cold
  BY <1>1, <1>2 DEF P_vars, Copied
<1>3. CASE \E S \in SUBSET hot : cold' = Copies(S)
  <2>1. PICK S \in SUBSET hot : cold' = Copies(S)
    BY <1>3
  <2>2. S \in SUBSET Rows
    BY InvFacts
  <2>3. Copied' = Copied \cup S
    BY <2>1, <2>2 DEF IInv, TypeOK, Copies, Copied
  <2>4. Promise!Copy(S)
    BY <1>1, <2>1, <2>3 DEF Promise!Copy, Copied
  <2> QED
    BY <2>2, <2>4 DEF Promise!Next
<1> QED
  BY <1>2, <1>3

(* What InsertFails and Insert do to the cold store.                       *)
LEMMA InsertCopies ==
  ASSUME NEW S \in SUBSET hot, Insert(S) \/ InsertFails(S)
  PROVE  \E part \in SUBSET hot : cold' = Copies(part)
BY DEF Insert, InsertFails

(* Away from the state file, the mark is what the file says.               *)
LEMMA MarkKept ==
  ASSUME UNCHANGED file, pc \notin SavePcs, pc' \notin SavePcs
  PROVE  Mark' = Mark
BY DEF Mark

QuietActions ==
  \/ Stop \/ Restart \/ RunOnce \/ ReadHotMin \/ ReadColdMin \/ CountColdTable
  \/ FillWindow \/ FillFails \/ BackfillDone \/ CountRecent \/ CountColdTotal
  \/ InsertRecent \/ CopyWindow \/ CopyWindowFails \/ WindowsDone
  \/ CountHotWindow \/ TablesDone \/ CleanupDone

LEMMA QuietRefines == ASSUME IInv, QuietActions PROVE [Promise!Next]_P_vars
<1>1. /\ UNCHANGED <<hot, arrived, late, origin, file>>
      /\ pc \notin SavePcs /\ pc' \notin SavePcs
  BY DEF QuietActions, Stop, Restart, RunOnce, ReadHotMin, ReadColdMin, CountColdTable,
     FillWindow, FillFails, BackfillDone, CountRecent, CountColdTotal, InsertRecent,
     CopyWindow, CopyWindowFails, WindowsDone, CountHotWindow, TablesDone, CleanupDone,
     Goto, world, SavePcs
<1>2. cold' = cold \/ \E S \in SUBSET hot : cold' = Copies(S)
  <2>1. Recent(tbl) \in SUBSET hot
    BY DEF Recent
  <2>2. CASE FillWindow \/ FillFails \/ InsertRecent \/ CopyWindow \/ CopyWindowFails
    BY <2>1, <2>2, InsertCopies
       DEF FillWindow, FillFails, InsertRecent, CopyWindow, CopyWindowFails
  <2> QED
    BY <2>2 DEF QuietActions, Stop, Restart, RunOnce, ReadHotMin, ReadColdMin,
       CountColdTable, BackfillDone, CountRecent, CountColdTotal, WindowsDone,
       CountHotWindow, TablesDone, CleanupDone
<1> QED
  BY <1>1, <1>2, MarkKept, StutterOrCopy

LEMMA TickRefines == ASSUME IInv, Tick PROVE [Promise!Next]_P_vars
BY StutterOrCopy DEF Tick, Mark, locals, history

(* A punctual row is never below the mark of its table.                    *)
LEMMA IngestRefines ==
  ASSUME IInv, NEW r \in Rows, Ingest(r) PROVE [Promise!Next]_P_vars
<1> USE DEF Ingest, locals
<1>1. Mark' = Mark /\ Copied' = Copied
  BY DEF Mark, Copied
<1>2. TableOf[r] \in Tables /\ Stamp[r] \in Nat
  BY RowsAssumption
<1>3. CASE late' = late
  <2>1. r \notin late /\ Punctual' = Punctual \cup {r}
    BY <1>3 DEF Punctual, IInv, HistoryOK
  <2>2. ~(Stamp[r] < now - Lag[TableOf[r]])
    BY <2>1, <1>3
  <2>3. Mark[TableOf[r]] \in Nat /\ Mark[TableOf[r]] <= SafetyEnd(TableOf[r])
    BY <1>2 DEF Mark, IInv, TypeOK, States, BoundedMarks
  <2>4. Stamp[r] >= Mark[TableOf[r]]
    BY <1>2, <2>2, <2>3, InvFacts, SettingsAssumption DEF SafetyEnd
  <2>5. Promise!Arrive(r)
    BY <1>1, <2>1, <2>4 DEF Promise!Arrive, IInv, HistoryOK, Copied
  <2> QED
    BY <2>5 DEF Promise!Next
<1>4. CASE late' = late \cup {r}
  <2>1. Punctual' = Punctual
    BY <1>4 DEF Punctual, IInv, HistoryOK
  <2>2. Promise!ArriveLate(r)
    BY <1>1, <2>1 DEF Promise!ArriveLate, Copied
  <2> QED
    BY <2>2 DEF Promise!Next
<1> QED
  BY <1>3, <1>4

(* A kill in the middle of a write, and the removal of the file, lose      *)
(* every mark.                                                             *)
LEMMA LoseRefines == ASSUME IInv, Crash \/ ResetState PROVE [Promise!Next]_P_vars
<1>1. UNCHANGED <<hot, arrived, late, origin, cold>>
  BY DEF Crash, ResetState, world, locals
<1>2. Mark' = Mark \/ Mark' = [t \in Tables |-> 0]
  <2>1. CASE Crash /\ pc \in SavePcs /\ file.kind = "torn"
    <3>1. file \in States /\ \A t \in Tables : file.wm[t] = 0
      BY <2>1, InvFacts DEF IInv, FileOK
    <3>2. file.wm = [t \in Tables |-> 0]
      BY <3>1 DEF States
    <3>3. Mark' = file.wm
      BY <2>1 DEF Crash, Mark, SavePcs
    <3> QED
      BY <3>2, <3>3
  <2>2. CASE Crash /\ ~(pc \in SavePcs /\ file.kind = "torn")
    BY <2>2 DEF Crash, Mark, SavePcs
  <2>3. CASE ResetState
    <3>1. file'.kind = "absent" /\ file'.wm = [t \in Tables |-> 0]
      BY <2>3 DEF ResetState, Blank
    <3> QED
      BY <3>1 DEF Mark
  <2> QED
    BY <2>1, <2>2, <2>3
<1>3. CASE Mark' = Mark
  BY <1>1, <1>3, StutterOrCopy
<1>4. CASE Mark' = [t \in Tables |-> 0]
  <2>1. Promise!LoseMarks
    BY <1>1, <1>4 DEF Promise!LoseMarks, Punctual
  <2> QED
    BY <2>1 DEF Promise!Next
<1> QED
  BY <1>2, <1>3, <1>4

(* Closing the file shows the mark that was already final, and so does     *)
(* writing the bootstrap flag.                                             *)
LEMMA SaveRefines ==
  ASSUME IInv, SaveSeed \/ SaveMark \/ SaveWindow PROVE [Promise!Next]_P_vars
<1>1. /\ UNCHANGED <<hot, arrived, late, origin, cold>>
      /\ pc \in SavePcs /\ pc' \notin SavePcs /\ WriteStateFile
  BY DEF SaveSeed, SaveMark, SaveWindow, Goto, world, SavePcs
<1>2. Mark' = Mark
  BY <1>1 DEF Mark, WriteStateFile
<1> QED
  BY <1>1, <1>2, StutterOrCopy

LEMMA FlagRefines == ASSUME IInv, MarkBootstrapDone PROVE [Promise!Next]_P_vars
<1> USE DEF MarkBootstrapDone, Goto, world, OpenStateFile
<1>1. Mark' = Mark
  <2>1. CASE file.kind = "torn"
    BY <2>1 DEF Mark, SavePcs
  <2>2. CASE file.kind # "torn"
    <3>1. /\ file'.kind = "torn" /\ pc' = "saveMark" /\ save'.wm = file.wm
      BY <2>2 DEF Blank
    <3> QED
      BY <2>2, <3>1 DEF Mark, SavePcs
  <2> QED
    BY <2>1, <2>2
<1> QED
  BY <1>1, StutterOrCopy

(* The seed starts the table over at its safety end.                       *)
LEMMA SeedRefines == ASSUME IInv, SeedDone PROVE [Promise!Next]_P_vars
<1> USE DEF SeedDone, Goto, world, OpenStateFile
<1>1. tbl \in Tables /\ SafetyEnd(tbl) \in Nat
  BY InvFacts DEF IInv, WindowOK, BootPcs
<1>2. SafetyEnd(tbl) \in 0..MaxTime
  BY <1>1, SafetyEndInTimes
<1>3. Mark = file.wm
  BY DEF Mark, SavePcs
<1>4. Mark' = [file.wm EXCEPT ![tbl] = SafetyEnd(tbl)]
  <2>1. file'.kind = "torn" /\ save'.wm = [file.wm EXCEPT ![tbl] = SafetyEnd(tbl)]
    BY DEF Blank, WithMark
  <2> QED
    BY <2>1 DEF Mark, SavePcs
<1>5. origin[tbl] <= SafetyEnd(tbl) /\ file.wm[tbl] <= SafetyEnd(tbl)
  BY <1>1 DEF IInv, BoundedMarks
<1>6. Punctual' = Punctual
  BY DEF Punctual
<1>7. Promise!Rebase(tbl, SafetyEnd(tbl))
  BY <1>1, <1>3, <1>4, <1>5, <1>6 DEF Promise!Rebase
<1> QED
  BY <1>1, <1>2, <1>7 DEF Promise!Next

(* A table without a watermark gets a new floor; one with a watermark goes *)
(* on from it.                                                             *)
LEMMA StartRefines == ASSUME IInv, StartTable PROVE [Promise!Next]_P_vars
<1>1. tbl \in Tables
  BY TableInRange DEF IInv, StartTable
<1>2. UNCHANGED <<hot, arrived, late, cold>>
  BY DEF StartTable, world
<1>3. Mark' = Mark
  BY MarkKept DEF StartTable, Goto, SavePcs
<1>4. CASE origin' = origin
  BY <1>2, <1>3, <1>4, StutterOrCopy
<1>5. CASE origin' # origin
  <2>1. /\ cur' = SafetyEnd(tbl) - Window
        /\ origin' = [origin EXCEPT ![tbl] = IF origin[tbl] > cur' THEN origin[tbl] ELSE cur']
    BY <1>5 DEF StartTable
  <2>2. cur' \in 0..MaxTime
    <3>1. SafetyEnd(tbl) \in Nat /\ SafetyEnd(tbl) > Window /\ Window \in Nat
      BY <1>1, InvFacts, SafetyEndFacts, SettingsAssumption
    <3>2. cur' \in Nat /\ cur' <= SafetyEnd(tbl)
      BY <2>1, <3>1
    <3> QED
      BY <1>1, <3>2, SafetyEndInTimes
  <2>3. origin \in [Tables -> Nat]
    BY DEF IInv, TypeOK
  <2>4. CASE origin[tbl] > cur'
    <3>1. origin' = origin
      BY <1>1, <2>1, <2>3, <2>4
    <3> QED
      BY <1>5, <3>1
  <2>5. CASE ~(origin[tbl] > cur')
    <3>1. origin' = [origin EXCEPT ![tbl] = cur']
      BY <1>1, <2>1, <2>5
    <3>2. cur' >= origin[tbl]
      BY <1>1, <2>2, <2>3, <2>5
    <3>3. Punctual' = Punctual /\ Copied' = Copied
      BY <1>2 DEF Punctual, Copied
    <3>4. Promise!Rebase(tbl, cur')
      BY <1>2, <1>3, <3>1, <3>2, <3>3 DEF Promise!Rebase, Copied
    <3> QED
      BY <1>1, <2>2, <3>4 DEF Promise!Next
  <2> QED
    BY <2>4, <2>5
<1> QED
  BY <1>4, <1>5

(* A verified window advances the mark over rows that have been copied.    *)
LEMMA AdvanceRefines == ASSUME IInv, CountColdWindow PROVE [Promise!Next]_P_vars
<1>1. /\ UNCHANGED <<hot, arrived, late, origin, cold, start>>
      /\ pc = "coldCount"
      /\ \/ UNCHANGED file /\ pc' \in {"coldCount", "rep"}
         \/ /\ file' = Blank("torn") /\ save' = WithMark(tbl, WinEnd)
            /\ pc' = "saveWin"
  BY DEF CountColdWindow, Goto, world, OpenStateFile
<1>2. CASE UNCHANGED file /\ pc' \in {"coldCount", "rep"}
  <2>1. Mark' = Mark
    BY <1>1, <1>2, MarkKept DEF SavePcs
  <2> QED
    BY <1>1, <2>1, StutterOrCopy
<1>3. CASE file' = Blank("torn") /\ save' = WithMark(tbl, WinEnd) /\ pc' = "saveWin"
  <2>1. tbl \in Tables
    BY <1>1 DEF IInv, WindowOK, WindowPcs
  <2>2. WinEnd \in Nat /\ WinEnd <= SafetyEnd(tbl)
    BY <2>1, InvFacts, WinEndFacts
  <2>3. WinEnd \in 0..MaxTime
    BY <2>1, <2>2, SafetyEndInTimes
  <2>4. Mark = file.wm
    BY <1>1 DEF Mark, SavePcs
  <2>5. Mark' = [file.wm EXCEPT ![tbl] = WinEnd]
    <3>1. file'.kind = "torn" /\ save'.wm = [file.wm EXCEPT ![tbl] = WinEnd]
      BY <1>3 DEF Blank, WithMark
    <3> QED
      BY <1>3, <3>1 DEF Mark, SavePcs
  <2>6. WinEnd > file.wm[tbl]
    <3>1. file.wm[tbl] <= cur /\ cur < WinEnd
      BY <1>1 DEF IInv, WindowOK, WindowPcs
    <3>2. file.wm[tbl] \in Nat /\ cur \in Nat
      BY <2>1, InvFacts DEF States
    <3> QED
      BY <2>2, <3>1, <3>2
  <2>7. \A r \in Punctual : TableOf[r] = tbl /\ origin[tbl] <= Stamp[r] /\ Stamp[r] < WinEnd
                            => r \in Copied
    BY <1>1 DEF IInv, TypeOK, WindowOK, WindowPcs, CopiedUpTo, Copied, Punctual
  <2>8. Punctual' = Punctual /\ Copied' = Copied
    BY <1>1 DEF Punctual, Copied
  <2>9. Promise!Advance(tbl, WinEnd)
    BY <1>1, <2>4, <2>5, <2>6, <2>7, <2>8 DEF Promise!Advance, Copied
  <2> QED
    BY <2>1, <2>3, <2>9 DEF Promise!Next
<1> QED
  BY <1>1, <1>2, <1>3

(* Cleanup forgets nothing that is promised.                               *)
LEMMA CleanRefines == ASSUME IInv, CleanTable PROVE [Promise!Next]_P_vars
<1>1. /\ UNCHANGED <<arrived, late, origin, cold, file>> /\ hot' \subseteq hot
      /\ pc = "clean" /\ pc' = "clean"
  BY DEF CleanTable, Goto, history
<1>2. Mark' = Mark /\ Punctual' = Punctual /\ Copied' = Copied
  BY <1>1 DEF Mark, SavePcs, Punctual, Copied
<1> DEFINE Gone == hot \ hot'
<1>3. Gone \in SUBSET Rows /\ hot' = hot \ Gone
  BY <1>1, InvFacts
<1>4. \A r \in Gone \cap Punctual : Stamp[r] >= origin[TableOf[r]] => r \in Copied
  <2>1. NoneInNeitherStore'
    BY CleanTableStep DEF IInv
  <2> QED
    BY <1>1, <1>2, <1>3, <2>1 DEF NoneInNeitherStore, Copied
<1>5. Promise!Forget(Gone)
  BY <1>1, <1>2, <1>3, <1>4 DEF Promise!Forget, Copied
<1> QED
  BY <1>3, <1>5 DEF Promise!Next

LEMMA NextPromise == ASSUME IInv, [Next]_vars PROVE [Promise!Next]_P_vars
<1>1. CASE Tick
  BY <1>1, TickRefines
<1>2. CASE \E r \in Rows : Ingest(r)
  BY <1>2, IngestRefines
<1>3. CASE Crash \/ Stop \/ Restart \/ ResetState
  BY <1>3, LoseRefines, QuietRefines DEF QuietActions
<1>4. CASE RunOnce
  BY <1>4, QuietRefines DEF QuietActions
<1>5. CASE Bootstrap
  BY <1>5, QuietRefines, SaveRefines, FlagRefines, SeedRefines DEF Bootstrap, QuietActions
<1>6. CASE Replicate
  BY <1>6, QuietRefines, SaveRefines, StartRefines, AdvanceRefines
     DEF Replicate, QuietActions
<1>7. CASE Cleanup
  BY <1>7, QuietRefines, CleanRefines DEF Cleanup, QuietActions
<1>8. CASE UNCHANGED vars
  BY <1>8, StutterOrCopy DEF vars, history, locals, Mark
<1> QED
  BY <1>1, <1>2, <1>3, <1>4, <1>5, <1>6, <1>7, <1>8 DEF Next, Work

(* The replicator keeps the promise of the abstract copier.                *)
THEOREM Implements == Spec => KeepsPromise
<1>1. Init => Promise!Init
  BY InitPromise
<1>2. IInv /\ [Next]_vars => [Promise!Next]_(Promise!vars)
  BY NextPromise DEF Promise!vars, P_vars, Copied
<1> QED
  BY <1>1, <1>2, Invariance, PTL DEF Spec, KeepsPromise, Promise!Spec

-------------------------------------------------------------------------------
(* Sums: what ColdCopies computes.  Induction over a finite set is the     *)
(* choice of a smallest set for which the claim would fail.                *)

LEMMA Least ==
  ASSUME NEW S \in SUBSET Nat, S # {}
  PROVE  \E x \in S : \A y \in S : x <= y
<1> DEFINE R == OpToRel(<, Nat)
<1>1. IsWellFoundedOn(R, Nat)
  BY NatLessThanWellFounded
<1>2. \A x, y \in Nat : y < x => <<y, x>> \in R
  BY DEF OpToRel
<1> HIDE DEF R
<1>3. PICK x \in S : \A y \in S : ~ (<<y, x>> \in R)
  BY <1>1, WFMin
<1>4. ASSUME NEW y \in S PROVE x <= y
  <2>1. ~ (y < x)
    BY <1>2, <1>3
  <2> QED BY <2>1
<1> QED BY <1>4

(* A sum over S, as the fold computes it: partial(s) is the sum over s.    *)
Pick(s) == CHOOSE x \in s : TRUE
Rest(s) == s \ {Pick(s)}
Partial(partial, f, D) ==
  partial = [s \in D |-> IF s = {} THEN 0 ELSE f[Pick(s)] + partial[Rest(s)]]

LEMMA RestFacts ==
  ASSUME NEW s, IsFiniteSet(s), s # {}
  PROVE  /\ Pick(s) \in s /\ IsFiniteSet(Rest(s))
         /\ Cardinality(s) \in Nat /\ Cardinality(Rest(s)) = Cardinality(s) - 1
<1>1. Pick(s) \in s
  BY DEF Pick
<1> QED
  BY <1>1, FS_RemoveElement, FS_CardinalityType DEF Rest

(* Induction over the subsets of a finite set: of those that lack some     *)
(* property, one is empty or has a rest that has it.                       *)
LEMMA SmallestSet ==
  ASSUME NEW S, IsFiniteSet(S), NEW Bad \in SUBSET (SUBSET S), Bad # {}
  PROVE  \E s \in Bad : s = {} \/ (Pick(s) \in s /\ Rest(s) \in (SUBSET S) \ Bad)
<1> DEFINE sizes == {Cardinality(s) : s \in Bad}
<1>1. \A s \in SUBSET S : IsFiniteSet(s) /\ Cardinality(s) \in Nat
  BY FS_Subset, FS_CardinalityType
<1>2. PICK n \in sizes : \A m \in sizes : n <= m
  <2>1. sizes \in SUBSET Nat /\ sizes # {}
    BY <1>1
  <2> QED BY <2>1, Least
<1>3. PICK s \in Bad : Cardinality(s) = n
  OBVIOUS
<1>4. \A t \in Bad : Cardinality(s) <= Cardinality(t)
  BY <1>2, <1>3
<1>5. ASSUME s # {} PROVE Pick(s) \in s /\ Rest(s) \in (SUBSET S) \ Bad
  <2>1. /\ Pick(s) \in s /\ Cardinality(s) \in Nat
        /\ Cardinality(Rest(s)) = Cardinality(s) - 1
    BY <1>1, <1>3, <1>5, RestFacts
  <2>2. Rest(s) \in SUBSET S
    BY <1>3 DEF Rest
  <2>3. Rest(s) \notin Bad
    BY <1>4, <2>1
  <2> QED BY <2>1, <2>2, <2>3
<1> QED BY <1>3, <1>5

UpTo(n, S) == {s \in SUBSET S : Cardinality(s) <= n}

(* There are partial sums, by induction on the number of elements.         *)
LEMMA PartialExists ==
  ASSUME NEW S, IsFiniteSet(S), NEW f \in [S -> Nat]
  PROVE  \E partial \in [SUBSET S -> Nat] : Partial(partial, f, SUBSET S)
<1> DEFINE Has(n) == \E p \in [UpTo(n, S) -> Nat] : Partial(p, f, UpTo(n, S))
           Hasnt == {n \in Nat : ~Has(n)}
<1>1. \A s \in SUBSET S : IsFiniteSet(s) /\ Cardinality(s) \in Nat /\ Cardinality(s) <= Cardinality(S)
  BY FS_Subset, FS_CardinalityType
<1>2. Cardinality(S) \in Nat
  BY FS_CardinalityType
<1>3. Has(0)
  <2> DEFINE p == [s \in UpTo(0, S) |-> 0]
  <2>1. \A s \in UpTo(0, S) : s = {}
    BY <1>1, FS_EmptySet DEF UpTo
  <2>2. p \in [UpTo(0, S) -> Nat] /\ Partial(p, f, UpTo(0, S))
    BY <2>1 DEF Partial
  <2> QED BY <2>2
<1>4. ASSUME NEW n \in Nat, Has(n) PROVE Has(n + 1)
  <2>1. PICK p \in [UpTo(n, S) -> Nat] : Partial(p, f, UpTo(n, S))
    BY <1>4
  <2> DEFINE U == UpTo(n + 1, S)
             q == [s \in U |-> IF s = {} THEN 0 ELSE f[Pick(s)] + p[Rest(s)]]
  <2>2. \A s \in U : s # {} => Pick(s) \in S /\ Rest(s) \in UpTo(n, S)
    <3> SUFFICES ASSUME NEW s \in U, s # {} PROVE Pick(s) \in S /\ Rest(s) \in UpTo(n, S)
      OBVIOUS
    <3>1. s \in SUBSET S /\ IsFiniteSet(s) /\ Cardinality(s) <= n + 1
      BY <1>1 DEF UpTo
    <3>2. Pick(s) \in s /\ Cardinality(Rest(s)) = Cardinality(s) - 1 /\ Cardinality(s) \in Nat
      BY <3>1, RestFacts
    <3>3. Rest(s) \subseteq S
      BY <3>1 DEF Rest
    <3> QED BY <3>1, <3>2, <3>3 DEF UpTo
  <2>3. q \in [U -> Nat]
    BY <2>2
  <2>4. \A s \in UpTo(n, S) : q[s] = p[s]
    <3>1. UpTo(n, S) \subseteq U
      BY <1>1 DEF UpTo
    <3> QED BY <2>1, <3>1 DEF Partial
  <2>5. Partial(q, f, U)
    <3>1. \A s \in U : q[s] = IF s = {} THEN 0 ELSE f[Pick(s)] + q[Rest(s)]
      BY <2>2, <2>4
    <3>2. q = [s \in U |-> q[s]]
      OBVIOUS
    <3> HIDE DEF q, U
    <3> QED BY <3>1, <3>2 DEF Partial
  <2> QED BY <2>3, <2>5
<1>5. Hasnt = {}
  <2> SUFFICES ASSUME Hasnt # {} PROVE FALSE
    OBVIOUS
  <2> HIDE DEF Has
  <2>1. PICK n \in Hasnt : \A m \in Hasnt : n <= m
    BY Least
  <2>2. n \in Nat /\ n # 0 /\ n - 1 \in Nat /\ n - 1 \notin Hasnt
    BY <1>3, <2>1
  <2>3. Has(n - 1)
    BY <2>2
  <2>4. Has((n - 1) + 1) /\ (n - 1) + 1 = n
    BY <1>4, <2>2, <2>3
  <2> QED BY <2>1, <2>4
<1>6. UpTo(Cardinality(S), S) = SUBSET S
  BY <1>1 DEF UpTo
<1>7. Has(Cardinality(S))
  BY <1>2, <1>5
<1> QED BY <1>6, <1>7

Partials(f, S) == CHOOSE p : Partial(p, f, SUBSET S)
Total(f, S) == Partials(f, S)[S]

LEMMA PartialFacts ==
  ASSUME NEW S, IsFiniteSet(S), NEW f \in [S -> Nat]
  PROVE  /\ Partials(f, S) \in [SUBSET S -> Nat] /\ Partials(f, S)[{}] = 0
         /\ \A s \in (SUBSET S) \ {{}} :
              Partials(f, S)[s] = f[Pick(s)] + Partials(f, S)[Rest(s)]
<1> DEFINE p == Partials(f, S)
<1>1. PICK q \in [SUBSET S -> Nat] : Partial(q, f, SUBSET S)
  BY PartialExists
<1>2. Partial(p, f, SUBSET S)
  BY <1>1 DEF Partials
<1> HIDE DEF p
<1>3. \A s \in SUBSET S : p[s] = IF s = {} THEN 0 ELSE f[Pick(s)] + p[Rest(s)]
  BY <1>2 DEF Partial
<1>4. p[{}] = 0
  BY <1>3
<1>5. p = [s \in SUBSET S |-> p[s]]
  BY <1>2 DEF Partial
<1>6. \A s \in SUBSET S : p[s] \in Nat
  <2> DEFINE Bad == {s \in SUBSET S : p[s] \notin Nat}
  <2> SUFFICES ASSUME Bad # {} PROVE FALSE
    OBVIOUS
  <2>1. Bad \in SUBSET (SUBSET S)
    OBVIOUS
  <2>2. PICK s \in SUBSET S :
          /\ p[s] \notin Nat
          /\ s = {} \/ (Pick(s) \in s /\ p[Rest(s)] \in Nat /\ Rest(s) \in SUBSET S)
    <3> DEFINE Fit(s) == s = {} \/ (Pick(s) \in s /\ Rest(s) \in (SUBSET S) \ Bad)
    <3> HIDE DEF Bad
    <3>1. PICK s \in Bad : Fit(s)
      BY <2>1, SmallestSet
    <3> USE DEF Bad
    <3> QED BY <3>1
  <2>3. s # {} /\ Pick(s) \in S /\ f[Pick(s)] \in Nat
    <3>1. s # {}
      <4>1. p[{}] \in Nat
        BY <1>4
      <4>2. p[s] \notin Nat
        BY <2>2
      <4> QED BY <4>1, <4>2
    <3> QED BY <2>2, <3>1
  <2>4. p[s] = f[Pick(s)] + p[Rest(s)]
    BY <1>3, <2>3
  <2>5. p[Rest(s)] \in Nat
    BY <2>2, <2>3
  <2> QED BY <2>2, <2>3, <2>4, <2>5
<1> QED BY <1>3, <1>4, <1>5, <1>6 DEF p


LEMMA ColdCopiesIsTotal ==
  ASSUME cold \in [Rows -> Nat], NEW S \in SUBSET Rows
  PROVE  ColdCopies(S) = Total([r \in S |-> cold[r]], S)
BY DEF ColdCopies, MapThenSumSet, MapThenFoldSet, Total, Partials, Partial, Pick, Rest

(* A sum counts at least the elements that count at all.                   *)
LEMMA TotalAtLeast ==
  ASSUME NEW S, IsFiniteSet(S), NEW f \in [S -> Nat],
         NEW T \in SUBSET S, \A x \in T : f[x] > 0
  PROVE  Cardinality(T) <= Total(f, S)
<1> DEFINE p == Partials(f, S)
           Bad == {s \in SUBSET S : ~ (Cardinality(T \cap s) <= p[s])}
<1>1. /\ p \in [SUBSET S -> Nat] /\ p[{}] = 0
      /\ \A s \in (SUBSET S) \ {{}} : p[s] = f[Pick(s)] + p[Rest(s)]
  BY PartialFacts
<1> HIDE DEF p
<1>2. CASE Bad # {}
  <2>1. Bad \in SUBSET (SUBSET S)
    OBVIOUS
  <2>2. PICK s \in SUBSET S :
          /\ ~ (Cardinality(T \cap s) <= p[s])
          /\ s = {} \/ (Pick(s) \in s /\ Cardinality(T \cap Rest(s)) <= p[Rest(s)] /\ Rest(s) \in SUBSET S)
    <3> DEFINE Fit(s) == s = {} \/ (Pick(s) \in s /\ Rest(s) \in (SUBSET S) \ Bad)
    <3> HIDE DEF Bad
    <3>1. PICK s \in Bad : Fit(s)
      BY <1>2, <2>1, SmallestSet
    <3> USE DEF Bad
    <3> QED BY <3>1
  <2>3. s # {}
    <3>1. Cardinality(T \cap {}) <= p[{}]
      <4>1. T \cap {} = {} /\ Cardinality({}) = 0
        BY FS_EmptySet
      <4> QED BY <1>1, <4>1
    <3>2. ~ (Cardinality(T \cap s) <= p[s])
      BY <2>2
    <3> QED BY <3>1, <3>2
  <2> DEFINE x == Pick(s)
             U == T \cap s
             V == T \cap Rest(s)
  <2>4. x \in S /\ V = U \ {x} /\ IsFiniteSet(U)
    <3>1. IsFiniteSet(U)
      BY FS_Subset
    <3> QED BY <2>2, <2>3, <3>1 DEF Rest
  <2>5. /\ Cardinality(V) = IF x \in U THEN Cardinality(U) - 1 ELSE Cardinality(U)
        /\ Cardinality(U) \in Nat
    <3> HIDE DEF x, U, V
    <3> QED BY <2>4, FS_RemoveElement, FS_CardinalityType
  <2>6. p[s] = f[x] + p[Rest(s)] /\ f[x] \in Nat /\ p[Rest(s)] \in Nat
    BY <1>1, <2>2, <2>3, <2>4
  <2>7. x \in U => f[x] > 0
    OBVIOUS
  <2>8. Cardinality(V) <= p[Rest(s)] /\ ~ (Cardinality(U) <= p[s])
    BY <2>2, <2>3
  <2> HIDE DEF x, U, V
  <2> QED BY <2>5, <2>6, <2>7, <2>8
<1>3. CASE Bad = {}
  <2>1. T \cap S = T /\ S \in SUBSET S
    OBVIOUS
  <2>2. Cardinality(T \cap S) <= p[S]
    BY <1>3
  <2> QED BY <2>1, <2>2 DEF Total, p
<1> QED BY <1>2, <1>3

LEMMA TotalType ==
  ASSUME NEW S, IsFiniteSet(S), NEW f \in [S -> Nat]
  PROVE  Total(f, S) \in Nat
<1>1. Partials(f, S) \in [SUBSET S -> Nat] /\ S \in SUBSET S
  BY PartialFacts
<1> QED BY <1>1 DEF Total

-------------------------------------------------------------------------------
(* Copies: how often a row is in the cold store.                           *)

Due == faults + Cardinality(late) + (IF mode = "recent" THEN 1 ELSE 0)
WindowRows == Between(tbl, cur, WinEnd)
Counting == {"hotCount", "coldCount"}

(* Whether the loop, or the seed at hand, may still copy the row, though   *)
(* nothing fails any more: not below a watermark, nor in a window that is  *)
(* about to get one.                                                       *)
Unmarked(r) == Mark[TableOf[r]] = 0 \/ Stamp[r] >= Mark[TableOf[r]]
Again(r) ==
  IF pc = "seed" /\ TableOf[r] = tbl THEN Stamp[r] >= cur \/ Stamp[r] >= end
  ELSE Unmarked(r) /\ ~ (pc \in Counting /\ r \in WindowRows)

Extra(r) == cold[r] + (IF Again(r) THEN 1 ELSE 0)

(* Every copy but the first is paid for, one that may still come included. *)
Paid == \A r \in Rows : Extra(r) <= 1 + Due

(* The comparison of counts succeeds, or another copy is paid for.         *)
Owing == Due > 0 /\ \A r \in WindowRows : cold[r] <= Due
CountsOK ==
  /\ pc = "hotCount" => Owing \/ \A r \in hot \cap WindowRows : cold[r] > 0
  /\ pc = "coldCount" => Owing \/ tally <= ColdCopies(WindowRows)

(* The bootstrap fills an empty table, or what lies before its oldest row, *)
(* unless an error has misled it.                                          *)
BootstrapOK ==
  /\ pc \in {"bootCold", "bootCount", "seed", "saveSeed", "backfill"} => mode = "full"
  /\ pc \in {"bootTotal", "bootInsert"} => mode = "recent"
  /\ pc = "bootInsert" =>
       \A r \in Rows : TableOf[r] = tbl /\ cold[r] > 0 => Extra(r) <= Due
  /\ pc \in {"bootCount", "backfill"} /\ end > 0 =>
       \A r \in Rows : TableOf[r] = tbl /\ cold[r] > 0 =>
         Stamp[r] >= end \/ (pc = "backfill" /\ Stamp[r] < cur)
  /\ pc = "backfill" => Due > 0

CopiesInv == Paid /\ CountsOK /\ BootstrapOK

(* With nothing failed, no row late and the full-history bootstrap, the    *)
(* tables get their watermarks one after the other, once.                  *)
Smooth == mode = "full" /\ faults = 0 /\ late = {}
Seeded(k) == \A t \in Tables : t < k <=> Mark[t] > 0
Done == IF pc \in SavePcs THEN save.done ELSE file.done
PhaseOK ==
  /\ file.kind = "torn" <=> pc \in SavePcs
  /\ IF Done THEN /\ Seeded(NTables + 1)
                  /\ pc \notin {"boot", "bootCold", "bootCount", "seed", "saveSeed"}
     ELSE \/ pc = "woken" /\ Seeded(1)
          \/ pc \in {"boot", "bootCold", "bootCount", "seed"} /\ Seeded(tbl)
          \/ pc = "saveSeed" /\ Seeded(tbl + 1)
  /\ pc \notin {"bootTotal", "bootInsert", "backfill"}
  /\ pc \in {"win", "hotCount", "coldCount"} => cur = Mark[tbl]

(* A row that has arrived is copied if it lies below the watermark of its  *)
(* table, or what is to be the next one, and no row above is.              *)
Reach(t) == IF pc \in Counting /\ tbl = t THEN WinEnd ELSE Mark[t]
SeedExact(r) ==
  /\ cold[r] > 0 => Stamp[r] < cur /\ Stamp[r] < end
  /\ r \in arrived /\ Stamp[r] < end => cur > 0 /\ (Stamp[r] >= cur \/ cold[r] > 0)
RowExact(r) ==
  /\ cold[r] > 0 => Stamp[r] < Reach(TableOf[r])
  /\ r \in arrived /\ Stamp[r] < Reach(TableOf[r]) => cold[r] > 0
Exact ==
  /\ \A r \in Rows : IF pc = "seed" /\ TableOf[r] = tbl THEN SeedExact(r) ELSE RowExact(r)
  /\ pc \in {"bootCold", "bootCount"} =>
       \A r \in arrived : TableOf[r] = tbl /\ Stamp[r] < SafetyEnd(tbl) => cur > 0 /\ Stamp[r] >= cur
  /\ \A r \in arrived : r \in hot \/ cold[r] > 0

SmoothInv == Smooth => PhaseOK /\ Exact

-------------------------------------------------------------------------------
(* The steps of the world, and those that copy nothing.                    *)

CInv == IInv /\ CopiesInv
SInv == CInv /\ SmoothInv

LEMMA DueFacts ==
  ASSUME IInv
  PROVE  Due \in Nat /\ Cardinality(late) \in Nat /\ faults \in Nat /\ IsFiniteSet(late)
<1>1. late \in SUBSET Rows /\ faults \in Nat
  BY DEF IInv, TypeOK
<1>2. IsFiniteSet(late) /\ Cardinality(late) \in Nat
  BY <1>1, CountFacts, RowsAssumption, FS_Subset
<1> QED
  BY <1>1, <1>2 DEF Due

LEMMA StepDue ==
  ASSUME IInv, UNCHANGED <<late, mode>>
  PROVE  /\ faults' = faults => Due' = Due
         /\ faults' = faults + 1 => Due' = Due + 1
<1>1. Cardinality(late)' = Cardinality(late)
  OBVIOUS
<1>2. Cardinality(late) \in Nat /\ faults \in Nat
  BY DueFacts
<1> QED
  BY <1>1, <1>2 DEF Due

LEMMA ScalarDue ==
  ASSUME IInv, UNCHANGED <<late, mode>>, NEW answer, NEW value, Scalar(answer, value)
  PROVE  \/ Due' = Due /\ faults' = faults /\ answer = value
         \/ Due' = Due + 1 /\ faults' = faults + 1 /\ answer = 0 /\ value # 0
BY StepDue DEF Scalar, Fault

LEMMA ExtraFacts ==
  ASSUME IInv
  PROVE  /\ Due \in Nat
         /\ \A r \in Rows : /\ cold[r] \in Nat /\ Extra(r) \in Nat
                            /\ Again(r) => Extra(r) = cold[r] + 1
                            /\ ~Again(r) => Extra(r) = cold[r]
BY DueFacts DEF IInv, TypeOK, Extra

LEMMA MarkFacts ==
  ASSUME IInv
  PROVE  Mark \in [Tables -> Nat] /\ \A t \in Tables : Mark[t] <= SafetyEnd(t)
BY DEF IInv, TypeOK, States, Mark, BoundedMarks

(* The same rows may still be copied: away from the seed and the counts,   *)
(* and wherever nothing moves.                                             *)
LEMMA SameAgain ==
  ASSUME Mark' = Mark,
         pc \notin Counting \cup {"seed"}, pc' \notin Counting \cup {"seed"}
  PROVE  \A r : Again(r)' = Again(r)
BY DEF Again, Unmarked, Counting

LEMMA StillAgain ==
  ASSUME Mark' = Mark, UNCHANGED <<pc, tbl, cur, end, start>>
  PROVE  \A r : Again(r)' = Again(r)
<1>1. WindowRows' = WindowRows
  BY DEF WindowRows, Between, WinEnd, SafetyEnd
<1> QED
  BY <1>1 DEF Again, Unmarked, Counting

(* A failure pays for whatever it repeats.                                 *)
LEMMA Pays ==
  ASSUME CInv, IInv', Due' = Due + 1, \A r \in Rows : cold'[r] <= Extra(r)
  PROVE  Paid'
<1>1. Due \in Nat /\ \A r \in Rows : Extra(r) \in Nat /\ Extra(r) <= 1 + Due
  BY ExtraFacts DEF CInv, CopiesInv, Paid
<1>2. \A r \in Rows : cold'[r] \in Nat
  BY DEF IInv, TypeOK
<1>3. \A r \in Rows : Extra(r)' <= cold'[r] + 1
  BY <1>2 DEF Extra
<1>4. \A r \in Rows : Extra(r)' \in Nat
  BY <1>2 DEF Extra
<1> QED
  BY <1>1, <1>2, <1>3, <1>4 DEF Paid

(* Nothing is copied, and nothing more may be.                             *)
LEMMA Keeps ==
  ASSUME CInv, IInv', Due' = Due \/ Due' = Due + 1, UNCHANGED cold,
         \A r \in Rows : Again(r)' => Again(r)
  PROVE  Paid' /\ \A r \in Rows : Extra(r)' <= Extra(r)
<1>1. Due \in Nat /\ \A r \in Rows : Extra(r) \in Nat /\ Extra(r) <= 1 + Due
  BY ExtraFacts DEF CInv, CopiesInv, Paid
<1>2. \A r \in Rows : cold[r] \in Nat
  BY DEF CInv, IInv, TypeOK
<1>3. \A r \in Rows : Extra(r)' <= Extra(r) /\ Extra(r)' \in Nat
  BY <1>2 DEF Extra
<1> QED
  BY <1>1, <1>3 DEF Paid

LEMMA FreeOfCounts ==
  ASSUME pc' \notin Counting \cup BootPcs
  PROVE  CountsOK' /\ BootstrapOK'
BY DEF CountsOK, BootstrapOK, Counting, BootPcs

QuietCopy ==
  \/ Stop \/ Restart \/ RunOnce \/ BackfillDone \/ MarkBootstrapDone \/ SaveSeed \/ SaveMark
  \/ StartTable \/ WindowsDone \/ SaveWindow \/ TablesDone \/ CleanTable \/ CleanupDone

LEMMA QuietMark == ASSUME IInv, QuietCopy PROVE Mark' = Mark
<1>1. CASE SaveSeed \/ SaveMark \/ SaveWindow
  <2>1. pc \in SavePcs /\ pc' \notin SavePcs /\ WriteStateFile
    BY <1>1 DEF SaveSeed, SaveMark, SaveWindow, Goto, SavePcs
  <2> QED
    BY <2>1 DEF Mark, WriteStateFile
<1>2. CASE MarkBootstrapDone
  <2> USE DEF MarkBootstrapDone, Goto, OpenStateFile
  <2>1. CASE file.kind = "torn"
    BY <1>2, <2>1 DEF Mark, SavePcs
  <2>2. CASE file.kind # "torn"
    <3>1. /\ file'.kind = "torn" /\ pc' = "saveMark" /\ save'.wm = file.wm
      BY <1>2, <2>2, BlankFacts
    <3> QED
      BY <1>2, <3>1 DEF Mark, SavePcs
  <2> QED
    BY <2>1, <2>2
<1>3. CASE \/ Stop \/ Restart \/ RunOnce \/ BackfillDone \/ StartTable \/ WindowsDone
           \/ TablesDone \/ CleanTable \/ CleanupDone
  BY <1>3, MarkKept
     DEF Stop, Restart, RunOnce, BackfillDone, StartTable, WindowsDone, TablesDone,
         CleanTable, CleanupDone, Goto, SavePcs
<1> QED
  BY <1>1, <1>2, <1>3 DEF QuietCopy

LEMMA QuietCopies == ASSUME CInv, IInv', QuietCopy PROVE CopiesInv'
<1>1. Mark' = Mark
  BY QuietMark DEF CInv
<1>2. /\ pc \notin Counting \cup {"seed"} /\ pc' \notin Counting \cup BootPcs
      /\ UNCHANGED <<cold, late, mode>>
      /\ faults' = faults \/ faults' = faults + 1
  BY DEF QuietCopy, Stop, Restart, RunOnce, BackfillDone, MarkBootstrapDone, SaveSeed, SaveMark,
         StartTable, WindowsDone, SaveWindow, TablesDone, CleanTable, CleanupDone, Goto,
         world, history, Fault, Counting, BootPcs
<1>3. \A r : Again(r)' = Again(r)
  BY <1>1, <1>2, SameAgain DEF BootPcs
<1> QED
  BY <1>2, <1>3, StepDue, Keeps, FreeOfCounts DEF CInv, CopiesInv

LEMMA TickCopies == ASSUME CInv, IInv', Tick PROVE CopiesInv'
<1> USE DEF Tick, locals, history
<1>1. Mark' = Mark
  BY DEF Mark
<1>2. /\ WindowRows' = WindowRows /\ Due' = Due
      /\ \A r : Again(r)' = Again(r) /\ Extra(r)' = Extra(r)
  <2>1. \A r : Again(r)' = Again(r)
    BY <1>1, StillAgain
  <2> QED
    BY <2>1 DEF WindowRows, Between, WinEnd, SafetyEnd, Due, Extra
<1>3. ColdCopies(WindowRows)' = ColdCopies(WindowRows)
  BY <1>2 DEF ColdCopies, MapThenSumSet, MapThenFoldSet
<1> QED
  BY <1>2, <1>3 DEF CInv, CopiesInv, Paid, CountsOK, Owing, BootstrapOK

LEMMA IngestCopies ==
  ASSUME CInv, IInv', NEW q \in Rows, Ingest(q)
  PROVE  CopiesInv'
<1> USE DEF Ingest, locals
<1>1. Mark' = Mark
  BY DEF Mark
<1>2. \A r : Again(r)' = Again(r) /\ Extra(r)' = Extra(r)
  <2>1. \A r : Again(r)' = Again(r)
    BY <1>1, StillAgain
  <2> QED
    BY <2>1 DEF Extra
<1>3. Due \in Nat /\ IF late' = late THEN Due' = Due ELSE Due' = Due + 1
  <2>1. IsFiniteSet(late) /\ Cardinality(late) \in Nat /\ faults \in Nat /\ q \notin late
    BY DueFacts DEF CInv, IInv, HistoryOK
  <2>2. late' = late \cup {q} => Cardinality(late') = Cardinality(late) + 1
    BY <2>1, FS_AddElement
  <2> QED
    BY <2>1, <2>2 DEF Due
<1>4. Paid'
  BY <1>2, <1>3, ExtraFacts DEF CInv, CopiesInv, Paid
<1>5. WindowRows' = WindowRows /\ ColdCopies(WindowRows)' = ColdCopies(WindowRows)
  <2>1. WindowRows' = WindowRows
    BY DEF WindowRows, Between, WinEnd, SafetyEnd
  <2> QED
    BY <2>1 DEF ColdCopies, MapThenSumSet, MapThenFoldSet
<1>6. Owing => Owing'
  BY <1>3, <1>5, ExtraFacts, RowsAssumption DEF CInv, Owing, WindowRows, Between
<1>7. CASE late' = late
  <2>1. pc = "hotCount" => q \notin WindowRows
    <3>1. SUFFICES ASSUME pc = "hotCount", q \in WindowRows PROVE FALSE
      OBVIOUS
    <3>2. tbl \in Tables /\ TableOf[q] = tbl /\ Stamp[q] < WinEnd
      BY <3>1 DEF CInv, IInv, WindowOK, WindowPcs, WindowRows, Between
    <3>3. WinEnd \in Nat /\ WinEnd <= SafetyEnd(tbl)
      BY <3>2, InvFacts, WinEndFacts DEF CInv
    <3>4. Stamp[q] \in Nat /\ Lag[tbl] \in Nat /\ start \in Nat /\ now \in Nat /\ start <= now
      BY <3>2, RowsAssumption, SettingsAssumption, InvFacts DEF CInv
    <3>5. Stamp[q] < now - Lag[tbl]
      BY <3>2, <3>3, <3>4 DEF SafetyEnd
    <3>6. q \in late'
      BY <3>2, <3>5
    <3> QED
      BY <1>7, <3>6 DEF CInv, IInv, HistoryOK
  <2> QED
    BY <1>2, <1>3, <1>4, <1>5, <1>6, <1>7, <2>1 DEF CInv, CopiesInv, CountsOK, BootstrapOK
<1>8. CASE late' # late
  <2>1. Owing'
    <3>1. Due' > 0 /\ Due' = Due + 1
      BY <1>3, <1>8
    <3>2. WindowRows \subseteq Rows /\ \A r \in Rows : cold[r] \in Nat /\ cold[r] <= 1 + Due
      BY ExtraFacts DEF CInv, CopiesInv, Paid, WindowRows, Between
    <3> QED
      BY <1>3, <1>5, <3>1, <3>2 DEF Owing
  <2>2. BootstrapOK'
    BY <1>2, <1>3, <1>8, ExtraFacts DEF CInv, CopiesInv, BootstrapOK
  <2> QED
    BY <1>4, <2>1, <2>2 DEF CopiesInv, CountsOK
<1> QED
  BY <1>7, <1>8

LEMMA CrashCopies == ASSUME CInv, IInv', Crash PROVE CopiesInv'
<1> USE DEF Crash, world, Fault
<1>1. Due' = Due + 1
  BY StepDue DEF CInv
<1>2. \A r \in Rows : cold'[r] <= Extra(r)
  BY ExtraFacts DEF CInv, Extra
<1> QED
  BY <1>1, <1>2, Pays, FreeOfCounts DEF CopiesInv, Counting, BootPcs

(* Every row may be copied again once the state file is gone.              *)
LEMMA ResetCopies == ASSUME CInv, IInv', ResetState PROVE CopiesInv'
<1> USE DEF ResetState, world, locals, Fault
<1>1. Due \in Nat /\ Due' = Due + 1
  BY StepDue, DueFacts DEF CInv
<1>2. \A r \in Rows : /\ cold[r] \in Nat /\ cold[r] <= Extra(r) /\ Extra(r) \in Nat
                      /\ Extra(r)' <= Extra(r) + 1 /\ Extra(r)' \in Nat
  BY ExtraFacts DEF CInv, Extra
<1>3. Paid'
  BY <1>1, <1>2, Pays
<1>4. Owing'
  <2>1. WindowRows' = WindowRows /\ WindowRows \subseteq Rows
    BY DEF WindowRows, Between, WinEnd, SafetyEnd
  <2>2. \A r \in Rows : cold[r] <= 1 + Due
    BY <1>1, <1>2 DEF CInv, CopiesInv, Paid
  <2> QED
    BY <1>1, <2>1, <2>2 DEF Owing
<1>5. BootstrapOK'
  BY <1>1, <1>2 DEF CInv, CopiesInv, BootstrapOK
<1> QED
  BY <1>3, <1>4, <1>5 DEF CopiesInv, CountsOK

-------------------------------------------------------------------------------
(* The bootstrap.                                                          *)

LEMMA ReadCopies ==
  ASSUME CInv, IInv', ReadHotMin \/ ReadColdMin \/ CountRecent
  PROVE  CopiesInv'
<1> USE DEF ReadHotMin, ReadColdMin, CountRecent, Goto, world
<1>1. /\ pc \in {"boot", "bootCold"} /\ pc' \in {"bootCold", "bootCount", "bootTotal"}
      /\ UNCHANGED <<cold, file, save, late, mode, tbl>>
      /\ pc' \in {"bootCold", "bootCount"} => mode = "full"
      /\ pc' = "bootTotal" => mode = "recent"
  BY DEF CInv, CopiesInv, BootstrapOK
<1>2. Due' = Due \/ Due' = Due + 1
  BY ScalarDue DEF CInv
<1>3. Mark' = Mark /\ \A r : Again(r)' = Again(r)
  BY <1>1, MarkKept, SameAgain DEF SavePcs, Counting
<1>4. Paid'
  BY <1>1, <1>2, <1>3, Keeps
<1>5. pc' = "bootCount" /\ end' > 0 =>
        \A r \in Rows : TableOf[r] = tbl /\ cold[r] > 0 => Stamp[r] >= end'
  <2>1. SUFFICES ASSUME pc' = "bootCount", end' > 0 PROVE
          \A r \in Rows : TableOf[r] = tbl /\ cold[r] > 0 => Stamp[r] >= end'
    OBVIOUS
  <2>2. PICK m \in StampsOrZero :
          /\ IsEarliest(m, {r \in Rows : TableOf[r] = tbl /\ cold[r] > 0})
          /\ Scalar(end', m)
    BY <2>1
  <2>3. end' = m
    BY <2>1, <2>2 DEF Scalar
  <2>4. \A r \in Rows : TableOf[r] = tbl /\ cold[r] > 0 => m <= Stamp[r]
    BY <2>2 DEF IsEarliest
  <2>5. m \in Nat /\ \A r \in Rows : Stamp[r] \in Nat
    BY RowsAssumption DEF StampsOrZero
  <2> QED BY <2>3, <2>4, <2>5
<1>6. BootstrapOK'
  BY <1>1, <1>5 DEF BootstrapOK
<1> QED
  BY <1>1, <1>4, <1>6 DEF CopiesInv, CountsOK

LEMMA NoneCopied ==
  ASSUME IInv, NEW S \in SUBSET Rows
  PROVE  ColdCount(S) \in Nat /\ (ColdCount(S) = 0 <=> \A r \in S : cold[r] = 0)
<1> DEFINE P == {r \in S : cold[r] > 0}
<1>1. IsFiniteSet(P) /\ P \subseteq Rows /\ Cardinality(P) \in Nat
  BY CountFacts, RowsAssumption, FS_Subset
<1>2. Cardinality(P) = 0 <=> P = {}
  BY <1>1, FS_EmptySet
<1>3. \A r \in S : cold[r] \in Nat
  BY DEF IInv, TypeOK
<1> QED BY <1>1, <1>2, <1>3 DEF ColdCount

(* Only a copy too many already makes the bootstrap find rows in a table   *)
(* that has no watermark.                                                  *)
LEMMA CountTableCopies == ASSUME SInv, IInv', CountColdTable PROVE CopiesInv'
<1> USE DEF CountColdTable, Goto, world
<1> DEFINE T == {r \in Rows : TableOf[r] = tbl}
           total == ColdCount(T)
<1>1. /\ pc = "bootCount" /\ UNCHANGED <<cold, file, save, late, mode, start, cur>>
      /\ mode = "full" /\ CInv /\ IInv /\ tbl \in Tables
  BY DEF SInv, CInv, CopiesInv, BootstrapOK, IInv, WindowOK, BootPcs
<1>2. total \in Nat /\ (total = 0 <=> \A r \in T : cold[r] = 0)
  BY <1>1, NoneCopied
<1> HIDE DEF total
<1>3. CASE Scalar(0, total) /\ pc' = "seed" /\ tbl' = tbl
  <2>1. \/ Due' = Due /\ total = 0
        \/ Due' = Due + 1
    BY <1>1, <1>3, ScalarDue
  <2>2. Mark' = Mark
    BY <1>1, <1>3, MarkKept DEF SavePcs
  <2>3. CASE Due' = Due + 1
    <3>1. \A r \in Rows : cold'[r] <= Extra(r)
      BY <1>1, ExtraFacts DEF Extra
    <3>2. Paid'
      BY <1>1, <2>3, <3>1, Pays
    <3> QED BY <1>1, <1>3, <3>2 DEF CopiesInv, CountsOK, BootstrapOK
  <2>4. CASE Due' = Due /\ total = 0
    <3>1. \A r \in Rows : r \in T \/ (Again(r)' <=> Again(r))
      BY <1>1, <1>3, <2>2 DEF Again, Unmarked, Counting
    <3>2. \A r \in Rows : Extra(r)' <= 1 + Due
      <4>1. TAKE r \in Rows
      <4>2. CASE r \in T
        BY <1>1, <1>2, <2>4, <4>2, DueFacts DEF Extra
      <4>3. CASE r \notin T
        <5>1. Extra(r)' = Extra(r)
          BY <1>1, <3>1, <4>3 DEF Extra
        <5> QED BY <1>1, <5>1 DEF CInv, CopiesInv, Paid
      <4> QED BY <4>2, <4>3
    <3>3. Paid'
      BY <2>4, <3>2 DEF Paid
    <3> QED BY <1>1, <1>3, <3>3 DEF CopiesInv, CountsOK, BootstrapOK
  <2> QED BY <2>1, <2>3, <2>4
<1>4. CASE /\ total # 0 /\ faults' = faults /\ end' = end
           /\ \/ pc' = "backfill" /\ tbl' = tbl
              \/ pc' = "boot"
  <2>1. Due' = Due /\ Due \in Nat
    BY <1>1, <1>4, StepDue, DueFacts
  <2>2. Mark' = Mark /\ \A r : Again(r)' = Again(r)
    BY <1>1, <1>4, MarkKept, SameAgain DEF SavePcs, Counting
  <2>3. Paid'
    BY <1>1, <2>1, <2>2, Keeps
  <2>4. Due > 0
    <3>1. SUFFICES ASSUME Due = 0 PROVE FALSE
      BY <2>1
    <3>2. Smooth
      <4>1. faults = 0 /\ Cardinality(late) = 0 /\ IsFiniteSet(late)
        BY <1>1, <3>1, DueFacts DEF Due
      <4> QED BY <1>1, <4>1, FS_EmptySet DEF Smooth
    <3>3. Mark[tbl] = 0
      <4>1. Seeded(tbl)
        BY <1>1, <3>2 DEF SInv, SmoothInv, PhaseOK
      <4>2. Mark[tbl] \in Nat /\ tbl \in Int
        BY <1>1, MarkFacts DEF Tables
      <4> QED BY <1>1, <4>1, <4>2 DEF Seeded
    <3>4. \A r \in T : cold[r] > 0 => Stamp[r] < 0
      BY <1>1, <3>2, <3>3 DEF SInv, SmoothInv, Exact, RowExact, Reach, Counting
    <3>5. \A r \in T : cold[r] \in Nat /\ Stamp[r] \in Nat
      BY <1>1, RowsAssumption DEF IInv, TypeOK
    <3>6. \A r \in T : cold[r] = 0
      BY <3>4, <3>5
    <3> QED BY <1>2, <1>4, <3>6
  <2>5. end > 0 => \A r \in Rows : TableOf[r] = tbl /\ cold[r] > 0 => Stamp[r] >= end
    BY <1>1 DEF CInv, CopiesInv, BootstrapOK
  <2> QED
    BY <1>1, <1>4, <2>1, <2>3, <2>4, <2>5 DEF CopiesInv, CountsOK, BootstrapOK
<1> QED
  BY <1>3, <1>4 DEF total

(* What one window of the bootstrap copies.                                *)
LEMMA FillCopies == ASSUME CInv, IInv', FillWindow \/ FillFails PROVE CopiesInv'
<1> USE DEF FillWindow, FillFails, world
<1> DEFINE S == hot \cap Between(tbl, cur, FillEnd)
<1>1. /\ pc \in {"seed", "backfill"}
      /\ UNCHANGED <<file, save, late, mode, pc, tbl, start, end>>
      /\ IInv /\ mode = "full"
  BY DEF CInv, CopiesInv, BootstrapOK
<1>2. PICK part \in SUBSET S :
        /\ cold' = Copies(part)
        /\ \/ Due' = Due /\ cur' = FillEnd
           \/ Due' = Due + 1 /\ cur' = end
  BY <1>1, StepDue DEF Insert, InsertFails, Fault
<1>3. /\ Due \in Nat /\ cur \in Nat /\ end \in Nat /\ cur > 0 /\ end > 0
      /\ cur < FillEnd /\ FillEnd <= end /\ FillEnd \in Nat
  BY <1>1, InvFacts, DueFacts, SettingsAssumption DEF FillPending, FillEnd
<1>4. \A r \in Rows : Stamp[r] \in Nat /\ cold[r] \in Nat
  BY <1>1, RowsAssumption DEF IInv, TypeOK
<1>5. \A r \in part : r \in Rows /\ TableOf[r] = tbl /\ cur <= Stamp[r] /\ Stamp[r] < FillEnd
  BY <1>2 DEF Between
<1>6. \A r \in Rows : cold'[r] = IF r \in part THEN cold[r] + 1 ELSE cold[r]
  BY <1>2 DEF Copies
<1> HIDE DEF S, FillWindow, FillFails
<1>7. Mark' = Mark
  BY <1>1 DEF Mark
<1>8. \A r \in Rows : /\ Extra(r) \in Nat /\ Extra(r) <= 1 + Due
                      /\ Again(r) => Extra(r) = cold[r] + 1
                      /\ ~Again(r) => Extra(r) = cold[r]
  BY <1>1, ExtraFacts DEF CInv, CopiesInv, Paid
<1>9. CASE pc = "seed"
  <2>1. \A r \in Rows : TableOf[r] = tbl => (Again(r) <=> Stamp[r] >= cur \/ Stamp[r] >= end)
    BY <1>9 DEF Again
  <2>2. CASE Due' = Due + 1
    <3>1. \A r \in Rows : cold'[r] <= Extra(r)
      BY <1>3, <1>4, <1>5, <1>6, <1>8, <2>1
    <3>2. Paid'
      BY <2>2, <3>1, Pays
    <3> QED BY <1>1, <1>9, <3>2 DEF CopiesInv, CountsOK, BootstrapOK
  <2>3. CASE Due' = Due /\ cur' = FillEnd
    <3>1. \A r \in Rows : TableOf[r] = tbl =>
            (Again(r)' <=> Stamp[r] >= FillEnd \/ Stamp[r] >= end)
      BY <1>1, <1>9, <2>3 DEF Again
    <3>2. \A r \in Rows : TableOf[r] # tbl => (Again(r)' <=> Again(r))
      BY <1>1, <1>7, <1>9 DEF Again, Unmarked, Counting
    <3>3. \A r \in Rows : Extra(r)' <= Extra(r)
      <4>1. TAKE r \in Rows
      <4>2. CASE r \in part
        <5>1. Again(r) /\ ~(Again(r)')
          BY <1>3, <1>4, <1>5, <2>1, <3>1, <4>2
        <5> QED BY <1>4, <1>6, <1>8, <4>2, <5>1 DEF Extra
      <4>3. CASE r \notin part
        <5>1. Again(r)' => Again(r)
          BY <1>3, <1>4, <2>1, <3>1, <3>2
        <5> QED BY <1>4, <1>6, <1>8, <4>3, <5>1 DEF Extra
      <4> QED BY <4>2, <4>3
    <3>4. \A r \in Rows : Extra(r)' \in Nat
      BY <1>4, <1>6 DEF Extra
    <3>5. Paid'
      BY <1>3, <1>8, <2>3, <3>3, <3>4 DEF Paid
    <3> QED BY <1>1, <1>9, <3>5 DEF CopiesInv, CountsOK, BootstrapOK
  <2> QED BY <1>2, <2>2, <2>3
<1>10. CASE pc = "backfill"
  <2>1. \A r \in Rows : TableOf[r] = tbl /\ cold[r] > 0 => Stamp[r] >= end \/ Stamp[r] < cur
    BY <1>3, <1>10 DEF CInv, CopiesInv, BootstrapOK
  <2>2. \A r \in part : cold[r] = 0
    BY <1>3, <1>4, <1>5, <2>1
  <2>3. Due > 0
    BY <1>10 DEF CInv, CopiesInv, BootstrapOK
  <2>4. \A r \in Rows : Again(r)' = Again(r)
    BY <1>1, <1>7, <1>10, SameAgain DEF Counting
  <2>5. \A r \in Rows : Extra(r)' <= 1 + Due /\ Extra(r)' \in Nat
    BY <1>3, <1>4, <1>6, <1>8, <2>2, <2>3, <2>4 DEF Extra
  <2>6. Due' >= Due /\ Due' > 0
    BY <1>2, <1>3, <2>3
  <2>7. Paid'
    BY <1>2, <1>3, <2>5 DEF Paid
  <2>8. \A r \in Rows : TableOf[r] = tbl /\ cold'[r] > 0 => Stamp[r] >= end \/ Stamp[r] < cur'
    <3>1. TAKE r \in Rows
    <3>2. CASE r \in part
      BY <1>2, <1>3, <1>4, <1>5, <3>2
    <3>3. CASE r \notin part
      BY <1>2, <1>3, <1>4, <1>6, <2>1, <3>3
    <3> QED BY <3>2, <3>3
  <2> QED BY <1>1, <1>10, <2>6, <2>7, <2>8 DEF CopiesInv, CountsOK, BootstrapOK
<1> QED
  BY <1>1, <1>9, <1>10

LEMMA SeedMark ==
  ASSUME IInv, SeedDone
  PROVE  /\ end = SafetyEnd(tbl) /\ tbl \in Tables
         /\ Mark'[tbl] = SafetyEnd(tbl) /\ \A u \in Tables \ {tbl} : Mark'[u] = Mark[u]
<1> USE DEF SeedDone, Goto, OpenStateFile
<1>1. tbl \in Tables /\ end = SafetyEnd(tbl) /\ SafetyEnd(tbl) \in Nat /\ file \in States
  BY InvFacts DEF IInv, WindowOK, BootPcs
<1>2. Mark' = WithMark(tbl, SafetyEnd(tbl)).wm
  BY BlankFacts DEF Mark, SavePcs
<1>3. Mark = file.wm
  BY DEF Mark, SavePcs
<1>4. /\ WithMark(tbl, SafetyEnd(tbl)).wm[tbl] = SafetyEnd(tbl)
      /\ \A u \in Tables \ {tbl} : WithMark(tbl, SafetyEnd(tbl)).wm[u] = file.wm[u]
  BY <1>1, WithMarkFacts
<1> QED
  BY <1>1, <1>2, <1>3, <1>4

LEMMA SeedDoneCopies == ASSUME CInv, IInv', SeedDone PROVE CopiesInv'
<1> USE DEF SeedDone, Goto, world
<1>1. /\ pc = "seed" /\ pc' = "saveSeed" /\ tbl' = tbl
      /\ UNCHANGED <<cold, late, mode, faults>> /\ mode = "full" /\ IInv
  BY DEF CInv, CopiesInv, BootstrapOK
<1>2. Due' = Due
  BY <1>1, StepDue
<1>3. /\ end = SafetyEnd(tbl) /\ Mark'[tbl] = SafetyEnd(tbl) /\ SafetyEnd(tbl) > 0
      /\ \A u \in Tables \ {tbl} : Mark'[u] = Mark[u]
  BY <1>1, SeedMark, SafetyEndFacts, InvFacts, SettingsAssumption
<1>4. \A r \in Rows : Again(r)' => Again(r)
  <2>1. SUFFICES ASSUME NEW r \in Rows, Again(r)' PROVE Again(r)
    OBVIOUS
  <2>2. TableOf[r] \in Tables /\ Unmarked(r)'
    BY <1>1, <2>1, RowsAssumption DEF Again
  <2>3. CASE TableOf[r] = tbl
    BY <1>1, <1>3, <2>2, <2>3 DEF Again, Unmarked
  <2>4. CASE TableOf[r] # tbl
    BY <1>1, <1>3, <2>2, <2>4 DEF Again, Unmarked, Counting
  <2> QED BY <2>3, <2>4
<1>5. Paid'
  BY <1>1, <1>2, <1>4, Keeps
<1> QED
  BY <1>1, <1>5 DEF CopiesInv, CountsOK, BootstrapOK

LEMMA TotalCopies == ASSUME CInv, IInv', CountColdTotal PROVE CopiesInv'
<1> USE DEF CountColdTotal, Goto, world
<1> DEFINE T == {r \in Rows : TableOf[r] = tbl}
           total == ColdCount(T)
<1>1. /\ pc = "bootTotal" /\ pc' \in {"bootInsert", "boot"}
      /\ UNCHANGED <<cold, file, save, late, mode>> /\ mode = "recent" /\ IInv
      /\ pc' = "bootInsert" => tbl' = tbl
  BY DEF CInv, CopiesInv, BootstrapOK
<1>2. total \in Nat /\ (total = 0 <=> \A r \in T : cold[r] = 0)
  BY <1>1, NoneCopied
<1> HIDE DEF total
<1>3. /\ Due' = Due \/ Due' = Due + 1
      /\ pc' = "bootInsert" => total = 0 \/ Due' = Due + 1
  <2>1. CASE Scalar(0, total)
    BY <1>1, <2>1, ScalarDue
  <2>2. CASE total # 0 /\ faults' = faults /\ Goto("boot", tbl + 1)
    BY <1>1, <2>2, StepDue
  <2> QED BY <2>1, <2>2 DEF total
<1>4. \A r : Again(r)' = Again(r)
  BY <1>1, MarkKept, SameAgain DEF SavePcs, Counting
<1>5. Paid' /\ \A r \in Rows : Extra(r)' = Extra(r)
  BY <1>1, <1>3, <1>4, Keeps DEF Extra
<1>6. BootstrapOK'
  <2>1. SUFFICES ASSUME pc' = "bootInsert", NEW r \in Rows, TableOf[r] = tbl, cold[r] > 0
                 PROVE  Extra(r) <= Due'
    BY <1>1, <1>5 DEF BootstrapOK
  <2>2. Due' = Due + 1
    BY <1>2, <1>3, <2>1
  <2> QED BY <2>2, ExtraFacts DEF CInv, CopiesInv, Paid
<1> QED
  BY <1>1, <1>5, <1>6 DEF CopiesInv, CountsOK

(* The recent bootstrap copies into an empty table, or repeats itself      *)
(* after an error.                                                         *)
LEMMA RecentCopies == ASSUME CInv, IInv', InsertRecent PROVE CopiesInv'
<1> USE DEF InsertRecent, Goto, world
<1>1. /\ pc = "bootInsert" /\ pc' = "boot"
      /\ UNCHANGED <<file, save, late, mode>> /\ mode = "recent" /\ IInv
  BY DEF CInv, CopiesInv, BootstrapOK
<1>2. PICK part \in SUBSET Recent(tbl) : cold' = Copies(part)
  BY DEF Insert, InsertFails
<1>3. Due' = Due \/ Due' = Due + 1
  BY <1>1, StepDue DEF Insert, InsertFails, Fault
<1>4. Due \in Nat /\ Due > 0
  BY <1>1, DueFacts DEF Due
<1>5. \A r \in Rows : /\ cold'[r] = IF r \in part THEN cold[r] + 1 ELSE cold[r]
                      /\ cold[r] \in Nat
  BY <1>1, <1>2 DEF Copies, IInv, TypeOK
<1>6. \A r : Again(r)' = Again(r)
  BY <1>1, MarkKept, SameAgain DEF SavePcs, Counting
<1>7. \A r \in part : cold[r] > 0 => Extra(r) <= Due
  BY <1>1, <1>2, InvFacts DEF CInv, CopiesInv, BootstrapOK, Recent
<1>8. \A r \in Rows : Extra(r)' <= 1 + Due /\ Extra(r)' \in Nat
  <2>1. TAKE r \in Rows
  <2>2. Extra(r) <= 1 + Due /\ Extra(r) \in Nat
    BY <1>1, ExtraFacts DEF CInv, CopiesInv, Paid
  <2>3. CASE r \in part
    BY <1>4, <1>5, <1>6, <1>7, <2>2, <2>3 DEF Extra
  <2>4. CASE r \notin part
    BY <1>4, <1>5, <1>6, <2>2, <2>4 DEF Extra
  <2> QED BY <2>3, <2>4
<1>9. Paid'
  BY <1>3, <1>4, <1>8 DEF Paid
<1> QED
  BY <1>1, <1>9, FreeOfCounts DEF CopiesInv, Counting, BootPcs

-------------------------------------------------------------------------------
(* The window loop.                                                        *)

(* The rows of the window at hand lie above the watermark of their table.  *)
LEMMA WindowAhead ==
  ASSUME IInv, pc \in {"win", "hotCount", "coldCount"}
  PROVE  /\ tbl \in Tables /\ Mark = file.wm /\ Mark[tbl] \in Nat /\ Mark[tbl] <= cur
         /\ WinEnd \in Nat /\ cur \in Nat /\ WindowRows \subseteq Rows
         /\ \A r \in WindowRows : /\ TableOf[r] = tbl /\ Unmarked(r)
                                  /\ cur <= Stamp[r] /\ Stamp[r] < WinEnd
<1>1. tbl \in Tables /\ file.wm[tbl] <= cur
  BY DEF IInv, WindowOK, WindowPcs
<1>2. Mark = file.wm
  BY DEF Mark, SavePcs
<1>3. Mark[tbl] \in Nat /\ cur \in Nat /\ WinEnd \in Nat
  BY <1>1, MarkFacts, InvFacts, WinEndFacts
<1>4. \A r \in WindowRows : /\ r \in Rows /\ TableOf[r] = tbl
                            /\ cur <= Stamp[r] /\ Stamp[r] < WinEnd
  BY DEF WindowRows, Between
<1>5. \A r \in WindowRows : Unmarked(r)
  BY <1>1, <1>2, <1>3, <1>4, RowsAssumption DEF Unmarked
<1> QED
  BY <1>1, <1>2, <1>3, <1>4, <1>5

LEMMA CopyWindowCopies == ASSUME CInv, IInv', CopyWindow PROVE CopiesInv'
<1> USE DEF CopyWindow, Goto, world, Insert
<1>1. /\ pc = "win" /\ pc' = "hotCount" /\ IInv
      /\ UNCHANGED <<hot, file, save, late, mode, tbl, cur, start, faults>>
  BY DEF CInv
<1>2. Due' = Due
  BY <1>1, StepDue
<1>3. Mark' = Mark /\ WindowRows' = WindowRows
  BY <1>1 DEF Mark, SavePcs, WindowRows, Between, WinEnd, SafetyEnd
<1>4. \A r \in Rows : /\ cold'[r] = IF r \in hot \cap WindowRows THEN cold[r] + 1 ELSE cold[r]
                      /\ cold[r] \in Nat
  BY <1>1 DEF Copies, WindowRows, IInv, TypeOK
<1>5. \A r \in Rows : /\ Again(r) <=> Unmarked(r)
                      /\ Again(r)' <=> Unmarked(r) /\ r \notin WindowRows
  BY <1>1, <1>3 DEF Again, Unmarked, Counting
<1>6. \A r \in WindowRows : Unmarked(r)
  BY <1>1, WindowAhead
<1>7. \A r \in Rows : Extra(r)' <= Extra(r) /\ Extra(r)' \in Nat
  BY <1>4, <1>5, <1>6 DEF Extra
<1>8. Paid'
  BY <1>1, <1>2, <1>7, ExtraFacts DEF CInv, CopiesInv, Paid
<1>9. CountsOK'
  <2>1. \A r \in hot \cap WindowRows : cold'[r] > 0
    <3>1. WindowRows \subseteq Rows
      BY DEF WindowRows, Between
    <3> QED BY <1>4, <3>1
  <2> QED
    BY <1>1, <1>3, <2>1 DEF CountsOK
<1> QED
  BY <1>1, <1>8, <1>9 DEF CopiesInv, BootstrapOK

LEMMA CopyFailsCopies == ASSUME CInv, IInv', CopyWindowFails PROVE CopiesInv'
<1> USE DEF CopyWindowFails, Goto, world, InsertFails, Fault
<1>1. /\ pc = "win" /\ pc' = "rep" /\ UNCHANGED <<late, mode>> /\ IInv
  BY DEF CInv
<1>2. Due' = Due + 1
  BY <1>1, StepDue
<1>3. PICK part \in SUBSET (hot \cap WindowRows) : cold' = Copies(part)
  BY DEF WindowRows
<1>4. \A r \in part : Again(r)
  BY <1>1, <1>3, WindowAhead DEF Again, Counting
<1>5. \A r \in Rows : cold'[r] <= Extra(r)
  BY <1>1, <1>3, <1>4, ExtraFacts DEF Copies, Extra
<1> QED
  BY <1>1, <1>2, <1>5, Pays, FreeOfCounts DEF CopiesInv, Counting, BootPcs

(* The cold count is no less than that of the hot rows just copied.        *)
LEMMA CountHotCopies == ASSUME CInv, IInv', CountHotWindow PROVE CopiesInv'
<1> USE DEF CountHotWindow, Goto, world
<1> DEFINE W == hot \cap WindowRows
<1>1. /\ pc = "hotCount" /\ pc' = "coldCount" /\ IInv
      /\ UNCHANGED <<cold, hot, file, save, late, mode, tbl, cur, start>>
      /\ Scalar(tally', Cardinality(W))
  BY DEF CInv, WindowRows
<1>2. Due \in Nat /\ (Due' = Due \/ Due' = Due + 1)
  BY <1>1, ScalarDue, DueFacts
<1>3. Mark' = Mark /\ WindowRows' = WindowRows
  BY <1>1 DEF Mark, SavePcs, WindowRows, Between, WinEnd, SafetyEnd
<1>4. \A r : Again(r)' = Again(r)
  BY <1>1, <1>3 DEF Again, Unmarked, Counting
<1>5. Paid'
  BY <1>1, <1>2, <1>4, Keeps
<1>6. WindowRows \in SUBSET Rows /\ \A r \in Rows : cold[r] \in Nat
  BY <1>1, WindowAhead DEF IInv, TypeOK
<1>7. CASE Owing
  <2>1. Owing'
    BY <1>1, <1>2, <1>3, <1>6, <1>7 DEF Owing
  <2> QED BY <1>1, <1>5, <2>1 DEF CopiesInv, CountsOK, BootstrapOK
<1>8. CASE ~Owing
  <2> DEFINE f == [r \in WindowRows |-> cold[r]]
  <2>1. IsFiniteSet(WindowRows) /\ f \in [WindowRows -> Nat] /\ W \in SUBSET WindowRows
    BY <1>6, RowsAssumption, FS_Subset
  <2>2. \A r \in W : f[r] > 0
    BY <1>1, <1>8 DEF CInv, CopiesInv, CountsOK
  <2>3. Cardinality(W) <= Total(f, WindowRows)
    <3> HIDE DEF f, W
    <3> QED BY <2>1, <2>2, TotalAtLeast
  <2>4. ColdCopies(WindowRows) = Total(f, WindowRows)
    BY <1>1, <1>6, ColdCopiesIsTotal DEF IInv, TypeOK
  <2>5. Total(f, WindowRows) \in Nat
    <3> HIDE DEF f
    <3> QED BY <2>1, TotalType
  <2>6. tally' = Cardinality(W) \/ tally' = 0
    BY <1>1 DEF Scalar
  <2>7. tally' <= ColdCopies(WindowRows)
    <3> HIDE DEF f, W
    <3> QED BY <2>3, <2>4, <2>5, <2>6
  <2>8. ColdCopies(WindowRows)' = ColdCopies(WindowRows)
    BY <1>1, <1>3 DEF ColdCopies, MapThenSumSet, MapThenFoldSet
  <2>9. CountsOK'
    BY <1>1, <2>7, <2>8 DEF CountsOK
  <2> QED BY <1>1, <1>5, <2>9 DEF CopiesInv, BootstrapOK
<1> QED
  BY <1>7, <1>8

LEMMA WindowMark ==
  ASSUME IInv, pc = "coldCount", pc' = "saveWin", OpenStateFile(WithMark(tbl, WinEnd))
  PROVE  /\ Mark'[tbl] = WinEnd /\ \A u \in Tables \ {tbl} : Mark'[u] = Mark[u]
<1> USE DEF OpenStateFile
<1>1. tbl \in Tables /\ WinEnd \in Nat /\ file \in States /\ Mark = file.wm
  BY WindowAhead, InvFacts
<1>2. Mark' = WithMark(tbl, WinEnd).wm
  BY BlankFacts DEF Mark, SavePcs
<1> DEFINE W == WithMark(tbl, WinEnd)
<1>3. W.wm[tbl] = WinEnd /\ \A u \in Tables \ {tbl} : W.wm[u] = file.wm[u]
  BY <1>1, WithMarkFacts
<1> QED
  BY <1>1, <1>2, <1>3

(* The check that fails without an error was owed a copy, and a table that *)
(* is left without one goes on from its old watermark.                     *)
LEMMA CountColdCopies == ASSUME CInv, IInv', CountColdWindow PROVE CopiesInv'
<1> USE DEF CountColdWindow, Goto, world
<1>1. /\ pc = "coldCount" /\ IInv
      /\ UNCHANGED <<cold, late, mode, cur, start, tally>>
  BY DEF CInv
<1>2. PICK c : /\ Scalar(c, ColdCopies(WindowRows))
               /\ \/ /\ OpenStateFile(WithMark(tbl, WinEnd))
                     /\ pc' = "saveWin" /\ tbl' = tbl
                  \/ /\ c < tally /\ pc' = "coldCount" /\ tbl' = tbl
                     /\ UNCHANGED <<file, save>>
                  \/ /\ c < tally /\ pc' = "rep"
                     /\ UNCHANGED <<file, save>>
  BY DEF WindowRows
<1> HIDE DEF CountColdWindow
<1>3. Due \in Nat /\ \/ Due' = Due /\ c = ColdCopies(WindowRows)
                     \/ Due' = Due + 1
  BY <1>1, <1>2, ScalarDue, DueFacts
<1>4. /\ tbl \in Tables /\ Mark[tbl] \in Nat /\ Mark[tbl] <= cur /\ cur \in Nat
      /\ WinEnd \in Nat /\ WindowRows \subseteq Rows /\ cur < WinEnd
      /\ \A r \in WindowRows : Unmarked(r)
  BY <1>1, WindowAhead DEF IInv, WindowOK, WindowPcs
<1>5. \A r \in Rows : Again(r) <=> Unmarked(r) /\ r \notin WindowRows
  BY <1>1 DEF Again, Counting
<1>6. CASE pc' = "saveWin" /\ tbl' = tbl /\ OpenStateFile(WithMark(tbl, WinEnd))
  <2>1. Mark'[tbl] = WinEnd /\ \A u \in Tables \ {tbl} : Mark'[u] = Mark[u]
    BY <1>1, <1>6, WindowMark
  <2>2. \A r \in Rows : Again(r)' => Again(r)
    <3>1. SUFFICES ASSUME NEW r \in Rows, Again(r)' PROVE Again(r)
      OBVIOUS
    <3>2. TableOf[r] \in Tables /\ Stamp[r] \in Nat /\ Unmarked(r)'
      BY <1>6, <3>1, RowsAssumption DEF Again
    <3>3. CASE TableOf[r] = tbl
      <4>1. Stamp[r] >= WinEnd
        BY <1>4, <2>1, <3>2, <3>3 DEF Unmarked
      <4>2. r \notin WindowRows
        BY <1>4, <3>2, <4>1 DEF WindowRows, Between
      <4>3. Unmarked(r)
        BY <1>4, <3>2, <3>3, <4>1 DEF Unmarked
      <4> QED BY <1>5, <4>2, <4>3
    <3>4. CASE TableOf[r] # tbl
      <4>1. Unmarked(r)
        BY <2>1, <3>2, <3>4 DEF Unmarked
      <4>2. r \notin WindowRows
        BY <3>4 DEF WindowRows, Between
      <4> QED BY <1>5, <4>1, <4>2
    <3> QED BY <3>3, <3>4
  <2> QED
    BY <1>1, <1>3, <1>6, <2>2, Keeps, FreeOfCounts DEF CopiesInv, Counting, BootPcs
<1>7. CASE pc' = "coldCount" /\ tbl' = tbl /\ UNCHANGED <<file, save>>
  <2>1. Mark' = Mark /\ WindowRows' = WindowRows
    BY <1>1, <1>7 DEF Mark, SavePcs, WindowRows, Between, WinEnd, SafetyEnd
  <2>2. \A r : Again(r)' = Again(r)
    BY <1>1, <1>7, <2>1 DEF Again, Unmarked, Counting
  <2>3. Paid'
    BY <1>1, <1>3, <2>2, Keeps
  <2>4. ColdCopies(WindowRows)' = ColdCopies(WindowRows)
    BY <1>1, <2>1 DEF ColdCopies, MapThenSumSet, MapThenFoldSet
  <2>5. Owing => Owing'
    BY <1>1, <1>3, <1>4, <2>1 DEF Owing, IInv, TypeOK
  <2>6. CountsOK'
    BY <1>1, <1>7, <2>4, <2>5 DEF CInv, CopiesInv, CountsOK
  <2> QED
    BY <1>7, <2>3, <2>6 DEF CopiesInv, BootstrapOK
<1>8. CASE c < tally /\ pc' = "rep" /\ UNCHANGED <<file, save>>
  <2>1. CASE Due' = Due + 1
    <3>1. \A r \in Rows : cold'[r] <= Extra(r)
      BY <1>1, ExtraFacts DEF Extra
    <3> QED
      BY <1>8, <2>1, <3>1, Pays, FreeOfCounts DEF CopiesInv, Counting, BootPcs
  <2>2. CASE Due' = Due /\ c = ColdCopies(WindowRows)
    <3>1. tally \in Nat /\ ColdCopies(WindowRows) \in Nat
      <4>1. WindowRows \in SUBSET Rows /\ IsFiniteSet(WindowRows)
        BY <1>4, RowsAssumption, FS_Subset
      <4>2. [r \in WindowRows |-> cold[r]] \in [WindowRows -> Nat]
        BY <1>1, <4>1 DEF IInv, TypeOK
      <4>3. Total([r \in WindowRows |-> cold[r]], WindowRows) \in Nat
        BY <4>1, <4>2, TotalType
      <4> QED BY <1>1, <4>1, <4>3, ColdCopiesIsTotal DEF IInv, TypeOK
    <3>2. Owing
      BY <1>1, <1>8, <2>2, <3>1 DEF CInv, CopiesInv, CountsOK
    <3>3. Mark' = Mark
      BY <1>1, <1>8, MarkKept DEF SavePcs
    <3>4. \A r \in Rows : Again(r)' <=> Unmarked(r)
      BY <1>8, <3>3 DEF Again, Unmarked, Counting
    <3>5. \A r \in Rows : Extra(r)' <= 1 + Due /\ Extra(r)' \in Nat
      <4>1. TAKE r \in Rows
      <4>2. cold[r] \in Nat /\ Extra(r) <= 1 + Due /\ Extra(r) \in Nat
        BY <1>1, ExtraFacts DEF CInv, CopiesInv, Paid
      <4>3. CASE r \in WindowRows
        BY <1>1, <1>3, <3>2, <4>2, <4>3 DEF Owing, Extra
      <4>4. CASE r \notin WindowRows
        BY <1>1, <1>3, <1>5, <3>4, <4>2, <4>4 DEF Extra
      <4> QED BY <4>3, <4>4
    <3>6. Paid'
      BY <2>2, <3>5 DEF Paid
    <3> QED
      BY <1>8, <3>6, FreeOfCounts DEF CopiesInv, Counting, BootPcs
  <2> QED
    BY <1>3, <2>1, <2>2
<1> QED
  BY <1>2, <1>6, <1>7, <1>8

LEMMA StutterCopies == ASSUME CInv, UNCHANGED vars PROVE CopiesInv'
<1> USE DEF vars, locals, history
<1>1. Mark' = Mark
  BY DEF Mark
<1>2. /\ WindowRows' = WindowRows /\ Due' = Due
      /\ \A r : Again(r)' = Again(r) /\ Extra(r)' = Extra(r)
  <2>1. \A r : Again(r)' = Again(r)
    BY <1>1, StillAgain
  <2> QED
    BY <2>1 DEF WindowRows, Between, WinEnd, SafetyEnd, Due, Extra
<1>3. ColdCopies(WindowRows)' = ColdCopies(WindowRows)
  BY <1>2 DEF ColdCopies, MapThenSumSet, MapThenFoldSet
<1> QED
  BY <1>2, <1>3 DEF CInv, CopiesInv, Paid, CountsOK, Owing, BootstrapOK

LEMMA NextCopies == ASSUME SInv, IInv', [Next]_vars PROVE CopiesInv'
<1>1. CInv
  BY DEF SInv
<1>2. CASE Tick \/ (\E r \in Rows : Ingest(r)) \/ Crash \/ ResetState
  BY <1>1, <1>2, TickCopies, IngestCopies, CrashCopies, ResetCopies
<1>3. CASE QuietCopy
  BY <1>1, <1>3, QuietCopies
<1>4. CASE Bootstrap
  BY <1>1, <1>4, ReadCopies, CountTableCopies, FillCopies, SeedDoneCopies, TotalCopies,
     RecentCopies, QuietCopies DEF Bootstrap, QuietCopy
<1>5. CASE Replicate
  BY <1>1, <1>5, CopyWindowCopies, CopyFailsCopies, CountHotCopies, CountColdCopies,
     QuietCopies DEF Replicate, QuietCopy
<1>6. CASE UNCHANGED vars
  BY <1>1, <1>6, StutterCopies
<1> QED
  BY <1>2, <1>3, <1>4, <1>5, <1>6 DEF Next, Work, Cleanup, QuietCopy

-------------------------------------------------------------------------------
(* With nothing failed and no row late.                                    *)

LEMMA SmoothFacts ==
  ASSUME SInv, Smooth
  PROVE  /\ CInv /\ IInv /\ PhaseOK /\ Exact /\ mode = "full" /\ faults = 0 /\ late = {}
         /\ Mark \in [Tables -> Nat] /\ \A t \in Tables : Mark[t] <= SafetyEnd(t)
         /\ \A r \in Rows : cold[r] \in Nat /\ Stamp[r] \in Nat /\ TableOf[r] \in Tables
         /\ hot \subseteq arrived /\ arrived \subseteq Rows
BY MarkFacts, RowsAssumption DEF SInv, CInv, SmoothInv, Smooth, IInv, TypeOK, HistoryOK

(* A bootstrap at work, with nothing failed: its table is not marked, and  *)
(* so not copied.                                                          *)
LEMMA Untouched ==
  ASSUME SInv, Smooth, pc \in {"boot", "bootCold", "bootCount"}, tbl \in Tables, ~file.done
  PROVE  /\ Seeded(tbl) /\ Mark[tbl] = 0
         /\ \A r \in Rows : TableOf[r] = tbl => cold[r] = 0
<1>1. Seeded(tbl)
  BY SmoothFacts DEF PhaseOK, Done, SavePcs
<1>2. Mark[tbl] = 0
  <2>1. Mark[tbl] \in Nat /\ tbl \in Int
    BY SmoothFacts DEF Tables
  <2> QED BY <1>1, <2>1 DEF Seeded
<1>3. \A r \in Rows : TableOf[r] = tbl => cold[r] = 0
  BY <1>2, SmoothFacts DEF Exact, RowExact, Reach, Counting
<1> QED BY <1>1, <1>2, <1>3

LEMMA SameExact ==
  ASSUME SInv, Smooth, UNCHANGED <<cold, arrived>>, Mark' = Mark,
         pc \notin Counting \cup {"seed"},
         pc' \notin Counting \cup {"seed", "bootCold", "bootCount"},
         \A r \in arrived : r \in hot' \/ cold[r] > 0
  PROVE  Exact'
<1>1. \A t : Reach(t)' = Reach(t)
  BY DEF Reach
<1>2. \A r \in Rows : RowExact(r)
  BY SmoothFacts DEF Exact
<1>3. \A r \in Rows : RowExact(r)'
  BY <1>1, <1>2 DEF RowExact
<1> QED BY <1>3 DEF Exact

LEMMA QuietPhase == ASSUME SInv, IInv', Smooth, QuietCopy PROVE PhaseOK'
<1>1. Mark' = Mark /\ PhaseOK /\ mode = "full" /\ IInv
  BY QuietMark, SmoothFacts
<1>2. \A k : Seeded(k)' = Seeded(k)
  BY <1>1 DEF Seeded
<1>3. CASE Stop \/ Restart \/ WindowsDone \/ TablesDone \/ CleanTable \/ CleanupDone
  <2>1. /\ UNCHANGED file /\ pc' \in {"down", "woken", "rep", "clean", "idle"}
        /\ pc \in {"idle", "down", "win", "rep", "clean"}
    BY <1>3 DEF Stop, Restart, WindowsDone, TablesDone, CleanTable, CleanupDone, Goto
  <2> QED BY <1>1, <1>2, <2>1 DEF PhaseOK, Done, SavePcs
<1>4. CASE RunOnce
  <2>1. /\ UNCHANGED file /\ pc \in {"woken", "idle"}
        /\ IF file.done THEN pc' = "rep" ELSE pc' = "boot" /\ tbl' = 1
    BY <1>1, <1>4 DEF RunOnce, Goto
  <2> QED BY <1>1, <1>2, <2>1 DEF PhaseOK, Done, SavePcs
<1>5. CASE BackfillDone
  BY <1>1, <1>5 DEF BackfillDone, PhaseOK
<1>6. CASE MarkBootstrapDone
  <2>1. /\ pc = "boot" /\ tbl > NTables /\ file.kind # "torn" /\ file'.kind = "torn"
        /\ save'.done = TRUE /\ pc' = "saveMark"
    BY <1>1, <1>6, BlankFacts DEF MarkBootstrapDone, Goto, OpenStateFile, PhaseOK, SavePcs
  <2>2. tbl = NTables + 1
    BY <1>1, <2>1, SettingsAssumption DEF IInv, TypeOK
  <2>3. Seeded(NTables + 1)
    BY <1>1, <2>1, <2>2 DEF PhaseOK, Done, SavePcs
  <2> QED BY <1>2, <2>1, <2>3 DEF PhaseOK, Done, SavePcs
<1>7. CASE SaveSeed \/ SaveMark \/ SaveWindow
  <2>1. /\ pc \in SavePcs /\ file.kind = "torn" /\ file' = save /\ save.kind = "json"
        /\ \/ pc = "saveSeed" /\ pc' = "boot" /\ tbl' = tbl + 1
           \/ pc = "saveMark" /\ pc' = "rep"
           \/ pc = "saveWin" /\ pc' = "win" /\ cur' = WinEnd /\ tbl' = tbl
    BY <1>1, <1>7 DEF SaveSeed, SaveMark, SaveWindow, WriteStateFile, Goto, SavePcs, PhaseOK,
       IInv, FileOK
  <2>2. pc = "saveWin" => Mark[tbl] = WinEnd
    BY <1>1, <2>1 DEF IInv, WindowOK, Mark
  <2> QED BY <1>1, <1>2, <2>1, <2>2 DEF PhaseOK, Done, SavePcs
<1>8. CASE StartTable
  <2>1. /\ pc = "rep" /\ pc' = "win" /\ tbl' = tbl /\ UNCHANGED file /\ tbl \in Tables
    BY <1>1, <1>8, TableInRange DEF StartTable, Goto, IInv
  <2>2. Done /\ Seeded(NTables + 1) /\ Mark = file.wm
    BY <1>1, <2>1 DEF PhaseOK, Mark, SavePcs
  <2>3. Mark[tbl] > 0
    BY <2>1, <2>2, SettingsAssumption DEF Seeded, Tables
  <2>4. cur' = Mark[tbl]
    BY <1>8, <2>2, <2>3 DEF StartTable
  <2> QED BY <1>1, <1>2, <2>1, <2>2, <2>4 DEF PhaseOK, Done, SavePcs
<1> QED
  BY <1>3, <1>4, <1>5, <1>6, <1>7, <1>8 DEF QuietCopy

LEMMA QuietSmooth == ASSUME SInv, IInv', Smooth, QuietCopy PROVE PhaseOK' /\ Exact'
<1>1. Mark' = Mark
  BY QuietMark, SmoothFacts
<1>2. /\ pc \notin Counting \cup {"seed"}
      /\ pc' \notin Counting \cup {"seed", "bootCold", "bootCount"}
      /\ UNCHANGED <<cold, arrived>>
  BY DEF QuietCopy, Stop, Restart, RunOnce, BackfillDone, MarkBootstrapDone, SaveSeed, SaveMark,
         StartTable, WindowsDone, SaveWindow, TablesDone, CleanTable, CleanupDone, Goto,
         world, history, Counting
<1>3. \A r \in arrived : r \in hot' \/ cold[r] > 0
  <2>1. CASE CleanTable
    <3>1. SUFFICES ASSUME NEW r \in hot, r \notin hot' PROVE cold[r] > 0
      BY SmoothFacts DEF Exact
    <3>2. /\ pc = "clean" /\ tbl \in Tables /\ TableOf[r] = tbl /\ Stamp[r] < Cutoff(tbl)
      BY <2>1, <3>1, TableInRange, SmoothFacts DEF CleanTable, IInv
    <3>3. Mark = file.wm /\ Mark[tbl] \in Nat /\ Stamp[r] \in Nat /\ r \in Rows /\ r \in arrived
      BY <3>1, <3>2, SmoothFacts DEF Mark, SavePcs
    <3>4. Stamp[r] < Reach(TableOf[r])
      BY <3>2, <3>3, SettingsAssumption DEF Cutoff, Reach, Counting
    <3> QED BY <3>2, <3>3, <3>4, SmoothFacts DEF Exact, RowExact
  <2>2. CASE ~CleanTable
    <3>1. hot' = hot
      BY <2>2 DEF QuietCopy, Stop, Restart, RunOnce, BackfillDone, MarkBootstrapDone, SaveSeed,
         SaveMark, StartTable, WindowsDone, SaveWindow, TablesDone, CleanupDone, world
    <3> QED BY <3>1, SmoothFacts DEF Exact
  <2> QED BY <2>1, <2>2
<1> QED
  BY <1>1, <1>2, <1>3, SameExact, QuietPhase

LEMMA TickSmooth ==
  ASSUME SInv, Smooth, Tick \/ UNCHANGED vars
  PROVE  PhaseOK' /\ Exact'
<1> USE DEF Tick, vars, locals, history
<1>1. /\ UNCHANGED <<hot, cold, file, pc, tbl, cur, end, start, save, arrived>>
      /\ PhaseOK /\ Exact
  BY SmoothFacts
<1>2. Mark' = Mark /\ WinEnd' = WinEnd /\ \A t : SafetyEnd(t)' = SafetyEnd(t)
  BY <1>1 DEF Mark, WinEnd, SafetyEnd
<1>3. PhaseOK'
  BY <1>1, <1>2 DEF PhaseOK, Done, Seeded
<1>4. \A t : Reach(t)' = Reach(t)
  BY <1>1, <1>2 DEF Reach
<1>5. Exact'
  BY <1>1, <1>2, <1>4 DEF Exact, RowExact, SeedExact
<1> QED BY <1>3, <1>5

(* A row that comes in time comes above every watermark and window.        *)
LEMMA IngestSmooth ==
  ASSUME SInv, Smooth, Smooth', NEW q \in Rows, Ingest(q)
  PROVE  PhaseOK' /\ Exact'
<1> USE DEF Ingest, locals
<1>1. /\ UNCHANGED <<cold, file, pc, tbl, cur, end, start, save>>
      /\ arrived' = arrived \cup {q} /\ hot' = hot \cup {q} /\ q \notin arrived
      /\ PhaseOK /\ Exact /\ IInv
  BY SmoothFacts
<1>2. Mark' = Mark /\ WinEnd' = WinEnd /\ \A t : SafetyEnd(t)' = SafetyEnd(t)
  BY <1>1 DEF Mark, WinEnd, SafetyEnd
<1>3. PhaseOK'
  BY <1>1, <1>2 DEF PhaseOK, Done, Seeded
<1>4. \A t : Reach(t)' = Reach(t)
  BY <1>1, <1>2 DEF Reach
<1>5. TableOf[q] \in Tables /\ Stamp[q] \in Nat /\ ~(Stamp[q] < SafetyEnd(TableOf[q]))
  <2>1. late' = {} /\ late = {}
    BY DEF Smooth
  <2>2. ~(Stamp[q] < now - Lag[TableOf[q]])
    BY <2>1
  <2>3. /\ TableOf[q] \in Tables /\ Stamp[q] \in Nat /\ now \in Nat /\ start \in Nat
        /\ start <= now /\ Lag[TableOf[q]] \in Nat
    BY <1>1, RowsAssumption, SettingsAssumption, InvFacts
  <2> QED BY <2>2, <2>3 DEF SafetyEnd
<1>6. Reach(TableOf[q]) \in Nat /\ Reach(TableOf[q]) <= SafetyEnd(TableOf[q])
      /\ SafetyEnd(TableOf[q]) \in Nat
  <2>1. Mark[TableOf[q]] \in Nat /\ Mark[TableOf[q]] <= SafetyEnd(TableOf[q])
        /\ SafetyEnd(TableOf[q]) \in Nat
    BY <1>1, <1>5, MarkFacts, InvFacts
  <2>2. pc \in Counting /\ tbl = TableOf[q] => WinEnd \in Nat /\ WinEnd <= SafetyEnd(tbl)
    BY <1>1, <1>5, WinEndFacts, InvFacts
  <2> QED BY <2>1, <2>2 DEF Reach
<1>7. ~(Stamp[q] < Reach(TableOf[q]))
  BY <1>5, <1>6
<1>8. pc = "seed" => end = SafetyEnd(tbl)
  BY <1>1 DEF IInv, WindowOK
<1>9. \A r \in Rows : IF pc = "seed" /\ TableOf[r] = tbl THEN SeedExact(r)' ELSE RowExact(r)'
  <2>1. TAKE r \in Rows
  <2>2. CASE pc = "seed" /\ TableOf[r] = tbl
    <3>1. SeedExact(r)
      BY <1>1, <2>2 DEF Exact
    <3> QED BY <1>1, <1>5, <1>8, <2>2, <3>1 DEF SeedExact
  <2>3. CASE ~(pc = "seed" /\ TableOf[r] = tbl)
    <3>1. RowExact(r)
      BY <1>1, <2>3 DEF Exact
    <3> QED BY <1>1, <1>4, <1>7, <2>3, <3>1 DEF RowExact
  <2> QED BY <2>2, <2>3
<1>10. Exact'
  BY <1>1, <1>2, <1>5, <1>9 DEF Exact
<1> QED BY <1>3, <1>10

LEMMA ReadSmooth ==
  ASSUME SInv, IInv', Smooth, Smooth', ReadHotMin \/ ReadColdMin
  PROVE  PhaseOK' /\ Exact'
<1> USE DEF ReadHotMin, ReadColdMin, Goto, world
<1>1. /\ UNCHANGED <<hot, cold, file, tbl, start, save, arrived>>
      /\ PhaseOK /\ Exact /\ IInv /\ faults' = 0 /\ faults = 0
      /\ pc \in {"boot", "bootCold"} /\ pc' \in {"bootCold", "bootCount"}
      /\ pc = "bootCold" => cur' = cur
  BY SmoothFacts DEF Smooth
<1>2. Mark' = Mark /\ \A t : SafetyEnd(t)' = SafetyEnd(t) /\ Reach(t)' = Reach(t)
  BY <1>1 DEF Mark, SavePcs, SafetyEnd, Reach, Counting
<1>3. tbl \in Tables
  BY <1>1, TableInRange DEF IInv, WindowOK, BootPcs
<1>4. ~file.done
  BY <1>1 DEF PhaseOK, Done, SavePcs
<1>5. PhaseOK'
  BY <1>1, <1>2, <1>4 DEF PhaseOK, Done, Seeded, SavePcs
<1>6. \A r \in Rows : RowExact(r)'
  <2>1. \A r \in Rows : RowExact(r)
    BY <1>1 DEF Exact
  <2> QED BY <1>1, <1>2, <2>1 DEF RowExact
<1>7. \A r \in arrived : TableOf[r] = tbl /\ Stamp[r] < SafetyEnd(tbl) => cur' > 0 /\ Stamp[r] >= cur'
  <2>1. CASE pc = "bootCold"
    BY <1>1, <2>1 DEF Exact
  <2>2. CASE pc = "boot"
    <3>1. SUFFICES ASSUME NEW r \in arrived, TableOf[r] = tbl PROVE cur' > 0 /\ Stamp[r] >= cur'
      OBVIOUS
    <3>2. r \in Rows /\ cold[r] = 0
      BY <1>3, <1>4, <2>2, <3>1, Untouched, SmoothFacts
    <3>3. r \in {s \in hot : TableOf[s] = tbl}
      BY <1>1, <3>1, <3>2 DEF Exact
    <3>4. PICK m \in StampsOrZero :
            /\ IsEarliest(m, {s \in hot : TableOf[s] = tbl}) /\ Scalar(cur', m)
      BY <2>2
    <3>5. cur' = m
      BY <1>1, <3>4 DEF Scalar, Fault
    <3>6. m <= Stamp[r] /\ m \in {Stamp[s] : s \in hot}
      BY <3>3, <3>4 DEF IsEarliest
    <3>7. m \in Nat \ {0} /\ Stamp[r] \in Nat
      BY <1>1, <3>2, <3>6, RowsAssumption, InvFacts
    <3> QED BY <3>5, <3>6, <3>7
  <2> QED BY <1>1, <2>1, <2>2
<1>8. Exact'
  BY <1>1, <1>2, <1>6, <1>7 DEF Exact
<1> QED BY <1>5, <1>8

LEMMA CountTableSmooth ==
  ASSUME SInv, IInv', Smooth, Smooth', CountColdTable
  PROVE  PhaseOK' /\ Exact'
<1> USE DEF CountColdTable, Goto, world
<1> DEFINE T == {r \in Rows : TableOf[r] = tbl}
<1>1. /\ UNCHANGED <<hot, cold, file, start, save, arrived, cur>>
      /\ PhaseOK /\ Exact /\ IInv /\ faults' = 0 /\ faults = 0 /\ pc = "bootCount"
  BY SmoothFacts DEF Smooth
<1>2. tbl \in Tables /\ ~file.done
  BY <1>1 DEF PhaseOK, Done, SavePcs, IInv, WindowOK, BootPcs
<1>3. Seeded(tbl) /\ \A r \in T : cold[r] = 0
  BY <1>1, <1>2, Untouched
<1>4. ColdCount(T) = 0
  BY <1>1, <1>3, NoneCopied
<1>5. pc' = "seed" /\ tbl' = tbl /\ end' = SafetyEnd(tbl)
  BY <1>4
<1>6. Mark' = Mark /\ \A t : SafetyEnd(t)' = SafetyEnd(t) /\ Reach(t)' = Reach(t)
  BY <1>1, <1>5 DEF Mark, SavePcs, SafetyEnd, Reach, Counting
<1>7. PhaseOK'
  BY <1>1, <1>2, <1>3, <1>5, <1>6 DEF PhaseOK, Done, Seeded, SavePcs
<1>8. \A r \in Rows : RowExact(r)'
  <2>1. \A r \in Rows : RowExact(r)
    BY <1>1 DEF Exact
  <2> QED BY <1>1, <1>6, <2>1 DEF RowExact
<1>9. \A r \in Rows : TableOf[r] = tbl => SeedExact(r)'
  <2>1. \A r \in arrived : TableOf[r] = tbl /\ Stamp[r] < SafetyEnd(tbl) => cur > 0 /\ Stamp[r] >= cur
    BY <1>1 DEF Exact
  <2> QED BY <1>1, <1>3, <1>5, <2>1 DEF SeedExact
<1>10. Exact'
  BY <1>1, <1>5, <1>8, <1>9 DEF Exact
<1> QED BY <1>7, <1>10

LEMMA FillSmooth ==
  ASSUME SInv, IInv', Smooth, Smooth', FillWindow
  PROVE  PhaseOK' /\ Exact'
<1> USE DEF FillWindow, world, Insert
<1>1. /\ UNCHANGED <<hot, file, start, save, arrived, pc, tbl, end>>
      /\ PhaseOK /\ Exact /\ IInv /\ pc = "seed"
  BY SmoothFacts DEF PhaseOK
<1>2. /\ cur \in Nat /\ end \in Nat /\ cur > 0 /\ cur' = FillEnd
      /\ cur < FillEnd /\ FillEnd <= end /\ FillEnd \in Nat
  BY <1>1, InvFacts, SettingsAssumption DEF FillPending, FillEnd
<1>3. \A r \in Rows : /\ cold'[r] = IF r \in hot /\ TableOf[r] = tbl /\ cur <= Stamp[r] /\ Stamp[r] < FillEnd
                                    THEN cold[r] + 1 ELSE cold[r]
                      /\ cold[r] \in Nat /\ Stamp[r] \in Nat
  BY SmoothFacts DEF Copies, Between
<1> HIDE DEF FillWindow
<1>4. Mark' = Mark /\ \A t : Reach(t)' = Reach(t)
  BY <1>1 DEF Mark, Reach, Counting
<1>5. PhaseOK'
  BY <1>1, <1>4 DEF PhaseOK, Done, Seeded, SavePcs
<1>6. \A r \in Rows : TableOf[r] # tbl => RowExact(r)'
  <2>1. \A r \in Rows : TableOf[r] # tbl => RowExact(r)
    BY <1>1 DEF Exact
  <2> QED BY <1>1, <1>3, <1>4, <2>1 DEF RowExact
<1>7. \A r \in arrived : r \in hot \/ cold[r] > 0
  BY <1>1 DEF Exact
<1>8. \A r \in Rows : TableOf[r] = tbl => SeedExact(r)'
  <2>1. SUFFICES ASSUME NEW r \in Rows, TableOf[r] = tbl PROVE SeedExact(r)'
    OBVIOUS
  <2>2. SeedExact(r)
    BY <1>1, <2>1 DEF Exact
  <2>3. cold'[r] > 0 => Stamp[r] < cur' /\ Stamp[r] < end
    BY <1>2, <1>3, <2>2 DEF SeedExact
  <2>4. r \in arrived /\ Stamp[r] < end => cur' > 0 /\ (Stamp[r] >= cur' \/ cold'[r] > 0)
    BY <1>2, <1>3, <1>7, <2>1, <2>2 DEF SeedExact
  <2> QED BY <1>1, <2>3, <2>4 DEF SeedExact
<1>9. \A r \in arrived : r \in hot \/ cold'[r] > 0
  BY <1>3, <1>7, SmoothFacts
<1>10. Exact'
  BY <1>1, <1>6, <1>8, <1>9 DEF Exact
<1> QED BY <1>5, <1>10

LEMMA SeedDoneSmooth ==
  ASSUME SInv, IInv', Smooth, SeedDone
  PROVE  PhaseOK' /\ Exact'
<1> USE DEF SeedDone, Goto, world, OpenStateFile
<1>1. /\ UNCHANGED <<hot, cold, start, arrived, cur, end>>
      /\ PhaseOK /\ Exact /\ IInv /\ pc = "seed" /\ pc' = "saveSeed" /\ tbl' = tbl
  BY SmoothFacts
<1>2. /\ end = SafetyEnd(tbl) /\ tbl \in Tables /\ SafetyEnd(tbl) > 0 /\ SafetyEnd(tbl) \in Nat
      /\ Mark'[tbl] = SafetyEnd(tbl) /\ \A u \in Tables \ {tbl} : Mark'[u] = Mark[u]
  BY <1>1, SeedMark, SafetyEndFacts, InvFacts, SettingsAssumption
<1>3. ~file.done /\ Seeded(tbl)
  BY <1>1 DEF PhaseOK, Done, SavePcs
<1>4. file'.kind = "torn" /\ ~(save'.done)
  BY <1>3, BlankFacts DEF WithMark
<1>5. Seeded(tbl + 1)'
  <2>1. tbl \in Nat /\ \A t \in Tables : t \in Nat
    BY <1>2 DEF Tables
  <2>2. ASSUME NEW t \in Tables PROVE t < tbl + 1 <=> Mark'[t] > 0
    BY <1>2, <1>3, <2>1 DEF Seeded
  <2> QED BY <1>1, <2>2 DEF Seeded
<1>6. PhaseOK'
  BY <1>1, <1>4, <1>5 DEF PhaseOK, Done, SavePcs
<1>7. \A r \in Rows : RowExact(r)'
  <2>1. SUFFICES ASSUME NEW r \in Rows PROVE RowExact(r)'
    OBVIOUS
  <2>2. Reach(TableOf[r])' = Mark'[TableOf[r]] /\ Reach(TableOf[r]) = Mark[TableOf[r]]
    BY <1>1 DEF Reach, Counting
  <2>3. TableOf[r] \in Tables /\ Stamp[r] \in Nat
    BY RowsAssumption
  <2>4. CASE TableOf[r] = tbl
    <3>1. SeedExact(r)
      BY <1>1, <2>4 DEF Exact
    <3>2. cur > 0 => cur >= end
      BY <1>2, InvFacts, <1>1 DEF FillPending
    <3>3. cur \in Nat
      BY <1>1, InvFacts
    <3> QED BY <1>1, <1>2, <2>2, <2>3, <2>4, <3>1, <3>2, <3>3 DEF SeedExact, RowExact
  <2>5. CASE TableOf[r] # tbl
    <3>1. RowExact(r)
      BY <1>1, <2>5 DEF Exact
    <3> QED BY <1>1, <1>2, <2>2, <2>3, <2>5, <3>1 DEF RowExact
  <2> QED BY <2>4, <2>5
<1>8. Exact'
  BY <1>1, <1>7 DEF Exact
<1> QED BY <1>6, <1>8

LEMMA CopyWindowSmooth ==
  ASSUME SInv, IInv', Smooth, CopyWindow
  PROVE  PhaseOK' /\ Exact'
<1> USE DEF CopyWindow, world, Insert, Goto
<1>1. /\ UNCHANGED <<hot, file, start, save, arrived, tbl, cur>>
      /\ PhaseOK /\ Exact /\ IInv /\ pc = "win" /\ pc' = "hotCount"
  BY SmoothFacts
<1>2. /\ tbl \in Tables /\ cur \in Nat /\ WinEnd \in Nat /\ cur < WinEnd /\ cur = Mark[tbl]
  BY <1>1, WindowAhead DEF WindowPending, PhaseOK
<1>3. \A r \in Rows : /\ cold'[r] = IF r \in hot /\ TableOf[r] = tbl /\ cur <= Stamp[r] /\ Stamp[r] < WinEnd
                                    THEN cold[r] + 1 ELSE cold[r]
                      /\ cold[r] \in Nat /\ Stamp[r] \in Nat
  BY SmoothFacts DEF Copies, Between
<1> HIDE DEF CopyWindow
<1>4. Mark' = Mark /\ WinEnd' = WinEnd
  BY <1>1 DEF Mark, SavePcs, WinEnd, SafetyEnd
<1>5. \A t : Reach(t)' = IF t = tbl THEN WinEnd ELSE Mark[t]
  BY <1>1, <1>4 DEF Reach, Counting
<1>6. PhaseOK'
  BY <1>1, <1>4 DEF PhaseOK, Done, Seeded, SavePcs
<1>7. \A r \in arrived : r \in hot \/ cold[r] > 0
  BY <1>1 DEF Exact
<1>8. \A r \in Rows : RowExact(r)'
  <2>1. SUFFICES ASSUME NEW r \in Rows PROVE RowExact(r)'
    OBVIOUS
  <2>2. RowExact(r) /\ Reach(TableOf[r]) = Mark[TableOf[r]]
    BY <1>1 DEF Exact, Reach, Counting
  <2>3. CASE TableOf[r] = tbl
    <3>1. cold'[r] > 0 => Stamp[r] < WinEnd
      BY <1>2, <1>3, <2>2, <2>3 DEF RowExact
    <3>2. r \in arrived /\ Stamp[r] < WinEnd => cold'[r] > 0
      BY <1>2, <1>3, <1>7, <2>2, <2>3 DEF RowExact
    <3> QED BY <1>1, <1>5, <2>3, <3>1, <3>2 DEF RowExact
  <2>4. CASE TableOf[r] # tbl
    BY <1>1, <1>3, <1>5, <2>2, <2>4 DEF RowExact
  <2> QED BY <2>3, <2>4
<1>9. \A r \in arrived : r \in hot \/ cold'[r] > 0
  BY <1>3, <1>7, SmoothFacts
<1>10. Exact'
  BY <1>1, <1>8, <1>9 DEF Exact
<1> QED BY <1>6, <1>10

LEMMA CountHotSmooth ==
  ASSUME SInv, IInv', Smooth, CountHotWindow
  PROVE  PhaseOK' /\ Exact'
<1> USE DEF CountHotWindow, world, Goto
<1>1. /\ UNCHANGED <<hot, cold, file, start, save, arrived, tbl, cur>>
      /\ PhaseOK /\ Exact /\ pc = "hotCount" /\ pc' = "coldCount"
  BY SmoothFacts
<1>2. Mark' = Mark /\ WinEnd' = WinEnd
  BY <1>1 DEF Mark, SavePcs, WinEnd, SafetyEnd
<1>3. \A t : Reach(t)' = Reach(t)
  BY <1>1, <1>2 DEF Reach, Counting
<1>4. PhaseOK'
  BY <1>1, <1>2 DEF PhaseOK, Done, Seeded, SavePcs
<1>5. \A r \in Rows : RowExact(r)'
  <2>1. \A r \in Rows : RowExact(r)
    BY <1>1 DEF Exact
  <2> QED BY <1>1, <1>3, <2>1 DEF RowExact
<1>6. Exact'
  BY <1>1, <1>5 DEF Exact
<1> QED BY <1>4, <1>6

(* With nothing owed and no error the first check succeeds.                *)
LEMMA CountColdSmooth ==
  ASSUME SInv, IInv', Smooth, Smooth', CountColdWindow
  PROVE  PhaseOK' /\ Exact'
<1> USE DEF CountColdWindow, world, Goto
<1>1. /\ UNCHANGED <<hot, cold, start, arrived, cur>>
      /\ PhaseOK /\ Exact /\ IInv /\ pc = "coldCount" /\ faults = 0 /\ faults' = 0
  BY SmoothFacts DEF Smooth
<1>2. tally \in Nat /\ tally <= ColdCopies(WindowRows) /\ ColdCopies(WindowRows) \in Nat
  <2>1. Due = 0
    <3>1. Cardinality(late) = 0 /\ mode = "full"
      BY SmoothFacts, FS_EmptySet
    <3> QED BY <1>1, <3>1 DEF Due
  <2>2. tally <= ColdCopies(WindowRows)
    BY <1>1, <2>1, SmoothFacts DEF CInv, CopiesInv, CountsOK, Owing
  <2>3. ColdCopies(WindowRows) \in Nat
    <3>1. WindowRows \in SUBSET Rows /\ IsFiniteSet(WindowRows)
      BY <1>1, WindowAhead, RowsAssumption, FS_Subset
    <3>2. [r \in WindowRows |-> cold[r]] \in [WindowRows -> Nat]
      BY <1>1, <3>1 DEF IInv, TypeOK
    <3>3. Total([r \in WindowRows |-> cold[r]], WindowRows) \in Nat
      BY <3>1, <3>2, TotalType
    <3> QED BY <1>1, <3>1, <3>3, ColdCopiesIsTotal DEF IInv, TypeOK
  <2>4. tally \in Nat
    BY <1>1 DEF IInv, TypeOK
  <2> QED BY <2>2, <2>3, <2>4
<1>3. /\ OpenStateFile(WithMark(tbl, WinEnd)) /\ pc' = "saveWin" /\ tbl' = tbl
  <2>1. PICK c : /\ Scalar(c, ColdCopies(WindowRows))
                 /\ \/ /\ OpenStateFile(WithMark(tbl, WinEnd))
                       /\ pc' = "saveWin" /\ tbl' = tbl
                    \/ c < tally
    BY DEF WindowRows
  <2>2. c = ColdCopies(WindowRows)
    BY <1>1, <2>1 DEF Scalar, Fault
  <2> QED BY <1>2, <2>1, <2>2
<1> HIDE DEF CountColdWindow
<1>4. /\ Mark'[tbl] = WinEnd /\ \A u \in Tables \ {tbl} : Mark'[u] = Mark[u]
  BY <1>1, <1>3, WindowMark
<1>5. /\ tbl \in Tables /\ WinEnd \in Nat /\ cur \in Nat /\ cur < WinEnd /\ Mark[tbl] = cur
  BY <1>1, WindowAhead DEF IInv, WindowOK, WindowPcs, PhaseOK
<1>6. Done /\ Seeded(NTables + 1) /\ file.kind # "torn" /\ file.done
  BY <1>1 DEF PhaseOK, Done, SavePcs
<1>7. Seeded(NTables + 1)'
  <2>1. \A t \in Tables : t < NTables + 1 /\ Mark[t] > 0
    BY <1>6, SettingsAssumption DEF Seeded, Tables
  <2>2. \A t \in Tables : Mark'[t] > 0
    BY <1>4, <1>5, <2>1
  <2> QED BY <2>1, <2>2 DEF Seeded
<1>8. file'.kind = "torn" /\ save'.done
  BY <1>3, <1>6, BlankFacts DEF OpenStateFile, WithMark
<1>9. PhaseOK'
  BY <1>3, <1>7, <1>8 DEF PhaseOK, Done, SavePcs
<1>10. \A t \in Tables : Reach(t)' = Reach(t)
  BY <1>1, <1>3, <1>4 DEF Reach, Counting
<1>11. \A r \in Rows : RowExact(r)'
  <2>1. \A r \in Rows : RowExact(r) /\ TableOf[r] \in Tables
    BY <1>1, RowsAssumption DEF Exact
  <2> QED BY <1>1, <1>10, <2>1 DEF RowExact
<1>12. Exact'
  BY <1>1, <1>3, <1>11 DEF Exact
<1> QED BY <1>9, <1>12

(* A step after which all has gone well was preceded by a state where it   *)
(* had.                                                                    *)
LEMMA SmoothBefore == ASSUME IInv, [Next]_vars, Smooth' PROVE Smooth
<1>1. faults \in Nat /\ faults' = 0 /\ late' = {} /\ mode' = "full"
  BY InvFacts DEF Smooth
<1>2. CASE UNCHANGED vars
  BY <1>1, <1>2 DEF vars, history, Smooth
<1>3. CASE Next
  <2>1. late \subseteq late'
    BY <1>3 DEF Next, Work, Bootstrap, Replicate, Cleanup, Tick, Ingest, Crash, Stop, Restart,
       ResetState, RunOnce, ReadHotMin, ReadColdMin, CountColdTable, FillWindow, FillFails,
       SeedDone, BackfillDone, SaveSeed, CountRecent, CountColdTotal, InsertRecent,
       MarkBootstrapDone, SaveMark, StartTable, CopyWindow, CopyWindowFails, WindowsDone,
       CountHotWindow, CountColdWindow, SaveWindow, TablesDone, CleanTable, CleanupDone,
       world, history
  <2>2. mode' = mode
    BY <1>3 DEF Next, Work, Bootstrap, Replicate, Cleanup, Tick, Ingest, Crash, Stop, Restart,
       ResetState, RunOnce, ReadHotMin, ReadColdMin, CountColdTable, FillWindow, FillFails,
       SeedDone, BackfillDone, SaveSeed, CountRecent, CountColdTotal, InsertRecent,
       MarkBootstrapDone, SaveMark, StartTable, CopyWindow, CopyWindowFails, WindowsDone,
       CountHotWindow, CountColdWindow, SaveWindow, TablesDone, CleanTable, CleanupDone
  <2>3. faults' = faults \/ faults' = faults + 1
    BY <1>3 DEF Next, Work, Bootstrap, Replicate, Cleanup, Tick, Ingest, Crash, Stop, Restart,
       ResetState, RunOnce, ReadHotMin, ReadColdMin, CountColdTable, FillWindow, FillFails,
       SeedDone, BackfillDone, SaveSeed, CountRecent, CountColdTotal, InsertRecent,
       MarkBootstrapDone, SaveMark, StartTable, CopyWindow, CopyWindowFails, WindowsDone,
       CountHotWindow, CountColdWindow, SaveWindow, TablesDone, CleanTable, CleanupDone,
       history, Fault, Scalar, Insert, InsertFails
  <2> QED BY <1>1, <2>1, <2>2, <2>3 DEF Smooth
<1> QED BY <1>2, <1>3

LEMMA NextSmooth == ASSUME SInv, IInv', [Next]_vars PROVE SmoothInv'
<1>1. SUFFICES ASSUME Smooth' PROVE PhaseOK' /\ Exact'
  BY DEF SmoothInv
<1>2. Smooth
  BY <1>1, SmoothBefore DEF SInv, CInv
<1>3. /\ faults \in Nat /\ faults' = faults /\ mode = "full" /\ PhaseOK
  BY <1>1, <1>2, SmoothFacts DEF Smooth
<1>4. CASE Tick \/ UNCHANGED vars
  BY <1>2, <1>4, TickSmooth
<1>5. CASE \E r \in Rows : Ingest(r)
  BY <1>1, <1>2, <1>5, IngestSmooth
<1>6. CASE Crash \/ ResetState \/ FillFails \/ CopyWindowFails
  BY <1>3, <1>6 DEF Crash, ResetState, FillFails, CopyWindowFails, InsertFails, Fault
<1>7. CASE CountRecent \/ CountColdTotal \/ InsertRecent
  BY <1>3, <1>7 DEF CountRecent, CountColdTotal, InsertRecent, PhaseOK
<1>8. CASE QuietCopy
  BY <1>2, <1>8, QuietSmooth
<1>9. CASE \/ ReadHotMin \/ ReadColdMin \/ CountColdTable \/ FillWindow \/ SeedDone
           \/ CopyWindow \/ CountHotWindow \/ CountColdWindow
  BY <1>1, <1>2, <1>9, ReadSmooth, CountTableSmooth, FillSmooth, SeedDoneSmooth,
     CopyWindowSmooth, CountHotSmooth, CountColdSmooth
<1> QED
  BY <1>4, <1>5, <1>6, <1>7, <1>8, <1>9
     DEF Next, Work, Bootstrap, Replicate, Cleanup, QuietCopy

LEMMA InitCopies == Init => CopiesInv /\ SmoothInv
<1> SUFFICES ASSUME Init PROVE CopiesInv /\ SmoothInv
  OBVIOUS
<1> USE DEF Init
<1>1. Mark = [t \in Tables |-> 0] /\ file.kind = "absent" /\ ~file.done
  BY BlankFacts DEF Mark, SavePcs, Blank
<1>2. Due \in Nat
  BY FS_EmptySet DEF Due
<1>3. \A r \in Rows : cold[r] = 0
  OBVIOUS
<1>4. CopiesInv
  BY <1>2, <1>3 DEF CopiesInv, Paid, Extra, CountsOK, BootstrapOK
<1>5. PhaseOK
  BY <1>1, SettingsAssumption DEF PhaseOK, Done, SavePcs, Seeded, Tables
<1>6. Exact
  BY <1>1, <1>3, RowsAssumption DEF Exact, RowExact, Reach, Counting
<1> QED
  BY <1>4, <1>5, <1>6 DEF SmoothInv

(* What the copies cost, and how the tables stand when nothing costs.      *)
THEOREM CopyInvariance == Spec => []SInv
<1>1. Init => SInv
  BY InitInv, InitCopies DEF SInv, CInv
<1>2. SInv /\ [Next]_vars => SInv'
  BY NextInv, NextCopies, NextSmooth DEF SInv, CInv
<1> QED
  BY <1>1, <1>2, PTL DEF Spec

(* Every extra copy of a row in the cold store is paid for by a failure, a *)
(* kill, a reset, a late row, or the older bootstrap.                      *)
THEOREM CopiesArePaidFor == Spec => []DuplicatesPaidFor
<1>1. SInv => DuplicatesPaidFor
  <2>1. SUFFICES ASSUME SInv, NEW r \in Rows
                 PROVE  cold[r] <= 1 + faults + Cardinality(late)
                                     + (IF mode = "recent" THEN 1 ELSE 0)
    BY DEF DuplicatesPaidFor
  <2>2. IInv /\ Extra(r) <= 1 + Due
    BY <2>1 DEF SInv, CInv, CopiesInv, Paid
  <2>3. /\ Due \in Nat /\ cold[r] \in Nat /\ Extra(r) \in Nat
        /\ Extra(r) = cold[r] \/ Extra(r) = cold[r] + 1
    BY <2>2, ExtraFacts
  <2>4. cold[r] <= 1 + Due
    BY <2>2, <2>3
  <2>5. faults \in Nat /\ Cardinality(late) \in Nat
    BY <2>2, DueFacts
  <2> QED BY <2>4, <2>5 DEF Due
<1> QED
  BY <1>1, CopyInvariance, PTL

(* With nothing failed and no row late, the full-history bootstrap and the *)
(* loop copy every row below a watermark exactly once.                     *)
THEOREM SmoothIsExact == Spec => []FaultFreeExactlyOnce
<1>1. SInv => FaultFreeExactlyOnce
  <2>1. SUFFICES ASSUME SInv, Smooth, NEW r \in arrived
                 PROVE  /\ cold[r] <= 1
                        /\ Stamp[r] < file.wm[TableOf[r]] => cold[r] = 1
                        /\ r \in hot \/ cold[r] = 1
    BY DEF FaultFreeExactlyOnce, Smooth
  <2>2. /\ r \in Rows /\ cold[r] \in Nat /\ Stamp[r] \in Nat /\ TableOf[r] \in Tables
        /\ CInv /\ IInv /\ PhaseOK /\ Exact /\ file \in States
    BY <2>1, SmoothFacts, InvFacts
  <2>3. cold[r] <= 1
    <3>1. Due = 0
      BY <2>1, SmoothFacts, FS_EmptySet DEF Due
    <3> QED BY <2>2, <3>1, ExtraFacts DEF CInv, CopiesInv, Paid, Extra
  <2>4. Stamp[r] < file.wm[TableOf[r]] => cold[r] > 0
    <3>1. SUFFICES ASSUME Stamp[r] < file.wm[TableOf[r]] PROVE cold[r] > 0
      OBVIOUS
    <3>2. file.wm[TableOf[r]] > 0 /\ file.wm[TableOf[r]] \in Nat
      BY <2>2, <3>1 DEF States
    <3>3. file.kind # "torn" /\ pc \notin SavePcs
      BY <2>2, <3>2 DEF IInv, FileOK, PhaseOK
    <3>4. Mark = file.wm
      BY <3>3 DEF Mark
    <3>5. Stamp[r] < Reach(TableOf[r])
      <4>1. CASE pc \in Counting /\ tbl = TableOf[r]
        <5>1. Mark[tbl] <= cur /\ cur < WinEnd /\ cur \in Nat /\ WinEnd \in Nat
          BY <2>2, <4>1, WindowAhead DEF Counting, IInv, WindowOK, WindowPcs
        <5> QED BY <2>2, <3>1, <3>2, <3>4, <4>1, <5>1 DEF Reach
      <4>2. CASE ~(pc \in Counting /\ tbl = TableOf[r])
        BY <3>1, <3>4, <4>2 DEF Reach
      <4> QED BY <4>1, <4>2
    <3>6. ~(pc = "seed" /\ TableOf[r] = tbl)
      <4>1. SUFFICES ASSUME pc = "seed", TableOf[r] = tbl PROVE FALSE
        OBVIOUS
      <4>2. Seeded(tbl)
        BY <2>2, <4>1 DEF PhaseOK, Done, SavePcs
      <4>3. tbl \in Nat /\ ~(tbl < tbl)
        BY <2>2, <4>1 DEF Tables
      <4> QED BY <2>2, <3>2, <3>4, <4>1, <4>2, <4>3 DEF Seeded
    <3> QED BY <2>2, <3>5, <3>6 DEF Exact, RowExact
  <2>5. r \in hot \/ cold[r] > 0
    BY <2>2 DEF Exact
  <2> QED BY <2>2, <2>3, <2>4, <2>5
<1> QED
  BY <1>1, CopyInvariance, PTL
===============================================================================
