------------------------------- MODULE HotBatch -------------------------------
(***************************************************************************)
(* The batch buffers of SimpleHotStorageService, services/hot-storage-     *)
(* service/main.py: order books and trades come in over core NATS, wait in *)
(* a buffer per data type, and go to ClickHouse in batches, when a buffer  *)
(* is full or when the type's timer fires.                                 *)
(*                                                                         *)
(* Per type three asyncio tasks share the buffer under an asyncio.Lock:    *)
(* the subscription's callback, the flush timer and stop().  A step here   *)
(* runs from one await to the next.  The TCP driver is synchronous: while  *)
(* it executes, and wherever a task goes on without an await, no other     *)
(* task runs (Free).  A row a task has in hand is not in the buffer; a     *)
(* task that is cancelled forgets it.                                      *)
(***************************************************************************)
EXTENDS Integers, Sequences, FiniteSets, SequencesExt

CONSTANTS
  Rows,        \* the messages that may ever arrive
  NTypes,      \* high_freq_types, as 1..NTypes in the order of subscription
  TypeOf,      \* Rows -> Types
  Rejected,    \* rows that the server refuses
  Threshold,   \* max_batch_size / trade_batch_size of a type
  Chunk,       \* insert_chunk_size
  MaxRetries,  \* retry_config["max_retries"]
  Drivers,     \* subset of BOOLEAN: is there a TCP driver?
  MaxFaults    \* bound: inserts that fail although the row is good

Types == 1..NTypes

ASSUME RowsAssumption ==
  /\ IsFiniteSet(Rows) /\ TypeOf \in [Rows -> Types] /\ Rejected \subseteq Rows
ASSUME SettingsAssumption ==
  /\ NTypes \in Nat
  /\ Threshold \in [Types -> Nat \ {0}]
  /\ Chunk \in Nat \ {0} /\ MaxRetries \in Nat
  /\ Drivers \subseteq BOOLEAN /\ MaxFaults \in Nat

VARIABLES
  running,     \* is_running
  driver,      \* _get_ch_client() returns a client
  subscribed,  \* types whose subscription is open
  buffer,      \* batch_buffers
  keys,        \* its keys, in order of insertion
  line,        \* batch_locks: the task that holds it, then those that wait
  waiting,     \* the row of a callback that waits for the lock
  timer,       \* where the timer task of a type is
  timerKeys,   \* the keys of batch_tasks, in order of insertion
  cancelled,   \* types whose timer has a CancelledError coming
  job,         \* the flush the holder of the lock is in
  stop,        \* where stop() is
  todo,        \* buffers it has still to flush
  scan,        \* its iteration over batch_tasks: position, and size at the start
  stored,      \* copies of each row in ClickHouse
  faults,      \* failed inserts so far
  received,    \* history: rows that reached the callback
  early,       \* history: those that did before stop() began
  dropped      \* history: rows given up after every retry

buffers == <<buffer, keys, waiting>>
timers == <<timer, timerKeys, cancelled>>
stopping == <<running, stop, todo, scan, early>>
settled == <<stored, faults, dropped>>
vars == <<driver, subscribed, received, line, job, buffers, timers, stopping, settled>>

NoJob == [rest |-> <<>>, single |-> 0, try |-> 0, at |-> "none"]
TimerPcs == {"none", "new", "sleep", "lock", "flush", "lastLock", "lastFlush", "done"}
StopPcs == {"off", "flush", "lock", "flushing", "cancel", "awaitTimer", "unsub",
            "yield", "closed", "failed"}

(* The event loop is free to run another task.                             *)
Free ==
  /\ stop \notin {"flush", "cancel", "unsub", "closed"}
  /\ \A t \in Types : job[t].at \notin {"tcp", "end"}

Holder(t) == IF line[t] = <<>> THEN "free" ELSE Head(line[t])
CallbackBusy(t) == waiting[t] # {} \/ Holder(t) = "cb"
Without(task, q) ==
  IF Contains(q, task) THEN RemoveAt(q, CHOOSE i \in DOMAIN q : q[i] = task) ELSE q

-------------------------------------------------------------------------------
(* A flush: chunk by chunk; the rows of a chunk that fails one by one.     *)

FlushOf(rest, single) ==
  [rest |-> rest, single |-> single, try |-> 0,
   at |-> IF rest = <<>> THEN "end" ELSE IF driver THEN "tcp" ELSE "http"]

Cut(j) == IF j.single > 0 THEN 1
          ELSE IF Len(j.rest) < Chunk THEN Len(j.rest) ELSE Chunk
Portion(j) == {j.rest[i] : i \in 1..Cut(j)}

(* Mutant: after any success the flush goes on a whole chunk further.      *)
PassedByChunk(j) == FlushOf(SubSeq(j.rest, Chunk + 1, Len(j.rest)),
                            IF j.single > 0 THEN j.single - 1 ELSE 0)
Passed(j) == FlushOf(SubSeq(j.rest, Cut(j) + 1, Len(j.rest)),
                     IF j.single > 0 THEN j.single - 1 ELSE 0)

(* Mutant: a chunk that fails is given up, not retried row by row.         *)
GiveUpChunk(j) ==
  IF j.single > 0 /\ j.try < MaxRetries THEN [j EXCEPT !.at = "sleep"] ELSE Passed(j)
Failed(j) ==
  IF j.single = 0 THEN FlushOf(j.rest, Cut(j))
  ELSE IF j.try < MaxRetries THEN [j EXCEPT !.at = "sleep"]
  ELSE Passed(j)

(* The rows that are not tried again after a failure over HTTP.            *)
GivenUp(j) ==
  IF j.at = "http" /\ Failed(j).rest # j.rest THEN Portion(j) ELSE {}

Accepts(S) == S \cap Rejected = {}
StoredWith(S) == [r \in Rows |-> IF r \in S THEN stored[r] + 1 ELSE stored[r]]

(* A cancelled insert over HTTP may or may not have reached the server.    *)
StoredPerhaps(j) ==
  {stored} \cup (IF j.at = "http" /\ Accepts(Portion(j)) THEN {StoredWith(Portion(j))}
                 ELSE {})

JobRuns(t) ==
  \/ job[t].at = "tcp"
  \/ job[t].at \in {"http", "sleep"} /\ Free /\ ~(t \in cancelled /\ Holder(t) = "timer")

InsertAccepted(t) ==
  LET j == job[t]
  IN /\ j.at \in {"tcp", "http"} /\ JobRuns(t) /\ Accepts(Portion(j))
     /\ stored' = StoredWith(Portion(j))
     /\ job' = [job EXCEPT ![t] = Passed(j)]
     /\ UNCHANGED <<driver, subscribed, received, line, buffers, timers, stopping,
                    faults, dropped>>

(* Refused, or an error that may come after the server has stored the rows;*)
(* TCP falls back to HTTP.                                                 *)
InsertFails(t) ==
  LET j == job[t]
  IN /\ j.at \in {"tcp", "http"} /\ JobRuns(t)
     /\ IF Accepts(Portion(j))
        THEN /\ faults < MaxFaults /\ faults' = faults + 1
             /\ stored' \in {stored, StoredWith(Portion(j))}
        ELSE faults' = faults /\ stored' = stored
     /\ job' = [job EXCEPT ![t] = IF j.at = "tcp" THEN [j EXCEPT !.at = "http"]
                                                  ELSE Failed(j)]
     /\ dropped' = dropped \cup GivenUp(j)
     /\ UNCHANGED <<driver, subscribed, received, line, buffers, timers, stopping>>

RetryWakes(t) ==
  LET j == job[t]
  IN /\ j.at = "sleep" /\ JobRuns(t)
     /\ job' = [job EXCEPT ![t] = [FlushOf(j.rest, j.single) EXCEPT !.try = j.try + 1]]
     /\ UNCHANGED <<driver, subscribed, received, line, buffers, timers, stopping,
                    settled>>

-------------------------------------------------------------------------------
(* The callback: _store_to_batch_buffer.                                   *)

(* _flush_batch_buffer empties the buffer before its first await.          *)

(* Mutant: without the clear() after the copy().                           *)
NotEmptied(t) == buffer
Emptied(t) == [buffer EXCEPT ![t] = <<>>]

(* Mutant: batch_tasks gets a new entry for every timer.                   *)
StartTimerAnew(t) ==
  /\ timer' = IF timer[t] \in {"none", "done"} THEN [timer EXCEPT ![t] = "new"] ELSE timer
  /\ timerKeys' = IF timer[t] \in {"none", "done"} THEN Append(timerKeys, t) ELSE timerKeys
  /\ UNCHANGED cancelled

(* The timer of the type is created when there is none, or it has ended.   *)
StartTimer(t) ==
  /\ timer' = IF timer[t] \in {"none", "done"} THEN [timer EXCEPT ![t] = "new"] ELSE timer
  /\ timerKeys' = IF timer[t] = "none" THEN Append(timerKeys, t) ELSE timerKeys
  /\ UNCHANGED cancelled

(* Mutant: the buffer is flushed only once it is beyond its threshold.     *)
FullBeyond(t, rows) == Len(rows) > Threshold[t]
Full(t, rows) == Len(rows) >= Threshold[t]

(* With the lock, at the head of q: append, and flush a full buffer.       *)
EnterBuffer(t, r, q) ==
  LET rows == Append(buffer[t], r)
  IN IF Full(t, rows)
     THEN /\ buffer' = Emptied(t)
          /\ job' = [job EXCEPT ![t] = FlushOf(rows, 0)]
          /\ line' = [line EXCEPT ![t] = q]
          /\ UNCHANGED timers
     ELSE /\ buffer' = [buffer EXCEPT ![t] = rows]
          /\ line' = [line EXCEPT ![t] = Tail(q)]
          /\ StartTimer(t)
          /\ UNCHANGED job

Receive(r) ==
  LET t == TypeOf[r]
  IN /\ Free /\ t \in subscribed /\ ~CallbackBusy(t) /\ r \notin received
     /\ received' = received \cup {r}
     /\ keys' = IF Contains(keys, t) THEN keys ELSE Append(keys, t)
     /\ IF line[t] = <<>>
        THEN EnterBuffer(t, r, <<"cb">>) /\ UNCHANGED waiting
        ELSE /\ line' = [line EXCEPT ![t] = Append(@, "cb")]
             /\ waiting' = [waiting EXCEPT ![t] = {r}]
             /\ UNCHANGED <<buffer, job, timers>>
     /\ UNCHANGED <<driver, subscribed, stopping, settled>>

CallbackLocks(t) ==
  /\ Free /\ Holder(t) = "cb" /\ waiting[t] # {}
  /\ \E r \in waiting[t] : EnterBuffer(t, r, line[t])
  /\ waiting' = [waiting EXCEPT ![t] = {}]
  /\ UNCHANGED <<driver, subscribed, received, keys, stopping, settled>>

CallbackFlushed(t) ==
  /\ job[t].at = "end" /\ Holder(t) = "cb"
  /\ job' = [job EXCEPT ![t] = NoJob]
  /\ line' = [line EXCEPT ![t] = Tail(@)]
  /\ StartTimer(t)
  /\ UNCHANGED <<driver, subscribed, received, buffers, stopping, settled>>

-------------------------------------------------------------------------------
(* The timer: _batch_flush_timer.                                          *)

LoopTop == IF running THEN "sleep" ELSE "done"

TimerAt(t, pc) == timer' = [timer EXCEPT ![t] = pc] /\ UNCHANGED timerKeys

(* Mutant: the cancelled timer just ends.                                  *)
WorkUnlessLast(t, last) == ~last /\ buffer[t] # <<>>
Work(t, last) == buffer[t] # <<>>

(* With the lock, at the head of q.                                        *)
TimerTakes(t, q, last) ==
  IF ~Work(t, last)
  THEN /\ line' = [line EXCEPT ![t] = Tail(q)]
       /\ TimerAt(t, IF last THEN "done" ELSE LoopTop)
       /\ job' = [job EXCEPT ![t] = NoJob]
       /\ UNCHANGED buffer
  ELSE /\ line' = [line EXCEPT ![t] = q]
       /\ TimerAt(t, IF last THEN "lastFlush" ELSE "flush")
       /\ job' = [job EXCEPT ![t] = FlushOf(buffer[t], 0)]
       /\ buffer' = Emptied(t)

TimerStarts(t) ==
  /\ Free /\ timer[t] = "new" /\ t \notin cancelled
  /\ TimerAt(t, LoopTop)
  /\ UNCHANGED <<driver, subscribed, received, line, job, buffers, cancelled,
                 stopping, settled>>

TimerFires(t) ==
  /\ Free /\ timer[t] = "sleep" /\ t \notin cancelled
  /\ IF line[t] = <<>>
     THEN TimerTakes(t, <<"timer">>, FALSE)
     ELSE /\ line' = [line EXCEPT ![t] = Append(@, "timer")]
          /\ TimerAt(t, "lock")
          /\ UNCHANGED <<buffer, job>>
  /\ UNCHANGED <<driver, subscribed, received, keys, waiting, cancelled, stopping,
                 settled>>

TimerLocks(t) ==
  /\ Free /\ Holder(t) = "timer" /\ timer[t] \in {"lock", "lastLock"}
  /\ t \notin cancelled
  /\ TimerTakes(t, line[t], timer[t] = "lastLock")
  /\ UNCHANGED <<driver, subscribed, received, keys, waiting, cancelled, stopping,
                 settled>>

TimerFlushed(t) ==
  /\ job[t].at = "end" /\ Holder(t) = "timer"
  /\ job' = [job EXCEPT ![t] = NoJob]
  /\ line' = [line EXCEPT ![t] = Tail(@)]
  /\ TimerAt(t, IF timer[t] = "lastFlush" THEN "done" ELSE LoopTop)
  /\ UNCHANGED <<driver, subscribed, received, buffers, cancelled, stopping, settled>>

(* The CancelledError arrives at the await the timer is in; the timer then *)
(* queues for the lock and flushes what is left.                           *)
TimerCancelled(t) ==
  LET q == Without("timer", line[t])
  IN /\ Free /\ t \in cancelled /\ timer[t] # "new"
     /\ cancelled' = cancelled \ {t}
     /\ stored' \in IF timer[t] = "flush" THEN StoredPerhaps(job[t]) ELSE {stored}
     /\ IF q = <<>>
        THEN TimerTakes(t, <<"timer">>, TRUE)
        ELSE /\ line' = [line EXCEPT ![t] = Append(q, "timer")]
             /\ TimerAt(t, "lastLock")
             /\ job' = IF timer[t] = "flush" THEN [job EXCEPT ![t] = NoJob] ELSE job
             /\ UNCHANGED buffer
     /\ UNCHANGED <<driver, subscribed, received, keys, waiting, stopping, faults,
                    dropped>>

(* Cancelled before its first step, a task never enters its try block.     *)
NewTimerCancelled(t) ==
  /\ Free /\ t \in cancelled /\ timer[t] = "new"
  /\ cancelled' = cancelled \ {t}
  /\ TimerAt(t, "done")
  /\ UNCHANGED <<driver, subscribed, received, line, job, buffers, stopping, settled>>

-------------------------------------------------------------------------------
(* start() and stop().                                                     *)

(* The subscriptions are open before is_running is set.                    *)
Started ==
  /\ Free /\ ~running /\ stop = "off"
  /\ running' = TRUE
  /\ UNCHANGED <<driver, subscribed, received, line, job, buffers, timers, stop,
                 todo, scan, early, settled>>

StopBegins ==
  /\ Free /\ running /\ stop = "off"
  /\ running' = FALSE
  /\ stop' = "flush" /\ todo' = keys
  /\ early' = received
  /\ UNCHANGED <<driver, subscribed, received, line, job, buffers, timers, scan, settled>>

StopTakes(t, q) ==
  IF buffer[t] = <<>>
  THEN /\ line' = [line EXCEPT ![t] = Tail(q)]
       /\ stop' = "flush" /\ todo' = Tail(todo)
       /\ UNCHANGED <<buffer, job>>
  ELSE /\ line' = [line EXCEPT ![t] = q]
       /\ stop' = "flushing" /\ todo' = todo
       /\ job' = [job EXCEPT ![t] = FlushOf(buffer[t], 0)]
       /\ buffer' = Emptied(t)

(* Mutant: a buffer somebody else has locked is skipped.                   *)
SkipIfLocked(t) ==
  /\ stop' = "flush" /\ todo' = Tail(todo)
  /\ UNCHANGED <<line, buffer, job>>
StopQueues(t) ==
  /\ line' = [line EXCEPT ![t] = Append(@, "stop")]
  /\ stop' = "lock" /\ todo' = todo
  /\ UNCHANGED <<buffer, job>>

StopFlushes ==
  /\ stop = "flush" /\ todo # <<>>
  /\ LET t == Head(todo)
     IN IF line[t] = <<>> THEN StopTakes(t, <<"stop">>) ELSE StopQueues(t)
  /\ UNCHANGED <<driver, subscribed, received, keys, waiting, timers, running, scan,
                 early, settled>>

StopLocks ==
  /\ Free /\ stop = "lock" /\ Holder(Head(todo)) = "stop"
  /\ StopTakes(Head(todo), line[Head(todo)])
  /\ UNCHANGED <<driver, subscribed, received, keys, waiting, timers, running, scan,
                 early, settled>>

StopFlushed(t) ==
  /\ job[t].at = "end" /\ Holder(t) = "stop"
  /\ job' = [job EXCEPT ![t] = NoJob]
  /\ line' = [line EXCEPT ![t] = Tail(@)]
  /\ stop' = "flush" /\ todo' = Tail(todo)
  /\ UNCHANGED <<driver, subscribed, received, buffers, timers, running, scan, early,
                 settled>>

StopTurnsToTimers ==
  /\ stop = "flush" /\ todo = <<>>
  /\ stop' = "cancel" /\ scan' = [at |-> 1, size |-> Len(timerKeys)]
  /\ UNCHANGED <<driver, subscribed, received, line, job, buffers, timers, running,
                 todo, early, settled>>

(* "for ... in self.batch_tasks.items()": a dict that has grown since the  *)
(* iteration began raises RuntimeError, and stop() gives up.               *)
Alive(t) == timer[t] \notin {"none", "done"}
Left == {i \in scan.at..Len(timerKeys) : Alive(timerKeys[i])}
StopCancels ==
  /\ stop = "cancel"
  /\ \/ /\ Len(timerKeys) # scan.size
        /\ stop' = "failed"
        /\ UNCHANGED <<cancelled, scan>>
     \/ /\ Len(timerKeys) = scan.size /\ Left = {}
        /\ stop' = "unsub"
        /\ UNCHANGED <<cancelled, scan>>
     \/ /\ Len(timerKeys) = scan.size
        /\ \E i \in Left : /\ \A k \in Left : i <= k
                           /\ cancelled' = cancelled \cup {timerKeys[i]}
                           /\ scan' = [scan EXCEPT !.at = i]
        /\ stop' = "awaitTimer"
  /\ UNCHANGED <<driver, subscribed, received, line, job, buffers, timer, timerKeys,
                 running, todo, early, settled>>

(* It awaits the task it has cancelled; a callback may have put a new one   *)
(* in the place of a task that is done.                                    *)
StopResumes ==
  /\ Free /\ stop = "awaitTimer" /\ timerKeys[scan.at] \notin cancelled
  /\ timer[timerKeys[scan.at]] \in {"new", "done"}
  /\ stop' = "cancel" /\ scan' = [scan EXCEPT !.at = @ + 1]
  /\ UNCHANGED <<driver, subscribed, received, line, job, buffers, timers, running,
                 todo, early, settled>>

(* unsubscribe() cancels the task in which the callback runs; sending the  *)
(* request to the server may or may not let other tasks run.               *)
Unsubscribe(t) ==
  /\ stop = "unsub" /\ t \in subscribed /\ \A u \in subscribed : t <= u
  /\ stop' \in {"unsub", "yield"}
  /\ subscribed' = subscribed \ {t}
  /\ waiting' = [waiting EXCEPT ![t] = {}]
  /\ line' = [line EXCEPT ![t] = Without("cb", @)]
  /\ IF Holder(t) = "cb" /\ waiting[t] = {}
     THEN /\ job' = [job EXCEPT ![t] = NoJob]
          /\ stored' \in StoredPerhaps(job[t])
     ELSE UNCHANGED <<job, stored>>
  /\ UNCHANGED <<driver, received, buffer, keys, timers, running, todo, scan, early,
                 faults, dropped>>

StopGoesOn ==
  /\ Free /\ stop = "yield"
  /\ stop' = "unsub"
  /\ UNCHANGED <<driver, subscribed, received, line, job, buffers, timers, running,
                 todo, scan, early, settled>>

(* shutdown_event is set, and the process ends.                            *)
StopCloses ==
  /\ stop = "unsub" /\ subscribed = {}
  /\ stop' = "closed"
  /\ UNCHANGED <<driver, subscribed, received, line, job, buffers, timers, running,
                 todo, scan, early, settled>>

-------------------------------------------------------------------------------

Init ==
  /\ running = FALSE /\ driver \in Drivers
  /\ subscribed = Types
  /\ buffer = [t \in Types |-> <<>>] /\ keys = <<>>
  /\ line = [t \in Types |-> <<>>]
  /\ waiting = [t \in Types |-> {}]
  /\ timer = [t \in Types |-> "none"] /\ timerKeys = <<>> /\ cancelled = {}
  /\ job = [t \in Types |-> NoJob]
  /\ stop = "off" /\ todo = <<>> /\ scan = [at |-> 1, size |-> 0]
  /\ stored = [r \in Rows |-> 0] /\ faults = 0
  /\ received = {} /\ early = {} /\ dropped = {}

Flush(t) == InsertAccepted(t) \/ InsertFails(t) \/ RetryWakes(t)
Callback(t) == CallbackLocks(t) \/ CallbackFlushed(t)
Timer(t) == \/ TimerStarts(t) \/ TimerFires(t) \/ TimerLocks(t) \/ TimerFlushed(t)
            \/ TimerCancelled(t) \/ NewTimerCancelled(t)
Stop == \/ StopFlushes \/ StopLocks \/ (\E t \in Types : StopFlushed(t))
        \/ StopTurnsToTimers \/ StopCancels \/ StopResumes
        \/ (\E t \in Types : Unsubscribe(t)) \/ StopGoesOn \/ StopCloses

Next ==
  \/ \E r \in Rows : Receive(r)
  \/ \E t \in Types : Flush(t) \/ Callback(t) \/ Timer(t)
  \/ Started \/ StopBegins \/ Stop

Spec == Init /\ [][Next]_vars

(* The event loop runs every task that can go on; an insert is answered,   *)
(* a sleep ends.  Messages and the stop signal come or do not.             *)
Fairness ==
  /\ \A t \in Types : WF_vars(Flush(t)) /\ WF_vars(Callback(t)) /\ WF_vars(Timer(t))
  /\ WF_vars(Started) /\ WF_vars(Stop)
FairSpec == Spec /\ Fairness

-------------------------------------------------------------------------------
(* Properties.                                                             *)

(* Types, and two facts of shape: a buffer at rest is below its threshold, *)
(* and a task stands in the line of a lock at most once.                   *)
TypeOK ==
  /\ running \in BOOLEAN /\ driver \in BOOLEAN
  /\ subscribed \subseteq Types /\ cancelled \subseteq Types
  /\ \A t \in Types :
       /\ buffer[t] \in Seq(Rows) /\ Len(buffer[t]) < Threshold[t]
       /\ ToSet(line[t]) \subseteq {"cb", "timer", "stop"} /\ IsInjective(line[t])
       /\ waiting[t] \subseteq Rows
       /\ timer[t] \in TimerPcs
       /\ job[t].at \in {"none", "tcp", "http", "sleep", "end"}
       /\ job[t].try \in 0..MaxRetries /\ job[t].single \in 0..Len(job[t].rest)
  /\ stop \in StopPcs
  /\ stored \in [Rows -> Nat] /\ faults \in 0..MaxFaults
  /\ early \subseteq received /\ received \subseteq Rows /\ dropped \subseteq received

Settled(r) == stored[r] > 0 \/ r \in dropped
InHand(r) == LET t == TypeOf[r]
             IN \/ r \in waiting[t]
                \/ Contains(buffer[t], r)
                \/ Contains(job[t].rest, r)

(* Until stop() cancels its first timer no row is forgotten: a row that    *)
(* reached the callback is on its way, stored, or given up after all the   *)
(* retries, whichever of callback, timer and stop has taken it out of the  *)
(* buffer.                                                                 *)
NoRowForgotten ==
  stop \in {"off", "flush", "lock", "flushing"} =>
    \A r \in received : InHand(r) \/ Settled(r)

(* A row is given up only if the server refuses that very row or every     *)
(* single attempt at it went wrong: a bad row takes none of the rows of    *)
(* its batch with it.                                                      *)
AttemptFaults == (MaxRetries + 1) * (IF driver THEN 2 ELSE 1)
BadRowCostsOnlyItself ==
  \A r \in dropped \ Rejected : faults >= AttemptFaults

(* A row is stored twice only if an insert that reached the server was     *)
(* reported as failed: the TCP-HTTP fallback, the retries, and the three   *)
(* tasks that flush never repeat an insert that succeeded.                 *)
CopiesPaidFor == \A r \in Rows : stored[r] <= 1 + faults

(* stop() flushes under the lock, in turn with callback and timer: every   *)
(* row that had reached the callback when the stop signal came is stored   *)
(* or given up by the time stop() turns to the timers.                     *)
StopSettlesEarlyRows ==
  stop \in {"cancel", "awaitTimer", "unsub", "yield", "closed", "failed"} =>
    \A r \in early : Settled(r)

(* A buffer whose timer is alive is flushed, stop or no stop.              *)
TimedRowsLeave ==
  \A t \in Types : buffer[t] # <<>> /\ timer[t] \in {"sleep", "lock"} ~> buffer[t] = <<>>

(* A stop signal that finds a timer for every type ends in a closed        *)
(* service: stop() and the other tasks never wait for each other for good, *)
(* and its iteration over the timers is not disturbed.                     *)
StopCompletes ==
  stop = "flush" /\ (\A t \in Types : timer[t] # "none") ~> stop = "closed"
===============================================================================
