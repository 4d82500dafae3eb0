-------------------------------- MODULE OkxBook --------------------------------
(***************************************************************************)
(* OKXSpotOrderBookManager and OKXDerivativesOrderBookManager, services/   *)
(* data-collector/collector/orderbook_managers/okx_*_manager.py, with what *)
(* they take from base_orderbook_manager.py (queues, error counters) and   *)
(* the connection of exchanges/okx_websocket.py.  The books of all symbols *)
(* come over one connection; each symbol has a queue and a processor, and  *)
(* all of them count their errors together.                                *)
(*                                                                         *)
(* A message carries its number and that of the message before it.  Only   *)
(* equality of numbers matters here, so they are counted back from the     *)
(* exchange's last update: 0 is that one, 1 the one before.  A step is     *)
(* what a task does up to its next real await; a long queue is taken       *)
(* message by message, not in batches.                                     *)
(***************************************************************************)
EXTENDS Integers, Sequences, FiniteSetsExt

CONSTANTS
  Symbols,
  Markets,      \* subset of {"spot", "derivatives"}: which of the two managers
  QueueMax,     \* internal_queue_maxsize
  HighMark,     \* length of a queue at which it may be given up
  BufferMax,    \* buffer_max_size
  Threshold,    \* errors of one kind that lead to a rebuild
  MaxErrors,    \* errors of any kind that do
  MaxDrops,     \* bound: messages or queues dropped
  MaxLosses,    \* bound: connections that break
  MaxRestarts,  \* bound: the exchange starts its numbers again
  MaxRejects    \* bound: subscriptions the exchange refuses

ASSUME SettingsAssumption ==
  /\ Markets \subseteq {"spot", "derivatives"}
  /\ {QueueMax, HighMark, BufferMax, Threshold, MaxErrors} \subseteq Nat \ {0}
  /\ {MaxDrops, MaxLosses, MaxRestarts, MaxRejects} \subseteq Nat

VARIABLES
  market,   \* which manager this is
  up,       \* is the connection open
  sub,      \* per symbol: "off", "due" (a snapshot comes first), "on"
  queue,    \* message_queues
  book,     \* state.local_orderbook: its number, and is no update missing
  last,     \* state.last_seq_id
  buffer,   \* message_buffers
  waiting,  \* waiting_for_snapshot_since: "no", or for a "short" or "long" time
  proc,     \* where the symbol's processor is: "get", or asleep
  later,    \* tasks that will reset the symbol
  errors,   \* consecutive_errors, sequence_errors, checksum_failures
  failed,   \* per symbol: _checksum_fail_counts, or consecutive_sequence_errors
  out,      \* per symbol: is no update missing in the book last published
  drops, losses, restarts, rejects   \* history: how often

faults == <<drops, losses, restarts, rejects>>
local == <<book, last, buffer, waiting, later, failed>>
vars == <<market, up, sub, queue, local, proc, errors, out, faults>>

None == -1
NoBook == [at |-> None, whole |-> FALSE]
HasBook(s) == book[s] # NoBook
NoErrors == [all |-> 0, sequence |-> 0, checksum |-> 0]

-------------------------------------------------------------------------------
(* The exchange and the connection.                                        *)

(* The numbers in use for a symbol after one more update.  Nothing on its  *)
(* way is older than Old: a number of that age is never asked for again.   *)
Old == 2 * QueueMax + MaxDrops + 2
Older(n) == IF n = None THEN None ELSE Min({n + 1, Old})
Aged(q) == [i \in DOMAIN q |-> [q[i] EXCEPT !.prev = Older(@), !.seq = Older(@)]]
OlderAll(f, s) == [f EXCEPT ![s] = Aged(@)]
Ages(s) ==
  /\ last' = [last EXCEPT ![s] = Older(@)]
  /\ book' = [book EXCEPT ![s].at = Older(@)]
  /\ buffer' = OlderAll(buffer, s)

(* handle_websocket_message: put_nowait, or drop when the queue is full.   *)
Receive(s, q, m) ==
  \/ /\ Len(q[s]) < QueueMax
     /\ queue' = [q EXCEPT ![s] = Append(@, m)]
     /\ UNCHANGED drops
  \/ /\ Len(q[s]) = QueueMax /\ drops < MaxDrops
     /\ drops' = drops + 1
     /\ queue' = q

(* The numbers start again at a restart: seqId < prevSeqId.                *)
Update(s) ==
  /\ up /\ sub[s] = "on"
  /\ \E again \in BOOLEAN :
       /\ again => restarts < MaxRestarts
       /\ restarts' = restarts + (IF again THEN 1 ELSE 0)
       /\ Receive(s, OlderAll(queue, s),
                  [kind |-> "update", prev |-> 1, seq |-> 0, again |-> again])
  /\ Ages(s)
  /\ UNCHANGED <<market, up, sub, waiting, later, failed, proc, errors, out, losses,
                 rejects>>

(* A snapshot begins a subscription; the book may have changed before it.  *)
Snapshot(s) ==
  /\ up /\ sub[s] = "due"
  /\ \E changed \in BOOLEAN :
       /\ Receive(s, IF changed THEN OlderAll(queue, s) ELSE queue,
                  [kind |-> "snapshot", prev |-> None, seq |-> 0, again |-> FALSE])
       /\ IF changed THEN Ages(s) ELSE UNCHANGED <<last, book, buffer>>
  /\ sub' = [sub EXCEPT ![s] = "on"]
  /\ UNCHANGED <<market, up, waiting, later, failed, proc, errors, out, losses, restarts,
                 rejects>>

(* An error event instead: _handle_message does not even log it.           *)
Reject(s) ==
  /\ up /\ sub[s] = "due" /\ rejects < MaxRejects
  /\ sub' = [sub EXCEPT ![s] = "off"]
  /\ rejects' = rejects + 1
  /\ UNCHANGED <<market, up, queue, local, proc, errors, out, drops, losses, restarts>>

(* _listen_messages ends.  What has been received stays in the queues.     *)
Lose ==
  /\ up /\ losses < MaxLosses
  /\ up' = FALSE
  /\ sub' = [s \in Symbols |-> "off"]
  /\ losses' = losses + 1
  /\ UNCHANGED <<market, queue, local, proc, errors, out, drops, restarts, rejects>>

(* _connection_manager tries until it succeeds, then subscribes all.       *)
Connect ==
  /\ ~up
  /\ up' = TRUE
  /\ sub' = [s \in Symbols |-> "due"]
  /\ UNCHANGED <<market, queue, local, proc, errors, out, faults>>

-------------------------------------------------------------------------------
(* Error counters of the base class: one set for all symbols.              *)

(* Mutant: each error starts the counts anew.                              *)
CountedOnce(e, kind) == [NoErrors EXCEPT !.all = 1, ![kind] = 1]
Counted(e, kind) == [e EXCEPT !.all = @ + 1, ![kind] = @ + 1]
Recovers(e, kind) == Counted(e, kind).all >= MaxErrors

(* _handle_error, _check_error_recovery, _trigger_error_recovery: is the   *)
(* symbol to be rebuilt, and what is left of the counts.                   *)
Rebuilds(e, kind) == Recovers(e, kind) \/ Counted(e, kind)[kind] >= Threshold
ErrorsAfter(e, kind) == IF Recovers(e, kind) THEN NoErrors ELSE Counted(e, kind)

(* _on_successful_operation, which only the spot manager calls.            *)
Eased(e, kinds) ==
  [k \in DOMAIN e |-> IF market = "spot" /\ k \in kinds /\ e[k] > 0 THEN e[k] - 1 ELSE e[k]]

-------------------------------------------------------------------------------
(* process_websocket_message.                                              *)

Message(s) == Head(queue[s])

(* The processor's next message.  A task that is to reset the symbol was   *)
(* ready before the processor, unless it sleeps first.                     *)
Takes(s) ==
  /\ proc[s] = "get" /\ queue[s] # <<>> /\ later[s] \subseteq {"once more"}
  /\ UNCHANGED <<market, up, sub, losses, restarts, rejects>>

(* Mutant: it is enough that the numbers ascend.                           *)
Ascends(s, m) == last[s] = None \/ m.prev <= last[s]
Follows(s, m) == last[s] = None \/ m.prev = last[s]
Valid(s, m) == m.again \/ Follows(s, m)

(* publish_orderbook: at most one in publish_interval.  If the events are  *)
(* old and the queue is long, the queue is dropped and a rebuild scheduled.*)
Publish(s, b, rest) ==
  \/ /\ UNCHANGED <<out, drops>>
     /\ queue' = [queue EXCEPT ![s] = rest]
     /\ later' = later
  \/ /\ out' = [out EXCEPT ![s] = b.whole]
     /\ \/ /\ queue' = [queue EXCEPT ![s] = rest]
           /\ UNCHANGED <<later, drops>>
        \/ /\ Len(rest) >= HighMark /\ drops < MaxDrops
           /\ queue' = [queue EXCEPT ![s] = <<>>]
           /\ later' = [later EXCEPT ![s] = @ \cup {"resync"}]
           /\ drops' = drops + 1

(* _process_buffered_messages: how many of the buffered messages continue  *)
(* the book numbered n.                                                    *)
Chain(n, b) ==
  Max({k \in 0..Len(b) : \A i \in 1..k : b[i].prev = IF i = 1 THEN n ELSE b[i - 1].seq})

(* _apply_snapshot, then what is buffered and not expired.                 *)
ApplySnapshot(s) ==
  /\ Takes(s) /\ Message(s).kind = "snapshot"
  /\ \E expired \in 0..Len(buffer[s]) :
       LET kept == SubSeq(buffer[s], expired + 1, Len(buffer[s]))
           n == Chain(Message(s).seq, kept)
           at == IF n = 0 THEN Message(s).seq ELSE kept[n].seq
       IN /\ book' = [book EXCEPT ![s] = [at |-> at, whole |-> TRUE]]
          /\ last' = [last EXCEPT ![s] = at]
          /\ buffer' = [buffer EXCEPT ![s] = SubSeq(kept, n + 1, Len(kept))]
  /\ Publish(s, book'[s], Tail(queue[s]))
  /\ waiting' = [waiting EXCEPT ![s] = "no"]
  /\ errors' = Eased(errors, {"all", "sequence"})
  /\ UNCHANGED <<proc, failed>>

(* _trigger_resync and _exchange_specific_resync: no book, any number next.*)
Reset(s) ==
  /\ book' = [book EXCEPT ![s] = NoBook]
  /\ last' = [last EXCEPT ![s] = None]

(* The base class's _trigger_resync, which the derivatives manager uses,   *)
(* sleeps in the processor, unless there was one a moment ago.             *)
SleepsIf(rebuilds) == IF rebuilds THEN {"resync", "get"} ELSE {"get"}

(* An update that does not continue the stream is given up.  The spot      *)
(* manager waits for more errors, the other resets the symbol at once, and *)
(* once more in a task of its own if it has met several.                   *)
RefuseUpdate(s) ==
  /\ Takes(s) /\ Message(s).kind = "update" /\ ~Valid(s, Message(s))
  /\ queue' = [queue EXCEPT ![s] = Tail(@)]
  /\ errors' = ErrorsAfter(errors, "sequence")
  /\ IF market = "spot"
     THEN /\ IF Rebuilds(errors, "sequence") THEN Reset(s) ELSE UNCHANGED <<book, last>>
          /\ UNCHANGED <<later, failed, proc>>
     ELSE /\ Reset(s)
          /\ failed' = [failed EXCEPT ![s] = Min({@ + 1, Threshold})]
          /\ later' = IF failed'[s] = Threshold THEN [later EXCEPT ![s] = @ \cup {"reset"}]
                      ELSE later
          /\ \E p \in SleepsIf(Rebuilds(errors, "sequence")) : proc' = [proc EXCEPT ![s] = p]
  /\ UNCHANGED <<buffer, waiting, out, drops>>

(* Mutant: the buffer keeps one message more than it should.               *)
BufferOneMore(s, m) ==
  LET b == Append(buffer[s], m)
  IN /\ buffer' = [buffer EXCEPT ![s] = SubSeq(b, Max({1, Len(b) - BufferMax}), Len(b))]
     /\ later' = later

(* _buffer_message: the oldest goes, or (derivatives) all, and a rebuild.  *)
Buffer(s, m) ==
  LET b == Append(buffer[s], m)
      full == market = "derivatives" /\ Len(b) >= BufferMax
  IN /\ buffer' = [buffer EXCEPT ![s] = IF full THEN <<>>
                                        ELSE SubSeq(b, Max({1, Len(b) - BufferMax + 1}), Len(b))]
     /\ later' = IF full THEN [later EXCEPT ![s] = @ \cup {"reset"}] ELSE later

(* The derivatives manager takes the number over when it checks it.        *)
NextLast(m) == IF market = "spot" \/ m.again THEN None ELSE m.seq

(* An update without a book.  After long enough, the symbol is subscribed  *)
(* again: unsubscribe_orderbook, a nap, subscribe_orderbook.               *)
BufferUpdate(s) ==
  /\ Takes(s) /\ Message(s).kind = "update" /\ Valid(s, Message(s)) /\ ~HasBook(s)
  /\ queue' = [queue EXCEPT ![s] = Tail(@)]
  /\ last' = [last EXCEPT ![s] = NextLast(Message(s))]
  /\ Buffer(s, Message(s))
  /\ errors' = Eased(errors, {"sequence"})
  /\ IF waiting[s] = "long"
     THEN proc' = [proc EXCEPT ![s] = "unsubscribe"] /\ waiting' = waiting
     ELSE waiting' = [waiting EXCEPT ![s] = "short"] /\ proc' = proc
  /\ UNCHANGED <<book, failed, out, drops>>

(* _apply_update.  The checksum is over the 25 best levels: that of a      *)
(* whole book agrees with the exchange's, that of another one may.         *)
Updated(s, m) == [at |-> m.seq, whole |-> book[s].whole /\ m.prev = book[s].at]

TakesUpdate(s) ==
  Takes(s) /\ Message(s).kind = "update" /\ Valid(s, Message(s)) /\ HasBook(s)

ApplyUpdate(s) ==
  /\ TakesUpdate(s)
  /\ book' = [book EXCEPT ![s] = Updated(s, Message(s))]
  /\ last' = [last EXCEPT ![s] = Message(s).seq]
  /\ Publish(s, book'[s], Tail(queue[s]))
  /\ errors' = Eased(errors, {"all", "sequence", "checksum"})
  /\ failed' = IF market = "spot" THEN [failed EXCEPT ![s] = 0] ELSE failed
  /\ UNCHANGED <<buffer, waiting, proc>>

(* The spot manager rolls back and counts; after several in a row it gives *)
(* the book up and pauses.  The update counts as a success all the same.   *)
MismatchSpot(s) ==
  LET e == Eased(errors, {"sequence"})
      pauses == failed[s] + 1 >= Threshold
  IN /\ TakesUpdate(s) /\ market = "spot" /\ ~Updated(s, Message(s)).whole
     /\ queue' = [queue EXCEPT ![s] = Tail(@)]
     /\ errors' = Eased(ErrorsAfter(e, "checksum"), {"all"})
     /\ failed' = [failed EXCEPT ![s] = IF pauses THEN 0 ELSE @ + 1]
     /\ IF pauses \/ Rebuilds(e, "checksum") THEN Reset(s)
        ELSE /\ last' = [last EXCEPT ![s] = IF Message(s).again THEN None ELSE @]
             /\ book' = book
     /\ proc' = IF pauses THEN [proc EXCEPT ![s] = "pause"] ELSE proc
     /\ UNCHANGED <<buffer, waiting, later, out, drops>>

MismatchDerivatives(s) ==
  /\ TakesUpdate(s) /\ market = "derivatives" /\ ~Updated(s, Message(s)).whole
  /\ queue' = [queue EXCEPT ![s] = Tail(@)]
  /\ errors' = ErrorsAfter(errors, "checksum")
  /\ Reset(s)
  /\ \E p \in SleepsIf(Rebuilds(errors, "checksum")) : proc' = [proc EXCEPT ![s] = p]
  /\ UNCHANGED <<buffer, waiting, later, failed, out, drops>>

-------------------------------------------------------------------------------
(* A processor goes on after an await of its own.                          *)

GoesOn(s, from, to) == proc[s] = from /\ proc' = [proc EXCEPT ![s] = to]

(* send_message does nothing without a connection.                         *)
Unsubscribe(s) ==
  /\ GoesOn(s, "unsubscribe", "nap")
  /\ sub' = IF up THEN [sub EXCEPT ![s] = "off"] ELSE sub
  /\ UNCHANGED <<market, up, queue, local, errors, out, faults>>

(* Mutant: the symbol is not subscribed again.                             *)
NotSubscribed(s) ==
  /\ GoesOn(s, "nap", "get")
  /\ waiting' = [waiting EXCEPT ![s] = "short"]
  /\ UNCHANGED <<market, up, sub, queue, book, last, buffer, later, failed, errors, out,
                 faults>>

(* A subscription that exists already may or may not begin again.          *)
Subscribe(s) ==
  /\ GoesOn(s, "nap", "get")
  /\ \E t \in {"due"} \cup (IF sub[s] = "off" THEN {} ELSE {sub[s]}) :
       sub' = IF up THEN [sub EXCEPT ![s] = t] ELSE sub
  /\ waiting' = [waiting EXCEPT ![s] = "short"]
  /\ UNCHANGED <<market, up, queue, book, last, buffer, later, failed, errors, out,
                 faults>>

PauseEnds(s) ==
  /\ GoesOn(s, "pause", "get")
  /\ UNCHANGED <<market, up, sub, queue, local, errors, out, faults>>

ResyncEnds(s) ==
  /\ GoesOn(s, "resync", "get")
  /\ Reset(s)
  /\ UNCHANGED <<market, up, sub, queue, buffer, waiting, later, failed, errors, out,
                 faults>>

(* A task that resets the symbol; the base class's does it once more five  *)
(* seconds later, or does nothing if there was one a moment ago.           *)
ResetTask(s, t) ==
  /\ t \in later[s]
  /\ \/ /\ Reset(s)
        /\ later' = [later EXCEPT ![s] =
                       (@ \ {t}) \cup IF t = "resync" /\ market = "derivatives"
                                      THEN {"once more"} ELSE {}]
     \/ /\ t = "resync" /\ market = "derivatives"
        /\ later' = [later EXCEPT ![s] = @ \ {t}]
        /\ UNCHANGED <<book, last>>
  /\ UNCHANGED <<market, up, sub, queue, buffer, waiting, proc, failed, errors, out,
                 faults>>

(* A queue that has been long for a while is dropped, with the message     *)
(* taken from it, and the symbol reset; the derivatives manager leaves it  *)
(* as it is if there was a resync a moment ago.                            *)
GiveQueueUp(s) ==
  /\ Takes(s) /\ Len(queue[s]) > HighMark /\ drops < MaxDrops
  /\ queue' = [queue EXCEPT ![s] = <<>>]
  /\ drops' = drops + 1
  /\ \/ /\ Reset(s)
        /\ proc' = IF market = "spot" THEN proc ELSE [proc EXCEPT ![s] = "resync"]
     \/ market = "derivatives" /\ UNCHANGED <<book, last, proc>>
  /\ UNCHANGED <<buffer, waiting, later, failed, errors, out>>

(* Twice buffer_timeout have passed.                                       *)
TimePasses(s) ==
  /\ waiting[s] = "short"
  /\ waiting' = [waiting EXCEPT ![s] = "long"]
  /\ UNCHANGED <<market, up, sub, queue, book, last, buffer, later, failed, proc,
                 errors, out, faults>>

-------------------------------------------------------------------------------

Init ==
  /\ market \in Markets
  /\ up = FALSE
  /\ sub = [s \in Symbols |-> "off"]
  /\ queue = [s \in Symbols |-> <<>>]
  /\ book = [s \in Symbols |-> NoBook] /\ last = [s \in Symbols |-> None]
  /\ buffer = [s \in Symbols |-> <<>>] /\ waiting = [s \in Symbols |-> "no"]
  /\ proc = [s \in Symbols |-> "get"] /\ later = [s \in Symbols |-> {}]
  /\ errors = NoErrors /\ failed = [s \in Symbols |-> 0]
  /\ out = [s \in Symbols |-> TRUE]
  /\ drops = 0 /\ losses = 0 /\ restarts = 0 /\ rejects = 0

Process(s) ==
  \/ ApplySnapshot(s) \/ RefuseUpdate(s) \/ BufferUpdate(s) \/ ApplyUpdate(s)
  \/ MismatchSpot(s) \/ MismatchDerivatives(s) \/ GiveQueueUp(s)
  \/ Unsubscribe(s) \/ Subscribe(s) \/ PauseEnds(s) \/ ResyncEnds(s)
ResetTasks(s) == \E t \in later[s] : ResetTask(s, t)
Exchange(s) == Update(s) \/ Snapshot(s)

Next ==
  \/ Lose \/ Connect
  \/ \E s \in Symbols : Exchange(s) \/ Reject(s) \/ Process(s) \/ ResetTasks(s) \/ TimePasses(s)

Spec == Init /\ [][Next]_vars

(* The event loop runs what is ready, naps end, connecting succeeds in the *)
(* end, and the exchange goes on sending what is subscribed.               *)
Fairness ==
  /\ WF_vars(Connect)
  /\ \A s \in Symbols : /\ WF_vars(Process(s)) /\ WF_vars(ResetTasks(s))
                        /\ WF_vars(TimePasses(s)) /\ WF_vars(Exchange(s))
FairSpec == Spec /\ Fairness

-------------------------------------------------------------------------------
(* Properties.                                                             *)

TypeOK ==
  /\ market \in Markets /\ up \in BOOLEAN
  /\ sub \in [Symbols -> {"off", "due", "on"}]
  /\ \A s \in Symbols :
       /\ Len(queue[s]) <= QueueMax /\ Len(buffer[s]) <= BufferMax
       /\ {last[s], book[s].at} \subseteq None..Old /\ out[s] \in BOOLEAN
       /\ later[s] \subseteq {"reset", "resync", "once more"}
       /\ failed[s] \in 0..Threshold
  /\ waiting \in [Symbols -> {"no", "short", "long"}]
  /\ proc \in [Symbols -> {"get", "unsubscribe", "nap", "pause", "resync"}]
  /\ errors.all \in 0..(MaxErrors - 1) /\ errors.sequence \in 0..errors.all
  /\ errors.checksum \in Nat

(* A published book misses no update of the exchange, whatever is dropped, *)
(* given up, reset or sent again, unless the exchange has started its      *)
(* numbers again: that message alone is accepted without a look at what    *)
(* came before it (okx_spot_manager.py:213).                               *)
HolesTakeARestart == \A s \in Symbols : out[s] \/ (restarts > 0 /\ drops > 0)

(* A symbol that has no book gets one in the end, by a connection or by    *)
(* subscribing again, unless the exchange has refused its subscription:    *)
(* subscribing again takes an update to notice, and none arrives.          *)
Forgotten(s) ==
  rejects > 0 /\ up /\ sub[s] = "off" /\ proc[s] \notin {"unsubscribe", "nap"}
BookComesBack == \A s \in Symbols : ~HasBook(s) ~> HasBook(s) \/ Forgotten(s)

(* "When sequence errors in a row pass the threshold, rebuild" (okx_spot_  *)
(* manager.py:166): a book whose next update was dropped is given up in    *)
(* the end.                                                                *)
Stuck(s) == /\ HasBook(s) /\ last[s] > 0
            /\ \A i \in 1..Len(queue[s]) : queue[s][i].prev \notin {None, last[s]}
GapHeals == \A s \in Symbols : Stuck(s) ~> ~Stuck(s) \/ Forgotten(s)
===============================================================================
