------------------------------ MODULE DerivBook ------------------------------
(***************************************************************************)
(* BinanceDerivativesOrderBookManager, services/data-collector/collector/  *)
(* orderbook_managers/binance_derivatives_manager.py, for one symbol, with *)
(* what the collector's SystemResourceManager (core/memory_manager.py)     *)
(* does to its buffers.                                                    *)
(*                                                                         *)
(* The exchange numbers its updates; a message carries those after prev    *)
(* (the pu of the API) up to last, and update n sets the level             *)
(* n % NLevels, so a book is, per level, the last update it has seen       *)
(* there.  A step runs from one await of an asyncio task to the next; the  *)
(* tasks are the message handler, the symbol's queue processor, start() or *)
(* stop(), and a rebuild.                                                  *)
(***************************************************************************)
EXTENDS Integers, Sequences, FiniteSetsExt

CONSTANTS
  NLevels,    \* price levels
  Early,      \* length of the queue from which messages are dropped
  BufferMax,  \* buffer_max_size
  Cleanups,   \* {TRUE} or {FALSE}: can memory run short
  MaxId       \* bound: updates the exchange makes

ASSUME SettingsAssumption ==
  /\ {NLevels, Early, BufferMax, MaxId} \subseteq Nat \ {0}
  /\ Cleanups \subseteq BOOLEAN

VARIABLES
  exch,      \* last update of the exchange
  sent,      \* last update that it has put in a message
  conn,      \* the WebSocket connection
  wire,      \* messages sent on it and not yet received
  queue,     \* message_queues[symbol]
  buffer,    \* message_buffers[symbol]
  keyed,     \* does message_buffers have the symbol
  ready,     \* initialization_status[symbol]
  book,      \* local_orderbooks[symbol]
  last,      \* last_update_ids[symbol]
  expected,  \* expected_prev_update_ids[symbol], 0 if any message may follow
  worker,    \* where _process_message_queue is
  main,      \* where start() or stop() is
  rebuild,   \* is _async_reinitialize under way
  snap,      \* per task, the snapshot it waits for: none yet, or as of an update
  out,       \* the book last published, and the update it claims
  dropped,   \* history: updates dropped because the queue was long
  lost       \* history: updates given up where no check can notice it

network == <<exch, sent, conn, wire>>
local == <<ready, book, last, expected>>
history == <<dropped, lost>>
vars == <<network, queue, buffer, keyed, local, worker, main, rebuild, snap, out, history>>

Levels == 0..(NLevels - 1)
LevelOf(n) == n % NLevels
Empty == [l \in Levels |-> 0]

(* A book b after the updates of a set, in their order.                    *)
Overlaid(b, updates) ==
  [l \in Levels |-> LET here == {n \in updates : LevelOf(n) = l}
                    IN IF here = {} THEN b[l] ELSE Max(here)]
BookAt(n) == Overlaid(Empty, 1..n)
Updates(m) == (m.prev + 1)..m.last

Started == main \in {"behind", "on"}      \* the first snapshot has been applied
Pending == -1      \* a snapshot asked for and not taken yet
Tasks == {"main", "rebuild"}

-------------------------------------------------------------------------------
(* The exchange and the connection.                                        *)

Update ==
  /\ exch < MaxId
  /\ exch' = exch + 1
  /\ UNCHANGED <<sent, conn, wire, queue, buffer, keyed, local, worker, main, rebuild,
                 snap, out, history>>

(* Every 100 ms, a message with the updates since the last one.            *)
Send ==
  /\ sent < exch
  /\ sent' = exch
  /\ wire' = IF conn = "up" THEN Append(wire, [prev |-> sent, last |-> exch]) ELSE wire
  /\ UNCHANGED <<exch, conn, queue, buffer, keyed, local, worker, main, rebuild, snap,
                 out, history>>

Lose ==
  /\ conn = "up" /\ conn' = "lost"
  /\ UNCHANGED <<exch, sent, wire, queue, buffer, keyed, local, worker, main, rebuild,
                 snap, out, history>>

TakeSnapshot(t) ==
  /\ snap[t] = Pending
  /\ snap' = [snap EXCEPT ![t] = exch]
  /\ UNCHANGED <<network, queue, buffer, keyed, local, worker, main, rebuild, out, history>>

-------------------------------------------------------------------------------
(* _websocket_message_handler.                                             *)

(* Mutant: one message too many before the queue counts as long.           *)
RoomForOneMore == Len(queue) <= Early
Room == Len(queue) < Early

Enqueue ==
  /\ wire # <<>> /\ Room
  /\ queue' = Append(queue, Head(wire))
  /\ wire' = Tail(wire)
  /\ UNCHANGED <<exch, sent, conn, buffer, keyed, local, worker, main, rebuild, snap, out,
                 history>>

(* A processor that waits for a message runs before the handler can        *)
(* receive nine tenths of a queue (the connection holds 512 messages).     *)
Drop ==
  /\ wire # <<>> /\ ~Room /\ worker # "get"
  /\ wire' = Tail(wire)
  /\ dropped' = dropped \cup Updates(Head(wire))
  /\ lost' = IF Started /\ ~ready THEN lost \cup Updates(Head(wire)) ELSE lost
  /\ UNCHANGED <<exch, sent, conn, queue, buffer, keyed, local, worker, main, rebuild,
                 snap, out>>

(* The task ends, and nobody connects again.                               *)
HandlerEnds ==
  /\ conn = "lost" /\ wire = <<>>
  /\ conn' = "down"
  /\ UNCHANGED <<exch, sent, wire, queue, buffer, keyed, local, worker, main, rebuild,
                 snap, out, history>>

-------------------------------------------------------------------------------
(* _process_message_queue and _handle_depth_update.                        *)

Message == Head(queue)

(* Mutant: the newest message is taken first.                              *)
TakesLast == worker = "get" /\ queue # <<>> /\ queue' = SubSeq(queue, 1, Len(queue) - 1)
Takes == worker = "get" /\ queue # <<>> /\ queue' = Tail(queue)

(* Kept for the first snapshot; the oldest goes when the deque is full.    *)
(* What is kept during a rebuild is not used and not thrown away.          *)
Buffered ==
  LET b == Append(buffer, Message)
  IN SubSeq(b, IF Len(b) > BufferMax THEN 2 ELSE 1, Len(b))
GivenUp ==
  IF Started THEN Updates(Message)
  ELSE IF Len(buffer) = BufferMax THEN Updates(Head(buffer)) ELSE {}

Store ==
  /\ Takes /\ ~ready /\ keyed
  /\ buffer' = Buffered
  /\ lost' = lost \cup GivenUp
  /\ UNCHANGED <<network, keyed, local, worker, main, rebuild, snap, out, dropped>>

(* A KeyError: the processor sleeps a second, the message is gone.         *)
StoreFails ==
  /\ Takes /\ ~ready /\ ~keyed
  /\ worker' = "nap"
  /\ lost' = lost \cup Updates(Message)
  /\ UNCHANGED <<network, buffer, keyed, local, main, rebuild, snap, out, dropped>>

NapEnds ==
  /\ worker = "nap" /\ worker' = "get"
  /\ UNCHANGED <<network, queue, buffer, keyed, local, main, rebuild, snap, out, history>>

(* Mutant: a message that skips updates is taken for a continuation.       *)
GapOnlyBackwards(m) == expected # 0 /\ m.prev < expected
Gap(m) == expected # 0 /\ m.prev # expected

(* _apply_depth_update: applied, and published.                            *)
Process ==
  /\ Takes /\ ready /\ ~Gap(Message)
  /\ book' = Overlaid(book, Updates(Message))
  /\ last' = Message.last /\ expected' = Message.last
  /\ out' = [id |-> Message.last, book |-> book']
  /\ worker' = "publish"
  /\ UNCHANGED <<network, buffer, keyed, ready, main, rebuild, snap, history>>

Published ==
  /\ worker = "publish" /\ worker' = "get"
  /\ UNCHANGED <<network, queue, buffer, keyed, local, main, rebuild, snap, out, history>>

(* _reinitialize_orderbook: a task fetches a snapshot; the message that    *)
(* showed the gap is given up.                                             *)
Reinitialize ==
  /\ Takes /\ ready /\ Gap(Message) /\ keyed
  /\ ready' = FALSE /\ buffer' = <<>> /\ book' = Empty /\ last' = 0 /\ expected' = 0
  /\ rebuild' = TRUE /\ snap' = [snap EXCEPT !["rebuild"] = Pending]
  /\ UNCHANGED <<network, keyed, worker, main, out, history>>

(* message_buffers[symbol].clear() raises a KeyError after the status is   *)
(* set, and the exception is logged: no rebuild begins.                    *)
ReinitializeFails ==
  /\ Takes /\ ready /\ Gap(Message) /\ ~keyed
  /\ ready' = FALSE
  /\ lost' = lost \cup Updates(Message)
  /\ UNCHANGED <<network, buffer, keyed, book, last, expected, worker, main, rebuild,
                 snap, out, dropped>>

-------------------------------------------------------------------------------
(* _async_reinitialize.                                                    *)

(* Mutant: the snapshot is applied and the symbol left waiting.            *)
NotReady == ready' = ready
Ready == ready' = TRUE

(* Any message may follow: the one expected may have come during the fetch.*)
RebuildFetched ==
  /\ rebuild /\ snap["rebuild"] # Pending
  /\ book' = BookAt(snap["rebuild"]) /\ last' = snap["rebuild"] /\ expected' = 0
  /\ Ready
  /\ rebuild' = FALSE /\ snap' = [snap EXCEPT !["rebuild"] = 0]
  /\ UNCHANGED <<network, queue, buffer, keyed, worker, main, out, history>>

(* Failure or five seconds: _fallback_reinitialize goes on without a book. *)
RebuildFails ==
  /\ rebuild
  /\ last' = 0 /\ expected' = 0 /\ Ready
  /\ rebuild' = FALSE /\ snap' = [snap EXCEPT !["rebuild"] = 0]
  /\ lost' = lost \cup 1..exch
  /\ UNCHANGED <<network, queue, buffer, keyed, book, worker, main, out, dropped>>

-------------------------------------------------------------------------------
(* start() and stop().  start() initializes the symbols one by one, those  *)
(* "ahead" of this one, this one, and those "behind" it.                   *)

Connect ==
  /\ main = "connect"
  /\ conn' = "up" /\ worker' = "get" /\ main' = "ahead"
  /\ UNCHANGED <<exch, sent, wire, queue, buffer, keyed, local, rebuild, snap, out, history>>

OthersDone ==
  /\ \/ main = "ahead" /\ main' = "fetch" /\ snap' = [snap EXCEPT !["main"] = Pending]
     \/ main = "behind" /\ main' = "on" /\ snap' = snap
  /\ UNCHANGED <<network, queue, buffer, keyed, local, worker, rebuild, out, history>>

(* _process_buffered_messages: all of them, older than the snapshot or not.*)
Replayed == UNION {Updates(buffer[i]) : i \in DOMAIN buffer}

(* Mutant: the chain goes on from the snapshot.                            *)
FromSnapshot(n) == n
NextExpected(n) == IF buffer = <<>> THEN n ELSE buffer[Len(buffer)].last

Fetched ==
  /\ main = "fetch" /\ snap["main"] # Pending
  /\ book' = Overlaid(BookAt(snap["main"]), Replayed)
  /\ last' = NextExpected(snap["main"]) /\ expected' = last'
  /\ ready' = TRUE /\ buffer' = <<>>
  /\ main' = "behind" /\ snap' = [snap EXCEPT !["main"] = 0]
  /\ UNCHANGED <<network, queue, keyed, worker, rebuild, out, history>>

(* stop(), called when start() fails or by the collector: the processor is *)
(* cancelled, then the connection closed.  A rebuild goes on.              *)
Cancel ==
  /\ main \in {"connect", "ahead", "fetch", "behind", "on"}
  /\ main' = "close" /\ worker' = "gone"
  /\ snap' = [snap EXCEPT !["main"] = 0]
  /\ UNCHANGED <<network, queue, buffer, keyed, local, rebuild, out, history>>

Close ==
  /\ main = "close" /\ main' = "off"
  /\ conn' = IF conn = "up" THEN "lost" ELSE conn
  /\ UNCHANGED <<exch, sent, wire, queue, buffer, keyed, local, worker, rebuild, snap, out,
                 history>>

(* _cleanup_data_buffers when memory is short: clear() on the dictionaries *)
(* that the collector has registered once the managers have started.       *)
ForcedCleanup ==
  /\ TRUE \in Cleanups /\ main \in {"on", "close", "off"} /\ keyed
  /\ keyed' = FALSE /\ buffer' = <<>>
  /\ UNCHANGED <<network, queue, local, worker, main, rebuild, snap, out, history>>

-------------------------------------------------------------------------------

Init ==
  /\ exch = 1 /\ sent = 1 /\ conn = "none" /\ wire = <<>>
  /\ queue = <<>> /\ buffer = <<>> /\ keyed = TRUE
  /\ ready = FALSE /\ book = Empty /\ last = 0 /\ expected = 0
  /\ worker = "none" /\ main = "connect" /\ rebuild = FALSE
  /\ snap = [t \in Tasks |-> 0]
  /\ out = [id |-> 0, book |-> Empty]
  /\ dropped = {} /\ lost = {}

Handler == Enqueue \/ Drop \/ HandlerEnds
Worker == \/ Store \/ StoreFails \/ NapEnds \/ Process \/ Published
          \/ Reinitialize \/ ReinitializeFails
Rebuild == RebuildFetched \/ RebuildFails
Main == Connect \/ OthersDone \/ Fetched \/ Close

Next ==
  \/ Update \/ Send \/ Lose \/ (\E t \in Tasks : TakeSnapshot(t))
  \/ Handler \/ Worker \/ Rebuild \/ Main \/ Cancel \/ ForcedCleanup

Spec == Init /\ [][Next]_vars

(* The event loop runs each task when it can go on; a rebuild waits at     *)
(* most five seconds, and start() and stop() for what has time-outs.       *)
Fairness ==
  /\ WF_vars(Handler) /\ WF_vars(Worker) /\ WF_vars(Rebuild)
  /\ WF_vars(Main) /\ WF_vars(Close) /\ WF_vars(TakeSnapshot("main"))
FairSpec == Spec /\ Fairness

-------------------------------------------------------------------------------
(* Properties.                                                             *)

(* Types, and the bounds of queue and buffer.                              *)
TypeOK ==
  /\ exch \in 1..MaxId /\ sent \in 0..exch /\ {last, expected} \subseteq 0..MaxId
  /\ conn \in {"none", "up", "lost", "down"}
  /\ Len(queue) <= Early /\ Len(buffer) <= BufferMax
  /\ {keyed, ready, rebuild} \subseteq BOOLEAN
  /\ book \in [Levels -> 0..MaxId]
  /\ worker \in {"none", "get", "publish", "nap", "gone"}
  /\ main \in {"connect", "ahead", "fetch", "behind", "on", "close", "off"}
  /\ snap \in [Tasks -> {Pending} \cup 0..MaxId]
  /\ out.id \in 0..MaxId /\ out.book \in [Levels -> 0..MaxId]
  /\ (dropped \cup lost) \subseteq 1..MaxId

(* A published book lacks an update that it claims only if that update was *)
(* pushed out of the buffer, came or was dropped while a rebuild fetched   *)
(* its snapshot, or precedes a rebuild without one.  The pu check finds    *)
(* every other message dropped; snapshot and buffer leave no hole.         *)
HolesHaveCauses ==
  \A l \in Levels : out.book[l] < BookAt(out.id)[l] => BookAt(out.id)[l] \in lost

(* Whatever is rebuilt and replayed, and though last_update_ids goes back, *)
(* the published ids ascend: no subscriber sees an older book.             *)
IdsAscend == [][out'.id > out.id]_out

(* An update on its way is in the book in the end, by being applied or by  *)
(* a later snapshot, unless it was dropped or lost, or the manager stops.  *)
OnTheWay(n) == \E i \in DOMAIN wire : n \in Updates(wire[i])
Covered(n) == last >= n \/ n \in dropped \cup lost \/ worker = "gone"
UpdatesAreCovered == \A n \in 1..MaxId : OnTheWay(n) ~> Covered(n)

(* A symbol that waits for a rebuild takes messages again, whatever the    *)
(* exchange answers, unless the buffers have been cleared or it stops.     *)
RebuildEnds == Started /\ ~ready ~> ready \/ ~keyed \/ worker = "gone"
===============================================================================
