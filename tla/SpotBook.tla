------------------------------- MODULE SpotBook -------------------------------
(***************************************************************************)
(* BinanceSpotOrderBookManager, services/data-collector/collector/order-   *)
(* book_managers/binance_spot_manager.py, for one symbol: a local order    *)
(* book kept from REST snapshots and WebSocket deltas, and published after *)
(* every delta.                                                            *)
(*                                                                         *)
(* The exchange numbers its updates; a delta message carries updates U..u. *)
(* An update n sets the level n % NLevels, so a book is, per level, the    *)
(* last update that it has seen there.  A step runs from one await of an   *)
(* asyncio task to the next; the tasks are the receive loop, the symbol's  *)
(* worker, and the one that starts the manager or reconnects it.           *)
(***************************************************************************)
EXTENDS Integers, Sequences

CONSTANTS
  NLevels,       \* price levels
  Early,         \* length of the queue from which messages are dropped
  Closings,      \* how a peer closes: subset of {"broken", "closed"}
  MaxId,         \* bound: updates the exchange makes
  MaxDrops,      \* bound: messages dropped because the queue is long
  MaxFetchFails, \* bound: snapshots that cannot be fetched
  MaxLosses,     \* bound: connections that break
  MaxRefusals    \* bound: attempts to connect that fail

ASSUME SettingsAssumption ==
  /\ Closings \subseteq {"broken", "closed"}
  /\ NLevels \in Nat \ {0} /\ Early \in Nat \ {0}
  /\ MaxId \in Nat \ {0}
  /\ {MaxDrops, MaxFetchFails, MaxLosses, MaxRefusals} \subseteq Nat

VARIABLES
  exch,     \* last update of the exchange
  sent,     \* last update that it has put in a message
  conn,     \* the WebSocket connection
  wire,     \* messages sent on it and not yet received
  queue,    \* _msg_queues[symbol]
  book,     \* local_orderbooks[symbol]
  last,     \* last_update_ids[symbol]
  worker,   \* where _symbol_worker is
  u,        \* the message it is at: its last update
  main,     \* where start(), or the reconnection of a receive loop, is
  snap,     \* per task, the snapshot it waits for: none yet, or as of an update
  out,      \* the book last published, and the update it claims
  drops, fetchFails, losses, refusals, \* history: how often
  raced     \* history: a snapshot was applied while the worker was publishing

network == <<exch, sent, conn, wire>>
local == <<book, last>>
history == <<drops, fetchFails, losses, refusals, raced>>
vars == <<network, queue, local, worker, u, main, snap, out, history>>

Levels == 0..(NLevels - 1)
LevelOf(n) == n % NLevels
Empty == [l \in Levels |-> 0]

(* What the updates a..b leave of a book b0.                               *)
Latest(l, a, b) == {n \in a..b : LevelOf(n) = l /\ \A m \in (n + 1)..b : LevelOf(m) # l}
Updated(b0, a, b) ==
  [l \in Levels |-> IF Latest(l, a, b) = {} THEN b0[l]
                    ELSE CHOOSE n \in Latest(l, a, b) : TRUE]
BookAt(n) == Updated(Empty, 1, n)

Pending == -1      \* a snapshot asked for and not taken yet
Tasks == {"worker", "main"}

-------------------------------------------------------------------------------
(* The exchange and the connection.                                        *)

Update ==
  /\ exch < MaxId
  /\ exch' = exch + 1
  /\ UNCHANGED <<sent, conn, wire, queue, local, worker, u, main, snap, out, history>>

(* Every 100 ms, a message with the updates since the last one: a snapshot *)
(* may be as of an update in the middle of a message.                      *)
Send ==
  /\ sent < exch
  /\ sent' = exch
  /\ wire' = IF conn = "up" THEN Append(wire, [first |-> sent + 1, last |-> exch]) ELSE wire
  /\ UNCHANGED <<exch, conn, queue, local, worker, u, main, snap, out, history>>

(* The peer closes the connection, in order (code 1000) or not.            *)
Lose ==
  /\ conn = "up" /\ losses < MaxLosses
  /\ conn' \in Closings
  /\ losses' = losses + 1
  /\ UNCHANGED <<exch, sent, wire, queue, local, worker, u, main, snap, out, drops,
                 fetchFails, refusals, raced>>

TakeSnapshot(t) ==
  /\ snap[t] = Pending
  /\ snap' = [snap EXCEPT ![t] = exch]
  /\ UNCHANGED <<network, queue, local, worker, u, main, out, history>>

-------------------------------------------------------------------------------
(* _websocket_message_loop.                                                *)

(* Mutant: one message too many before the queue counts as long.           *)
RoomForOneMore == Len(queue) <= Early
Room == Len(queue) < Early

Enqueue ==
  /\ wire # <<>> /\ Room
  /\ queue' = Append(queue, Head(wire))
  /\ wire' = Tail(wire)
  /\ UNCHANGED <<exch, sent, conn, local, worker, u, main, snap, out, history>>

(* A queue at nine tenths of its size: the message is dropped, and the     *)
(* sequence number reset as a hint to rebuild.  A worker that waits for a  *)
(* message runs before the loop can receive that many (the connection      *)
(* holds 512 of them), so it is at an await of its own then.               *)
Drop ==
  /\ wire # <<>> /\ ~Room /\ drops < MaxDrops /\ worker # "get"
  /\ wire' = Tail(wire)
  /\ last' = 0
  /\ drops' = drops + 1
  /\ UNCHANGED <<exch, sent, conn, queue, book, worker, u, main, snap, out, fetchFails,
                 losses, refusals, raced>>

(* ConnectionClosed reaches _on_connection_lost, which does nothing while  *)
(* another reconnection is under way.                                      *)
LoopBreaks ==
  /\ conn = "broken" /\ wire = <<>>
  /\ conn' = "down"
  /\ main' = IF main = "rest" THEN "delay" ELSE main
  /\ UNCHANGED <<exch, sent, wire, queue, local, worker, u, snap, out, history>>

(* An orderly close just ends the "async for".                             *)
LoopEnds ==
  /\ conn = "closed" /\ wire = <<>>
  /\ conn' = "down"
  /\ UNCHANGED <<exch, sent, wire, queue, local, worker, u, main, snap, out, history>>

-------------------------------------------------------------------------------
(* _symbol_worker and process_websocket_message.                           *)

Message == Head(queue)

Gap(m) == m.first > last + 1

(* Mutant: a message that overlaps the book is taken for an old one.       *)
StartsBefore(m) == m.first <= last
Expired(m) == m.last <= last

TakesNext == worker = "get" /\ queue # <<>> /\ queue' = Tail(queue)

(* Applied, and published: the worker awaits the publisher.                *)
Process ==
  /\ TakesNext
  /\ last = 0 \/ (~Expired(Message) /\ ~Gap(Message))
  /\ book' = Updated(book, Message.first, Message.last)
  /\ last' = Message.last
  /\ u' = Message.last
  /\ out' = [id |-> Message.last, book |-> book']
  /\ worker' = "publish"
  /\ UNCHANGED <<network, main, snap, history>>

Ignore ==
  /\ TakesNext /\ last # 0 /\ Expired(Message)
  /\ UNCHANGED <<network, local, worker, u, main, snap, out, history>>

(* _reinitialize_orderbook; the message itself is given up.                *)
Reinitialize ==
  /\ TakesNext /\ last # 0 /\ ~Expired(Message) /\ Gap(Message)
  /\ book' = Empty /\ last' = 0
  /\ snap' = [snap EXCEPT !["worker"] = Pending]
  /\ worker' = "fetch"
  /\ UNCHANGED <<network, u, main, out, history>>

(* Mutant: the sequence number is not set again.                           *)
LastKept == last
LastAgain == u

(* It is set a second time after the publisher returns.                    *)
Published ==
  /\ worker = "publish"
  /\ last' = LastAgain
  /\ worker' = "get"
  /\ UNCHANGED <<network, queue, book, u, main, snap, out, history>>

(* _apply_snapshot_to_local_orderbook.                                     *)
ApplySnapshot(t) ==
  /\ snap[t] # Pending
  /\ book' = BookAt(snap[t]) /\ last' = snap[t]
  /\ snap' = [snap EXCEPT ![t] = 0]

WorkerFetched ==
  /\ worker = "fetch"
  /\ ApplySnapshot("worker")
  /\ worker' = "get"
  /\ UNCHANGED <<network, queue, u, main, out, history>>

WorkerFetchFails ==
  /\ worker = "fetch" /\ fetchFails < MaxFetchFails
  /\ fetchFails' = fetchFails + 1
  /\ worker' = "get"
  /\ snap' = [snap EXCEPT !["worker"] = 0]
  /\ UNCHANGED <<network, queue, local, u, main, out, drops, losses, refusals, raced>>

-------------------------------------------------------------------------------
(* start(), and _attempt_reconnection: connect, then take a snapshot while *)
(* the new receive loop and the worker already run.                        *)

Fetched ==
  /\ main \in {"startFetch", "restore"}
  /\ ApplySnapshot("main")
  /\ raced' = (raced \/ worker = "publish")
  /\ main' = IF main = "startFetch" THEN "startConnect" ELSE "rest"
  /\ UNCHANGED <<network, queue, worker, u, out, drops, fetchFails, losses, refusals>>

FetchFails ==
  /\ main \in {"startFetch", "restore"} /\ fetchFails < MaxFetchFails
  /\ fetchFails' = fetchFails + 1
  /\ last' = 0
  /\ snap' = [snap EXCEPT !["main"] = 0]
  /\ main' = IF main = "startFetch" THEN "startConnect" ELSE "rest"
  /\ UNCHANGED <<network, queue, book, worker, u, out, drops, losses, refusals, raced>>

Connect ==
  /\ main \in {"startConnect", "delay"}
  /\ conn' = "up" /\ wire' = <<>>
  /\ IF main = "startConnect"
     THEN main' = "rest" /\ snap' = snap
     ELSE main' = "restore" /\ snap' = [snap EXCEPT !["main"] = Pending]
  /\ UNCHANGED <<exch, sent, queue, local, worker, u, out, history>>

(* A reconnection that fails is not tried again.                           *)
ConnectFails ==
  /\ main = "delay" /\ refusals < MaxRefusals
  /\ refusals' = refusals + 1
  /\ main' = "rest"
  /\ UNCHANGED <<network, queue, local, worker, u, snap, out, drops, fetchFails,
                 losses, raced>>

-------------------------------------------------------------------------------

Init ==
  /\ exch = 1 /\ sent = 0 /\ conn = "none" /\ wire = <<>>
  /\ queue = <<>> /\ book = Empty /\ last = 0
  /\ worker = "get" /\ u = 0
  /\ main = "startFetch" /\ snap = [t \in Tasks |-> IF t = "main" THEN Pending ELSE 0]
  /\ out = [id |-> 0, book |-> Empty]
  /\ drops = 0 /\ fetchFails = 0 /\ losses = 0 /\ refusals = 0 /\ raced = FALSE

Loop == Enqueue \/ Drop \/ LoopBreaks \/ LoopEnds
Worker == \/ Process \/ Ignore \/ Reinitialize \/ Published
          \/ WorkerFetched \/ WorkerFetchFails
Main == Fetched \/ FetchFails \/ Connect \/ ConnectFails

Next ==
  \/ Update \/ Send \/ Lose \/ (\E t \in Tasks : TakeSnapshot(t))
  \/ Loop \/ Worker \/ Main

Spec == Init /\ [][Next]_vars

(* The event loop runs each task when it can go on, REST requests are      *)
(* answered, and connecting succeeds or fails in the end.                  *)
Fairness ==
  /\ WF_vars(Loop) /\ WF_vars(Worker) /\ WF_vars(Main)
  /\ WF_vars(\E t \in Tasks : TakeSnapshot(t))
FairSpec == Spec /\ Fairness

-------------------------------------------------------------------------------
(* Properties.                                                             *)

(* Types, and the bound the dropping puts on the queue.                    *)
TypeOK ==
  /\ exch \in 1..MaxId /\ sent \in 0..exch /\ last \in 0..MaxId /\ u \in 0..MaxId
  /\ conn \in {"none", "up", "broken", "closed", "down"}
  /\ Len(queue) <= Early
  /\ book \in [Levels -> 0..MaxId]
  /\ worker \in {"get", "publish", "fetch"}
  /\ main \in {"startFetch", "startConnect", "rest", "delay", "restore"}
  /\ snap \in [Tasks -> {Pending} \cup 0..MaxId]
  /\ out.id \in 0..MaxId /\ out.book \in [Levels -> 0..MaxId]

Exact == out.book = BookAt(out.id)

(* A published book is the exchange's book as of the update it claims,     *)
(* unless a snapshot could not be fetched, or one was applied while the    *)
(* worker awaited the publisher: the start between snapshot and stream,    *)
(* dropped messages, overlapping messages and rebuilds leave no hole.  It  *)
(* rests on the second assignment of the sequence number, which undoes the *)
(* reset by a drop.                                                        *)
HolesHaveCauses == Exact \/ fetchFails > 0 \/ raced

(* "Keeps data-integrity detection, makes sure problems are found in time" *)
(* (binance_spot_manager.py:42), "event.U > last_update_id + 1 means loss  *)
(* and should trigger a rebuild" (:503): no published book has a hole.     *)
PublishedExact == Exact

(* An update that is on its way to the manager is covered by its book in   *)
(* the end, by being applied or by a later snapshot, unless a message was  *)
(* dropped or a snapshot could not be fetched.                             *)
OnTheWay(n) == \E i \in 1..Len(wire) : wire[i].last = n
Covered(n) == last >= n \/ drops > 0 \/ fetchFails > 0
UpdatesAreCovered == \A n \in 1..MaxId : OnTheWay(n) ~> Covered(n)
===============================================================================
