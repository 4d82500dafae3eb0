------------------------------ MODULE SnapPoller ------------------------------
(***************************************************************************)
(* BinanceDerivativesSnapManager, services/data-collector/collector/order- *)
(* book_snap_managers/binance_derivatives_snap_manager.py, and the polling *)
(* of its base class: every second each symbol asks for a snapshot of its  *)
(* order book over one WebSocket that all symbols share.                   *)
(*                                                                         *)
(* The asyncio tasks are the loop that ticks, one fetch per symbol at a    *)
(* time, and the reader of the connection.  A step runs from one await of  *)
(* a task to the next.  A fetch connects when it finds no open connection, *)
(* under a lock; a fetch that cannot send, and the reader, "handle" the    *)
(* loss of the connection without that lock.                               *)
(***************************************************************************)
EXTENDS Integers, Sequences, FiniteSets, SequencesExt

CONSTANTS
  NSymbols,      \* symbols, as 1..NSymbols in the order of the loop
  MaxUnanswered, \* bound: requests that the exchange may still answer
  MaxLosses,     \* bound: connections that break
  MaxRefusals    \* bound: attempts to connect that fail

ASSUME SettingsAssumption ==
  /\ NSymbols \in Nat \ {0}
  /\ {MaxUnanswered, MaxLosses, MaxRefusals} \subseteq Nat

Symbols == 1..NSymbols

VARIABLES
  running,    \* _running
  sock,       \* _ws: none, open, or closed by the peer
  reader,     \* _recv_task: none, running, cancelled, ended or dead of a CancelledError
  line,       \* _ws_lock: the fetch that holds it, then those that wait
  fetch,      \* where the fetch of a symbol is; "none" if not in _inflight
  request,    \* the request it has registered
  pending,    \* _pending, as requests with their symbols
  future,     \* what has become of that request's future
  cancelled,  \* fetches with a CancelledError coming
  asked,      \* requests the exchange may still answer
  inbox,      \* answers on the connection, not yet read
  losses, refusals \* history: how often

exchange == <<asked, inbox, losses>>
requests == <<request, pending, future>>
vars == <<running, sock, reader, line, fetch, requests, cancelled, exchange, refusals>>

(* A request has the id the code gives it, and a serial number by which    *)
(* the properties tell requests apart.                                     *)
NoRequest == [id |-> 0, nr |-> 0]
Awaited == 0
Failed == -1

FetchPcs == {"none", "new", "lock", "closeReader", "closeSocket", "connect", "backoff",
             "send", "wait", "publish"}

(* Who has the lock; it is handed over in order of arrival.                *)
Holds(s) == line # <<>> /\ Head(line) = s
Leave(q, s) ==
  IF Contains(q, s) THEN RemoveAt(q, CHOOSE i \in DOMAIN q : q[i] = s) ELSE q
(* A fetch stands in the line twice if it waits for the lock it holds.     *)
Without(s) == Leave(Leave(line, s), s)

Outstanding == asked \cup ToSet(inbox) \cup {request[s] : s \in Symbols}
Serial == CHOOSE n \in 1..(MaxUnanswered + NSymbols + 1) :
            \A r \in Outstanding : r.nr # n

(* Mutant: every symbol uses its own id again and again.                   *)
IdOfSymbol(s) == s
(* _next_id grows, so an id is never that of an outstanding request.       *)
NextId(s) == Serial

At(s, pc) == fetch' = [fetch EXCEPT ![s] = pc]

-------------------------------------------------------------------------------
(* The end of a fetch: the finally clauses of _fetch_one and               *)
(* _safe_fetch_one, and of "async with" if it holds the lock.              *)

(* Mutant: a fetch that is cancelled keeps the lock.                       *)
KeepsLock(s) == IF s \in cancelled THEN line ELSE Without(s)
Released(s) == Without(s)

Popped(s) == {p \in pending : p.id # request[s].id}

End(s) ==
  /\ At(s, "none")
  /\ request' = [request EXCEPT ![s] = NoRequest]
  /\ pending' = Popped(s)
  /\ future' = [future EXCEPT ![s] = Awaited]
  /\ line' = Released(s)
  /\ cancelled' = cancelled \ {s}

-------------------------------------------------------------------------------
(* _ensure_connection and _close_ws.                                       *)

(* Mutant: without the second look once the lock is there.                 *)
NoSecondLook == FALSE
OpenedMeanwhile == sock = "open"

(* A fetch with a request has come by way of a lost connection, and is     *)
(* done; another goes on to register its request.                          *)
Ensured(s) ==
  IF request[s] # NoRequest THEN End(s)
  ELSE LET r == [id |-> NextId(s), nr |-> Serial]
       IN /\ At(s, "send")
          /\ request' = [request EXCEPT ![s] = r]
          /\ pending' = {p \in pending : p.id # r.id} \cup {[id |-> r.id, symbol |-> s]}
          /\ line' = Released(s)
          /\ UNCHANGED <<future, cancelled>>

(* _close_ws up to its first await; then it goes on at next.               *)
CloseSocket(s, next) == At(s, IF sock # "none" THEN "closeSocket" ELSE next)
Close(s, next) ==
  /\ IF reader # "none"
     THEN /\ reader' = IF reader = "running" THEN "cancelled" ELSE reader
          /\ At(s, "closeReader")
     ELSE CloseSocket(s, next) /\ UNCHANGED reader
  /\ UNCHANGED <<requests, cancelled>>
AfterClose(s) == IF Holds(s) THEN "connect" ELSE "backoff"

WithLock(s) ==
  IF OpenedMeanwhile THEN Ensured(s) /\ UNCHANGED reader
  ELSE Close(s, "connect") /\ line' = <<s>> \o Without(s)

EnsureConnection(s) ==
  IF sock = "open" THEN Ensured(s) /\ UNCHANGED reader
  ELSE IF line = <<>> THEN WithLock(s)
  ELSE /\ At(s, "lock")
       /\ line' = Append(line, s)
       /\ UNCHANGED <<requests, cancelled, reader>>

FetchStarts(s) ==
  /\ fetch[s] = "new" /\ s \notin cancelled
  /\ EnsureConnection(s)
  /\ UNCHANGED <<running, sock, exchange, refusals>>

(* A fetch that waits for the lock it holds is never granted it.           *)
LockGranted(s) ==
  /\ fetch[s] = "lock" /\ s \notin cancelled /\ Holds(s)
  /\ \A i \in 2..Len(line) : line[i] # s
  /\ WithLock(s)
  /\ UNCHANGED <<running, sock, exchange, refusals>>

(* "await self._recv_task" raises if that task was cancelled to its end.   *)
ReaderAwaited(s) ==
  /\ fetch[s] = "closeReader" /\ s \notin cancelled
  /\ \/ reader \in {"none", "ended"} /\ reader' = "none"
        /\ CloseSocket(s, AfterClose(s))
        /\ UNCHANGED <<line, requests, cancelled>>
     \/ reader = "dead" /\ reader' = reader /\ End(s)
  /\ UNCHANGED <<running, sock, exchange, refusals>>

SocketClosed(s) ==
  /\ fetch[s] = "closeSocket" /\ s \notin cancelled
  /\ sock' = "none"
  /\ At(s, AfterClose(s))
  /\ UNCHANGED <<running, reader, line, requests, cancelled, exchange, refusals>>

(* Opening a connection takes longer than closing a lost one.              *)
Closing == \E s \in Symbols : fetch[s] \in {"closeReader", "closeSocket"}

Connected(s) ==
  /\ fetch[s] = "connect" /\ s \notin cancelled /\ ~Closing
  /\ sock' = "open" /\ reader' = "running"
  /\ inbox' = <<>> /\ asked' = {}
  /\ Ensured(s)
  /\ UNCHANGED <<running, losses, refusals>>

Refused(s) ==
  /\ fetch[s] = "connect" /\ s \notin cancelled /\ refusals < MaxRefusals
  /\ refusals' = refusals + 1
  /\ At(s, "backoff")
  /\ UNCHANGED <<running, sock, reader, line, requests, cancelled, exchange>>

(* _schedule_reconnect calls _ensure_connection, lock or no lock.          *)
BackoffEnds(s) ==
  /\ fetch[s] = "backoff" /\ s \notin cancelled
  /\ EnsureConnection(s)
  /\ UNCHANGED <<running, sock, exchange, refusals>>

-------------------------------------------------------------------------------
(* _fetch_one, once there is a connection.                                 *)

(* The exchange answers, or it never will.                                 *)
Sent(s) ==
  /\ fetch[s] = "send" /\ s \notin cancelled /\ sock = "open"
  /\ At(s, "wait")
  /\ \/ asked' = asked
     \/ /\ Len(inbox) + Cardinality(asked) < MaxUnanswered
        /\ asked' = asked \cup {request[s]}
  /\ UNCHANGED <<running, sock, reader, line, requests, cancelled, inbox, losses, refusals>>

(* ConnectionClosed is handled; "None has no attribute send" just ends it. *)
SendFails(s) ==
  /\ fetch[s] = "send" /\ s \notin cancelled /\ sock # "open"
  /\ IF sock = "lost" THEN Close(s, "backoff") /\ UNCHANGED line ELSE End(s) /\ UNCHANGED reader
  /\ UNCHANGED <<running, sock, exchange, refusals>>

(* asyncio.wait_for of Python 3.11 hands out a result that is there even   *)
(* if the task is cancelled at the same time.                              *)
Answered(s) ==
  /\ fetch[s] = "wait" /\ future[s] # Awaited
  /\ IF future[s] = Failed THEN End(s)
     ELSE At(s, "publish") /\ cancelled' = cancelled \ {s} /\ UNCHANGED <<line, requests>>
  /\ UNCHANGED <<running, sock, reader, exchange, refusals>>

TimesOut(s) ==
  /\ fetch[s] = "wait" /\ s \notin cancelled /\ future[s] = Awaited
  /\ End(s)
  /\ UNCHANGED <<running, sock, reader, exchange, refusals>>

Published(s) ==
  /\ fetch[s] = "publish" /\ s \notin cancelled
  /\ End(s)
  /\ UNCHANGED <<running, sock, reader, exchange, refusals>>

(* A back-off that is cancelled returns, any other await raises.           *)
FetchCancelled(s) ==
  /\ s \in cancelled
  /\ End(s)
  /\ UNCHANGED <<running, sock, reader, exchange, refusals>>

-------------------------------------------------------------------------------
(* _recv_loop.                                                             *)

(* The finally clause: every future that is not done fails.                *)
FailPending ==
  /\ future' = [s \in Symbols |-> IF future[s] = Awaited /\ \E p \in pending : p.symbol = s
                                  THEN Failed ELSE future[s]]
  /\ pending' = {}

(* The answer resolves the future its id is registered with, if any.       *)
ReaderTakes ==
  /\ reader = "running" /\ inbox # <<>>
  /\ LET answer == Head(inbox)
         addressee == {p.symbol : p \in {q \in pending : q.id = answer.id}}
     IN /\ pending' = {p \in pending : p.id # answer.id}
        /\ \E outcome \in {answer.nr, Failed} :
             future' = [s \in Symbols |-> IF s \in addressee /\ future[s] = Awaited
                                          THEN outcome ELSE future[s]]
  /\ inbox' = Tail(inbox)
  /\ UNCHANGED <<running, sock, reader, line, fetch, request, cancelled, asked, losses,
                 refusals>>

(* It handles the loss: _close_ws cancels the reader itself and awaits it. *)
ReaderNotices ==
  /\ reader = "running" /\ inbox = <<>> /\ sock = "lost"
  /\ reader' = "dead"
  /\ FailPending
  /\ UNCHANGED <<running, sock, line, fetch, request, cancelled, exchange, refusals>>

(* Mutant: without "except asyncio.CancelledError".                        *)
EndsCancelled == "dead"
EndsQuietly == "ended"
ReaderCancelled ==
  /\ reader = "cancelled"
  /\ reader' = EndsQuietly
  /\ FailPending
  /\ UNCHANGED <<running, sock, line, fetch, request, cancelled, exchange, refusals>>

-------------------------------------------------------------------------------
(* The loop, stop(), and the exchange.                                     *)

(* Mutant: a symbol whose fetch is still in flight gets another.           *)
EverySymbol == Symbols
(* It is skipped.                                                          *)
Idle == {s \in Symbols : fetch[s] = "none"}

Tick ==
  /\ running /\ Idle # {}
  /\ fetch' = [s \in Symbols |-> IF s \in Idle THEN "new" ELSE fetch[s]]
  /\ UNCHANGED <<running, sock, reader, line, requests, cancelled, exchange, refusals>>

(* The loop cancels what is in flight.  Cancelling a fetch that awaits the *)
(* reader cancels the reader instead, which ends without an error.         *)
Stop ==
  /\ running
  /\ running' = FALSE
  /\ cancelled' = {s \in Symbols : fetch[s] # "none"
                                   /\ ~(fetch[s] = "closeReader" /\ reader = "cancelled")}
  /\ UNCHANGED <<sock, reader, line, fetch, requests, exchange, refusals>>

Answer ==
  /\ sock = "open"
  /\ \E r \in asked : asked' = asked \ {r} /\ inbox' = Append(inbox, r)
  /\ UNCHANGED <<running, sock, reader, line, fetch, requests, cancelled, losses, refusals>>

Lose ==
  /\ sock = "open" /\ losses < MaxLosses
  /\ sock' = "lost" /\ losses' = losses + 1
  /\ asked' = {}
  /\ UNCHANGED <<running, reader, line, fetch, requests, cancelled, inbox, refusals>>

-------------------------------------------------------------------------------

Init ==
  /\ running = TRUE /\ sock = "none" /\ reader = "none" /\ line = <<>>
  /\ fetch = [s \in Symbols |-> "none"]
  /\ request = [s \in Symbols |-> NoRequest]
  /\ pending = {} /\ future = [s \in Symbols |-> Awaited]
  /\ cancelled = {} /\ asked = {} /\ inbox = <<>>
  /\ losses = 0 /\ refusals = 0

Fetch(s) ==
  \/ FetchStarts(s) \/ LockGranted(s) \/ ReaderAwaited(s) \/ SocketClosed(s)
  \/ Connected(s) \/ Refused(s) \/ BackoffEnds(s)
  \/ Sent(s) \/ SendFails(s) \/ Answered(s) \/ TimesOut(s) \/ Published(s)
  \/ FetchCancelled(s)
Reader == ReaderTakes \/ ReaderNotices \/ ReaderCancelled

Next == Tick \/ Stop \/ Answer \/ Lose \/ Reader \/ \E s \in Symbols : Fetch(s)

Spec == Init /\ [][Next]_vars

(* The event loop runs every task that can go on, the loop ticks, sleeps   *)
(* and time-outs end, and an attempt to connect succeeds or fails.         *)
Fairness ==
  /\ WF_vars(Tick) /\ WF_vars(Reader)
  /\ \A s \in Symbols : WF_vars(Fetch(s))
FairSpec == Spec /\ Fairness

-------------------------------------------------------------------------------
(* Properties.                                                             *)

(* Types, and a line in which a fetch stands once, or twice if it waits    *)
(* for the lock it holds.                                                  *)
TypeOK ==
  /\ running \in BOOLEAN
  /\ sock \in {"none", "open", "lost"}
  /\ reader \in {"none", "running", "cancelled", "ended", "dead"}
  /\ line \in Seq(Symbols) /\ Len(line) <= NSymbols + 1
  /\ fetch \in [Symbols -> FetchPcs]
  /\ \A s \in Symbols : request[s].nr \in Nat /\ future[s] \in Int
  /\ cancelled \subseteq Symbols
  /\ losses \in 0..MaxLosses /\ refusals \in 0..MaxRefusals

(* A snapshot that is published answers the very request its fetch sent:   *)
(* never an earlier one's that came after its time-out, or another         *)
(* symbol's.                                                               *)
AnswersAreOwn ==
  \A s \in Symbols : fetch[s] \in {"wait", "publish"} /\ future[s] > 0
                     => future[s] = request[s].nr

(* Only the peer ends an open connection: no fetch closes one that another *)
(* has just opened.                                                        *)
OnlyPeersClose == [][sock = "open" => sock' \in {"open", "lost"}]_vars

(* The lock is passed on, cancelled or not: a fetch that waits for it gets *)
(* it or ends, unless a connection was refused.                            *)
LockIsPassedOn ==
  \A s \in Symbols : fetch[s] = "lock" ~> (fetch[s] # "lock" \/ refusals > 0)

(* A loss that a fetch handles before the reader has noticed it is healed. *)
FetchHeals == reader = "cancelled" ~> (sock = "open" \/ refusals > 0 \/ ~running)

(* "Reconnect: close the old connection, then connect again, at the same   *)
(* rate" (:21), "max_reconnect_attempts: -1 means without limit" (:53).    *)
ConnectionComesBack == sock # "open" ~> (sock = "open" \/ ~running)
===============================================================================
