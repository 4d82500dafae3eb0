---------------------------- MODULE JetStreamIngest ----------------------------
(***************************************************************************)
(* The way of a low-frequency data type (funding rate, open interest, ...) *)
(* from the collector to the hot store: nats_publisher.py publishes to the *)
(* stream MARKET_DATA, services/hot-storage-service/main.py reads it by a  *)
(* durable push consumer, inserts each message by itself and acknowledges  *)
(* it then.  Several processes of the hot service may be started on one    *)
(* host; a lock file is to let only one of them run.                       *)
(*                                                                         *)
(* Messages are their numbers in the stream.  A step is what a process     *)
(* does up to its next await, or one system call on the lock file.         *)
(***************************************************************************)
EXTENDS Integers, Sequences, FiniteSetsExt, Functions

CONSTANTS
  Processes,     \* processes of the hot storage service
  Bad,           \* messages _validate_message_data refuses
  MaxDeliver,    \* max_deliver of the consumer
  MaxAckPending, \* max_ack_pending
  MaxAttempts,   \* max_retries + 1
  MaxMessages,   \* bound: messages published
  MaxStarts,     \* bound: processes started
  MaxFaults      \* bound: requests, inserts and acks that go wrong, late acks, crashes

ASSUME SettingsAssumption ==
  /\ IsFiniteSet(Processes)
  /\ {MaxDeliver, MaxAckPending, MaxAttempts} \subseteq Nat \ {0}
  /\ {MaxMessages, MaxStarts, MaxFaults} \subseteq Nat

Nobody == "nobody"
ASSUME NobodyAssumption == Nobody \notin Processes

VARIABLES
  stream,    \* number of messages in the stream, None: there is no stream
  consumer,  \* the durable consumer, or NoConsumer
  given,     \* messages delivered MaxDeliver times in vain
  file,      \* the file at _lock_path, None: there is none
  locked,    \* who holds the lock on each file, or Nobody
  fd,        \* the file a process has open, or None
  pc,        \* per process: where start() or stop() is
  sub,       \* per process: its subscription: "none", "js", "core"
  inbox,     \* per process: messages of the subscription, the first in work
  tries,     \* per process: inserts of the first that have failed
  rows,      \* per message: its copies in ClickHouse
  starts, faults,  \* history: how often
  replayed,  \* history: stored messages that a consumer not meant to be there brings again
  raced,     \* history: a lock file was unlinked that another process has open
  hung       \* history: stop() has failed half way

None == -1
NoConsumer == [first |-> None, next |-> None, pending |-> <<>>, to |-> Nobody]

lock == <<file, locked, fd>>
work == <<inbox, tries>>
faulty == <<starts, faults, replayed, raced, hung>>
vars == <<stream, consumer, given, lock, pc, sub, work, rows, faulty>>

Fault == faults < MaxFaults /\ faults' = faults + 1

-------------------------------------------------------------------------------
(* The lock file.                                                          *)

(* Files that may exist at once: a process may have one open without a path. *)
Files == 1..(Cardinality(Processes) + 1)

NewFile == CHOOSE f \in Files : f \notin Range(fd)

Goes(i, from, to) == pc[i] = from /\ pc' = [pc EXCEPT ![i] = to]

(* os.open with O_CREAT.                                                   *)
Start(i) ==
  /\ starts < MaxStarts /\ starts' = starts + 1
  /\ Goes(i, "down", "opened")
  /\ file' = IF file = None THEN NewFile ELSE file
  /\ fd' = [fd EXCEPT ![i] = file']
  /\ UNCHANGED <<stream, consumer, given, locked, sub, work, rows, faults, replayed, raced,
                 hung>>

Free(i) == locked[fd[i]] = Nobody

(* Mutant: the service starts without the lock.                            *)
LockOrNot(i) ==
  /\ Goes(i, "opened", "waiting")
  /\ locked' = [locked EXCEPT ![fd[i]] = i]
  /\ UNCHANGED <<stream, consumer, given, file, fd, sub, work, rows, faulty>>

(* lockf without waiting; who does not get the lock returns from start().  *)
Lock(i) ==
  /\ \/ /\ Goes(i, "opened", "waiting") /\ Free(i)
        /\ locked' = [locked EXCEPT ![fd[i]] = i]
        /\ fd' = fd
     \/ /\ Goes(i, "opened", "down") /\ ~Free(i)
        /\ fd' = [fd EXCEPT ![i] = None]
        /\ locked' = locked
  /\ UNCHANGED <<stream, consumer, given, file, sub, work, rows, faulty>>

Released(i) ==
  IF fd[i] = None THEN UNCHANGED <<locked, fd>>
  ELSE /\ locked' = [locked EXCEPT ![fd[i]] = IF @ = i THEN Nobody ELSE @]
       /\ fd' = [fd EXCEPT ![i] = None]

(* _release_singleton_lock unlocks and closes the file, ...                *)
Unlock(i) ==
  /\ Goes(i, "stopped", "unlocked")
  /\ Released(i)
  /\ UNCHANGED <<stream, consumer, given, file, sub, work, rows, faulty>>

Unlinked(i) ==
  /\ file' = None
  /\ raced' = (raced \/ \E j \in Processes : file # None /\ fd[j] = file)

(* ... then unlinks what is at its path.  A process whose stop() has       *)
(* failed goes on with the subscriptions it has.                           *)
Unlink(i) ==
  /\ Goes(i, "unlocked", IF sub[i] = "none" THEN "down" ELSE "hung")
  /\ Unlinked(i)
  /\ UNCHANGED <<stream, consumer, given, locked, fd, sub, work, rows, starts, faults,
                 replayed, hung>>

-------------------------------------------------------------------------------
(* _subscribe_to_data_type.                                                *)

(* Not within ten tries: the type is never subscribed.                     *)
NotReady(i) ==
  /\ stream = None /\ Goes(i, "waiting", "running")
  /\ UNCHANGED <<stream, consumer, given, lock, sub, work, rows, faulty>>

Pending == DOMAIN consumer.pending

(* What is stored and comes again, if the consumer that there is remains,  *)
(* or, if there is none, the subscription makes its own.                   *)
StoredToCome == {n \in DOMAIN rows : rows[n] > 0 /\ (n \in Pending \/ n >= consumer.next)}
NotAsMeant == Fault /\ consumer' = consumer /\ replayed' = replayed + Cardinality(StoredToCome)
AsMeant(c) == consumer' = c /\ UNCHANGED <<faults, replayed>>

(* Any error of delete_consumer is ignored.                                *)
DeleteConsumer(i) ==
  /\ stream # None /\ Goes(i, "waiting", "add")
  /\ AsMeant(NoConsumer) \/ (consumer # NoConsumer /\ NotAsMeant)
  /\ UNCHANGED <<stream, given, lock, sub, work, rows, starts, raced, hung>>

(* Mutant: no policy is given, and the default begins with the first.      *)
DefaultPolicy == 1
(* DeliverPolicy.LAST: the last message there is, or the first to come.    *)
FirstDelivered == Max({stream, 1})

Consumer(n, i) == [first |-> n, next |-> n, pending |-> <<>>, to |-> i]

(* Any error of add_consumer is ignored, that of a consumer that exists    *)
(* already too.                                                            *)
AddConsumer(i) ==
  /\ Goes(i, "add", "bind")
  /\ IF consumer = NoConsumer THEN AsMeant(Consumer(FirstDelivered, Nobody)) \/ NotAsMeant
                              ELSE AsMeant(consumer)
  /\ UNCHANGED <<stream, given, lock, sub, work, rows, starts, raced, hung>>

(* jetstream.subscribe binds the consumer.  If there is none it makes one  *)
(* of its own, with DeliverPolicy.ALL, which begins with the first message *)
(* of the stream again.  An error, and a bound consumer is one, leads to   *)
(* Core NATS.                                                              *)
Bind(i) ==
  /\ Goes(i, "bind", "running")
  /\ \/ /\ consumer # NoConsumer /\ consumer.to = Nobody
        /\ consumer' = [consumer EXCEPT !.to = i]
        /\ sub' = [sub EXCEPT ![i] = "js"]
        /\ faults' = faults
     \/ /\ consumer = NoConsumer
        /\ consumer' = Consumer(1, i)
        /\ sub' = [sub EXCEPT ![i] = "js"]
        /\ faults' = faults
     \/ /\ consumer.to # Nobody \/ faults < MaxFaults
        /\ sub' = [sub EXCEPT ![i] = "core"]
        /\ faults' = IF consumer.to # Nobody THEN faults ELSE faults + 1
        /\ consumer' = consumer
  /\ UNCHANGED <<stream, given, lock, work, rows, starts, replayed, raced, hung>>

-------------------------------------------------------------------------------
(* NATS publisher, stream and consumer.                                    *)

(* The publisher's connect, which makes sure of the stream.                *)
EnsureStream ==
  /\ stream = None /\ stream' = 0
  /\ UNCHANGED <<consumer, given, lock, pc, sub, work, rows, faulty>>

(* publish_data.  What the publisher is told of the outcome matters to     *)
(* nobody: it does not publish again.  A lost message is none here.        *)
Publish ==
  LET core == {i \in Processes : sub[i] = "core"}
  IN /\ stream \in 0..(MaxMessages - 1)
     /\ stream' = stream + 1
     /\ inbox' = [i \in Processes |-> IF i \in core THEN Append(inbox[i], stream') ELSE inbox[i]]
     /\ UNCHANGED <<consumer, given, lock, pc, sub, tries, rows, faulty>>

Pushed(n) == inbox' = [inbox EXCEPT ![consumer.to] = Append(@, n)]
With(n, count, due) ==
  [m \in Pending \cup {n} |-> IF m = n THEN [count |-> count, due |-> due] ELSE consumer.pending[m]]
Without(n) == Restrict(consumer.pending, Pending \ {n})

Deliver ==
  /\ consumer.to # Nobody /\ consumer.next <= stream
  /\ Cardinality(Pending) < MaxAckPending
  /\ Pushed(consumer.next)
  /\ consumer' = [consumer EXCEPT !.next = @ + 1, !.pending = With(consumer.next, 1, FALSE)]
  /\ UNCHANGED <<stream, given, lock, pc, sub, tries, rows, faulty>>

Held(n) == consumer.to # Nobody /\ \E k \in DOMAIN inbox[consumer.to] : inbox[consumer.to][k] = n

(* ack_wait has passed, while the message waits or is in work (one retry   *)
(* of many, or a queue before it), or because nobody has it any more.      *)
Expire(n) ==
  /\ n \in Pending /\ ~consumer.pending[n].due
  /\ IF Held(n) THEN Fault ELSE faults' = faults
  /\ consumer' = [consumer EXCEPT !.pending = With(n, @[n].count, TRUE)]
  /\ UNCHANGED <<stream, given, lock, pc, sub, work, rows, starts, replayed, raced, hung>>

(* Mutant: there is no limit.                                              *)
AnyNumber(n) == TRUE
MayAgain(n) == consumer.pending[n].count < MaxDeliver

Redeliver(n) ==
  /\ consumer.to # Nobody /\ n \in Pending /\ consumer.pending[n].due
  /\ IF MayAgain(n)
     THEN /\ Pushed(n)
          /\ consumer' = [consumer EXCEPT !.pending = With(n, @[n].count + 1, FALSE)]
          /\ given' = given
     ELSE /\ consumer' = [consumer EXCEPT !.pending = Without(n)]
          /\ given' = given \cup {n}
          /\ inbox' = inbox
  /\ UNCHANGED <<stream, lock, pc, sub, tries, rows, faulty>>

-------------------------------------------------------------------------------
(* _handle_message.                                                        *)

Message(i) == Head(inbox[i])
Working(i) == inbox[i] # <<>>
Dropped(i) ==
  /\ inbox' = [inbox EXCEPT ![i] = Tail(@)]
  /\ tries' = [tries EXCEPT ![i] = 0]

Acked(i) ==
  IF sub[i] = "js" /\ Message(i) \in Pending
  THEN consumer' = [consumer EXCEPT !.pending = Without(Message(i))]
  ELSE consumer' = consumer

(* Mutant: what cannot be stored is acknowledged.                          *)
AckedInstead(i) == Acked(i)
Naked(i) ==
  IF sub[i] = "js" /\ Message(i) \in Pending
  THEN consumer' = [consumer EXCEPT !.pending = With(Message(i), @[Message(i)].count, TRUE)]
  ELSE consumer' = consumer

Refuse(i) ==
  /\ Working(i) /\ Message(i) \in Bad
  /\ Naked(i) /\ Dropped(i)
  /\ UNCHANGED <<stream, given, lock, pc, sub, rows, faulty>>

(* _store_to_clickhouse, and the ack, which may get lost.  The TCP driver  *)
(* may raise after the server has stored the row, which then goes over     *)
(* HTTP once more.                                                         *)
Insert(i) ==
  /\ Working(i) /\ Message(i) \notin Bad
  /\ \E twice, lost \in BOOLEAN :
       /\ ~(twice /\ lost)
       /\ rows' = [rows EXCEPT ![Message(i)] = @ + (IF twice THEN 2 ELSE 1)]
       /\ IF lost THEN consumer' = consumer ELSE Acked(i)
       /\ IF twice \/ lost THEN Fault ELSE faults' = faults
  /\ Dropped(i)
  /\ UNCHANGED <<stream, given, lock, pc, sub, starts, replayed, raced, hung>>

(* An insert fails, stored or not; after the last try the message is given *)
(* back.                                                                   *)
InsertFails(i) ==
  /\ Working(i) /\ Message(i) \notin Bad /\ Fault
  /\ \E copies \in {0, 1} : rows' = [rows EXCEPT ![Message(i)] = @ + copies]
  /\ IF tries[i] + 1 = MaxAttempts
     THEN Naked(i) /\ Dropped(i)
     ELSE tries' = [tries EXCEPT ![i] = @ + 1] /\ UNCHANGED <<consumer, inbox>>
  /\ UNCHANGED <<stream, given, lock, pc, sub, starts, replayed, raced, hung>>

-------------------------------------------------------------------------------
(* The end of a subscription.  A callback in work is cancelled; its insert *)
(* may have been stored.                                                   *)

Unsubscribed(i) ==
  /\ sub' = [sub EXCEPT ![i] = "none"]
  /\ consumer' = IF consumer.to = i THEN [consumer EXCEPT !.to = Nobody] ELSE consumer
  /\ inbox' = [inbox EXCEPT ![i] = <<>>]
  /\ tries' = [tries EXCEPT ![i] = 0]
  /\ \/ rows' = rows
     \/ /\ Working(i) /\ Message(i) \notin Bad
        /\ rows' = [rows EXCEPT ![Message(i)] = @ + 1]

(* stop() up to _release_singleton_lock.                                   *)
Stop(i) ==
  /\ Goes(i, "running", "stopped")
  /\ Unsubscribed(i)
  /\ UNCHANGED <<stream, given, lock, faulty>>

(* An exception of stop(): it releases the lock and does nothing else.     *)
StopFails(i) ==
  /\ Goes(i, "running", "stopped") /\ Fault
  /\ hung' = TRUE
  /\ UNCHANGED <<stream, consumer, given, lock, sub, work, rows, starts, replayed, raced>>

(* The NATS client gives up reconnecting: closed_cb only logs it.          *)
CutOff(i) ==
  /\ sub[i] # "none" /\ Fault
  /\ Unsubscribed(i)
  /\ UNCHANGED <<stream, given, lock, pc, starts, replayed, raced, hung>>

(* The process dies; the system takes its locks back.                      *)
Crash(i) ==
  /\ pc[i] # "down" /\ Fault
  /\ pc' = [pc EXCEPT ![i] = "down"]
  /\ Released(i) /\ Unsubscribed(i)
  /\ UNCHANGED <<stream, given, file, starts, replayed, raced, hung>>

-------------------------------------------------------------------------------

Init ==
  /\ stream = None /\ consumer = NoConsumer /\ given = {}
  /\ file = None /\ locked = [f \in Files |-> Nobody] /\ fd = [i \in Processes |-> None]
  /\ pc = [i \in Processes |-> "down"] /\ sub = [i \in Processes |-> "none"]
  /\ inbox = [i \in Processes |-> <<>>] /\ tries = [i \in Processes |-> 0]
  /\ rows = [n \in 1..MaxMessages |-> 0]
  /\ starts = 0 /\ faults = 0 /\ replayed = 0 /\ raced = FALSE /\ hung = FALSE

Process(i) ==
  \/ Lock(i) \/ NotReady(i) \/ DeleteConsumer(i) \/ AddConsumer(i) \/ Bind(i)
  \/ Refuse(i) \/ Insert(i) \/ InsertFails(i)
  \/ Unlock(i) \/ Unlink(i)
Nats == Deliver \/ \E n \in 1..MaxMessages : Expire(n) \/ Redeliver(n)

Next ==
  \/ EnsureStream \/ Publish \/ Nats
  \/ \E i \in Processes :
       Process(i) \/ Start(i) \/ Stop(i) \/ StopFails(i) \/ CutOff(i) \/ Crash(i)

Spec == Init /\ [][Next]_vars

(* NATS delivers, also again, and a process that runs gets on, whatever of *)
(* it comes first: there is a limit to all they have to do.  Nobody need   *)
(* start or stop one, or publish.                                          *)
Fairness == WF_vars(Nats) /\ \A i \in Processes : WF_vars(Process(i))
FairSpec == Spec /\ Fairness

-------------------------------------------------------------------------------
(* Properties.                                                             *)

TypeOK ==
  /\ stream \in None..MaxMessages /\ given \subseteq 1..MaxMessages
  /\ consumer.to \in Processes \cup {Nobody} /\ consumer.first <= consumer.next
  /\ Pending \subseteq 1..(consumer.next - 1) /\ Cardinality(Pending) <= MaxAckPending
  /\ \A n \in Pending : consumer.pending[n].count \in 1..MaxDeliver
  /\ file \in {None} \cup Files
  /\ \A i \in Processes :
       /\ fd[i] \in {None} \cup Files
       /\ Range(inbox[i]) \subseteq 1..stream /\ sub[i] \in {"none", "js", "core"}
       /\ tries[i] \in 0..(MaxAttempts - 1) /\ (tries[i] # 0 => inbox[i] # <<>>)
       /\ pc[i] \in {"down", "opened", "waiting", "add", "bind", "running", "stopped",
                     "unlocked", "hung"}

(* What the consumer has delivered is in ClickHouse, still owed an ack, or *)
(* has been delivered max_deliver times: no message is acknowledged before *)
(* its row is stored.                                                      *)
NothingForgotten ==
  \A n \in consumer.first..(consumer.next - 1) :
    n \in Pending \cup given \/ rows[n] > 0

(* A row is in ClickHouse twice only for a cause, and once more only for   *)
(* each: an insert that failed and did not, a lost or late ack, a crash; a *)
(* start, which begins with the last message again; and a message that was *)
(* stored when the consumer could not be deleted, or no new one added,     *)
(* which the old one, or the subscription's own, brings again.             *)
CopiesPaidFor ==
  \/ raced \/ hung
  \/ SumFunction([n \in DOMAIN rows |-> Max({rows[n] - 1, 0})])
       <= faults + Max({starts - 1, 0}) + replayed

(* Two processes never run at once, unless one was starting while another  *)
(* stopped and lost the file it had locked, or a stop() failed.            *)
Runs(i) == pc[i] \in {"waiting", "add", "bind", "running"} \/ sub[i] # "none"
OneRuns == raced \/ hung \/ \A i, j \in Processes : Runs(i) /\ Runs(j) => i = j

(* A published message comes to ClickHouse, if some process stays          *)
(* subscribed in the end: unless it was published before the last start    *)
(* and is not the last, is refused, or failed max_deliver times.           *)
Served == \E i \in Processes : sub[i] = "js" /\ consumer.to = i
Settled(n) ==
  n \in Bad \cup given \/ rows[n] > 0 \/ (consumer # NoConsumer /\ n < consumer.first)
PublishedIsStored ==
  <>[]Served => \A n \in 1..MaxMessages : (n <= stream) ~> Settled(n)
===============================================================================
