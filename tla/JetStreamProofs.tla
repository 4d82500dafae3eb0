---------------------------- MODULE JetStreamProofs ----------------------------
(***************************************************************************)
(* The hot storage service on JetStream, for any number of processes,      *)
(* messages and faults.  First, its lock file lets one process run: the    *)
(* two ways around it that OneRuns names are the only ones.  Then, whether *)
(* or not it does, no message is acknowledged before it is stored, and     *)
(* every variable keeps its type.  Last, while one process runs at a time, *)
(* a row comes to ClickHouse once more only for a cause.                   *)
(***************************************************************************)
EXTENDS JetStreamIngest, SequenceTheorems, FiniteSetTheorems, WellFoundedInduction, TLAPS

-------------------------------------------------------------------------------
(* The lock file.                                                          *)

Locking == {"waiting", "add", "bind", "running", "stopped"}
Pcs == Locking \cup {"down", "opened", "unlocked", "hung"}

(* While no file has been unlinked that another process has open, all open *)
(* files are the one at the path, and who is past Lock holds its lock.     *)
Ordered ==
  /\ pc \in [Processes -> Pcs] /\ sub \in [Processes -> {"none", "js", "core"}]
  /\ fd \in [Processes -> Files \cup {None}] /\ file \in Files \cup {None}
  /\ locked \in [Files -> Processes \cup {Nobody}]
  /\ \A i \in Processes : fd[i] # None => fd[i] = file
  /\ \A i \in Processes : pc[i] \in Locking => fd[i] # None /\ locked[fd[i]] = i
  /\ \A i \in Processes : pc[i] = "opened" <=> fd[i] # None /\ pc[i] \notin Locking

(* A process with a subscription runs, unless its stop() failed.           *)
Subscribed == hung \/ \A i \in Processes : sub[i] # "none" => pc[i] = "running"

LockInv == raced \/ (Ordered /\ Subscribed)

(* There is a number for a first file, and it is not None.                 *)
LEMMA SomeFile == 1 \in Files /\ None \notin Files
<1>1. Cardinality(Processes) \in Nat
  BY FS_CardinalityType, SettingsAssumption DEF SettingsAssumption
<1> QED
  BY <1>1 DEF Files, None

(* If no process has a file open, a new one gets a number that is free.    *)
LEMMA NewFileIsFile ==
  ASSUME fd \in [Processes -> Files \cup {None}], \A i \in Processes : fd[i] = None
  PROVE  NewFile \in Files
<1>1. 1 \notin Range(fd)
  BY SomeFile DEF Range
<1> QED
  BY <1>1, SomeFile DEF NewFile

LEMMA InitLock == Init => LockInv
BY SomeFile DEF Init, LockInv, Ordered, Subscribed, Pcs, Locking

(* What start() does to the lock file: open it, then lock it or leave.     *)
LEMMA OpeningKeeps ==
  ASSUME Ordered, Subscribed, NEW i \in Processes, Start(i) \/ Lock(i)
  PROVE  Ordered' /\ Subscribed'
<1>1. CASE Start(i)
  <2>1. file' \in Files
    <3>1. CASE file = None
      BY <3>1, <1>1, NewFileIsFile DEF Start, Ordered
    <3>2. CASE file # None
      BY <3>2, <1>1 DEF Start, Ordered
    <3> QED BY <3>1, <3>2
  <2>2. \A j \in Processes : fd[j] # None => fd[j] = file'
    BY <1>1 DEF Start, Ordered
  <2> QED
    BY <1>1, <2>1, <2>2, SomeFile DEF Start, Goes, Ordered, Subscribed, Pcs, Locking, work
<1>2. CASE Lock(i)
  <2>1. fd[i] \in Files /\ pc[i] = "opened"
    BY <1>2 DEF Lock, Goes, Ordered, Locking
  <2>2. CASE Goes(i, "opened", "waiting") /\ Free(i)
    <3>1. \A j \in Processes : j # i => pc[j] \notin Locking
      BY <2>1, <2>2, NobodyAssumption DEF Free, Ordered
    <3> QED
      BY <1>2, <2>1, <2>2, <3>1, NobodyAssumption
      DEF Lock, Goes, Free, Ordered, Subscribed, Pcs, Locking, work, faulty
  <2>3. CASE Goes(i, "opened", "down") /\ ~Free(i)
    BY <1>2, <2>1, <2>3 DEF Lock, Goes, Ordered, Subscribed, Pcs, Locking, work, faulty
  <2> QED BY <1>2, <2>2, <2>3 DEF Lock
<1> QED BY <1>1, <1>2

(* Giving the lock back takes it from nobody else.                         *)
LEMMA ReleasedKeeps ==
  ASSUME Ordered, NEW i \in Processes, Released(i), file' = file,
         NEW p \in {"down", "unlocked"}, pc' = [pc EXCEPT ![i] = p],
         sub' \in [Processes -> {"none", "js", "core"}]
  PROVE  Ordered'
<1>1. \A j \in Processes : j # i /\ pc[j] \in Locking =>
        fd'[j] = fd[j] /\ fd[j] # None /\ locked'[fd[j]] = j
  BY NobodyAssumption DEF Ordered, Released
<1>2. fd' = [fd EXCEPT ![i] = None] /\ locked' \in [Files -> Processes \cup {Nobody}]
  <2>1. CASE fd[i] = None
    BY <2>1 DEF Ordered, Released
  <2>2. CASE fd[i] # None
    BY <2>2 DEF Ordered, Released
  <2> QED BY <2>1, <2>2
<1>3. pc' \in [Processes -> Pcs] /\ pc'[i] = p /\ p \notin Locking /\ p # "opened"
  BY DEF Ordered, Pcs, Locking
<1>4. \A j \in Processes : j # i => pc'[j] = pc[j] /\ fd'[j] = fd[j]
  BY <1>2 DEF Ordered
<1>5. fd'[i] = None /\ fd' \in [Processes -> Files \cup {None}]
  BY <1>2 DEF Ordered
<1> QED
  BY <1>1, <1>2, <1>3, <1>4, <1>5 DEF Ordered

LEMMA UnsubscribedSub ==
  ASSUME Ordered, NEW i \in Processes, Unsubscribed(i)
  PROVE  sub' \in [Processes -> {"none", "js", "core"}] /\ sub' = [sub EXCEPT ![i] = "none"]
BY DEF Ordered, Unsubscribed

(* The ways to leave: stop() step by step, or the process dies.            *)
LEMMA ClosingKeeps ==
  ASSUME Ordered, Subscribed, NEW i \in Processes,
         Unlock(i) \/ (Unlink(i) /\ ~raced') \/ Crash(i)
  PROVE  Ordered' /\ Subscribed'
<1>1. CASE Unlock(i)
  <2>1. Ordered'
    BY <1>1, ReleasedKeeps DEF Unlock, Goes, Ordered
  <2> QED
    BY <1>1, <2>1 DEF Unlock, Goes, Ordered, Subscribed, faulty
<1>2. CASE Unlink(i) /\ ~raced'
  <2>1. \A j \in Processes : fd[j] = None
    BY <1>2 DEF Unlink, Unlinked, Ordered
  <2> QED
    BY <1>2, <2>1 DEF Unlink, Unlinked, Goes, Ordered, Subscribed, Pcs, Locking
<1>3. CASE Crash(i)
  <2>1. Ordered'
    BY <1>3, ReleasedKeeps, UnsubscribedSub DEF Crash
  <2> QED
    BY <1>3, <2>1, UnsubscribedSub DEF Crash, Ordered, Subscribed
<1> QED BY <1>1, <1>2, <1>3

(* Steps within start() and stop() that leave the lock alone.              *)
LEMMA StartingKeeps ==
  ASSUME Ordered, Subscribed, NEW i \in Processes,
         NotReady(i) \/ DeleteConsumer(i) \/ AddConsumer(i) \/ Bind(i)
  PROVE  Ordered' /\ Subscribed'
<1> USE DEF lock, Goes, Ordered, Subscribed, Pcs, Locking
<1>1. CASE NotReady(i)
  BY <1>1 DEF NotReady, faulty
<1>2. CASE DeleteConsumer(i)
  BY <1>2 DEF DeleteConsumer, faulty
<1>3. CASE AddConsumer(i)
  BY <1>3 DEF AddConsumer, faulty
<1>4. CASE Bind(i)
  BY <1>4 DEF Bind
<1> QED BY <1>1, <1>2, <1>3, <1>4

LEMMA StoppingKeeps ==
  ASSUME Ordered, Subscribed, NEW i \in Processes, Stop(i) \/ StopFails(i) \/ CutOff(i)
  PROVE  Ordered' /\ Subscribed'
<1> USE DEF lock, Goes, Ordered, Subscribed, Pcs, Locking
<1>1. CASE Stop(i)
  BY <1>1, UnsubscribedSub DEF Stop, faulty
<1>2. CASE StopFails(i)
  BY <1>2 DEF StopFails
<1>3. CASE CutOff(i)
  BY <1>3, UnsubscribedSub DEF CutOff
<1> QED BY <1>1, <1>2, <1>3

Untouched == UNCHANGED <<lock, pc, sub, raced, hung>>

LEMMA UntouchedKeeps == LockInv /\ Untouched => LockInv'
BY DEF LockInv, Ordered, Subscribed, Untouched, lock, Runs

(* Messages, rows and the consumer have nothing to do with the lock.       *)
LEMMA DataSteps ==
  ASSUME EnsureStream \/ Publish \/ Nats
         \/ \E i \in Processes : Refuse(i) \/ Insert(i) \/ InsertFails(i)
  PROVE  Untouched
<1>1. CASE EnsureStream \/ Publish
  BY <1>1 DEF EnsureStream, Publish, Untouched, faulty
<1>2. CASE Nats
  BY <1>2 DEF Nats, Deliver, Expire, Redeliver, Untouched, faulty, work
<1>3. ASSUME NEW i \in Processes, Refuse(i) \/ Insert(i) \/ InsertFails(i) PROVE Untouched
  BY <1>3 DEF Refuse, Insert, InsertFails, Untouched, faulty
<1> QED BY <1>1, <1>2, <1>3

(* A file that was unlinked under another process stays so.                *)
LEMMA RacedStays == raced /\ [Next]_vars => raced'
<1> SUFFICES ASSUME raced, [Next]_vars PROVE raced'
  OBVIOUS
<1>1. CASE UNCHANGED vars
  BY <1>1 DEF vars, faulty
<1>2. CASE EnsureStream \/ Publish \/ Nats
           \/ \E i \in Processes : Refuse(i) \/ Insert(i) \/ InsertFails(i)
  BY <1>2, DataSteps DEF Untouched
<1>3. ASSUME NEW i \in Processes,
             Lock(i) \/ NotReady(i) \/ DeleteConsumer(i) \/ AddConsumer(i) \/ Bind(i)
             \/ Unlock(i) \/ Unlink(i)
      PROVE raced'
  BY <1>3 DEF Lock, NotReady, DeleteConsumer, AddConsumer, Bind, Unlock, Unlink, Unlinked, faulty
<1>4. ASSUME NEW i \in Processes,
             Start(i) \/ Stop(i) \/ StopFails(i) \/ CutOff(i) \/ Crash(i)
      PROVE raced'
  BY <1>4 DEF Start, Stop, StopFails, CutOff, Crash, faulty
<1> QED
  BY <1>1, <1>2, <1>3, <1>4 DEF Next, Process

LEMMA StepLock == LockInv /\ [Next]_vars => LockInv'
<1> SUFFICES ASSUME LockInv, [Next]_vars PROVE LockInv'
  OBVIOUS
<1>1. CASE raced
  BY <1>1, RacedStays DEF LockInv
<1>2. CASE ~raced /\ raced'
  BY <1>2 DEF LockInv
<1>3. CASE ~raced /\ ~raced'
  <2>1. Ordered /\ Subscribed
    BY <1>3 DEF LockInv
  <2>2. CASE UNCHANGED vars
    BY <2>2, UntouchedKeeps DEF vars, Untouched, faulty
  <2>3. CASE EnsureStream \/ Publish \/ Nats
             \/ \E i \in Processes : Refuse(i) \/ Insert(i) \/ InsertFails(i)
    BY <2>3, DataSteps, UntouchedKeeps
  <2>4. ASSUME NEW i \in Processes,
               Lock(i) \/ NotReady(i) \/ DeleteConsumer(i) \/ AddConsumer(i) \/ Bind(i)
               \/ Unlock(i) \/ Unlink(i)
        PROVE LockInv'
    BY <2>4, <2>1, <1>3, OpeningKeeps, StartingKeeps, ClosingKeeps DEF LockInv
  <2>5. ASSUME NEW i \in Processes,
               Start(i) \/ Stop(i) \/ StopFails(i) \/ CutOff(i) \/ Crash(i)
        PROVE LockInv'
    BY <2>5, <2>1, OpeningKeeps, StoppingKeeps, ClosingKeeps DEF LockInv
  <2> QED
    BY <2>2, <2>3, <2>4, <2>5 DEF Next, Process
<1> QED BY <1>1, <1>2, <1>3

LEMMA OneRunsFromLock == LockInv => OneRuns
<1> SUFFICES ASSUME Ordered, Subscribed, ~hung,
                    NEW i \in Processes, NEW j \in Processes, Runs(i), Runs(j)
             PROVE i = j
  BY DEF LockInv, OneRuns
<1>1. pc[i] \in Locking /\ pc[j] \in Locking
  BY DEF Runs, Subscribed, Locking
<1> QED
  BY <1>1 DEF Ordered

(* The lock file keeps processes of the hot service from running at once,  *)
(* except in the two cases OneRuns names.                                  *)
THEOREM LockExcludes == Spec => []OneRuns
<1>1. Spec => []LockInv
  BY InitLock, StepLock, PTL DEF Spec
<1> QED
  BY <1>1, OneRunsFromLock, PTL

-------------------------------------------------------------------------------
(* Delivery.                                                               *)

Ids == 1..MaxMessages

(* Types of what the messages pass through.  Numbers to be delivered next  *)
(* may be one beyond the last message.                                     *)
ConsumerOK ==
  /\ consumer = [first |-> consumer.first, next |-> consumer.next,
                 pending |-> consumer.pending, to |-> consumer.to]
  /\ consumer = NoConsumer \/ {consumer.first, consumer.next} \subseteq 1..(MaxMessages + 1)
DataOK ==
  /\ stream \in None..MaxMessages
  /\ ConsumerOK
  /\ inbox \in [Processes -> Seq(Ids)]
  /\ rows \in [Ids -> Nat]

DeliveryInv == DataOK /\ NothingForgotten

LEMMA InitDelivery == Init => DeliveryInv
BY SettingsAssumption
DEF SettingsAssumption, Init, DeliveryInv, DataOK, ConsumerOK, NothingForgotten, NoConsumer, None, Ids

LEMMA WithDomain ==
  ASSUME NEW n, NEW count, NEW due PROVE DOMAIN With(n, count, due) = Pending \cup {n}
BY DEF With

LEMMA WithoutDomain == ASSUME NEW n PROVE DOMAIN Without(n) = Pending \ {n}
BY DEF Without, Restrict

(* A step that leaves the consumer where it is, and takes a message from   *)
(* those pending only if it is stored or given up.                         *)
Grows == \A n \in Ids : rows[n] > 0 => rows'[n] > 0
Careful ==
  /\ consumer'.first = consumer.first /\ consumer'.next = consumer.next
  /\ given \subseteq given' /\ Grows
  /\ \A n \in Ids : n \in Pending => n \in Pending' \cup given' \/ rows'[n] > 0

LEMMA CarefulKeeps == ASSUME DeliveryInv, Careful PROVE NothingForgotten'
<1> SUFFICES ASSUME NEW n \in consumer.first..(consumer.next - 1)
             PROVE  n \in Pending' \cup given' \/ rows'[n] > 0
  BY DEF NothingForgotten, Careful
<1>1. n \in Ids
  BY SettingsAssumption DEF DeliveryInv, DataOK, ConsumerOK, NoConsumer, None, Ids, SettingsAssumption
<1> QED
  BY <1>1 DEF DeliveryInv, NothingForgotten, Careful, Grows

(* A step that leaves consumer and rows alone, or does to the consumer     *)
(* what Acked, Naked and Expire do, is a careful one.                      *)
LEMMA SameIsCareful ==
  ASSUME DeliveryInv, consumer' = consumer, given' = given, Grows PROVE Careful /\ ConsumerOK'
BY DEF DeliveryInv, DataOK, ConsumerOK, Careful, Pending, NoConsumer

PendingOnly == consumer' = [consumer EXCEPT !.pending = consumer'.pending]

LEMMA PendingOnlyKeeps ==
  ASSUME DeliveryInv, PendingOnly, Pending # {} PROVE
    /\ consumer'.first = consumer.first /\ consumer'.next = consumer.next
    /\ consumer'.to = consumer.to
    /\ ConsumerOK'
<1>1. consumer # NoConsumer
  BY DEF NoConsumer, Pending
<1> QED
  BY <1>1 DEF DeliveryInv, DataOK, ConsumerOK, PendingOnly

LEMMA AckedIsCareful ==
  ASSUME DeliveryInv, NEW i \in Processes, Acked(i), given' = given, Grows,
         Message(i) \in Ids => rows'[Message(i)] > 0
  PROVE  Careful /\ ConsumerOK'
<1>1. CASE consumer' = consumer
  BY <1>1, SameIsCareful
<1>2. CASE Message(i) \in Pending /\ consumer' = [consumer EXCEPT !.pending = Without(Message(i))]
  <2>1. PendingOnly /\ Pending' = Pending \ {Message(i)}
    BY <1>2, WithoutDomain DEF DeliveryInv, DataOK, ConsumerOK, PendingOnly, Pending
  <2> QED
    BY <1>2, <2>1, PendingOnlyKeeps DEF Careful
<1> QED BY <1>1, <1>2 DEF Acked

LEMMA NakedIsCareful ==
  ASSUME DeliveryInv, NEW i \in Processes, Naked(i), given' = given, Grows
  PROVE  Careful /\ ConsumerOK'
<1>1. CASE consumer' = consumer
  BY <1>1, SameIsCareful
<1>2. CASE /\ Message(i) \in Pending
           /\ consumer' = [consumer EXCEPT
                !.pending = With(Message(i), consumer.pending[Message(i)].count, TRUE)]
  <2>1. PendingOnly /\ Pending' = Pending \cup {Message(i)}
    BY <1>2, WithDomain DEF DeliveryInv, DataOK, ConsumerOK, PendingOnly, Pending
  <2> QED
    BY <1>2, <2>1, PendingOnlyKeeps DEF Careful
<1> QED BY <1>1, <1>2 DEF Naked

-------------------------------------------------------------------------------
(* The steps of the service.                                               *)

InboxOK == inbox \in [Processes -> Seq(Ids)]

LEMMA DroppedTypes ==
  ASSUME DeliveryInv, NEW i \in Processes, Working(i)
  PROVE  Message(i) \in Ids /\ (Dropped(i) => InboxOK')
<1>1. inbox[i] \in Seq(Ids) /\ inbox[i] # <<>>
  BY DEF DeliveryInv, DataOK, Working
<1>2. Head(inbox[i]) \in Ids /\ Tail(inbox[i]) \in Seq(Ids)
  BY <1>1, HeadTailProperties
<1> QED
  BY <1>2 DEF DeliveryInv, DataOK, Message, Dropped, InboxOK

LEMMA MoreCopies ==
  ASSUME DeliveryInv, NEW n \in Ids, NEW k \in {0, 1, 2}, rows' = [rows EXCEPT ![n] = @ + k]
  PROVE  rows' \in [Ids -> Nat] /\ Grows /\ (k > 0 => rows'[n] > 0)
BY DEF DeliveryInv, DataOK, Grows

LEMMA SameCopies == ASSUME DeliveryInv, rows' = rows PROVE rows' \in [Ids -> Nat] /\ Grows
BY DEF DeliveryInv, DataOK, Grows

LEMMA RefuseKeeps ==
  ASSUME DeliveryInv, NEW i \in Processes, Refuse(i) PROVE Careful /\ DataOK'
<1>1. /\ stream' = stream /\ given' = given /\ rows' = rows
      /\ Working(i) /\ Dropped(i) /\ Naked(i)
  BY DEF Refuse
<1> QED
  BY <1>1, NakedIsCareful, DroppedTypes, SameCopies DEF DeliveryInv, DataOK, InboxOK

LEMMA InsertKeeps ==
  ASSUME DeliveryInv, NEW i \in Processes, Insert(i) PROVE Careful /\ DataOK'
<1>1. /\ stream' = stream /\ given' = given
      /\ Working(i) /\ Dropped(i) /\ (consumer' = consumer \/ Acked(i))
      /\ \E twice \in BOOLEAN :
           rows' = [rows EXCEPT ![Message(i)] = @ + (IF twice THEN 2 ELSE 1)]
  BY DEF Insert
<1>2. Message(i) \in Ids /\ InboxOK'
  BY <1>1, DroppedTypes
<1>3. rows' \in [Ids -> Nat] /\ Grows /\ rows'[Message(i)] > 0
  <2>1. PICK k \in {1, 2} : rows' = [rows EXCEPT ![Message(i)] = @ + k]
    BY <1>1
  <2>2. k \in {0, 1, 2} /\ k > 0
    OBVIOUS
  <2>3. Message(i) \in Ids
    BY <1>2
  <2> QED
    BY <2>1, <2>2, <2>3, MoreCopies
<1>4. Careful /\ ConsumerOK'
  BY <1>1, <1>2, <1>3, SameIsCareful, AckedIsCareful
<1> QED
  BY <1>1, <1>2, <1>3, <1>4 DEF DeliveryInv, DataOK, InboxOK

LEMMA InsertFailsKeeps ==
  ASSUME DeliveryInv, NEW i \in Processes, InsertFails(i) PROVE Careful /\ DataOK'
<1>1. /\ stream' = stream /\ given' = given /\ Working(i)
      /\ (Naked(i) /\ Dropped(i)) \/ UNCHANGED <<consumer, inbox>>
      /\ \E copies \in {0, 1} : rows' = [rows EXCEPT ![Message(i)] = @ + copies]
  BY DEF InsertFails
<1>2. Message(i) \in Ids /\ InboxOK'
  BY <1>1, DroppedTypes DEF DeliveryInv, DataOK, InboxOK
<1>3. rows' \in [Ids -> Nat] /\ Grows
  BY <1>1, <1>2, MoreCopies
<1>4. Careful /\ ConsumerOK'
  BY <1>1, <1>3, SameIsCareful, NakedIsCareful
<1> QED
  BY <1>1, <1>2, <1>3, <1>4 DEF DeliveryInv, DataOK, InboxOK

(* Only who gets the messages changes.                                     *)
LEMMA ToIsCareful ==
  ASSUME DeliveryInv, NEW i, consumer # NoConsumer, consumer' = [consumer EXCEPT !.to = i],
         given' = given, Grows
  PROVE  Careful /\ ConsumerOK'
BY DEF DeliveryInv, DataOK, ConsumerOK, Careful, Pending

LEMMA UnsubscribedKeeps ==
  ASSUME DeliveryInv, NEW i \in Processes, Unsubscribed(i), stream' = stream, given' = given
  PROVE  Careful /\ DataOK'
<1>1. InboxOK'
  BY DEF Unsubscribed, DeliveryInv, DataOK, InboxOK
<1>2. rows' \in [Ids -> Nat] /\ Grows
  <2>1. CASE rows' = rows
    BY <2>1, SameCopies
  <2>2. CASE Working(i) /\ rows' = [rows EXCEPT ![Message(i)] = @ + 1]
    BY <2>2, DroppedTypes, MoreCopies
  <2> QED BY <2>1, <2>2 DEF Unsubscribed
<1>3. Careful /\ ConsumerOK'
  <2>1. CASE consumer' = consumer
    BY <2>1, <1>2, SameIsCareful
  <2>2. CASE consumer.to = i /\ consumer' = [consumer EXCEPT !.to = Nobody]
    <3>1. consumer # NoConsumer
      BY <2>2, NobodyAssumption DEF NoConsumer
    <3> QED
      BY <2>2, <3>1, <1>2, ToIsCareful
  <2> QED BY <2>1, <2>2 DEF Unsubscribed
<1> QED
  BY <1>1, <1>2, <1>3 DEF DeliveryInv, DataOK, InboxOK

LEMMA LeavingKeeps ==
  ASSUME DeliveryInv, NEW i \in Processes, Stop(i) \/ StopFails(i) \/ CutOff(i) \/ Crash(i)
  PROVE  Careful /\ DataOK'
<1>1. CASE StopFails(i)
  <2>1. UNCHANGED <<stream, consumer, given, inbox, rows>>
    BY <1>1 DEF StopFails, work
  <2> QED
    BY <2>1, SameIsCareful, SameCopies DEF DeliveryInv, DataOK
<1>2. CASE Stop(i) \/ CutOff(i) \/ Crash(i)
  BY <1>2, UnsubscribedKeeps DEF Stop, CutOff, Crash
<1> QED BY <1>1, <1>2

(* start(): a new consumer has nothing delivered yet.                      *)
LEMMA SubscribingKeeps ==
  ASSUME DeliveryInv, NEW i \in Processes, DeleteConsumer(i) \/ AddConsumer(i) \/ Bind(i)
  PROVE  DeliveryInv'
<1>1. /\ UNCHANGED <<stream, given, inbox, rows>>
      /\ stream # None \/ ~DeleteConsumer(i)
  BY DEF DeleteConsumer, AddConsumer, Bind, work
<1>2. FirstDelivered \in 1..(MaxMessages + 1)
  <2>1. stream \in Int /\ Max({stream, 1}) = IF stream > 1 THEN stream ELSE 1
    BY DEF DeliveryInv, DataOK, None, Max
  <2> QED
    BY <2>1, SettingsAssumption DEF FirstDelivered, DeliveryInv, DataOK, SettingsAssumption
<1>3. CASE consumer' = consumer
  BY <1>1, <1>3, SameIsCareful, SameCopies, CarefulKeeps DEF DeliveryInv, DataOK
<1>4. CASE consumer # NoConsumer /\ consumer' = [consumer EXCEPT !.to = i]
  BY <1>1, <1>4, ToIsCareful, SameCopies, CarefulKeeps DEF DeliveryInv, DataOK
<1>5. CASE consumer' = NoConsumer
  BY <1>1, <1>5 DEF DeliveryInv, DataOK, ConsumerOK, NothingForgotten, NoConsumer, None
<1>6. CASE \E n \in 1..(MaxMessages + 1), p \in Processes \cup {Nobody} : consumer' = Consumer(n, p)
  BY <1>1, <1>6 DEF DeliveryInv, DataOK, ConsumerOK, NothingForgotten, Consumer
<1>7. 1 \in 1..(MaxMessages + 1)
  BY SettingsAssumption DEF SettingsAssumption
<1> QED
  BY <1>2, <1>3, <1>4, <1>5, <1>6, <1>7 DEF DeleteConsumer, AddConsumer, Bind, AsMeant, NotAsMeant

-------------------------------------------------------------------------------
(* The steps of publisher and broker.                                      *)

LEMMA PublishKeeps == ASSUME DeliveryInv, EnsureStream \/ Publish PROVE Careful /\ DataOK'
<1>1. UNCHANGED <<consumer, given, rows>>
  BY DEF EnsureStream, Publish
<1>2. stream' \in None..MaxMessages /\ InboxOK'
  <2>1. CASE EnsureStream
    BY <2>1, SettingsAssumption
    DEF EnsureStream, SettingsAssumption, DeliveryInv, DataOK, InboxOK, None, work
  <2>2. CASE Publish
    <3>1. stream' \in Ids
      BY <2>2, SettingsAssumption DEF Publish, SettingsAssumption, Ids
    <3>2. \A i \in Processes : Append(inbox[i], stream') \in Seq(Ids)
      BY <3>1, AppendProperties DEF DeliveryInv, DataOK
    <3>3. stream' \in None..MaxMessages
      BY <3>1, SettingsAssumption DEF None, Ids, SettingsAssumption
    <3>4. InboxOK'
      BY <2>2, <3>2 DEF Publish, DeliveryInv, DataOK, InboxOK
    <3> QED BY <3>3, <3>4
  <2> QED BY <2>1, <2>2
<1> QED
  BY <1>1, <1>2, SameIsCareful, SameCopies DEF DeliveryInv, DataOK, InboxOK

LEMMA PushedTypes ==
  ASSUME DeliveryInv, NEW n \in Ids, Pushed(n) PROVE InboxOK'
<1>1. \A i \in Processes : Append(inbox[i], n) \in Seq(Ids)
  BY AppendProperties DEF DeliveryInv, DataOK
<1> QED
  BY <1>1 DEF Pushed, DeliveryInv, DataOK, InboxOK

(* A message that is delivered is pending from then on.                    *)
LEMMA DeliverKeeps == ASSUME DeliveryInv, Deliver PROVE DeliveryInv'
<1> DEFINE n == consumer.next
<1>1. /\ UNCHANGED <<stream, given, rows>> /\ Pushed(n)
      /\ consumer.to # Nobody /\ n <= stream
      /\ consumer' = [consumer EXCEPT !.next = n + 1, !.pending = With(n, 1, FALSE)]
  BY DEF Deliver
<1>2. {consumer.first, n} \subseteq 1..(MaxMessages + 1) /\ n \in Ids
  BY <1>1, SettingsAssumption
  DEF DeliveryInv, DataOK, ConsumerOK, NoConsumer, Ids, None, SettingsAssumption
<1>3. /\ consumer'.first = consumer.first /\ consumer'.next = n + 1
      /\ Pending' = Pending \cup {n} /\ ConsumerOK'
  <2>1. DOMAIN With(n, 1, FALSE) = Pending \cup {n}
    BY WithDomain
  <2>2. consumer' = [first |-> consumer.first, next |-> n + 1,
                     pending |-> With(n, 1, FALSE), to |-> consumer.to]
    BY <1>1 DEF DeliveryInv, DataOK, ConsumerOK
  <2>3. n + 1 \in 1..(MaxMessages + 1)
    BY <1>2, SettingsAssumption DEF Ids, SettingsAssumption
  <2> QED
    BY <1>2, <2>1, <2>2, <2>3 DEF ConsumerOK, Pending
<1>4. DataOK'
  BY <1>1, <1>2, <1>3, PushedTypes DEF DeliveryInv, DataOK, InboxOK
<1>5. NothingForgotten'
  BY <1>1, <1>2, <1>3 DEF DeliveryInv, NothingForgotten
<1> QED
  BY <1>4, <1>5 DEF DeliveryInv

LEMMA AgainKeeps ==
  ASSUME DeliveryInv, NEW n \in Ids, Expire(n) \/ Redeliver(n) PROVE Careful /\ DataOK'
<1>1. UNCHANGED <<stream, rows>> /\ given \subseteq given' /\ n \in Pending
  BY DEF Expire, Redeliver
<1>2. InboxOK'
  <2>1. CASE inbox' = inbox
    BY <2>1 DEF DeliveryInv, DataOK, InboxOK
  <2>2. CASE Pushed(n)
    BY <2>2, PushedTypes
  <2> QED BY <2>1, <2>2 DEF Expire, Redeliver, work
<1>3. PendingOnly /\ \A m \in Pending : m \in Pending' \cup given'
  <2>1. ASSUME NEW count, NEW due,
               consumer' = [consumer EXCEPT !.pending = With(n, count, due)]
        PROVE  PendingOnly /\ Pending' = Pending \cup {n}
    BY <2>1, WithDomain DEF DeliveryInv, DataOK, ConsumerOK, PendingOnly, Pending
  <2>2. CASE Expire(n)
    BY <2>1, <2>2 DEF Expire
  <2>3. CASE Redeliver(n) /\ MayAgain(n)
    BY <2>1, <2>3 DEF Redeliver
  <2>4. CASE Redeliver(n) /\ ~MayAgain(n)
    <3>1. consumer' = [consumer EXCEPT !.pending = Without(n)] /\ given' = given \cup {n}
      BY <2>4 DEF Redeliver
    <3>2. PendingOnly /\ Pending' = Pending \ {n}
      BY <3>1, WithoutDomain DEF DeliveryInv, DataOK, ConsumerOK, PendingOnly, Pending
    <3> QED BY <3>1, <3>2
  <2> QED BY <2>2, <2>3, <2>4
<1>4. Careful /\ ConsumerOK'
  BY <1>1, <1>3, PendingOnlyKeeps, SameCopies DEF Careful
<1> QED
  BY <1>1, <1>2, <1>4 DEF DeliveryInv, DataOK, InboxOK

-------------------------------------------------------------------------------

LEMMA StepDelivery == DeliveryInv /\ [Next]_vars => DeliveryInv'
<1> SUFFICES ASSUME DeliveryInv, [Next]_vars PROVE DeliveryInv'
  OBVIOUS
<1>1. Careful /\ DataOK' => DeliveryInv'
  BY CarefulKeeps DEF DeliveryInv
<1>2. CASE UNCHANGED <<stream, consumer, given, inbox, rows>>
  BY <1>1, <1>2, SameIsCareful, SameCopies DEF DeliveryInv, DataOK
<1>3. CASE EnsureStream \/ Publish
  BY <1>1, <1>3, PublishKeeps
<1>4. CASE Nats
  BY <1>1, <1>4, DeliverKeeps, AgainKeeps DEF Nats, Ids
<1>5. ASSUME NEW i \in Processes, Process(i) PROVE DeliveryInv'
  <2>1. CASE Lock(i) \/ NotReady(i) \/ Unlock(i) \/ Unlink(i)
    BY <1>2, <2>1 DEF Lock, NotReady, Unlock, Unlink, work
  <2>2. CASE Refuse(i) \/ Insert(i) \/ InsertFails(i)
    BY <1>1, <2>2, RefuseKeeps, InsertKeeps, InsertFailsKeeps
  <2> QED
    BY <1>5, <2>1, <2>2, SubscribingKeeps DEF Process
<1>6. ASSUME NEW i \in Processes, Start(i) \/ Stop(i) \/ StopFails(i) \/ CutOff(i) \/ Crash(i)
      PROVE  DeliveryInv'
  <2>1. CASE Start(i)
    BY <1>2, <2>1 DEF Start, work
  <2> QED
    BY <1>1, <1>6, <2>1, LeavingKeeps
<1> QED
  BY <1>2, <1>3, <1>4, <1>5, <1>6 DEF Next, vars, work

(* The service acknowledges no message before its row is stored: what the  *)
(* consumer has delivered is stored, pending, or given up by JetStream.    *)
THEOREM AckedIsStored == Spec => []NothingForgotten
<1>1. Spec => []DeliveryInv
  BY InitDelivery, StepDelivery, PTL DEF Spec
<1>2. DeliveryInv => NothingForgotten
  BY DEF DeliveryInv
<1> QED
  BY <1>1, <1>2, PTL
-------------------------------------------------------------------------------
(* Types.  The lock file, processes and subscriptions first.               *)

Subs == {"none", "js", "core"}
FileTypes ==
  /\ pc \in [Processes -> Pcs] /\ sub \in [Processes -> Subs]
  /\ fd \in [Processes -> Files \cup {None}] /\ file \in Files \cup {None}

(* There is one file more than processes, so one that nobody has open.     *)
LEMMA AFileIsFree == ASSUME FileTypes PROVE NewFile \in Files
<1> DEFINE open == Range(fd)
<1>1. fd \in Surjection(Processes, open)
  BY DEF Surjection, Range, FileTypes
<1>2. IsFiniteSet(open) /\ Cardinality(open) <= Cardinality(Processes)
  BY <1>1, FS_Surjection, SettingsAssumption DEF SettingsAssumption
<1>3. Cardinality(Processes) \in Nat
  BY FS_CardinalityType, SettingsAssumption DEF SettingsAssumption
<1> HIDE DEF open
<1>4. Cardinality(Files) = Cardinality(Processes) + 1
  <2>1. 1 \in Int /\ Cardinality(Processes) + 1 \in Int
    BY <1>3
  <2>2. Cardinality(Files) = IF 1 > Cardinality(Processes) + 1 THEN 0
                             ELSE (Cardinality(Processes) + 1) - 1 + 1
    BY <2>1, FS_Interval DEF Files
  <2> QED BY <1>3, <2>2
<1>5. \E f \in Files : f \notin open
  <2> SUFFICES ASSUME Files \subseteq open PROVE FALSE
    OBVIOUS
  <2>1. Cardinality(Files) <= Cardinality(open)
    BY <1>2, FS_Subset
  <2>2. Cardinality(open) \in Nat
    BY <1>2, FS_CardinalityType
  <2> QED BY <1>2, <1>3, <1>4, <2>1, <2>2
<1> QED BY <1>5 DEF NewFile, open

LEMMA FilesKept == FileTypes /\ [Next]_vars => FileTypes'
<1> SUFFICES ASSUME FileTypes, [Next]_vars PROVE FileTypes'
  OBVIOUS
<1> USE DEF FileTypes, Subs
<1>1. CASE UNCHANGED <<pc, sub, fd, file>>
  BY <1>1
<1>2. CASE EnsureStream \/ Publish \/ Nats
           \/ \E i \in Processes : Refuse(i) \/ Insert(i) \/ InsertFails(i)
  BY <1>1, <1>2, DataSteps DEF Untouched, lock
<1>3. ASSUME NEW i \in Processes, Start(i) PROVE FileTypes'
  <2>1. file' \in Files
    BY <1>3, AFileIsFree DEF Start
  <2> QED BY <1>3, <2>1 DEF Start, Goes, Pcs, Locking
<1>4. ASSUME NEW i \in Processes, Released(i) PROVE fd' \in [Processes -> Files \cup {None}]
  <2>1. CASE fd[i] = None
    BY <1>4, <2>1 DEF Released
  <2>2. CASE fd[i] # None
    BY <1>4, <2>2 DEF Released
  <2> QED BY <2>1, <2>2
<1>5. ASSUME NEW i \in Processes, Lock(i) \/ Unlock(i) \/ Unlink(i) PROVE FileTypes'
  <2>1. CASE Lock(i)
    BY <2>1 DEF Lock, Goes, Pcs, Locking
  <2>2. CASE Unlock(i)
    BY <2>2, <1>4 DEF Unlock, Goes, Pcs, Locking
  <2>3. CASE Unlink(i)
    BY <2>3 DEF Unlink, Unlinked, Goes, Pcs, Locking
  <2> QED BY <1>5, <2>1, <2>2, <2>3
<1>6. ASSUME NEW i \in Processes,
             NotReady(i) \/ DeleteConsumer(i) \/ AddConsumer(i) \/ Bind(i)
      PROVE  FileTypes'
  BY <1>6 DEF NotReady, DeleteConsumer, AddConsumer, Bind, Goes, Pcs, Locking, lock
<1>7. ASSUME NEW i \in Processes, Stop(i) \/ StopFails(i) \/ CutOff(i) \/ Crash(i)
      PROVE  FileTypes'
  <2>1. CASE Stop(i) \/ CutOff(i) \/ StopFails(i)
    BY <2>1 DEF Stop, StopFails, CutOff, Unsubscribed, Goes, Pcs, Locking, lock
  <2>2. CASE Crash(i)
    <3>1. sub' \in [Processes -> Subs] /\ pc' \in [Processes -> Pcs] /\ file' = file
      BY <2>2 DEF Crash, Unsubscribed, Pcs, Locking
    <3> QED BY <2>2, <3>1, <1>4 DEF Crash
  <2> QED BY <1>7, <2>1, <2>2
<1> QED
  BY <1>1, <1>2, <1>3, <1>5, <1>6, <1>7 DEF Next, Process, vars, lock

-------------------------------------------------------------------------------
(* Messages and their deliveries.                                          *)

Arrived == 1..stream
Tries == 0..(MaxAttempts - 1)
BrokerTypes ==
  /\ given \subseteq Ids
  /\ consumer.to \in Processes \cup {Nobody} /\ consumer.first <= consumer.next
  /\ Pending \subseteq 1..(consumer.next - 1) /\ Pending \subseteq Arrived
  /\ IsFiniteSet(Pending) /\ Cardinality(Pending) <= MaxAckPending
  /\ \A n \in Pending : consumer.pending[n].count \in 1..MaxDeliver
InboxTypes ==
  /\ inbox \in [Processes -> Seq(Arrived)] /\ tries \in [Processes -> Tries]
  /\ \A i \in Processes : tries[i] # 0 => inbox[i] # <<>>
MessageTypes == BrokerTypes /\ InboxTypes

(* What Acked, Naked, Expire and Redeliver do to the pending messages.     *)
Fewer(n) == consumer' = [consumer EXCEPT !.pending = Without(n)]
Counted(n, count, due) == consumer' = [consumer EXCEPT !.pending = With(n, count, due)]

LEMMA FewerTypes ==
  ASSUME DeliveryInv, BrokerTypes, NEW n, Fewer(n), stream' = stream, given' \subseteq Ids
  PROVE  BrokerTypes'
<1>1. /\ consumer' = [first |-> consumer.first, next |-> consumer.next,
                      pending |-> Without(n), to |-> consumer.to]
  BY DEF Fewer, DeliveryInv, DataOK, ConsumerOK
<1>2. Pending' = Pending \ {n} /\ Pending' \subseteq Pending
  BY <1>1, WithoutDomain DEF Pending
<1>3. IsFiniteSet(Pending') /\ Cardinality(Pending') <= Cardinality(Pending)
  BY <1>2, FS_Subset DEF BrokerTypes
<1>4. Cardinality(Pending) \in Nat /\ Cardinality(Pending') \in Nat /\ MaxAckPending \in Nat
  BY <1>3, FS_CardinalityType, SettingsAssumption DEF BrokerTypes, SettingsAssumption
<1>5. \A m \in Pending' : consumer'.pending[m] = consumer.pending[m]
  BY <1>1, <1>2 DEF Without, Restrict
<1>6. Cardinality(Pending') <= MaxAckPending
  BY <1>3, <1>4 DEF BrokerTypes
<1>7. /\ consumer'.first = consumer.first /\ consumer'.next = consumer.next
      /\ consumer'.to = consumer.to
  BY <1>1
<1>8. \A m \in Pending' : consumer'.pending[m].count \in 1..MaxDeliver
  BY <1>2, <1>5 DEF BrokerTypes
<1>9. Pending' \subseteq 1..(consumer'.next - 1) /\ Pending' \subseteq Arrived'
  BY <1>2, <1>7 DEF BrokerTypes, Arrived
<1> QED
  BY <1>3, <1>6, <1>7, <1>8, <1>9 DEF BrokerTypes

LEMMA CountedTypes ==
  ASSUME DeliveryInv, BrokerTypes, NEW n \in Pending, NEW count \in 1..MaxDeliver, NEW due,
         Counted(n, count, due), stream' = stream, given' = given
  PROVE  BrokerTypes'
<1>1. /\ consumer' = [first |-> consumer.first, next |-> consumer.next,
                      pending |-> With(n, count, due), to |-> consumer.to]
  BY DEF Counted, DeliveryInv, DataOK, ConsumerOK
<1>2. Pending' = Pending
  <2>1. DOMAIN With(n, count, due) = Pending \cup {n}
    BY WithDomain
  <2>2. Pending \cup {n} = Pending
    OBVIOUS
  <2> QED BY <1>1, <2>1, <2>2 DEF Pending
<1>3. \A m \in Pending' : consumer'.pending[m].count = IF m = n THEN count
                                                      ELSE consumer.pending[m].count
  BY <1>1, <1>2 DEF With
<1> QED
  BY <1>1, <1>2, <1>3 DEF BrokerTypes, Arrived

LEMMA SameConsumer ==
  ASSUME BrokerTypes, consumer' = consumer, given' = given,
         stream' = stream \/ (stream \in Int /\ stream' = stream + 1)
  PROVE  BrokerTypes'
BY DEF BrokerTypes, Pending, Arrived

(* A consumer from which nothing has been delivered yet.                   *)
LEMMA FreshConsumer ==
  ASSUME given' \subseteq Ids, NEW n \in Int, NEW p \in Processes \cup {Nobody},
         consumer' = [first |-> n, next |-> n, pending |-> <<>>, to |-> p]
  PROVE  BrokerTypes'
<1>1. Pending' = {}
  BY DEF Pending
<1> QED
  BY <1>1, FS_EmptySet, SettingsAssumption DEF BrokerTypes, SettingsAssumption

LEMMA AckTypes ==
  ASSUME DeliveryInv, BrokerTypes, NEW i \in Processes, Acked(i) \/ Naked(i),
         stream' = stream, given' = given
  PROVE  BrokerTypes'
<1>1. CASE consumer' = consumer
  BY <1>1, SameConsumer
<1>2. CASE Fewer(Message(i))
  BY <1>2, FewerTypes DEF BrokerTypes
<1>3. CASE /\ Message(i) \in Pending
           /\ Counted(Message(i), consumer.pending[Message(i)].count, TRUE)
  BY <1>3, CountedTypes DEF BrokerTypes
<1> QED BY <1>1, <1>2, <1>3 DEF Acked, Naked, Fewer, Counted

(* What becomes of an inbox.                                               *)
LEMMA DroppedInbox ==
  ASSUME InboxTypes, NEW i \in Processes, Working(i), Dropped(i), stream' = stream
  PROVE  InboxTypes'
<1>1. inbox[i] \in Seq(Arrived) /\ inbox[i] # <<>>
  BY DEF InboxTypes, Working
<1>2. Tail(inbox[i]) \in Seq(Arrived) /\ 0 \in Tries
  BY <1>1, HeadTailProperties, SettingsAssumption DEF Tries, SettingsAssumption
<1> QED
  BY <1>2 DEF InboxTypes, Dropped, Arrived

LEMMA PushedInbox ==
  ASSUME InboxTypes, NEW n \in Arrived, consumer.to \in Processes, Pushed(n),
         stream' = stream, tries' = tries
  PROVE  InboxTypes'
<1>1. \A i \in Processes : /\ Append(inbox[i], n) \in Seq(Arrived)
                           /\ Append(inbox[i], n) # <<>>
  BY AppendProperties DEF InboxTypes
<1> QED
  BY <1>1 DEF InboxTypes, Pushed, Arrived

LEMMA SameInbox ==
  ASSUME InboxTypes, UNCHANGED <<stream, inbox, tries>> PROVE InboxTypes'
BY DEF InboxTypes, Arrived

LEMMA PublishTypes == ASSUME DeliveryInv, MessageTypes, EnsureStream \/ Publish PROVE MessageTypes'
<1>1. stream \in Int /\ stream' = stream + 1 /\ UNCHANGED <<consumer, given, tries>>
  BY DEF EnsureStream, Publish, DeliveryInv, DataOK, None, work
<1>2. Arrived \subseteq Arrived'
  BY <1>1 DEF Arrived
<1>3. \A i \in Processes :
        inbox'[i] \in Seq(Arrived') /\ (inbox[i] # <<>> => inbox'[i] # <<>>)
  <2> SUFFICES ASSUME NEW i \in Processes
               PROVE  inbox'[i] \in Seq(Arrived') /\ (inbox[i] # <<>> => inbox'[i] # <<>>)
    OBVIOUS
  <2>1. inbox[i] \in Seq(Arrived')
    BY <1>2 DEF MessageTypes, InboxTypes
  <2>2. CASE inbox'[i] = inbox[i]
    BY <2>1, <2>2
  <2>3. CASE Publish /\ inbox'[i] = Append(inbox[i], stream')
    <3>1. stream' \in Arrived'
      BY <1>1, <2>3 DEF Publish, Arrived
    <3> QED BY <2>1, <2>3, <3>1, AppendProperties
  <2> QED
    BY <2>2, <2>3 DEF EnsureStream, Publish, work
<1>4. inbox' = [i \in Processes |-> inbox'[i]]
  BY DEF EnsureStream, Publish, work, MessageTypes, InboxTypes
<1>5. InboxTypes'
  BY <1>1, <1>3, <1>4 DEF MessageTypes, InboxTypes
<1> QED
  BY <1>1, <1>5, SameConsumer DEF MessageTypes

LEMMA DeliverTypes == ASSUME DeliveryInv, MessageTypes, Deliver PROVE MessageTypes'
<1> DEFINE n == consumer.next
<1>1. /\ UNCHANGED <<stream, given, tries>> /\ Pushed(n)
      /\ consumer.to \in Processes /\ n <= stream /\ Cardinality(Pending) < MaxAckPending
      /\ consumer' = [consumer EXCEPT !.next = n + 1, !.pending = With(n, 1, FALSE)]
  BY DEF Deliver, MessageTypes, BrokerTypes
<1>2. n \in Arrived /\ n \in Nat /\ consumer.first \in Int
  BY <1>1, SettingsAssumption, NobodyAssumption
  DEF DeliveryInv, DataOK, ConsumerOK, NoConsumer, None, SettingsAssumption, Arrived
<1>3. consumer' = [first |-> consumer.first, next |-> n + 1,
                   pending |-> With(n, 1, FALSE), to |-> consumer.to]
  BY <1>1 DEF DeliveryInv, DataOK, ConsumerOK
<1>4. Pending' = Pending \cup {n}
  BY <1>3, WithDomain DEF Pending
<1>5. IsFiniteSet(Pending') /\ Cardinality(Pending') <= MaxAckPending
  <2>1. IsFiniteSet(Pending') /\ Cardinality(Pending') \in {Cardinality(Pending), Cardinality(Pending) + 1}
    BY <1>4, FS_AddElement DEF MessageTypes, BrokerTypes
  <2>2. Cardinality(Pending) \in Nat /\ MaxAckPending \in Nat
    BY FS_CardinalityType, SettingsAssumption
    DEF MessageTypes, BrokerTypes, SettingsAssumption
  <2> QED BY <1>1, <2>1, <2>2
<1>6. \A m \in Pending' : consumer'.pending[m].count \in 1..MaxDeliver
  <2>1. 1 \in 1..MaxDeliver
    BY SettingsAssumption DEF SettingsAssumption
  <2>2. \A m \in Pending' : consumer'.pending[m].count =
                              IF m = n THEN 1 ELSE consumer.pending[m].count
    BY <1>3, <1>4 DEF With
  <2> QED BY <1>4, <2>1, <2>2 DEF MessageTypes, BrokerTypes
<1>7. /\ consumer'.next = n + 1 /\ consumer'.first = consumer.first
      /\ consumer'.to = consumer.to
  BY <1>3
<1>8. Pending' \subseteq 1..(consumer'.next - 1) /\ Pending' \subseteq Arrived'
  <2>1. Pending \subseteq 1..(n - 1) /\ Pending \subseteq Arrived
    BY DEF MessageTypes, BrokerTypes
  <2>2. 1..(n - 1) \subseteq 1..n /\ n \in 1..n /\ (n + 1) - 1 = n
    BY <1>2 DEF Arrived
  <2> HIDE DEF n
  <2>3. Arrived' = Arrived /\ consumer'.next - 1 = n
    BY <1>1, <1>7, <2>2 DEF Arrived
  <2> QED BY <1>2, <1>4, <2>1, <2>2, <2>3
<1>9. consumer'.first <= consumer'.next /\ consumer'.to \in Processes /\ given' \subseteq Ids
  BY <1>1, <1>2, <1>7 DEF MessageTypes, BrokerTypes
<1>10. BrokerTypes'
  BY <1>5, <1>6, <1>8, <1>9 DEF BrokerTypes
<1> QED
  BY <1>1, <1>2, <1>10, PushedInbox DEF MessageTypes

LEMMA AgainTypes ==
  ASSUME DeliveryInv, MessageTypes, NEW n \in Ids, Expire(n) \/ Redeliver(n)
  PROVE  MessageTypes'
<1>1. stream' = stream /\ tries' = tries /\ n \in Pending /\ n \in Arrived
  BY DEF Expire, Redeliver, MessageTypes, BrokerTypes, work
<1>2. consumer.pending[n].count \in 1..MaxDeliver
  BY <1>1 DEF MessageTypes, BrokerTypes
<1>3. CASE Expire(n)
  <2>1. Counted(n, consumer.pending[n].count, TRUE) /\ given' = given /\ inbox' = inbox
    BY <1>3 DEF Expire, Counted, work
  <2> QED
    BY <1>1, <1>2, <2>1, CountedTypes, SameInbox DEF MessageTypes
<1>4. CASE Redeliver(n) /\ MayAgain(n)
  <2>1. /\ Counted(n, consumer.pending[n].count + 1, FALSE)
        /\ given' = given /\ Pushed(n) /\ consumer.to \in Processes
    BY <1>4 DEF Redeliver, Counted, MessageTypes, BrokerTypes
  <2>2. consumer.pending[n].count + 1 \in 1..MaxDeliver
    BY <1>2, <1>4, SettingsAssumption DEF MayAgain, SettingsAssumption
  <2> QED
    BY <1>1, <2>1, <2>2, CountedTypes, PushedInbox DEF MessageTypes
<1>5. CASE Redeliver(n) /\ ~MayAgain(n)
  <2>1. Fewer(n) /\ given' \subseteq Ids /\ inbox' = inbox
    BY <1>5 DEF Redeliver, Fewer, MessageTypes, BrokerTypes
  <2> QED
    BY <1>1, <2>1, FewerTypes, SameInbox DEF MessageTypes
<1> QED BY <1>3, <1>4, <1>5

LEMMA HandlingTypes ==
  ASSUME DeliveryInv, MessageTypes, NEW i \in Processes,
         Refuse(i) \/ Insert(i) \/ InsertFails(i)
  PROVE  MessageTypes'
<1>1. UNCHANGED <<stream, given>> /\ Working(i)
  BY DEF Refuse, Insert, InsertFails
<1>2. CASE Dropped(i) /\ (consumer' = consumer \/ Acked(i) \/ Naked(i))
  BY <1>1, <1>2, SameConsumer, AckTypes, DroppedInbox DEF MessageTypes
<1>3. CASE /\ tries[i] + 1 # MaxAttempts /\ UNCHANGED <<consumer, inbox>>
           /\ tries' = [tries EXCEPT ![i] = @ + 1]
  <2>1. tries[i] + 1 \in Tries
    BY <1>3, SettingsAssumption DEF MessageTypes, InboxTypes, Tries, SettingsAssumption
  <2>2. InboxTypes'
    BY <1>1, <1>3, <2>1 DEF MessageTypes, InboxTypes, Working, Arrived
  <2> QED
    BY <1>1, <1>3, <2>2, SameConsumer DEF MessageTypes
<1> QED
  BY <1>2, <1>3 DEF Refuse, Insert, InsertFails

LEMMA UnsubscribedTypes ==
  ASSUME DeliveryInv, MessageTypes, NEW i \in Processes, Unsubscribed(i),
         UNCHANGED <<stream, given>>
  PROVE  MessageTypes'
<1>1. 0 \in Tries /\ <<>> \in Seq(Arrived)
  BY SettingsAssumption DEF Tries, SettingsAssumption
<1>2. InboxTypes'
  BY <1>1 DEF MessageTypes, InboxTypes, Unsubscribed, Arrived
<1>3. CASE consumer' = consumer
  BY <1>2, <1>3, SameConsumer DEF MessageTypes
<1>4. CASE consumer' = [consumer EXCEPT !.to = Nobody]
  <2>1. consumer' = [first |-> consumer.first, next |-> consumer.next,
                     pending |-> consumer.pending, to |-> Nobody]
    BY <1>4 DEF DeliveryInv, DataOK, ConsumerOK
  <2>2. Pending' = Pending
    BY <2>1 DEF Pending
  <2> QED
    BY <1>2, <2>1, <2>2 DEF MessageTypes, BrokerTypes, Arrived
<1> QED BY <1>3, <1>4 DEF Unsubscribed

LEMMA SubscribingTypes ==
  ASSUME DeliveryInv, MessageTypes, NEW i \in Processes,
         DeleteConsumer(i) \/ AddConsumer(i) \/ Bind(i)
  PROVE  MessageTypes'
<1>1. UNCHANGED <<stream, given, inbox, tries>> /\ given' \subseteq Ids
  BY DEF DeleteConsumer, AddConsumer, Bind, work, MessageTypes, BrokerTypes
<1>2. InboxTypes'
  BY <1>1, SameInbox DEF MessageTypes
<1>3. FirstDelivered \in Int /\ 1 \in Int
  <2>1. stream \in Int /\ Max({stream, 1}) = IF stream > 1 THEN stream ELSE 1
    BY DEF DeliveryInv, DataOK, None, Max
  <2> QED
    BY <2>1 DEF FirstDelivered
<1>4. CASE consumer' = consumer
  BY <1>1, <1>2, <1>4, SameConsumer DEF MessageTypes
<1>5. CASE consumer' = [consumer EXCEPT !.to = i]
  <2>1. consumer' = [first |-> consumer.first, next |-> consumer.next,
                     pending |-> consumer.pending, to |-> i]
    BY <1>5 DEF DeliveryInv, DataOK, ConsumerOK
  <2>2. Pending' = Pending
    BY <2>1 DEF Pending
  <2> QED
    BY <1>1, <1>2, <2>1, <2>2 DEF MessageTypes, BrokerTypes, Arrived
<1>6. ASSUME NEW n \in Int, NEW p \in Processes \cup {Nobody}, consumer' = Consumer(n, p)
      PROVE  MessageTypes'
  BY <1>1, <1>2, <1>6, FreshConsumer DEF Consumer, MessageTypes
<1>7. CASE consumer' = NoConsumer
  BY <1>1, <1>2, <1>7, FreshConsumer DEF NoConsumer, None, MessageTypes
<1> QED
  BY <1>3, <1>4, <1>5, <1>6, <1>7 DEF DeleteConsumer, AddConsumer, Bind, AsMeant, NotAsMeant

LEMMA MessagesKept == DeliveryInv /\ MessageTypes /\ [Next]_vars => MessageTypes'
<1> SUFFICES ASSUME DeliveryInv, MessageTypes, [Next]_vars PROVE MessageTypes'
  OBVIOUS
<1>1. CASE UNCHANGED <<stream, consumer, given, inbox, tries>>
  BY <1>1, SameConsumer, SameInbox DEF MessageTypes
<1>2. CASE EnsureStream \/ Publish
  BY <1>2, PublishTypes
<1>3. CASE Nats
  BY <1>3, DeliverTypes, AgainTypes DEF Nats, Ids
<1>4. ASSUME NEW i \in Processes, Process(i) \/ Start(i) PROVE MessageTypes'
  <2>1. CASE Lock(i) \/ NotReady(i) \/ Unlock(i) \/ Unlink(i) \/ Start(i)
    BY <1>1, <2>1 DEF Lock, NotReady, Unlock, Unlink, Start, work
  <2> QED
    BY <1>4, <2>1, HandlingTypes, SubscribingTypes DEF Process
<1>5. ASSUME NEW i \in Processes, Stop(i) \/ StopFails(i) \/ CutOff(i) \/ Crash(i)
      PROVE  MessageTypes'
  <2>1. CASE StopFails(i)
    BY <1>1, <2>1 DEF StopFails, work
  <2>2. CASE Stop(i) \/ CutOff(i) \/ Crash(i)
    BY <2>2, UnsubscribedTypes DEF Stop, CutOff, Crash
  <2> QED BY <1>5, <2>1, <2>2
<1> QED
  BY <1>1, <1>2, <1>3, <1>4, <1>5 DEF Next, vars, work

LEMMA InitTypes == Init => FileTypes /\ MessageTypes
<1> SUFFICES ASSUME Init PROVE FileTypes /\ MessageTypes
  OBVIOUS
<1>1. FileTypes
  BY DEF Init, FileTypes, Subs, Pcs, Locking
<1>2. Pending = {} /\ consumer = NoConsumer
  BY DEF Init, Pending, NoConsumer
<1>3. BrokerTypes
  BY <1>2, FS_EmptySet, SettingsAssumption
  DEF BrokerTypes, Init, NoConsumer, None, SettingsAssumption
<1>4. 0 \in Tries /\ <<>> \in Seq(Arrived)
  BY SettingsAssumption DEF Tries, SettingsAssumption
<1>5. InboxTypes
  BY <1>4 DEF Init, InboxTypes
<1> QED BY <1>1, <1>3, <1>5 DEF MessageTypes

LEMMA TypesSuffice == DeliveryInv /\ FileTypes /\ MessageTypes => TypeOK
<1> SUFFICES ASSUME DeliveryInv, FileTypes, MessageTypes PROVE TypeOK
  OBVIOUS
<1>1. \A i \in Processes : Range(inbox[i]) \subseteq 1..stream
  <2> SUFFICES ASSUME NEW i \in Processes, NEW k \in DOMAIN inbox[i]
               PROVE  inbox[i][k] \in 1..stream
    BY DEF Range
  <2>1. inbox[i] \in Seq(Arrived)
    BY DEF MessageTypes, InboxTypes
  <2> QED BY <2>1, ElementOfSeq, LenProperties DEF Arrived
<1> QED
  BY <1>1 DEF TypeOK, DeliveryInv, DataOK, FileTypes, MessageTypes, BrokerTypes, InboxTypes,
              Subs, Tries, Pcs, Locking, Ids

(* Every variable keeps its type: a process has its own file to open, the  *)
(* consumer owes no more than max_ack_pending, no message is delivered     *)
(* more often than max_deliver, and each that waits was published.         *)
THEOREM TypeCorrect == Spec => []TypeOK
<1>1. Spec => []DeliveryInv
  BY InitDelivery, StepDelivery, PTL DEF Spec
<1>2. Spec => [](DeliveryInv /\ FileTypes /\ MessageTypes)
  BY <1>1, InitTypes, FilesKept, MessagesKept, PTL DEF Spec
<1> QED
  BY <1>2, TypesSuffice, PTL

-------------------------------------------------------------------------------
(* Sums over a finite set, as the folds of the community modules compute   *)
(* them: by induction over its subsets, on their number of elements.       *)

LEMMA Least ==
  ASSUME NEW S \in SUBSET Nat, S # {}
  PROVE  \E x \in S : \A y \in S : x <= y
<1> DEFINE R == OpToRel(<, Nat)
<1>1. IsWellFoundedOn(R, Nat)
  BY NatLessThanWellFounded
<1>2. \A x, y \in Nat : y < x => <<y, x>> \in R
  BY DEF OpToRel
<1> HIDE DEF R
<1>3. PICK x \in S : \A y \in S : ~ (<<y, x>> \in R)
  BY <1>1, WFMin
<1>4. ASSUME NEW y \in S PROVE x <= y
  <2>1. ~ (y < x)
    BY <1>2, <1>3
  <2> QED BY <2>1
<1> QED BY <1>4

(* A sum over S, as the fold computes it: partial(s) is the sum over s.    *)
Pick(s) == CHOOSE x \in s : TRUE
Rest(s) == s \ {Pick(s)}
Partial(partial, f, D) ==
  partial = [s \in D |-> IF s = {} THEN 0 ELSE f[Pick(s)] + partial[Rest(s)]]

LEMMA RestFacts ==
  ASSUME NEW s, IsFiniteSet(s), s # {}
  PROVE  /\ Pick(s) \in s /\ IsFiniteSet(Rest(s))
         /\ Cardinality(s) \in Nat /\ Cardinality(Rest(s)) = Cardinality(s) - 1
<1>1. Pick(s) \in s
  BY DEF Pick
<1> QED
  BY <1>1, FS_RemoveElement, FS_CardinalityType DEF Rest

(* Induction over the subsets of a finite set: of those that lack some     *)
(* property, one is empty or has a rest that has it.                       *)
LEMMA SmallestSet ==
  ASSUME NEW S, IsFiniteSet(S), NEW Failing \in SUBSET (SUBSET S), Failing # {}
  PROVE  \E s \in Failing : s = {} \/ (Pick(s) \in s /\ Rest(s) \in (SUBSET S) \ Failing)
<1> DEFINE sizes == {Cardinality(s) : s \in Failing}
<1>1. \A s \in SUBSET S : IsFiniteSet(s) /\ Cardinality(s) \in Nat
  BY FS_Subset, FS_CardinalityType
<1>2. PICK n \in sizes : \A m \in sizes : n <= m
  <2>1. sizes \in SUBSET Nat /\ sizes # {}
    BY <1>1
  <2> QED BY <2>1, Least
<1>3. PICK s \in Failing : Cardinality(s) = n
  OBVIOUS
<1>4. \A t \in Failing : Cardinality(s) <= Cardinality(t)
  BY <1>2, <1>3
<1>5. ASSUME s # {} PROVE Pick(s) \in s /\ Rest(s) \in (SUBSET S) \ Failing
  <2>1. /\ Pick(s) \in s /\ Cardinality(s) \in Nat
        /\ Cardinality(Rest(s)) = Cardinality(s) - 1
    BY <1>1, <1>3, <1>5, RestFacts
  <2>2. Rest(s) \in SUBSET S
    BY <1>3 DEF Rest
  <2>3. Rest(s) \notin Failing
    BY <1>4, <2>1
  <2> QED BY <2>1, <2>2, <2>3
<1> QED BY <1>3, <1>5

UpTo(n, S) == {s \in SUBSET S : Cardinality(s) <= n}

(* There are partial sums, by induction on the number of elements.         *)
LEMMA PartialExists ==
  ASSUME NEW S, IsFiniteSet(S), NEW f \in [S -> Nat]
  PROVE  \E partial \in [SUBSET S -> Nat] : Partial(partial, f, SUBSET S)
<1> DEFINE Has(n) == \E p \in [UpTo(n, S) -> Nat] : Partial(p, f, UpTo(n, S))
           Hasnt == {n \in Nat : ~Has(n)}
<1>1. \A s \in SUBSET S : IsFiniteSet(s) /\ Cardinality(s) \in Nat /\ Cardinality(s) <= Cardinality(S)
  BY FS_Subset, FS_CardinalityType
<1>2. Cardinality(S) \in Nat
  BY FS_CardinalityType
<1>3. Has(0)
  <2> DEFINE p == [s \in UpTo(0, S) |-> 0]
  <2>1. \A s \in UpTo(0, S) : s = {}
    BY <1>1, FS_EmptySet DEF UpTo
  <2>2. p \in [UpTo(0, S) -> Nat] /\ Partial(p, f, UpTo(0, S))
    BY <2>1 DEF Partial
  <2> QED BY <2>2
<1>4. ASSUME NEW n \in Nat, Has(n) PROVE Has(n + 1)
  <2>1. PICK p \in [UpTo(n, S) -> Nat] : Partial(p, f, UpTo(n, S))
    BY <1>4
  <2> DEFINE U == UpTo(n + 1, S)
             q == [s \in U |-> IF s = {} THEN 0 ELSE f[Pick(s)] + p[Rest(s)]]
  <2>2. \A s \in U : s # {} => Pick(s) \in S /\ Rest(s) \in UpTo(n, S)
    <3> SUFFICES ASSUME NEW s \in U, s # {} PROVE Pick(s) \in S /\ Rest(s) \in UpTo(n, S)
      OBVIOUS
    <3>1. s \in SUBSET S /\ IsFiniteSet(s) /\ Cardinality(s) <= n + 1
      BY <1>1 DEF UpTo
    <3>2. Pick(s) \in s /\ Cardinality(Rest(s)) = Cardinality(s) - 1 /\ Cardinality(s) \in Nat
      BY <3>1, RestFacts
    <3>3. Rest(s) \subseteq S
      BY <3>1 DEF Rest
    <3> QED BY <3>1, <3>2, <3>3 DEF UpTo
  <2>3. q \in [U -> Nat]
    BY <2>2
  <2>4. \A s \in UpTo(n, S) : q[s] = p[s]
    <3>1. UpTo(n, S) \subseteq U
      BY <1>1 DEF UpTo
    <3> QED BY <2>1, <3>1 DEF Partial
  <2>5. Partial(q, f, U)
    <3>1. \A s \in U : q[s] = IF s = {} THEN 0 ELSE f[Pick(s)] + q[Rest(s)]
      BY <2>2, <2>4
    <3>2. q = [s \in U |-> q[s]]
      OBVIOUS
    <3> HIDE DEF q, U
    <3> QED BY <3>1, <3>2 DEF Partial
  <2> QED BY <2>3, <2>5
<1>5. Hasnt = {}
  <2> SUFFICES ASSUME Hasnt # {} PROVE FALSE
    OBVIOUS
  <2> HIDE DEF Has
  <2>1. PICK n \in Hasnt : \A m \in Hasnt : n <= m
    BY Least
  <2>2. n \in Nat /\ n # 0 /\ n - 1 \in Nat /\ n - 1 \notin Hasnt
    BY <1>3, <2>1
  <2>3. Has(n - 1)
    BY <2>2
  <2>4. Has((n - 1) + 1) /\ (n - 1) + 1 = n
    BY <1>4, <2>2, <2>3
  <2> QED BY <2>1, <2>4
<1>6. UpTo(Cardinality(S), S) = SUBSET S
  BY <1>1 DEF UpTo
<1>7. Has(Cardinality(S))
  BY <1>2, <1>5
<1> QED BY <1>6, <1>7

Partials(f, S) == CHOOSE p : Partial(p, f, SUBSET S)
Total(f, S) == Partials(f, S)[S]

LEMMA PartialFacts ==
  ASSUME NEW S, IsFiniteSet(S), NEW f \in [S -> Nat]
  PROVE  /\ Partials(f, S) \in [SUBSET S -> Nat] /\ Partials(f, S)[{}] = 0
         /\ \A s \in (SUBSET S) \ {{}} :
              Partials(f, S)[s] = f[Pick(s)] + Partials(f, S)[Rest(s)]
<1> DEFINE p == Partials(f, S)
<1>1. PICK q \in [SUBSET S -> Nat] : Partial(q, f, SUBSET S)
  BY PartialExists
<1>2. Partial(p, f, SUBSET S)
  BY <1>1 DEF Partials
<1> HIDE DEF p
<1>3. \A s \in SUBSET S : p[s] = IF s = {} THEN 0 ELSE f[Pick(s)] + p[Rest(s)]
  BY <1>2 DEF Partial
<1>4. p[{}] = 0
  BY <1>3
<1>5. p = [s \in SUBSET S |-> p[s]]
  BY <1>2 DEF Partial
<1>6. \A s \in SUBSET S : p[s] \in Nat
  <2> DEFINE Failing == {s \in SUBSET S : p[s] \notin Nat}
  <2> SUFFICES ASSUME Failing # {} PROVE FALSE
    OBVIOUS
  <2>1. Failing \in SUBSET (SUBSET S)
    OBVIOUS
  <2>2. PICK s \in SUBSET S :
          /\ p[s] \notin Nat
          /\ s = {} \/ (Pick(s) \in s /\ p[Rest(s)] \in Nat /\ Rest(s) \in SUBSET S)
    <3> DEFINE Fit(s) == s = {} \/ (Pick(s) \in s /\ Rest(s) \in (SUBSET S) \ Failing)
    <3> HIDE DEF Failing
    <3>1. PICK s \in Failing : Fit(s)
      BY <2>1, SmallestSet
    <3> USE DEF Failing
    <3> QED BY <3>1
  <2>3. s # {} /\ Pick(s) \in S /\ f[Pick(s)] \in Nat
    <3>1. s # {}
      <4>1. p[{}] \in Nat
        BY <1>4
      <4>2. p[s] \notin Nat
        BY <2>2
      <4> QED BY <4>1, <4>2
    <3> QED BY <2>2, <3>1
  <2>4. p[s] = f[Pick(s)] + p[Rest(s)]
    BY <1>3, <2>3
  <2>5. p[Rest(s)] \in Nat
    BY <2>2, <2>3
  <2> QED BY <2>2, <2>3, <2>4, <2>5
<1> QED BY <1>3, <1>4, <1>5, <1>6 DEF p

LEMMA TotalType ==
  ASSUME NEW S, IsFiniteSet(S), NEW f \in [S -> Nat]
  PROVE  Total(f, S) \in Nat
<1>1. Partials(f, S) \in [SUBSET S -> Nat] /\ S \in SUBSET S
  BY PartialFacts
<1> QED BY <1>1 DEF Total

(* A sum of which one summand grows by k grows by k at most.               *)
LEMMA TotalGrows ==
  ASSUME NEW S, IsFiniteSet(S), NEW f \in [S -> Nat], NEW g \in [S -> Nat],
         NEW a, NEW k \in Nat,
         \A x \in S : g[x] <= f[x] + (IF x = a THEN k ELSE 0)
  PROVE  Total(g, S) <= Total(f, S) + k
<1> DEFINE p == Partials(f, S)
           q == Partials(g, S)
           More(s) == IF a \in s THEN k ELSE 0
           Failing == {s \in SUBSET S : ~ (q[s] <= p[s] + More(s))}
<1>1. /\ p \in [SUBSET S -> Nat] /\ p[{}] = 0
      /\ \A s \in (SUBSET S) \ {{}} : p[s] = f[Pick(s)] + p[Rest(s)]
  BY PartialFacts
<1>2. /\ q \in [SUBSET S -> Nat] /\ q[{}] = 0
      /\ \A s \in (SUBSET S) \ {{}} : q[s] = g[Pick(s)] + q[Rest(s)]
  BY PartialFacts
<1> HIDE DEF p, q
<1>3. CASE Failing # {}
  <2>1. Failing \in SUBSET (SUBSET S)
    OBVIOUS
  <2>2. PICK s \in SUBSET S :
          /\ ~ (q[s] <= p[s] + More(s))
          /\ s = {} \/ (Pick(s) \in s /\ q[Rest(s)] <= p[Rest(s)] + More(Rest(s)) /\ Rest(s) \in SUBSET S)
    <3> DEFINE Fit(s) == s = {} \/ (Pick(s) \in s /\ Rest(s) \in (SUBSET S) \ Failing)
    <3> HIDE DEF Failing
    <3>1. PICK s \in Failing : Fit(s)
      BY <1>3, <2>1, SmallestSet
    <3> USE DEF Failing
    <3> QED BY <3>1
  <2>3. s # {}
    <3>1. q[{}] <= p[{}] + More({})
      BY <1>1, <1>2
    <3> HIDE DEF More
    <3>2. ~ (q[s] <= p[s] + More(s))
      BY <2>2
    <3> QED BY <3>1, <3>2
  <2> DEFINE x == Pick(s)
  <2>4. /\ p[s] = f[x] + p[Rest(s)] /\ f[x] \in Nat /\ p[Rest(s)] \in Nat
        /\ q[s] = g[x] + q[Rest(s)] /\ g[x] \in Nat /\ q[Rest(s)] \in Nat
        /\ g[x] <= f[x] + (IF x = a THEN k ELSE 0)
    BY <1>1, <1>2, <2>2, <2>3
  <2>5. More(s) = More(Rest(s)) + (IF x = a THEN k ELSE 0) /\ More(Rest(s)) \in Nat
    BY <2>2, <2>3 DEF Rest
  <2>6. q[Rest(s)] <= p[Rest(s)] + More(Rest(s)) /\ ~ (q[s] <= p[s] + More(s))
    BY <2>2, <2>3
  <2> HIDE DEF x, More
  <2> QED BY <2>4, <2>5, <2>6
<1>4. CASE Failing = {}
  <2>1. q[S] <= p[S] + More(S) /\ p[S] \in Nat /\ q[S] \in Nat
    BY <1>1, <1>2, <1>4
  <2>2. More(S) <= k /\ More(S) \in Nat
    OBVIOUS
  <2> HIDE DEF More
  <2>3. q[S] <= p[S] + k
    BY <2>1, <2>2
  <2> QED BY <2>3 DEF Total, p, q
<1> QED BY <1>3, <1>4

(* A sum of which each summand in A grows by one grows by their number.    *)
LEMMA TotalGrowsOn ==
  ASSUME NEW S, IsFiniteSet(S), NEW f \in [S -> Nat], NEW g \in [S -> Nat],
         NEW A \in SUBSET S,
         \A x \in S : g[x] <= f[x] + (IF x \in A THEN 1 ELSE 0)
  PROVE  Total(g, S) <= Total(f, S) + Cardinality(A)
<1> DEFINE p == Partials(f, S)
           q == Partials(g, S)
           More(s) == Cardinality(A \cap s)
           Failing == {s \in SUBSET S : ~ (q[s] <= p[s] + More(s))}
<1>1. /\ p \in [SUBSET S -> Nat] /\ p[{}] = 0
      /\ \A s \in (SUBSET S) \ {{}} : p[s] = f[Pick(s)] + p[Rest(s)]
  BY PartialFacts
<1>2. /\ q \in [SUBSET S -> Nat] /\ q[{}] = 0
      /\ \A s \in (SUBSET S) \ {{}} : q[s] = g[Pick(s)] + q[Rest(s)]
  BY PartialFacts
<1> HIDE DEF p, q
<1>3. CASE Failing # {}
  <2>1. Failing \in SUBSET (SUBSET S)
    OBVIOUS
  <2>2. PICK s \in SUBSET S :
          /\ ~ (q[s] <= p[s] + More(s))
          /\ s = {} \/ (Pick(s) \in s /\ q[Rest(s)] <= p[Rest(s)] + More(Rest(s)) /\ Rest(s) \in SUBSET S)
    <3> DEFINE Fit(s) == s = {} \/ (Pick(s) \in s /\ Rest(s) \in (SUBSET S) \ Failing)
    <3> HIDE DEF Failing
    <3>1. PICK s \in Failing : Fit(s)
      BY <1>3, <2>1, SmallestSet
    <3> USE DEF Failing
    <3> QED BY <3>1
  <2>3. s # {}
    <3>1. More({}) = 0
      <4>1. A \cap {} = {}
        OBVIOUS
      <4> QED BY <4>1, FS_EmptySet
    <3>2. q[{}] <= p[{}] + More({})
      BY <1>1, <1>2, <3>1
    <3> HIDE DEF More
    <3>3. ~ (q[s] <= p[s] + More(s))
      BY <2>2
    <3> QED BY <3>2, <3>3
  <2> DEFINE x == Pick(s)
  <2>4. /\ p[s] = f[x] + p[Rest(s)] /\ f[x] \in Nat /\ p[Rest(s)] \in Nat
        /\ q[s] = g[x] + q[Rest(s)] /\ g[x] \in Nat /\ q[Rest(s)] \in Nat
        /\ g[x] <= f[x] + (IF x \in A THEN 1 ELSE 0)
    BY <1>1, <1>2, <2>2, <2>3
  <2>5. More(s) = More(Rest(s)) + (IF x \in A THEN 1 ELSE 0) /\ More(Rest(s)) \in Nat
    <3>1. IsFiniteSet(A \cap Rest(s)) /\ More(Rest(s)) \in Nat
      <4>1. A \cap Rest(s) \in SUBSET S
        OBVIOUS
      <4>2. IsFiniteSet(A \cap Rest(s))
        BY <4>1, FS_Subset
      <4> QED BY <4>2, FS_CardinalityType
    <3>2. A \cap s = IF x \in A THEN (A \cap Rest(s)) \cup {x} ELSE A \cap Rest(s)
      BY <2>2, <2>3 DEF Rest
    <3>3. x \notin A \cap Rest(s)
      BY DEF Rest
    <3>4. Cardinality((A \cap Rest(s)) \cup {x}) = Cardinality(A \cap Rest(s)) + 1
      BY <3>1, <3>3, FS_AddElement
    <3> HIDE DEF x
    <3>5. CASE x \in A
      BY <3>1, <3>2, <3>4, <3>5
    <3>6. CASE x \notin A
      <4>1. More(s) = More(Rest(s))
        BY <3>2, <3>6
      <4> HIDE DEF More
      <4> QED BY <3>1, <3>6, <4>1
    <3> QED BY <3>5, <3>6
  <2>6. q[Rest(s)] <= p[Rest(s)] + More(Rest(s)) /\ ~ (q[s] <= p[s] + More(s))
    BY <2>2, <2>3
  <2> HIDE DEF x, More
  <2> QED BY <2>4, <2>5, <2>6
<1>4. CASE Failing = {}
  <2>1. q[S] <= p[S] + More(S)
    BY <1>4
  <2>2. More(S) = Cardinality(A)
    <3>1. A \cap S = A
      OBVIOUS
    <3> QED BY <3>1
  <2> QED BY <2>1, <2>2 DEF Total, p, q
<1> QED BY <1>3, <1>4

LEMMA SumIsTotal ==
  ASSUME NEW S, NEW f, DOMAIN f = S PROVE SumFunction(f) = Total(f, S)
BY DEF SumFunction, SumFunctionOnSet, FoldFunctionOnSet, MapThenFoldSet, Total, Partials,
       Partial, Pick, Rest

LEMMA TotalOfZeros ==
  ASSUME NEW S, IsFiniteSet(S), NEW f \in [S -> Nat], \A x \in S : f[x] = 0
  PROVE  Total(f, S) = 0
<1> DEFINE p == Partials(f, S)
           Failing == {s \in SUBSET S : p[s] # 0}
<1>1. /\ p \in [SUBSET S -> Nat] /\ p[{}] = 0
      /\ \A s \in (SUBSET S) \ {{}} : p[s] = f[Pick(s)] + p[Rest(s)]
  BY PartialFacts
<1> HIDE DEF p
<1>2. ASSUME Failing # {} PROVE FALSE
  <2>1. Failing \in SUBSET (SUBSET S)
    OBVIOUS
  <2>2. PICK s \in SUBSET S :
          /\ p[s] # 0
          /\ s = {} \/ (Pick(s) \in s /\ p[Rest(s)] = 0 /\ Rest(s) \in SUBSET S)
    <3> DEFINE Fit(s) == s = {} \/ (Pick(s) \in s /\ Rest(s) \in (SUBSET S) \ Failing)
    <3> HIDE DEF Failing
    <3>1. PICK s \in Failing : Fit(s)
      BY <1>2, <2>1, SmallestSet
    <3> USE DEF Failing
    <3> QED BY <3>1
  <2>3. s # {}
    BY <1>1, <2>2
  <2>4. p[s] = f[Pick(s)] + p[Rest(s)] /\ f[Pick(s)] = 0 /\ p[Rest(s)] = 0
    BY <1>1, <2>2, <2>3
  <2> QED BY <2>2, <2>4
<1> QED BY <1>2 DEF Total, p

-------------------------------------------------------------------------------
(* How often a message waits in an inbox.                                  *)

Places(s, n) == {k \in DOMAIN s : s[k] = n}
Occ(s, n) == Cardinality(Places(s, n))

LEMMA OccType ==
  ASSUME NEW T, NEW s \in Seq(T), NEW n
  PROVE  /\ IsFiniteSet(Places(s, n)) /\ Occ(s, n) \in Nat
         /\ Occ(s, n) > 0 <=> \E k \in DOMAIN s : s[k] = n
<1>1. IsFiniteSet(DOMAIN s)
  <2>1. DOMAIN s = 1..Len(s) /\ Len(s) \in Int /\ 1 \in Int
    BY LenProperties
  <2> QED BY <2>1, FS_Interval
<1>2. IsFiniteSet(Places(s, n)) /\ Occ(s, n) \in Nat
  BY <1>1, FS_Subset, FS_CardinalityType DEF Places, Occ
<1>3. Occ(s, n) = 0 <=> Places(s, n) = {}
  BY <1>2, FS_EmptySet DEF Occ
<1> QED BY <1>2, <1>3 DEF Places

LEMMA OccEmpty == ASSUME NEW n PROVE Occ(<<>>, n) = 0
<1>1. Places(<<>>, n) = {}
  BY DEF Places
<1> QED BY <1>1, FS_EmptySet DEF Occ

LEMMA OccAppend ==
  ASSUME NEW T, NEW s \in Seq(T), NEW a \in T, NEW n
  PROVE  Occ(Append(s, a), n) = Occ(s, n) + (IF a = n THEN 1 ELSE 0)
<1> DEFINE t == Append(s, a)
           l == Len(s) + 1
<1>1. /\ DOMAIN s = 1..Len(s) /\ DOMAIN t = 1..l /\ Len(s) \in Nat
      /\ \A k \in 1..Len(s) : t[k] = s[k]
      /\ t[l] = a
  BY LenProperties, AppendProperties
<1>2. l \notin DOMAIN s /\ DOMAIN t = DOMAIN s \cup {l}
  BY <1>1
<1>3. Places(t, n) = IF a = n THEN Places(s, n) \cup {l} ELSE Places(s, n)
  <2> HIDE DEF t, l
  <2> QED BY <1>1, <1>2 DEF Places
<1>4. IsFiniteSet(Places(s, n)) /\ Occ(s, n) \in Nat /\ l \notin Places(s, n)
  BY <1>2, OccType DEF Places
<1> HIDE DEF t, l
<1>5. Cardinality(Places(s, n) \cup {l}) = Cardinality(Places(s, n)) + 1
  BY <1>4, FS_AddElement
<1>6. Occ(t, n) = Occ(s, n) + (IF a = n THEN 1 ELSE 0)
  BY <1>3, <1>4, <1>5 DEF Occ
<1> QED BY <1>6 DEF t

LEMMA OccTail ==
  ASSUME NEW T, NEW s \in Seq(T), s # <<>>, NEW n
  PROVE  Occ(s, n) = Occ(Tail(s), n) + (IF Head(s) = n THEN 1 ELSE 0)
<1> DEFINE t == Tail(s)
           Moved == {k + 1 : k \in Places(t, n)}
           shift == [k \in Places(t, n) |-> k + 1]
<1>1. /\ t \in Seq(T) /\ Len(s) \in Nat \ {0} /\ Len(t) = Len(s) - 1
      /\ DOMAIN s = 1..Len(s) /\ DOMAIN t = 1..Len(t)
      /\ \A k \in 1..Len(t) : t[k] = s[k + 1]
  BY LenProperties, HeadTailProperties, EmptySeq
<1>2. Head(s) = s[1]
  OBVIOUS
<1>3. IsFiniteSet(Places(t, n)) /\ Occ(t, n) \in Nat
  BY <1>1, OccType
<1>4. IsFiniteSet(Moved) /\ Cardinality(Moved) = Cardinality(Places(t, n))
  <2>1. \A k \in Places(t, n) : k \in Int
    BY <1>1 DEF Places
  <2>2. shift \in Bijection(Places(t, n), Moved)
    BY <2>1 DEF Bijection, Injection, Surjection, IsInjective
  <2>3. ExistsBijection(Places(t, n), Moved)
    BY <2>2 DEF ExistsBijection
  <2> QED BY <1>3, <2>3, FS_Bijection
<1>5. 1 \notin Moved
  BY <1>1 DEF Places
<1>6. Places(s, n) = IF Head(s) = n THEN Moved \cup {1} ELSE Moved
  <2>1. \A k \in Places(s, n) : k = 1 \/ k \in Moved
    <3> SUFFICES ASSUME NEW k \in Places(s, n), k # 1 PROVE k \in Moved
      OBVIOUS
    <3>1. k - 1 \in DOMAIN t /\ t[k - 1] = n /\ (k - 1) + 1 = k
      BY <1>1 DEF Places
    <3> QED BY <3>1 DEF Places
  <2>2. Moved \subseteq Places(s, n)
    BY <1>1 DEF Places
  <2>3. 1 \in Places(s, n) <=> Head(s) = n
    BY <1>1, <1>2 DEF Places
  <2>4. Places(s, n) \subseteq Moved \cup {1}
    BY <2>1
  <2> HIDE DEF Moved
  <2>5. CASE Head(s) = n
    <3>1. Places(s, n) = Moved \cup {1}
      BY <2>2, <2>3, <2>4, <2>5
    <3> QED BY <2>5, <3>1
  <2>6. CASE Head(s) # n
    <3>1. Places(s, n) = Moved
      BY <2>2, <2>3, <2>4, <2>6
    <3> QED BY <2>6, <3>1
  <2> QED BY <2>5, <2>6
<1> HIDE DEF t, Moved
<1>7. Cardinality(Moved \cup {1}) = Cardinality(Moved) + 1
  BY <1>4, <1>5, FS_AddElement
<1>8. Occ(s, n) = Occ(t, n) + (IF Head(s) = n THEN 1 ELSE 0)
  BY <1>3, <1>4, <1>6, <1>7 DEF Occ
<1> QED BY <1>8 DEF t

-------------------------------------------------------------------------------
(* Copies.  What is counted for a message is its rows, the places where it *)
(* waits, and one more if NATS may push it yet without another fault.      *)

(* The consumer has a subscriber or is about to have one.  Who comes to    *)
(* subscribe when there is none makes its own, from the first message on:  *)
(* NoConsumer's next is below every message.                               *)
Live ==
  \/ consumer.to # Nobody
  \/ \E i \in Processes : pc[i] = "bind" \/ (pc[i] = "add" /\ consumer # NoConsumer)
Due(n) == consumer.pending[n].due
MayCome(n) ==
  /\ Live
  /\ (n \in Pending /\ (Due(n) \/ ~Held(n))) \/ n >= consumer.next

Copies(i, n) == rows[n] + Occ(inbox[i], n) + (IF MayCome(n) THEN 1 ELSE 0)
Over(k) == IF k > 1 THEN k - 1 ELSE 0
Excess(i) == Total([n \in Ids |-> Over(Copies(i, n))], Ids)

(* Processes that may make a consumer, which begins with the last message. *)
Opening == {i \in Processes : pc[i] \in {"opened", "waiting", "add"}}

(* Until there is a first consumer nothing is counted.                     *)
Unused ==
  /\ consumer = NoConsumer
  /\ \A n \in Ids : rows[n] = 0
  /\ \A i \in Processes : sub[i] = "none" /\ pc[i] # "bind"
  /\ Cardinality(Opening) <= starts

Alone(i) == \A j \in Processes : j # i => inbox[j] = <<>>
Paid(i) == Excess(i) + Cardinality(Opening) + 1 <= faults + starts + replayed
AllPaid == \E i \in Processes : Alone(i) /\ Paid(i)

(* Who has what of the consumer, while one process runs at a time.         *)
Shared ==
  /\ \A i \in Processes : inbox[i] # <<>> => sub[i] # "none"
  /\ \A i \in Processes : sub[i] = "core" => consumer.to = Nobody
  /\ \A i \in Processes : pc[i] \in {"add", "bind"} => consumer.to = Nobody
  /\ consumer.to # Nobody => sub[consumer.to] = "js"
Stored == \A n \in Ids : n > stream => rows[n] = 0
CountsOK == starts \in Nat /\ faults \in Nat /\ replayed \in Nat

CopiesInv == raced \/ hung \/ (Shared /\ (Unused \/ AllPaid))

(* What else is known in these states.                                     *)
Known == DeliveryInv /\ FileTypes /\ MessageTypes /\ LockInv /\ Stored /\ CountsOK
Usual == Known /\ Shared /\ ~raced /\ ~hung

-------------------------------------------------------------------------------
(* One process runs.                                                       *)

LEMMA OneOnly ==
  ASSUME Usual, NEW i \in Processes, NEW j \in Processes, Runs(i), Runs(j) PROVE i = j
BY OneRunsFromLock DEF Usual, Known, OneRuns

LEMMA SubsRun ==
  ASSUME Usual, NEW i \in Processes
  PROVE  /\ inbox[i] # <<>> => sub[i] # "none"
         /\ sub[i] # "none" => pc[i] = "running" /\ Runs(i)
         /\ consumer.to = i => sub[i] = "js"
         /\ consumer.to \in Processes \cup {Nobody}
BY NobodyAssumption DEF Usual, Known, LockInv, Subscribed, Runs, Shared, MessageTypes, BrokerTypes

LEMMA AloneWhoRuns ==
  ASSUME Usual, NEW i \in Processes, Runs(i) \/ inbox[i] # <<>> PROVE Alone(i)
<1> SUFFICES ASSUME NEW j \in Processes, j # i PROVE inbox[j] = <<>>
  BY DEF Alone
<1> QED BY OneOnly, SubsRun

(* A running process has the consumer, or nobody.                          *)
LEMMA OthersHaveNothing ==
  ASSUME Usual, NEW i \in Processes, Runs(i)
  PROVE  /\ consumer.to \in {i, Nobody}
         /\ consumer.to = i => pc[i] = "running" /\ sub[i] = "js"
         /\ \A j \in Processes : pc[j] \in {"add", "bind"} => j = i
<1>1. consumer.to # Nobody => consumer.to \in Processes /\ Runs(consumer.to)
  BY SubsRun, NobodyAssumption
<1>2. \A j \in Processes : pc[j] \in {"add", "bind"} => Runs(j)
  BY DEF Runs
<1> QED BY <1>1, <1>2, OneOnly, SubsRun

LEMMA SomeProcesses ==
  ASSUME NEW S \in SUBSET Processes PROVE IsFiniteSet(S) /\ Cardinality(S) \in Nat
BY FS_Subset, FS_CardinalityType, SettingsAssumption DEF SettingsAssumption

LEMMA IdsFinite == IsFiniteSet(Ids)
<1>1. MaxMessages \in Int /\ 1 \in Int
  BY SettingsAssumption DEF SettingsAssumption
<1> QED BY <1>1, FS_Interval DEF Ids

LEMMA CopiesTypes ==
  ASSUME Known, NEW i \in Processes, NEW n
  PROVE  /\ Occ(inbox[i], n) \in Nat
         /\ n \in Ids => rows[n] \in Nat /\ Copies(i, n) \in Nat /\ Over(Copies(i, n)) \in Nat
         /\ Occ(inbox[i], n) > 0 <=> \E k \in DOMAIN inbox[i] : inbox[i][k] = n
<1>1. inbox[i] \in Seq(Ids) /\ rows \in [Ids -> Nat]
  BY DEF Known, DeliveryInv, DataOK
<1>2. Occ(inbox[i], n) \in Nat
  BY <1>1, OccType
<1>3. n \in Ids => rows[n] \in Nat /\ Copies(i, n) \in Nat
  BY <1>1, <1>2 DEF Copies
<1>4. n \in Ids => Over(Copies(i, n)) \in Nat
  BY <1>3 DEF Over
<1> QED BY <1>1, <1>2, <1>3, <1>4, OccType

LEMMA ExcessType == ASSUME Known, NEW i \in Processes PROVE Excess(i) \in Nat
<1> DEFINE f == [n \in Ids |-> Over(Copies(i, n))]
<1>1. f \in [Ids -> Nat]
  BY CopiesTypes
<1>2. IsFiniteSet(Ids)
  BY IdsFinite
<1> HIDE DEF f
<1>3. Total(f, Ids) \in Nat
  BY <1>1, <1>2, TotalType
<1> QED BY <1>3 DEF Excess, f

(* It does not matter for whom the excess is counted.                      *)
LEMMA PaidForAny ==
  ASSUME Known, NEW i \in Processes, NEW j \in Processes, Alone(i), Paid(i), Alone(j)
  PROVE  Paid(j)
<1>1. CASE i = j
  BY <1>1
<1>2. CASE i # j
  <2>1. inbox[i] = <<>> /\ inbox[j] = <<>>
    BY <1>2 DEF Alone
  <2>2. \A n \in Ids : Copies(i, n) = Copies(j, n)
    BY <2>1 DEF Copies
  <2>3. Excess(i) = Excess(j)
    BY <2>2 DEF Excess
  <2> QED BY <2>3 DEF Paid
<1> QED BY <1>1, <1>2

LEMMA PaidForWhoRuns ==
  ASSUME Usual, AllPaid, NEW i \in Processes, Runs(i) \/ inbox[i] # <<>> PROVE Alone(i) /\ Paid(i)
BY AloneWhoRuns, PaidForAny DEF AllPaid, Usual

(* The same of the state before and the state after a step.                *)
CopiesAreNumbers ==
  \A i \in Processes : \A n \in Ids : Copies(i, n) \in Nat /\ Over(Copies(i, n)) \in Nat
LEMMA CountsTyped == Known => CopiesAreNumbers
BY CopiesTypes DEF CopiesAreNumbers
LEMMA ExcessTyped == Known => \A i \in Processes : Excess(i) \in Nat
BY ExcessType

(* A step that counts k more for one message, and has k more to pay with.  *)
LEMMA PaidStep ==
  ASSUME Known, Known', NEW i \in Processes, Alone(i)', Paid(i),
         NEW a, NEW k \in Nat,
         \A n \in Ids : \/ Copies(i, n)' <= 1
                        \/ Copies(i, n)' <= Copies(i, n) + (IF n = a THEN k ELSE 0),
         Cardinality(Opening') + k + faults + starts + replayed
           <= Cardinality(Opening) + faults' + starts' + replayed'
  PROVE  AllPaid'
<1> DEFINE f == [n \in Ids |-> Over(Copies(i, n))]
           g == [n \in Ids |-> Over(Copies(i, n)')]
<1>1. CopiesAreNumbers /\ CopiesAreNumbers'
  BY CountsTyped, PTL
<1>2. \A n \in Ids : /\ Copies(i, n) \in Nat /\ Over(Copies(i, n)) \in Nat
                     /\ Copies(i, n)' \in Nat /\ Over(Copies(i, n)') \in Nat
  BY <1>1 DEF CopiesAreNumbers, Ids
<1>3. ASSUME NEW n \in Ids
      PROVE  Over(Copies(i, n)') <= Over(Copies(i, n)) + (IF n = a THEN k ELSE 0)
  <2> DEFINE c == Copies(i, n)
             d == Copies(i, n)'
  <2>1. c \in Nat /\ d \in Nat /\ (d <= 1 \/ d <= c + (IF n = a THEN k ELSE 0))
    BY <1>2
  <2> HIDE DEF c, d
  <2>2. Over(d) <= Over(c) + (IF n = a THEN k ELSE 0)
    BY <2>1 DEF Over
  <2> QED BY <2>2 DEF c, d
<1>4. f \in [Ids -> Nat] /\ g \in [Ids -> Nat] /\ IsFiniteSet(Ids)
  BY <1>2, IdsFinite DEF Ids
<1>5. \A n \in Ids : g[n] <= f[n] + (IF n = a THEN k ELSE 0)
  BY <1>3
<1>6. Excess(i) = Total(f, Ids) /\ Excess(i)' = Total(g, Ids)
  BY DEF Excess, Ids
<1> HIDE DEF f, g
<1>7. Total(g, Ids) <= Total(f, Ids) + k
  BY <1>4, <1>5, TotalGrows
<1>8. Total(g, Ids) \in Nat /\ Total(f, Ids) \in Nat
  BY <1>4, TotalType
<1>9. Cardinality(Opening) \in Nat /\ Cardinality(Opening') \in Nat
  BY SomeProcesses DEF Opening
<1>10. Paid(i)'
  BY <1>6, <1>7, <1>8, <1>9 DEF Paid, Known, CountsOK
<1> QED BY <1>10 DEF AllPaid

(* A step that counts one more for every message of a set.                 *)
LEMMA PaidStepOn ==
  ASSUME Known, Known', NEW i \in Processes, Alone(i)', Paid(i), NEW A \in SUBSET Ids,
         \A n \in Ids : \/ Copies(i, n)' <= 1
                        \/ Copies(i, n)' <= Copies(i, n) + (IF n \in A THEN 1 ELSE 0),
         Cardinality(Opening') + Cardinality(A) + faults + starts + replayed
           <= Cardinality(Opening) + faults' + starts' + replayed'
  PROVE  AllPaid'
<1> DEFINE f == [n \in Ids |-> Over(Copies(i, n))]
           g == [n \in Ids |-> Over(Copies(i, n)')]
<1>1. CopiesAreNumbers /\ CopiesAreNumbers'
  BY CountsTyped, PTL
<1>2. \A n \in Ids : /\ Copies(i, n) \in Nat /\ Over(Copies(i, n)) \in Nat
                     /\ Copies(i, n)' \in Nat /\ Over(Copies(i, n)') \in Nat
  BY <1>1 DEF CopiesAreNumbers, Ids
<1>3. ASSUME NEW n \in Ids
      PROVE  Over(Copies(i, n)') <= Over(Copies(i, n)) + (IF n \in A THEN 1 ELSE 0)
  <2> DEFINE c == Copies(i, n)
             d == Copies(i, n)'
  <2>1. c \in Nat /\ d \in Nat /\ (d <= 1 \/ d <= c + (IF n \in A THEN 1 ELSE 0))
    BY <1>2
  <2> HIDE DEF c, d
  <2>2. Over(d) <= Over(c) + (IF n \in A THEN 1 ELSE 0)
    BY <2>1 DEF Over
  <2> QED BY <2>2 DEF c, d
<1>4. f \in [Ids -> Nat] /\ g \in [Ids -> Nat] /\ IsFiniteSet(Ids)
  BY <1>2, IdsFinite DEF Ids
<1>5. \A n \in Ids : g[n] <= f[n] + (IF n \in A THEN 1 ELSE 0)
  BY <1>3
<1>6. Excess(i) = Total(f, Ids) /\ Excess(i)' = Total(g, Ids)
  BY DEF Excess, Ids
<1> HIDE DEF f, g
<1>7. Total(g, Ids) <= Total(f, Ids) + Cardinality(A)
  BY <1>4, <1>5, TotalGrowsOn
<1>8. Total(g, Ids) \in Nat /\ Total(f, Ids) \in Nat /\ Cardinality(A) \in Nat
  BY <1>4, TotalType, FS_Subset, FS_CardinalityType
<1>9. Cardinality(Opening) \in Nat /\ Cardinality(Opening') \in Nat
  BY SomeProcesses DEF Opening
<1>10. Paid(i)'
  BY <1>6, <1>7, <1>8, <1>9 DEF Paid, Known, CountsOK
<1> QED BY <1>10 DEF AllPaid

-------------------------------------------------------------------------------
(* What is stored was published; starts and faults are counted.            *)

LEMMA MessageArrived ==
  ASSUME MessageTypes, NEW i \in Processes, Working(i)
  PROVE  Message(i) \in Arrived
<1>1. inbox[i] \in Seq(Arrived) /\ inbox[i] # <<>>
  BY DEF MessageTypes, InboxTypes, Working
<1> QED BY <1>1, HeadTailProperties DEF Message

LEMMA RowsArrive ==
  ASSUME DeliveryInv, MessageTypes, Stored, NEW i \in Processes, Working(i), stream' = stream,
         NEW k \in Nat, rows' = [rows EXCEPT ![Message(i)] = @ + k]
  PROVE  Stored'
<1>1. Message(i) \in Arrived
  BY MessageArrived
<1> QED BY <1>1 DEF Stored, Arrived, DeliveryInv, DataOK, None, Ids

LEMMA SameStored ==
  ASSUME DeliveryInv, Stored, rows' = rows,
         stream' = stream \/ stream' = stream + 1 PROVE Stored'
BY DEF Stored, DeliveryInv, DataOK, None, Ids

LEMMA UnsubscribedStored ==
  ASSUME DeliveryInv, MessageTypes, Stored, NEW i \in Processes, Unsubscribed(i), stream' = stream
  PROVE  Stored'
<1>1. CASE rows' = rows
  BY <1>1, SameStored
<1>2. CASE Working(i) /\ rows' = [rows EXCEPT ![Message(i)] = @ + 1]
  BY <1>2, RowsArrive
<1> QED BY <1>1, <1>2 DEF Unsubscribed

LEMMA StoredKept == DeliveryInv /\ MessageTypes /\ Stored /\ [Next]_vars => Stored'
<1> SUFFICES ASSUME DeliveryInv, MessageTypes, Stored, [Next]_vars PROVE Stored'
  OBVIOUS
<1>1. CASE EnsureStream \/ Publish
  BY <1>1, SameStored DEF EnsureStream, Publish, None
<1>2. CASE UNCHANGED <<stream, rows>>
  BY <1>2, SameStored
<1>3. CASE Nats
  BY <1>2, <1>3 DEF Nats, Deliver, Expire, Redeliver
<1>4. ASSUME NEW i \in Processes, Process(i) \/ Start(i) PROVE Stored'
  <2>1. CASE Insert(i)
    <3>1. PICK k \in {1, 2} : rows' = [rows EXCEPT ![Message(i)] = @ + k]
      BY <2>1 DEF Insert
    <3> QED BY <2>1, <3>1, RowsArrive DEF Insert
  <2>2. CASE InsertFails(i)
    <3>1. PICK k \in {0, 1} : rows' = [rows EXCEPT ![Message(i)] = @ + k]
      BY <2>2 DEF InsertFails
    <3> QED BY <2>2, <3>1, RowsArrive DEF InsertFails
  <2> QED
    BY <1>2, <1>4, <2>1, <2>2
    DEF Process, Lock, NotReady, DeleteConsumer, AddConsumer, Bind, Refuse, Unlock, Unlink, Start
<1>5. ASSUME NEW i \in Processes, Stop(i) \/ StopFails(i) \/ CutOff(i) \/ Crash(i)
      PROVE  Stored'
  BY <1>2, <1>5, UnsubscribedStored DEF Stop, StopFails, CutOff, Crash
<1> QED
  BY <1>1, <1>2, <1>3, <1>4, <1>5 DEF Next, vars

(* What a consumer not meant to be there brings again is a finite number.  *)
LEMMA StoredToComeType ==
  ASSUME DeliveryInv
  PROVE  StoredToCome \in SUBSET Ids /\ Cardinality(StoredToCome) \in Nat
<1>1. StoredToCome \in SUBSET Ids
  BY DEF StoredToCome, DeliveryInv, DataOK
<1> QED BY <1>1, IdsFinite, FS_Subset, FS_CardinalityType

LEMMA CountsKept == DeliveryInv /\ CountsOK /\ [Next]_vars => CountsOK'
<1> SUFFICES ASSUME DeliveryInv, CountsOK, [Next]_vars PROVE CountsOK'
  OBVIOUS
<1>0. Cardinality(StoredToCome) \in Nat
  BY StoredToComeType
<1> USE DEF CountsOK, Fault, faulty
<1>1. CASE EnsureStream \/ Publish \/ Nats \/ UNCHANGED vars
  <2>1. CASE EnsureStream \/ Publish \/ Deliver \/ UNCHANGED vars
    BY <2>1 DEF EnsureStream, Publish, Deliver, vars
  <2>2. ASSUME NEW n, Expire(n) \/ Redeliver(n) PROVE CountsOK'
    <3>1. faults' \in {faults, faults + 1} /\ UNCHANGED <<starts, replayed>>
      BY <2>2 DEF Expire, Redeliver
    <3> QED BY <3>1
  <2> QED BY <1>1, <2>1, <2>2 DEF Nats
<1>2. ASSUME NEW i \in Processes, Process(i) PROVE CountsOK'
  <2>1. CASE DeleteConsumer(i) \/ AddConsumer(i)
    <3>1. UNCHANGED starts /\ (UNCHANGED <<faults, replayed>> \/ NotAsMeant)
      BY <2>1 DEF DeleteConsumer, AddConsumer, AsMeant
    <3> QED BY <1>0, <3>1 DEF NotAsMeant
  <2> QED
    BY <1>2, <2>1 DEF Process, Lock, NotReady, Bind, Refuse, Insert, InsertFails, Unlock, Unlink
<1>3. ASSUME NEW i \in Processes,
             Start(i) \/ Stop(i) \/ StopFails(i) \/ CutOff(i) \/ Crash(i)
      PROVE  CountsOK'
  BY <1>3 DEF Start, Stop, StopFails, CutOff, Crash
<1> QED BY <1>1, <1>2, <1>3 DEF Next

LEMMA KnownKept == Known /\ [Next]_vars => Known'
BY StepDelivery, FilesKept, MessagesKept, StepLock, StoredKept, CountsKept DEF Known

-------------------------------------------------------------------------------
(* Who has what of the consumer.                                           *)

(* Steps that leave processes and subscriptions as they are.               *)
LEMMA SharedOfData ==
  ASSUME Shared, UNCHANGED <<pc, sub>>, consumer'.to = consumer.to,
         \A i \in Processes : inbox'[i] # <<>> => inbox[i] # <<>> \/ sub[i] # "none"
  PROVE  Shared'
BY DEF Shared

LEMMA CountedFields ==
  ASSUME DeliveryInv, NEW n \in Pending, NEW count, NEW due, Counted(n, count, due)
  PROVE  /\ consumer'.to = consumer.to /\ consumer'.next = consumer.next
         /\ Pending' = Pending
         /\ \A m \in Pending : Due(m)' = IF m = n THEN due ELSE Due(m)
         /\ consumer # NoConsumer /\ consumer' # NoConsumer
<1>1. consumer' = [first |-> consumer.first, next |-> consumer.next,
                   pending |-> With(n, count, due), to |-> consumer.to]
  BY DEF Counted, DeliveryInv, DataOK, ConsumerOK
<1>2. Pending' = Pending
  <2>1. DOMAIN With(n, count, due) = Pending \cup {n}
    BY WithDomain
  <2>2. Pending \cup {n} = Pending
    OBVIOUS
  <2> QED BY <1>1, <2>1, <2>2 DEF Pending
<1>3. \A m \in Pending : Due(m)' = IF m = n THEN due ELSE Due(m)
  BY <1>1, <1>2 DEF With, Due
<1>4. consumer # NoConsumer /\ consumer' # NoConsumer
  BY <1>2 DEF NoConsumer, Pending
<1> QED BY <1>1, <1>2, <1>3, <1>4

LEMMA FewerFields ==
  ASSUME DeliveryInv, NEW n \in Pending, Fewer(n)
  PROVE  /\ consumer'.to = consumer.to /\ consumer'.next = consumer.next
         /\ Pending' = Pending \ {n}
         /\ \A m \in Pending' : Due(m)' = Due(m)
         /\ consumer # NoConsumer /\ consumer' # NoConsumer
<1>1. consumer' = [first |-> consumer.first, next |-> consumer.next,
                   pending |-> Without(n), to |-> consumer.to]
  BY DEF Fewer, DeliveryInv, DataOK, ConsumerOK
<1>2. Pending' = Pending \ {n}
  BY <1>1, WithoutDomain DEF Pending
<1>3. \A m \in Pending' : Due(m)' = Due(m)
  BY <1>1, <1>2 DEF Without, Restrict, Due
<1>4. consumer # NoConsumer
  BY DEF NoConsumer, Pending
<1>5. consumer.next # None
  BY <1>4, SettingsAssumption DEF DeliveryInv, DataOK, ConsumerOK, None, SettingsAssumption
<1>6. consumer' # NoConsumer
  BY <1>1, <1>5 DEF NoConsumer
<1> QED BY <1>1, <1>2, <1>3, <1>4, <1>6

(* What Acked and Naked do.                                                *)
LEMMA Answered ==
  ASSUME NEW i \in Processes, Acked(i) \/ Naked(i)
  PROVE  \/ consumer' = consumer
         \/ sub[i] = "js" /\ Message(i) \in Pending
            /\ (Fewer(Message(i)) \/ Counted(Message(i), consumer.pending[Message(i)].count, TRUE))
BY DEF Acked, Naked, Fewer, Counted

LEMMA DataShared ==
  ASSUME Usual, EnsureStream \/ Publish \/ Nats
                \/ \E i \in Processes : Refuse(i) \/ Insert(i) \/ InsertFails(i)
  PROVE  Shared'
<1>1. UNCHANGED <<pc, sub>>
  BY DataSteps DEF Untouched
<1>2. /\ DeliveryInv /\ Shared
      /\ inbox \in [Processes -> Seq(Ids)]
  BY DEF Usual, Known, DeliveryInv, DataOK
<1>3. CASE EnsureStream \/ Publish
  <2>1. consumer' = consumer
    BY <1>3 DEF EnsureStream, Publish
  <2>2. \A i \in Processes : inbox'[i] # <<>> => inbox[i] # <<>> \/ sub[i] # "none"
    BY <1>3 DEF EnsureStream, Publish, work
  <2> QED BY <1>1, <1>2, <2>1, <2>2, SharedOfData
<1>5. ASSUME NEW n, Pushed(n), consumer.to # Nobody
      PROVE  \A i \in Processes : inbox'[i] # <<>> => inbox[i] # <<>> \/ sub[i] # "none"
  BY <1>2, <1>5 DEF Pushed, Shared
<1>6. CASE Deliver
  <2>1. consumer' = [first |-> consumer.first, next |-> consumer.next + 1,
                     pending |-> With(consumer.next, 1, FALSE), to |-> consumer.to]
    BY <1>2, <1>6 DEF Deliver, DeliveryInv, DataOK, ConsumerOK
  <2>2. consumer # NoConsumer /\ consumer.to # Nobody
    BY <1>6 DEF Deliver, NoConsumer
  <2>3. consumer'.to = consumer.to /\ consumer' # NoConsumer
    BY <2>1, <2>2 DEF NoConsumer
  <2> QED BY <1>1, <1>2, <1>5, <1>6, <2>2, <2>3, SharedOfData DEF Deliver
<1>7. ASSUME NEW n \in Pending, NEW count, NEW due, Counted(n, count, due) \/ Fewer(n),
             \A i \in Processes : inbox'[i] # <<>> => inbox[i] # <<>> \/ sub[i] # "none"
      PROVE  Shared'
  <2>1. consumer'.to = consumer.to /\ consumer # NoConsumer /\ consumer' # NoConsumer
    BY <1>2, <1>7, CountedFields, FewerFields
  <2> QED BY <1>1, <1>2, <1>7, <2>1, SharedOfData
<1>8. ASSUME NEW n, Expire(n) \/ Redeliver(n) PROVE Shared'
  <2>1. n \in Pending
    BY <1>8 DEF Expire, Redeliver
  <2>2. \/ Counted(n, consumer.pending[n].count, TRUE)
        \/ Counted(n, consumer.pending[n].count + 1, FALSE)
        \/ Fewer(n)
    BY <1>8 DEF Expire, Redeliver, Counted, Fewer
  <2>3. inbox' = inbox \/ (Pushed(n) /\ consumer.to # Nobody)
    BY <1>8 DEF Expire, Redeliver, work
  <2>4. \A i \in Processes : inbox'[i] # <<>> => inbox[i] # <<>> \/ sub[i] # "none"
    BY <1>5, <2>3
  <2> QED BY <1>7, <2>1, <2>2, <2>4
<1>9. ASSUME NEW i \in Processes, Refuse(i) \/ Insert(i) \/ InsertFails(i) PROVE Shared'
  <2>1. Working(i) /\ (consumer' = consumer \/ Acked(i) \/ Naked(i)) /\ (Dropped(i) \/ inbox' = inbox)
    BY <1>9 DEF Refuse, Insert, InsertFails
  <2>2. \A j \in Processes : inbox'[j] # <<>> => inbox[j] # <<>> \/ sub[j] # "none"
    BY <1>2, <2>1 DEF Dropped, Working
  <2>3. CASE consumer' = consumer
    BY <1>1, <1>2, <2>2, <2>3, SharedOfData
  <2> QED BY <1>7, <2>1, <2>2, <2>3, Answered
<1> QED BY <1>3, <1>6, <1>8, <1>9 DEF Nats

LEMMA StartShared ==
  ASSUME Usual, NEW i \in Processes,
         NotReady(i) \/ DeleteConsumer(i) \/ AddConsumer(i) \/ Bind(i) \/ Start(i) \/ Lock(i)
  PROVE  Shared'
<1>1. pc \in [Processes -> Pcs] /\ sub \in [Processes -> Subs] /\ inbox \in [Processes -> Seq(Ids)]
  BY DEF Usual, Known, FileTypes, DeliveryInv, DataOK
<1>2. Shared
  BY DEF Usual
<1>3. CASE NotReady(i) \/ Start(i) \/ Lock(i)
  BY <1>1, <1>2, <1>3 DEF NotReady, Start, Lock, Goes, Shared, work
<1>4. CASE DeleteConsumer(i) \/ AddConsumer(i) \/ Bind(i)
  <2>1. Runs(i) /\ pc[i] # "running"
    BY <1>4 DEF DeleteConsumer, AddConsumer, Bind, Goes, Runs
  <2>2. consumer.to = Nobody /\ \A j \in Processes : sub[j] = "none" /\ inbox[j] = <<>>
    BY <2>1, OthersHaveNothing, OneOnly, SubsRun
  <2>3. \A j \in Processes : pc[j] \in {"add", "bind"} => j = i
    BY <2>1, OneOnly DEF Runs
  <2>4. CASE DeleteConsumer(i)
    <3>1. consumer'.to = Nobody
      BY <2>2, <2>4 DEF DeleteConsumer, AsMeant, NotAsMeant, NoConsumer
    <3> QED BY <1>1, <1>2, <2>2, <2>3, <2>4, <3>1 DEF DeleteConsumer, Goes, Shared, work
  <2>5. CASE AddConsumer(i)
    <3>1. consumer'.to = Nobody
      BY <2>2, <2>5 DEF AddConsumer, AsMeant, NotAsMeant, Consumer
    <3> QED BY <1>1, <1>2, <2>2, <2>3, <2>5, <3>1 DEF AddConsumer, Goes, Shared, work
  <2>6. CASE Bind(i)
    <3>1. pc[i] = "bind"
      BY <2>6 DEF Bind, Goes
    <3>2. \/ consumer' = [consumer EXCEPT !.to = i] /\ sub' = [sub EXCEPT ![i] = "js"]
          \/ consumer' = Consumer(1, i) /\ sub' = [sub EXCEPT ![i] = "js"]
          \/ consumer' = consumer /\ sub' = [sub EXCEPT ![i] = "core"]
      BY <2>6 DEF Bind
    <3>3. consumer'.to \in {i, Nobody} /\ (consumer'.to = i => sub'[i] = "js")
          /\ (sub'[i] = "core" => consumer'.to = Nobody)
      <4>1. CASE consumer' = [consumer EXCEPT !.to = i] /\ sub' = [sub EXCEPT ![i] = "js"]
        <5>1. consumer' = [first |-> consumer.first, next |-> consumer.next,
                           pending |-> consumer.pending, to |-> i]
          BY <4>1 DEF Usual, Known, DeliveryInv, DataOK, ConsumerOK
        <5> QED BY <1>1, <4>1, <5>1
      <4>2. CASE consumer' = consumer /\ sub' = [sub EXCEPT ![i] = "core"]
        BY <1>1, <2>2, <4>2, NobodyAssumption
      <4>3. CASE consumer' = Consumer(1, i) /\ sub' = [sub EXCEPT ![i] = "js"]
        BY <1>1, <4>3 DEF Consumer
      <4> QED BY <3>2, <4>1, <4>2, <4>3
    <3> QED BY <1>1, <1>2, <2>2, <2>3, <2>6, <3>2, <3>3 DEF Bind, Goes, Shared, work
  <2> QED BY <1>4, <2>4, <2>5, <2>6
<1> QED BY <1>3, <1>4

LEMMA StopShared ==
  ASSUME Usual, NEW i \in Processes,
         Unlock(i) \/ Unlink(i) \/ Stop(i) \/ CutOff(i) \/ Crash(i)
  PROVE  Shared'
<1>1. pc \in [Processes -> Pcs] /\ sub \in [Processes -> Subs] /\ inbox \in [Processes -> Seq(Ids)]
  BY DEF Usual, Known, FileTypes, DeliveryInv, DataOK
<1>2. Shared
  BY DEF Usual
<1>3. CASE Unlock(i) \/ Unlink(i)
  BY <1>1, <1>2, <1>3 DEF Unlock, Unlink, Goes, Shared, work
<1>4. CASE Stop(i) \/ CutOff(i) \/ Crash(i)
  <2>1. Unsubscribed(i) /\ \A j \in Processes : j # i => pc'[j] = pc[j]
    BY <1>1, <1>4 DEF Stop, CutOff, Crash, Goes
  <2>2. pc'[i] \notin {"add", "bind"}
    <3>1. CASE CutOff(i)
      BY <3>1, SubsRun DEF CutOff
    <3>2. CASE Stop(i) \/ Crash(i)
      BY <1>1, <3>2 DEF Stop, Crash, Goes
    <3> QED BY <1>4, <3>1, <3>2
  <2>3. CASE consumer.to = i
    <3>1. consumer' = [consumer EXCEPT !.to = Nobody]
      BY <2>1, <2>3 DEF Unsubscribed
    <3>2. consumer'.to = Nobody
      BY <3>1 DEF Usual, Known, DeliveryInv, DataOK, ConsumerOK
    <3>3. \A j \in Processes : pc'[j] \notin {"add", "bind"}
      <4>1. \A j \in Processes : pc[j] \in {"add", "bind"} => j = i
        BY <2>3, SubsRun, OneOnly DEF Runs
      <4> QED BY <2>1, <2>2, <4>1
    <3> QED BY <1>1, <1>2, <2>1, <3>2, <3>3 DEF Unsubscribed, Shared
  <2>4. CASE consumer.to # i
    <3>1. consumer' = consumer
      BY <2>1, <2>4 DEF Unsubscribed
    <3> QED BY <1>1, <1>2, <2>1, <2>2, <2>4, <3>1 DEF Unsubscribed, Shared
  <2> QED BY <2>3, <2>4
<1> QED BY <1>3, <1>4

LEMMA SharedKept ==
  ASSUME Usual, [Next]_vars, ~hung' PROVE Shared'
<1>1. CASE UNCHANGED vars
  BY <1>1 DEF vars, work, Usual, Shared
<1>2. CASE EnsureStream \/ Publish \/ Nats
  BY <1>2, DataShared
<1>3. ASSUME NEW i \in Processes, Process(i) \/ Start(i) \/ Stop(i) \/ CutOff(i) \/ Crash(i)
      PROVE  Shared'
  BY <1>3, DataShared, StartShared, StopShared DEF Process
<1>4. ASSUME NEW i \in Processes, StopFails(i) PROVE FALSE
  BY <1>4 DEF StopFails
<1> QED BY <1>1, <1>2, <1>3, <1>4 DEF Next

-------------------------------------------------------------------------------
(* What a step does to the copies counted.                                 *)

HeldIsWaiting ==
  \A i \in Processes : consumer.to = i =>
    \A n \in Ids : Held(n) <=> Occ(inbox[i], n) > 0

LEMMA HeldWaits == Known => HeldIsWaiting
BY CopiesTypes, NobodyAssumption DEF HeldIsWaiting, Held

LEMMA NothingHeld == ASSUME consumer.to = Nobody, NEW n PROVE ~Held(n)
BY DEF Held

LEMMA NotArrived ==
  ASSUME Known, NEW i \in Processes, NEW n \in Ids, n > stream
  PROVE  rows[n] = 0 /\ Occ(inbox[i], n) = 0
<1>1. rows[n] = 0
  BY DEF Known, Stored
<1>2. inbox[i] \in Seq(Arrived) /\ stream \in Int
  BY DEF Known, MessageTypes, InboxTypes, DeliveryInv, DataOK, None
<1>3. ~ \E k \in DOMAIN inbox[i] : inbox[i][k] = n
  <2> SUFFICES ASSUME NEW k \in DOMAIN inbox[i] PROVE inbox[i][k] # n
    OBVIOUS
  <2>1. inbox[i][k] \in Arrived
    BY <1>2, ElementOfSeq, LenProperties
  <2> QED BY <1>2, <2>1 DEF Arrived, Ids
<1>4. Occ(inbox[i], n) = 0
  BY <1>3, CopiesTypes
<1> QED BY <1>1, <1>4

LEMMA PendingFirst ==
  ASSUME Known, NEW n \in Pending PROVE ~ (n >= consumer.next)
<1>1. n \in 1..(consumer.next - 1) /\ consumer # NoConsumer
  BY DEF Known, MessageTypes, BrokerTypes, Pending, NoConsumer
<1>2. consumer.next \in Int
  BY <1>1 DEF Known, DeliveryInv, DataOK, ConsumerOK
<1> QED BY <1>1, <1>2

(* A step that leaves messages alone, and gives nobody the consumer.       *)
LEMMA QuietCopies ==
  ASSUME Known, Known', UNCHANGED <<inbox, rows>>, NEW i \in Processes, NEW n \in Ids,
         MayCome(n)' => MayCome(n)
  PROVE  Copies(i, n)' <= Copies(i, n)
<1>1. rows[n] \in Nat /\ Occ(inbox[i], n) \in Nat
  BY CopiesTypes
<1> QED BY <1>1 DEF Copies

LEMMA QuietMayCome ==
  ASSUME UNCHANGED <<consumer, inbox>>, Live' => Live, NEW n
  PROVE  MayCome(n)' => MayCome(n)
BY DEF MayCome, Due, Held, Pending

(* Another message than n is answered or delivered.                        *)
LEMMA OtherMayCome ==
  ASSUME NEW n, consumer'.to = consumer.to, pc' = pc,
         consumer' # NoConsumer => consumer # NoConsumer,
         n \in Pending' => n \in Pending /\ Due(n)' = Due(n),
         n >= consumer'.next => n >= consumer.next,
         Held(n) => Held(n)'
  PROVE  MayCome(n)' => MayCome(n)
BY DEF MayCome, Live

LEMMA PushedOcc ==
  ASSUME Known, NEW i \in Processes, consumer.to = i, NEW n \in Ids, Pushed(n)
  PROVE  /\ \A m : Occ(inbox'[i], m) = Occ(inbox[i], m) + (IF n = m THEN 1 ELSE 0)
         /\ \A j \in Processes : j # i => inbox'[j] = inbox[j]
<1>1. inbox \in [Processes -> Seq(Ids)]
  BY DEF Known, DeliveryInv, DataOK
<1>2. inbox'[i] = Append(inbox[i], n) /\ \A j \in Processes : j # i => inbox'[j] = inbox[j]
  BY <1>1 DEF Pushed
<1> QED BY <1>1, <1>2, OccAppend

LEMMA DroppedOcc ==
  ASSUME Known, NEW i \in Processes, Working(i), Dropped(i)
  PROVE  /\ \A m : Occ(inbox'[i], m) = Occ(inbox[i], m) + (IF Message(i) = m THEN -1 ELSE 0)
         /\ \A j \in Processes : j # i => inbox'[j] = inbox[j]
         /\ Message(i) \in Ids
<1>1. inbox \in [Processes -> Seq(Ids)] /\ inbox[i] # <<>>
  BY DEF Known, DeliveryInv, DataOK, Working
<1>2. inbox'[i] = Tail(inbox[i]) /\ \A j \in Processes : j # i => inbox'[j] = inbox[j]
  BY <1>1 DEF Dropped
<1>3. Tail(inbox[i]) \in Seq(Ids) /\ Head(inbox[i]) \in Ids
  BY <1>1, HeadTailProperties
<1>4. ASSUME NEW m PROVE Occ(inbox'[i], m) = Occ(inbox[i], m) + (IF Message(i) = m THEN -1 ELSE 0)
  <2>1. Occ(inbox[i], m) = Occ(Tail(inbox[i]), m) + (IF Head(inbox[i]) = m THEN 1 ELSE 0)
    BY <1>1, OccTail
  <2>2. Occ(Tail(inbox[i]), m) \in Nat
    BY <1>3, OccType
  <2> QED BY <1>2, <2>1, <2>2 DEF Message
<1> QED BY <1>2, <1>3, <1>4 DEF Message

LEMMA DeliverCopies ==
  ASSUME Usual, Known', Deliver, NEW i \in Processes, consumer.to = i, NEW n \in Ids
  PROVE  Copies(i, n)' <= Copies(i, n)
<1>0. PICK m : m = consumer.next
  OBVIOUS
<1>1. /\ Known /\ consumer.to # Nobody /\ pc' = pc /\ rows' = rows
      /\ m <= stream /\ Pushed(m)
  BY <1>0, DataSteps DEF Usual, Deliver, Nats, Untouched
<1>2. m \in Ids
  <2>1. consumer # NoConsumer
    BY <1>1 DEF NoConsumer
  <2>2. consumer.next \in 1..(MaxMessages + 1) /\ stream \in None..MaxMessages
    BY <1>1, <2>1 DEF Known, DeliveryInv, DataOK, ConsumerOK
  <2> QED BY <1>0, <1>1, <2>2, SettingsAssumption DEF Ids, None, SettingsAssumption
<1>3. consumer' = [first |-> consumer.first, next |-> m + 1,
                   pending |-> With(m, 1, FALSE), to |-> consumer.to]
  BY <1>0, <1>1 DEF Deliver, Known, DeliveryInv, DataOK, ConsumerOK
<1>4. Pending' = Pending \cup {m} /\ ~Due(m)'
  <2>1. DOMAIN With(m, 1, FALSE) = Pending \cup {m}
    BY WithDomain
  <2> QED BY <1>3, <2>1 DEF Pending, Due, With
<1>5. \A j \in Pending : j # m => Due(j)' = Due(j)
  BY <1>3 DEF Due, With
<1>6. consumer'.to = i /\ consumer'.next = m + 1 /\ m \in Int
  BY <1>2, <1>3 DEF Ids
<1>7. \A j : Occ(inbox'[i], j) = Occ(inbox[i], j) + (IF m = j THEN 1 ELSE 0)
  BY <1>1, <1>2, PushedOcc
<1>8. HeldIsWaiting /\ HeldIsWaiting'
  BY <1>1, HeldWaits, PTL
<1>9. /\ Held(n) <=> Occ(inbox[i], n) > 0
      /\ Held(n)' <=> Occ(inbox'[i], n) > 0
      /\ Occ(inbox[i], n) \in Nat /\ rows[n] \in Nat
  BY <1>1, <1>6, <1>8, CopiesTypes DEF HeldIsWaiting, Ids
<1>10. CASE n = m
  <2>1. MayCome(n)
    BY <1>0, <1>1, <1>6, <1>10 DEF MayCome, Live
  <2>2. Held(n)' /\ ~Due(n)' /\ ~ (n >= consumer'.next)
    BY <1>4, <1>6, <1>7, <1>9, <1>10
  <2>3. ~MayCome(n)'
    BY <2>2 DEF MayCome
  <2>4. Occ(inbox'[i], n) = Occ(inbox[i], n) + 1 /\ rows'[n] = rows[n]
    BY <1>1, <1>7, <1>9, <1>10
  <2> QED BY <1>9, <2>1, <2>3, <2>4 DEF Copies
<1>11. CASE n # m
  <2>1. n \in Pending' => n \in Pending /\ Due(n)' = Due(n)
    BY <1>4, <1>5, <1>11
  <2>2. n >= consumer'.next => n >= consumer.next
    BY <1>0, <1>6 DEF Ids
  <2>3. Held(n) => Held(n)'
    BY <1>7, <1>9, <1>11
  <2>4. consumer'.to = consumer.to
    BY <1>6
  <2>5. MayCome(n)' => MayCome(n)
    BY <1>1, <2>1, <2>2, <2>3, <2>4, OtherMayCome DEF NoConsumer
  <2>6. Occ(inbox'[i], n) = Occ(inbox[i], n) /\ rows'[n] = rows[n]
    BY <1>1, <1>7, <1>9, <1>11
  <2> QED BY <1>9, <2>5, <2>6 DEF Copies
<1> QED BY <1>10, <1>11

LEMMA ExpireCopies ==
  ASSUME Usual, Known', NEW a \in Ids, Expire(a), NEW i \in Processes, NEW n \in Ids
  PROVE  Copies(i, n)' <= Copies(i, n) + (IF n = a /\ Held(a) THEN 1 ELSE 0)
<1>1. /\ Known /\ pc' = pc /\ UNCHANGED <<inbox, rows>>
      /\ a \in Pending /\ Counted(a, consumer.pending[a].count, TRUE)
  BY DataSteps DEF Usual, Expire, Nats, Untouched, Counted, work, Ids
<1>2. /\ consumer'.to = consumer.to /\ consumer'.next = consumer.next /\ Pending' = Pending
      /\ \A m \in Pending : m # a => Due(m)' = Due(m)
      /\ consumer # NoConsumer
  BY <1>1, CountedFields DEF Known
<1>3. Held(n)' <=> Held(n)
  BY <1>1, <1>2 DEF Held
<1>4. rows[n] \in Nat /\ Occ(inbox[i], n) \in Nat
  BY <1>1, CopiesTypes
<1>5. CASE n = a /\ Held(a)
  BY <1>1, <1>4, <1>5 DEF Copies
<1>6. CASE ~ (n = a /\ Held(a))
  <2>1. MayCome(n)' => MayCome(n)
    <3>1. CASE n = a
      <4>1. Live' => Live
        BY <1>1, <1>2 DEF Live
      <4> QED BY <1>1, <1>6, <3>1, <4>1 DEF MayCome
    <3>2. CASE n # a
      BY <1>1, <1>2, <1>3, <3>2, OtherMayCome
    <3> QED BY <3>1, <3>2
  <2> QED BY <1>1, <1>4, <1>6, <2>1 DEF Copies
<1> QED BY <1>5, <1>6

LEMMA AgainCopies ==
  ASSUME Usual, Known', NEW a \in Ids, Redeliver(a), NEW i \in Processes, consumer.to = i,
         NEW n \in Ids
  PROVE  Copies(i, n)' <= Copies(i, n)
<1>1. /\ Known /\ pc' = pc /\ rows' = rows /\ consumer.to # Nobody
      /\ a \in Pending /\ Due(a)
  BY DataSteps DEF Usual, Redeliver, Nats, Untouched, Due, Ids
<1>2. rows[n] \in Nat /\ Occ(inbox[i], n) \in Nat
  BY <1>1, CopiesTypes
<1>3. HeldIsWaiting /\ HeldIsWaiting'
  BY <1>1, HeldWaits, PTL
<1>4. n = a => MayCome(n) /\ ~ (n >= consumer.next)
  BY <1>1, PendingFirst DEF MayCome, Live
<1>5. CASE Pushed(a) /\ Counted(a, consumer.pending[a].count + 1, FALSE)
  <2>1. /\ consumer'.to = consumer.to /\ consumer'.next = consumer.next /\ Pending' = Pending
        /\ \A m \in Pending : Due(m)' = IF m = a THEN FALSE ELSE Due(m)
        /\ consumer # NoConsumer
    BY <1>1, <1>5, CountedFields DEF Known
  <2>2. \A m : Occ(inbox'[i], m) = Occ(inbox[i], m) + (IF a = m THEN 1 ELSE 0)
    BY <1>1, <1>5, PushedOcc
  <2>3. /\ Held(n) <=> Occ(inbox[i], n) > 0
        /\ Held(n)' <=> Occ(inbox'[i], n) > 0
    BY <1>3, <2>1 DEF HeldIsWaiting, Ids
  <2>4. CASE n = a
    <3>1. ~Due(n)' /\ Held(n)' /\ ~ (n >= consumer'.next)
      <4>1. ~Due(n)'
        BY <1>1, <2>1, <2>4
      <4>2. Occ(inbox'[i], n) = Occ(inbox[i], n) + 1
        BY <2>2, <2>4
      <4>3. Held(n)'
        BY <1>2, <2>3, <4>2
      <4> QED BY <1>4, <2>1, <2>4, <4>1, <4>3
    <3>2. ~MayCome(n)'
      BY <3>1 DEF MayCome
    <3> QED BY <1>1, <1>2, <1>4, <2>2, <2>4, <3>2 DEF Copies
  <2>5. CASE n # a
    <3>1. Occ(inbox'[i], n) = Occ(inbox[i], n)
      BY <1>2, <2>2, <2>5
    <3>2. MayCome(n)' => MayCome(n)
      BY <1>1, <2>1, <2>3, <2>5, <3>1, OtherMayCome
    <3> QED BY <1>1, <1>2, <3>1, <3>2 DEF Copies
  <2> QED BY <2>4, <2>5
<1>6. CASE inbox' = inbox /\ Fewer(a)
  <2>1. /\ consumer'.to = consumer.to /\ consumer'.next = consumer.next
        /\ Pending' = Pending \ {a}
        /\ \A m \in Pending' : Due(m)' = Due(m)
        /\ consumer # NoConsumer
    BY <1>1, <1>6, FewerFields DEF Known
  <2>2. Held(n)' <=> Held(n)
    BY <1>6, <2>1 DEF Held
  <2>3. MayCome(n)' => MayCome(n)
    BY <1>1, <2>1, <2>2, OtherMayCome
  <2> QED BY <1>1, <1>2, <1>6, <2>3 DEF Copies
<1> QED BY <1>5, <1>6 DEF Redeliver, Counted, Fewer

(* The callback is through with a message: k rows more, one place less;    *)
(* if it is given back, or the ack is lost, NATS may push it once more.    *)
LEMMA HandledCopies ==
  ASSUME Usual, Known', NEW i \in Processes, Working(i), Dropped(i),
         UNCHANGED <<pc, sub>>, NEW k \in Nat, rows' = [rows EXCEPT ![Message(i)] = @ + k],
         consumer' = consumer \/ Acked(i) \/ Naked(i), NEW n \in Ids
  PROVE  /\ Copies(i, n)' <= Copies(i, n) + (IF n = Message(i) THEN k ELSE 0)
         /\ Acked(i) /\ k > 0 =>
              Copies(i, n)' <= Copies(i, n) + (IF n = Message(i) THEN k - 1 ELSE 0)
<1>0. PICK a : a = Message(i)
  OBVIOUS
<1>1. Known /\ sub[i] # "none" /\ Runs(i) /\ consumer.to \in {i, Nobody}
  BY SubsRun, OthersHaveNothing DEF Usual, Working
<1>2. rows[n] \in Nat /\ Occ(inbox[i], n) \in Nat
  BY <1>1, CopiesTypes
<1>3. a \in Ids /\ \A m : Occ(inbox'[i], m) = Occ(inbox[i], m) + (IF a = m THEN -1 ELSE 0)
  BY <1>0, <1>1, DroppedOcc
<1>4. rows'[n] = rows[n] + (IF n = a THEN k ELSE 0)
  BY <1>0, <1>1, <1>2 DEF Known, DeliveryInv, DataOK
<1>5. HeldIsWaiting /\ HeldIsWaiting'
  BY <1>1, HeldWaits, PTL
<1>6. consumer' = consumer \/ (sub[i] = "js" /\ a \in Pending
        /\ (Fewer(a) \/ Counted(a, consumer.pending[a].count, TRUE)))
  BY <1>0, Answered
<1>7. consumer'.to = consumer.to /\ consumer'.next = consumer.next
      /\ (consumer' # NoConsumer => consumer # NoConsumer)
      /\ \A m \in Pending' : m # a => m \in Pending /\ Due(m)' = Due(m)
  <2>1. CASE consumer' = consumer
    BY <2>1 DEF Pending, Due
  <2>2. CASE a \in Pending /\ Fewer(a)
    BY <1>1, <2>2, FewerFields DEF Known
  <2>3. CASE a \in Pending /\ Counted(a, consumer.pending[a].count, TRUE)
    BY <1>1, <2>3, CountedFields DEF Known
  <2> QED BY <1>6, <2>1, <2>2, <2>3
<1>8. consumer.to = i => /\ Held(n) <=> Occ(inbox[i], n) > 0
                         /\ Held(n)' <=> Occ(inbox'[i], n) > 0
  BY <1>5, <1>7 DEF HeldIsWaiting, Ids
<1>9. consumer.to = Nobody => ~Held(n) /\ ~Held(n)'
  BY <1>7 DEF Held
<1>10. CASE n # a
  <2>1. Occ(inbox'[i], n) = Occ(inbox[i], n)
    BY <1>2, <1>3, <1>10
  <2>2. Held(n) => Held(n)'
    BY <1>1, <1>8, <1>9, <2>1
  <2>3. MayCome(n)' => MayCome(n)
    BY <1>7, <1>10, <2>2, OtherMayCome
  <2> QED BY <1>0, <1>2, <1>4, <1>10, <2>1, <2>3 DEF Copies
<1>11. CASE n = a
  <2>1. Occ(inbox'[i], n) = Occ(inbox[i], n) - 1
    BY <1>2, <1>3, <1>11
  <2>2. Copies(i, n)' <= Copies(i, n) + k
    BY <1>2, <1>4, <1>11, <2>1 DEF Copies
  <2>3. ASSUME Acked(i) PROVE MayCome(n)' => MayCome(n)
    <3>1. CASE a \in Pending /\ Fewer(a)
      <4>1. n \notin Pending' /\ n \in Pending
        BY <1>1, <1>11, <3>1, FewerFields DEF Known
      <4> QED BY <1>1, <1>7, <4>1, PendingFirst DEF MayCome
    <3>2. CASE consumer' = consumer /\ n \notin Pending
      <4>1. n \notin Pending'
        BY <3>2 DEF Pending
      <4>2. Live' => Live
        BY <1>7 DEF Live
      <4> QED BY <1>7, <4>1, <4>2 DEF MayCome
    <3>3. CASE consumer' = consumer /\ sub[i] # "js"
      <4>1. consumer.to # i
        BY <3>3, SubsRun
      <4>2. Held(n)' <=> Held(n)
        BY <1>1, <1>9, <4>1
      <4> QED BY <3>3, <4>2 DEF MayCome, Live, Due, Pending
    <3> QED BY <1>0, <1>11, <2>3, <3>1, <3>2, <3>3 DEF Acked, Fewer
  <2>4. Acked(i) => Copies(i, n)' <= Copies(i, n) + (k - 1)
    BY <1>2, <1>4, <1>11, <2>1, <2>3 DEF Copies
  <2> QED BY <1>0, <1>11, <2>2, <2>4
<1> QED BY <1>10, <1>11

(* A subscription ends: what waited is gone, and the consumer serves no    *)
(* process any more.                                                       *)
LEMMA UnsubscribedCopies ==
  ASSUME Usual, Known', NEW j \in Processes, Unsubscribed(j),
         \A i \in Processes : pc'[i] \in {"add", "bind"} => pc[i] = pc'[i] /\ i # j,
         NEW i \in Processes, Working(j) => i = j, NEW n \in Ids
  PROVE  Copies(i, n)' <= Copies(i, n)
<1>1. Known /\ inbox \in [Processes -> Seq(Ids)] /\ rows \in [Ids -> Nat]
  BY DEF Usual, Known, DeliveryInv, DataOK
<1>2. rows[n] \in Nat /\ Occ(inbox[i], n) \in Nat
  BY <1>1, CopiesTypes
<1>3. consumer.to = j \/ Working(j) => Runs(j)
  BY SubsRun DEF Working
<1>4. ASSUME Runs(j) PROVE ~Live'
  <2>1. consumer'.to = Nobody
    <3>1. CASE consumer.to = j
      <4>1. consumer' = [first |-> consumer.first, next |-> consumer.next,
                         pending |-> consumer.pending, to |-> Nobody]
        BY <1>1, <3>1 DEF Unsubscribed, Known, DeliveryInv, DataOK, ConsumerOK
      <4> QED BY <4>1
    <3>2. CASE consumer.to # j
      BY <1>4, <3>2, OthersHaveNothing DEF Unsubscribed
    <3> QED BY <3>1, <3>2
  <2>2. \A p \in Processes : pc'[p] \notin {"add", "bind"}
    BY <1>4, OthersHaveNothing
  <2> QED BY <2>1, <2>2 DEF Live
<1>5. CASE Working(j)
  <2>1. i = j /\ inbox'[i] = <<>>
    BY <1>1, <1>5 DEF Unsubscribed
  <2>2. Occ(inbox'[i], n) = 0
    BY <2>1, OccEmpty
  <2>3. ~MayCome(n)'
    BY <1>3, <1>4, <1>5 DEF MayCome
  <2>4. rows'[n] = rows[n] \/ (n = Message(j) /\ rows'[n] = rows[n] + 1)
    BY <1>1 DEF Unsubscribed
  <2>5. Occ(inbox[j], Message(j)) > 0
    <3>1. Occ(inbox[j], Message(j)) = Occ(Tail(inbox[j]), Message(j)) + 1
      BY <1>1, <1>5, OccTail DEF Working, Message
    <3>2. Tail(inbox[j]) \in Seq(Ids)
      BY <1>1, <1>5, HeadTailProperties DEF Working
    <3>3. Occ(Tail(inbox[j]), Message(j)) \in Nat
      BY <3>2, OccType
    <3> QED BY <3>1, <3>3
  <2> QED BY <1>2, <2>1, <2>2, <2>3, <2>4, <2>5 DEF Copies
<1>6. CASE ~Working(j)
  <2>1. inbox' = inbox /\ rows' = rows
    <3>1. inbox[j] = <<>>
      BY <1>6 DEF Working
    <3> QED BY <1>1, <1>6, <3>1 DEF Unsubscribed
  <2>2. MayCome(n)' => MayCome(n)
    <3>1. CASE consumer.to = j
      BY <1>3, <1>4, <3>1 DEF MayCome
    <3>2. CASE consumer.to # j
      <4>1. consumer' = consumer
        BY <3>2 DEF Unsubscribed
      <4>2. Live' => Live
        BY <4>1 DEF Live
      <4> QED BY <2>1, <4>1, <4>2, QuietMayCome
    <3> QED BY <3>1, <3>2
  <2> QED BY <1>1, <2>1, <2>2, QuietCopies
<1> QED BY <1>5, <1>6

(* start() takes a consumer of before away, ...                            *)
LEMMA DeleteCopies ==
  ASSUME Usual, Known', NEW j \in Processes, DeleteConsumer(j), consumer' = NoConsumer,
         NEW i \in Processes, NEW n \in Ids
  PROVE  Copies(i, n)' <= Copies(i, n)
<1>1. /\ Known /\ UNCHANGED <<inbox, rows>> /\ Runs(j) /\ pc[j] = "waiting"
      /\ pc' = [pc EXCEPT ![j] = "add"]
  BY DEF Usual, DeleteConsumer, Goes, Runs, work
<1>2. \A p \in Processes : pc'[p] # "bind"
  BY <1>1, OthersHaveNothing DEF Known, FileTypes
<1>3. ~Live'
  BY <1>1, <1>2 DEF Live, NoConsumer
<1> QED BY <1>1, <1>3, QuietCopies DEF MayCome

(* ... makes one that begins with the last message, ...                    *)
LEMMA AddCopies ==
  ASSUME Usual, Known', NEW j \in Processes, AddConsumer(j),
         consumer' = Consumer(FirstDelivered, Nobody), NEW i \in Processes, NEW n \in Ids
  PROVE  \/ Copies(i, n)' <= 1
         \/ Copies(i, n)' <= Copies(i, n) + (IF n = stream THEN 1 ELSE 0)
<1>1. Known /\ UNCHANGED <<inbox, rows>> /\ pc[j] = "add"
  BY DEF Usual, AddConsumer, Goes, work
<1>3. Pending' = {} /\ consumer'.next = FirstDelivered
  BY DEF Pending, Consumer
<1>4. FirstDelivered = (IF stream > 1 THEN stream ELSE 1) /\ stream \in Int
  <2>1. stream \in Int /\ Max({stream, 1}) = IF stream > 1 THEN stream ELSE 1
    BY <1>1 DEF Known, DeliveryInv, DataOK, None, Max
  <2> QED BY <2>1 DEF FirstDelivered
<1>5. rows[n] \in Nat /\ Occ(inbox[i], n) \in Nat
  BY <1>1, CopiesTypes
<1>6. CASE n > stream
  <2>1. rows[n] = 0 /\ Occ(inbox[i], n) = 0
    BY <1>1, <1>6, NotArrived
  <2> QED BY <1>1, <2>1 DEF Copies
<1>7. CASE n = stream
  BY <1>1, <1>5, <1>7 DEF Copies
<1>8. CASE n < stream
  <2>1. ~MayCome(n)'
    BY <1>3, <1>4, <1>8 DEF MayCome, Ids
  <2> QED BY <1>1, <1>5, <2>1, QuietCopies, <1>8, <1>4 DEF Copies, Ids
<1> QED BY <1>4, <1>6, <1>7, <1>8 DEF Ids

(* ... or the one there is stays, or, if there is none, what is stored     *)
(* will come again, ...                                                    *)
LEMMA ReplayCopies ==
  ASSUME Usual, Known', NEW j \in Processes, DeleteConsumer(j) \/ AddConsumer(j), NotAsMeant,
         NEW i \in Processes, NEW n \in Ids
  PROVE  \/ Copies(i, n)' <= 1
         \/ Copies(i, n)' <= Copies(i, n) + (IF n \in StoredToCome THEN 1 ELSE 0)
<1>1. /\ Known /\ UNCHANGED <<inbox, rows, consumer>> /\ Runs(j) /\ pc[j] # "running"
      /\ rows \in [Ids -> Nat]
  BY DEF Usual, Known, DeliveryInv, DataOK, DeleteConsumer, AddConsumer, NotAsMeant, Goes, Runs,
         work
<1>2. inbox[i] = <<>>
  BY <1>1, OneOnly, SubsRun
<1>3. rows[n] \in Nat /\ Occ(inbox[i], n) = 0 /\ Pending' = Pending
  BY <1>1, <1>2, OccEmpty DEF Pending
<1>4. CASE rows[n] = 0 \/ n \in StoredToCome
  BY <1>1, <1>3, <1>4 DEF Copies
<1>5. CASE rows[n] > 0 /\ n \notin StoredToCome
  <2>1. ~MayCome(n)'
    BY <1>1, <1>3, <1>5 DEF StoredToCome, MayCome
  <2> QED BY <1>1, <1>3, <2>1 DEF Copies
<1> QED BY <1>3, <1>4, <1>5

(* ... and subscribes.                                                     *)
LEMMA BindCopies ==
  ASSUME Usual, Known', NEW j \in Processes, Bind(j), NEW i \in Processes, NEW n \in Ids
  PROVE  Copies(i, n)' <= Copies(i, n)
<1>1. /\ Known /\ UNCHANGED <<inbox, rows>> /\ pc[j] = "bind"
      /\ pc' = [pc EXCEPT ![j] = "running"] /\ pc \in [Processes -> Pcs]
  BY DEF Usual, Known, FileTypes, Bind, Goes, work
<1>2. Live /\ consumer.to = Nobody
  BY <1>1 DEF Usual, Shared, Live
<1>3. CASE consumer' = consumer
  <2>1. Live' => Live
    BY <1>2
  <2> QED BY <1>1, <1>3, <2>1, QuietMayCome, QuietCopies
<1>4. CASE consumer # NoConsumer /\ consumer' = [consumer EXCEPT !.to = j]
  <2>1. consumer' = [first |-> consumer.first, next |-> consumer.next,
                     pending |-> consumer.pending, to |-> j]
    BY <1>1, <1>4 DEF Known, DeliveryInv, DataOK, ConsumerOK
  <2>2. Pending' = Pending /\ consumer'.next = consumer.next
    BY <2>1 DEF Pending
  <2>3. MayCome(n)' => MayCome(n)
    BY <1>2, <2>1, <2>2, NothingHeld DEF MayCome, Due
  <2> QED BY <1>1, <2>3, QuietCopies
<1>5. CASE consumer = NoConsumer /\ consumer' = Consumer(1, j)
  <2>1. consumer.next = -1 /\ n \in Int /\ n >= -1
    BY <1>5 DEF NoConsumer, None, Ids
  <2>2. MayCome(n)
    BY <1>2, <2>1 DEF MayCome
  <2> QED BY <1>1, <2>2, QuietCopies
<1> QED BY <1>1, <1>3, <1>4, <1>5 DEF Bind

(* A message comes to a Core NATS subscription once; no consumer is in use *)
(* then.                                                                   *)
LEMMA PublishCopies ==
  ASSUME Usual, Known', Publish, NEW i \in Processes, sub[i] = "core", NEW n \in Ids
  PROVE  Copies(i, n)' <= 1 \/ Copies(i, n)' <= Copies(i, n)
<1>1. /\ Known /\ pc' = pc /\ rows' = rows /\ consumer' = consumer
      /\ stream' = stream + 1 /\ stream' \in Ids /\ stream \in Nat
  <2>1. Known /\ pc' = pc
    BY DataSteps DEF Usual, Untouched
  <2>2. /\ rows' = rows /\ consumer' = consumer
        /\ stream \in 0..(MaxMessages - 1) /\ stream' = stream + 1
    BY DEF Publish
  <2> QED BY <2>1, <2>2, SettingsAssumption DEF Ids, SettingsAssumption
<1>2. inbox'[i] = Append(inbox[i], stream') /\ inbox[i] \in Seq(Ids)
  BY <1>1 DEF Publish, Known, DeliveryInv, DataOK
<1>3. ~Live
  <2>1. pc[i] = "running" /\ Runs(i) /\ consumer.to = Nobody
    BY SubsRun DEF Usual, Shared
  <2> QED BY <2>1, OthersHaveNothing DEF Live
<1>4. ~MayCome(n)'
  BY <1>1, <1>3 DEF MayCome, Live
<1>5. Occ(inbox'[i], n) = Occ(inbox[i], n) + (IF stream' = n THEN 1 ELSE 0)
  BY <1>1, <1>2, OccAppend
<1>6. rows[n] \in Nat /\ Occ(inbox[i], n) \in Nat
  BY <1>1, CopiesTypes
<1>7. CASE n = stream'
  <2>1. rows[n] = 0 /\ Occ(inbox[i], n) = 0
    BY <1>1, <1>7, NotArrived
  <2> QED BY <1>1, <1>4, <1>5, <1>7, <2>1 DEF Copies
<1>8. CASE n # stream'
  BY <1>1, <1>4, <1>5, <1>6, <1>8 DEF Copies
<1> QED BY <1>7, <1>8

-------------------------------------------------------------------------------
(* Every step is paid for.                                                 *)

Opens == {"opened", "waiting", "add"}

LEMMA FewerOpening ==
  ASSUME \A p \in Processes : pc'[p] \in Opens => pc[p] \in Opens
  PROVE  /\ Cardinality(Opening') <= Cardinality(Opening)
         /\ \A p \in Processes : pc[p] \in Opens /\ pc'[p] \notin Opens =>
              Cardinality(Opening') + 1 <= Cardinality(Opening)
<1>1. /\ Opening \in SUBSET Processes /\ Opening' \in SUBSET Opening
      /\ \A p \in Processes : p \in Opening <=> pc[p] \in Opens
      /\ \A p \in Processes : p \in Opening' <=> pc'[p] \in Opens
  BY DEF Opening, Opens
<1>2. IsFiniteSet(Opening) /\ Cardinality(Opening) \in Nat
  BY <1>1, SomeProcesses
<1>3. Cardinality(Opening') <= Cardinality(Opening)
  BY <1>1, <1>2, FS_Subset
<1>4. ASSUME NEW p \in Processes, pc[p] \in Opens, pc'[p] \notin Opens
      PROVE  Cardinality(Opening') + 1 <= Cardinality(Opening)
  <2>1. p \in Opening /\ Opening' \in SUBSET (Opening \ {p})
    BY <1>1, <1>4
  <2>2. IsFiniteSet(Opening \ {p}) /\ Cardinality(Opening \ {p}) = Cardinality(Opening) - 1
    BY <1>2, <2>1, FS_RemoveElement
  <2>3. Cardinality(Opening') <= Cardinality(Opening \ {p})
    BY <2>1, <2>2, FS_Subset
  <2>4. Opening' \in SUBSET Processes
    BY <1>1
  <2>5. Cardinality(Opening') \in Nat
    BY <2>4, SomeProcesses
  <2> QED BY <1>2, <2>2, <2>3, <2>5
<1> QED BY <1>3, <1>4

LEMMA OneOpening ==
  ASSUME NEW i \in Processes, \A p \in Processes : p # i /\ pc'[p] \in Opens => pc[p] \in Opens
  PROVE  Cardinality(Opening') <= Cardinality(Opening) + 1
<1>1. Opening \in SUBSET Processes /\ Opening' \in SUBSET Processes
      /\ Opening' \in SUBSET (Opening \cup {i})
  BY DEF Opening, Opens
<1>2. IsFiniteSet(Opening) /\ Cardinality(Opening) \in Nat /\ Cardinality(Opening') \in Nat
  BY <1>1, SomeProcesses
<1>3. /\ IsFiniteSet(Opening \cup {i})
      /\ Cardinality(Opening \cup {i}) \in {Cardinality(Opening), Cardinality(Opening) + 1}
  BY <1>2, FS_AddElement
<1>4. Cardinality(Opening') <= Cardinality(Opening \cup {i})
  BY <1>1, <1>3, FS_Subset
<1> QED BY <1>2, <1>3, <1>4

(* A step that costs nothing.                                              *)
LEMMA FreeStep ==
  ASSUME Known, Known', NEW i \in Processes, Alone(i)', Paid(i),
         \A n \in Ids : Copies(i, n)' <= 1 \/ Copies(i, n)' <= Copies(i, n),
         Cardinality(Opening') + starts <= Cardinality(Opening) + starts', faults <= faults',
         replayed <= replayed'
  PROVE  AllPaid'
<1>1. CopiesAreNumbers /\ CopiesAreNumbers'
  BY CountsTyped, PTL
<1>2. \A n \in Ids : \/ Copies(i, n)' <= 1
                     \/ Copies(i, n)' <= Copies(i, n) + (IF n = 0 THEN 0 ELSE 0)
  BY <1>1 DEF CopiesAreNumbers, Ids
<1>3. Cardinality(Opening) \in Nat /\ Cardinality(Opening') \in Nat
  BY SomeProcesses DEF Opening
<1>4. Cardinality(Opening') + 0 + faults + starts + replayed
        <= Cardinality(Opening) + faults' + starts' + replayed'
  BY <1>3 DEF Known, CountsOK
<1>5. 0 \in Nat
  OBVIOUS
<1> QED BY <1>2, <1>4, <1>5, PaidStep

(* A step of the callbacks or of NATS that a fault pays for.               *)
LEMMA FaultStep ==
  ASSUME Known, Known', NEW i \in Processes, Alone(i)', Paid(i), NEW a,
         \A n \in Ids : Copies(i, n)' <= Copies(i, n) + (IF n = a THEN 1 ELSE 0),
         UNCHANGED <<pc, starts, replayed>>, faults' = faults + 1
  PROVE  AllPaid'
<1>1. Opening' = Opening
  BY DEF Opening
<1>2. Cardinality(Opening) \in Nat
  BY SomeProcesses DEF Opening
<1>3. Cardinality(Opening') + 1 + faults + starts + replayed
        <= Cardinality(Opening) + faults' + starts' + replayed'
  BY <1>1, <1>2 DEF Known, CountsOK
<1>4. 1 \in Nat
  OBVIOUS
<1>5. \A n \in Ids : \/ Copies(i, n)' <= 1
                     \/ Copies(i, n)' <= Copies(i, n) + (IF n = a THEN 1 ELSE 0)
  OBVIOUS
<1> QED BY <1>3, <1>4, <1>5, PaidStep

LEMMA SameOpening ==
  ASSUME pc' = pc, starts' = starts, Known
  PROVE  Cardinality(Opening') + starts <= Cardinality(Opening) + starts'
<1>1. Opening' = Opening
  BY DEF Opening
<1>2. Cardinality(Opening) \in Nat
  BY SomeProcesses DEF Opening
<1> QED BY <1>1, <1>2 DEF Known, CountsOK

LEMMA AloneStays ==
  ASSUME NEW i \in Processes, Alone(i), \A j \in Processes : j # i => inbox'[j] = inbox[j]
  PROVE  Alone(i)'
BY DEF Alone

LEMMA PublishPaid ==
  ASSUME Usual, Known', AllPaid, EnsureStream \/ Publish PROVE AllPaid'
<1>1. /\ Known /\ UNCHANGED <<pc, sub, consumer, rows, starts, faults, replayed>>
      /\ inbox \in [Processes -> Seq(Ids)]
  <2>1. UNCHANGED <<pc, sub>>
    BY DataSteps DEF Untouched
  <2> QED BY <2>1 DEF Usual, Known, DeliveryInv, DataOK, EnsureStream, Publish, faulty
<1>2. /\ Cardinality(Opening') + starts <= Cardinality(Opening) + starts'
      /\ faults <= faults' /\ replayed <= replayed'
  BY <1>1, SameOpening DEF Known, CountsOK
<1>3. CASE inbox' = inbox
  <2>1. PICK i \in Processes : Alone(i) /\ Paid(i)
    BY DEF AllPaid
  <2>2. Live' => Live
    BY <1>1 DEF Live
  <2>3. \A n \in Ids : Copies(i, n)' <= Copies(i, n)
    BY <1>1, <1>3, <2>2, QuietMayCome, QuietCopies
  <2>4. Alone(i)'
    BY <1>3, <2>1, AloneStays
  <2> QED BY <1>1, <1>2, <2>1, <2>3, <2>4, FreeStep
<1>4. ASSUME Publish, NEW i \in Processes, sub[i] = "core" PROVE AllPaid'
  <2>1. Runs(i)
    BY <1>4 DEF Runs
  <2>2. Alone(i) /\ Paid(i)
    BY <2>1, PaidForWhoRuns
  <2>3. \A j \in Processes : j # i => inbox'[j] = inbox[j]
    <3>1. \A j \in Processes : j # i => sub[j] # "core"
      BY <2>1, OneOnly DEF Runs
    <3> QED BY <1>1, <1>4, <3>1 DEF Publish
  <2>4. \A n \in Ids : Copies(i, n)' <= 1 \/ Copies(i, n)' <= Copies(i, n)
    BY <1>4, PublishCopies
  <2>5. Alone(i)'
    BY <2>2, <2>3, AloneStays
  <2> QED BY <1>1, <1>2, <2>2, <2>4, <2>5, FreeStep
<1>5. CASE Publish /\ \A i \in Processes : sub[i] # "core"
  <2>1. inbox' = inbox
    BY <1>1, <1>5 DEF Publish
  <2> QED BY <1>3, <2>1
<1>6. CASE EnsureStream
  BY <1>3, <1>6 DEF EnsureStream, work
<1> QED BY <1>4, <1>5, <1>6

LEMMA NatsPaid ==
  ASSUME Usual, Known', AllPaid, Nats PROVE AllPaid'
<1>1. Known /\ UNCHANGED <<pc, starts, replayed>> /\ inbox \in [Processes -> Seq(Ids)]
  <2>1. pc' = pc
    BY DataSteps DEF Untouched
  <2>2. UNCHANGED <<starts, replayed>>
    <3>1. Deliver => UNCHANGED <<starts, replayed>>
      BY DEF Deliver, faulty
    <3>2. ASSUME NEW n, Expire(n) \/ Redeliver(n) PROVE UNCHANGED <<starts, replayed>>
      BY <3>2 DEF Expire, Redeliver, faulty
    <3> QED BY <3>1, <3>2 DEF Nats
  <2> QED BY <2>1, <2>2 DEF Usual, Known, DeliveryInv, DataOK
<1>2. Cardinality(Opening') + starts <= Cardinality(Opening) + starts'
  BY <1>1, SameOpening
<1>3. ASSUME NEW i \in Processes, consumer.to = i, NEW a, Pushed(a) \/ inbox' = inbox
      PROVE  Alone(i)' /\ Paid(i)
  <2>1. Runs(i)
    BY <1>3, SubsRun, NobodyAssumption
  <2>2. Alone(i) /\ Paid(i)
    BY <2>1, PaidForWhoRuns
  <2>3. \A j \in Processes : j # i => inbox'[j] = inbox[j]
    BY <1>1, <1>3 DEF Pushed
  <2> QED BY <2>2, <2>3, AloneStays
<1>4. consumer.to # Nobody => consumer.to \in Processes
  BY SubsRun, <1>1 DEF Known, MessageTypes, BrokerTypes
<1>5. CASE Deliver
  <2>1. /\ consumer.to \in Processes /\ Pushed(consumer.next) /\ faults' = faults
    BY <1>4, <1>5 DEF Deliver, faulty
  <2>2. PICK i \in Processes : consumer.to = i
    BY <2>1
  <2>3. Alone(i)' /\ Paid(i)
    BY <1>3, <2>1, <2>2
  <2>4. \A n \in Ids : Copies(i, n)' <= Copies(i, n)
    BY <1>5, <2>2, DeliverCopies
  <2> QED BY <1>1, <1>2, <2>1, <2>3, <2>4, FreeStep DEF Known, CountsOK
<1>6. ASSUME NEW a \in Ids, Redeliver(a) PROVE AllPaid'
  <2>1. consumer.to \in Processes /\ faults' = faults /\ (Pushed(a) \/ inbox' = inbox)
    BY <1>4, <1>6 DEF Redeliver, faulty
  <2>2. PICK i \in Processes : consumer.to = i
    BY <2>1
  <2>3. Alone(i)' /\ Paid(i)
    BY <1>3, <2>1, <2>2
  <2>4. \A n \in Ids : Copies(i, n)' <= Copies(i, n)
    BY <1>6, <2>2, AgainCopies
  <2> QED BY <1>1, <1>2, <2>1, <2>3, <2>4, FreeStep DEF Known, CountsOK
<1>7. ASSUME NEW a \in Ids, Expire(a) PROVE AllPaid'
  <2>1. PICK i \in Processes : Alone(i) /\ Paid(i)
    BY DEF AllPaid
  <2>2. Alone(i)'
    BY <1>7, <2>1 DEF Expire, Alone, work
  <2>3. \A n \in Ids : Copies(i, n)' <= Copies(i, n) + (IF n = a /\ Held(a) THEN 1 ELSE 0)
    BY <1>7, ExpireCopies
  <2>4. CASE Held(a)
    <3>1. faults' = faults + 1
      BY <1>7, <2>4 DEF Expire, Fault
    <3>2. \A n \in Ids : Copies(i, n)' <= Copies(i, n) + (IF n = a THEN 1 ELSE 0)
      BY <2>3, <2>4
    <3> QED BY <1>1, <2>1, <2>2, <3>1, <3>2, FaultStep
  <2>5. CASE ~Held(a)
    <3>1. faults' = faults
      BY <1>7, <2>5 DEF Expire
    <3>2. CopiesAreNumbers
      BY <1>1, CountsTyped
    <3>3. \A n \in Ids : Copies(i, n)' <= Copies(i, n)
      BY <2>3, <2>5, <3>2 DEF CopiesAreNumbers
    <3> QED BY <1>1, <1>2, <2>1, <2>2, <3>1, <3>3, FreeStep DEF Known, CountsOK
  <2> QED BY <2>4, <2>5
<1> QED BY <1>5, <1>6, <1>7 DEF Nats, Ids

(* The callback: a row that comes twice, an ack that is lost, an insert    *)
(* that fails are faults.                                                  *)
LEMMA HandledPaid ==
  ASSUME Usual, Known', AllPaid, NEW i \in Processes,
         Refuse(i) \/ Insert(i) \/ InsertFails(i)
  PROVE  AllPaid'
<1>1. /\ Known /\ UNCHANGED <<pc, sub, starts, replayed>> /\ Working(i) /\ Message(i) \in Ids
      /\ inbox \in [Processes -> Seq(Ids)] /\ rows \in [Ids -> Nat]
      /\ {faults, starts, replayed} \subseteq Nat
  <2>1. UNCHANGED <<pc, sub>>
    BY DataSteps DEF Untouched
  <2>2. UNCHANGED <<starts, replayed>> /\ Working(i)
    BY DEF Refuse, Insert, InsertFails, faulty
  <2> QED BY <2>1, <2>2, DroppedTypes DEF Usual, Known, DeliveryInv, DataOK, CountsOK
<1>2. Alone(i) /\ Paid(i)
  BY <1>1, PaidForWhoRuns DEF Working
<1>3. Dropped(i) \/ inbox' = inbox => Alone(i)'
  <2>1. Dropped(i) \/ inbox' = inbox => \A j \in Processes : j # i => inbox'[j] = inbox[j]
    BY <1>1 DEF Dropped
  <2> QED BY <1>2, <2>1, AloneStays
<1>4. Cardinality(Opening') + starts <= Cardinality(Opening) + starts'
  BY <1>1, SameOpening
<1>5. CopiesAreNumbers
  BY <1>1, CountsTyped
<1>6. ASSUME NEW k \in {0, 1, 2}, Dropped(i), rows' = [rows EXCEPT ![Message(i)] = @ + k],
             \/ k = 0 /\ Naked(i) /\ faults' = faults
             \/ k = 1 /\ Acked(i) /\ faults' = faults
             \/ k = 1 /\ (Naked(i) \/ consumer' = consumer) /\ faults' = faults + 1
             \/ k = 0 /\ Naked(i) /\ faults' = faults + 1
             \/ k = 2 /\ Acked(i) /\ faults' = faults + 1
      PROVE  AllPaid'
  <2>1. \A n \in Ids :
          /\ Copies(i, n)' <= Copies(i, n) + (IF n = Message(i) THEN k ELSE 0)
          /\ Acked(i) /\ k > 0 =>
               Copies(i, n)' <= Copies(i, n) + (IF n = Message(i) THEN k - 1 ELSE 0)
    <3>1. k \in Nat /\ (consumer' = consumer \/ Acked(i) \/ Naked(i))
      BY <1>6
    <3> QED BY <1>1, <1>6, <3>1, HandledCopies
  <2>2. CASE faults' = faults
    <3>1. \A n \in Ids : Copies(i, n)' <= Copies(i, n)
      <4>1. CASE k = 0
        BY <1>5, <2>1, <4>1 DEF CopiesAreNumbers
      <4>2. CASE k = 1 /\ Acked(i)
        BY <1>5, <2>1, <4>2 DEF CopiesAreNumbers
      <4> QED BY <1>1, <1>6, <2>2, <4>1, <4>2
    <3> QED BY <1>1, <1>2, <1>3, <1>4, <1>6, <2>2, <3>1, FreeStep
  <2>3. CASE faults' = faults + 1
    <3>1. \A n \in Ids : Copies(i, n)' <= Copies(i, n) + (IF n = Message(i) THEN 1 ELSE 0)
      <4>1. CASE k \in {0, 1}
        <5> SUFFICES ASSUME NEW n \in Ids
                     PROVE  Copies(i, n)' <= Copies(i, n) + (IF n = Message(i) THEN 1 ELSE 0)
          OBVIOUS
        <5>1. CopiesAreNumbers'
          BY CountsTyped, PTL
        <5>2. Copies(i, n)' \in Nat /\ Copies(i, n) \in Nat
          BY <1>5, <5>1 DEF CopiesAreNumbers, Ids
        <5> QED BY <2>1, <4>1, <5>2
      <4>2. CASE k = 2 /\ Acked(i)
        BY <1>5, <2>1, <4>2 DEF CopiesAreNumbers
      <4> QED BY <1>1, <1>6, <2>3, <4>1, <4>2
    <3> QED BY <1>1, <1>2, <1>3, <1>6, <2>3, <3>1, FaultStep
  <2> QED BY <1>6, <2>2, <2>3
<1>7. CASE Refuse(i)
  <2>1. rows' = [rows EXCEPT ![Message(i)] = @ + 0]
    BY <1>1, <1>7 DEF Refuse
  <2> QED BY <1>6, <1>7, <2>1 DEF Refuse, faulty
<1>8. CASE Insert(i)
  <2>1. PICK twice \in BOOLEAN : \E lost \in BOOLEAN :
          /\ ~(twice /\ lost)
          /\ rows' = [rows EXCEPT ![Message(i)] = @ + (IF twice THEN 2 ELSE 1)]
          /\ IF lost THEN consumer' = consumer ELSE Acked(i)
          /\ IF twice \/ lost THEN Fault ELSE faults' = faults
    BY <1>8 DEF Insert
  <2>2. PICK lost \in BOOLEAN :
          /\ ~(twice /\ lost)
          /\ rows' = [rows EXCEPT ![Message(i)] = @ + (IF twice THEN 2 ELSE 1)]
          /\ IF lost THEN consumer' = consumer ELSE Acked(i)
          /\ IF twice \/ lost THEN Fault ELSE faults' = faults
    BY <2>1
  <2>3. Dropped(i)
    BY <1>8 DEF Insert
  <2>4. CASE twice
    BY <1>6, <2>2, <2>3, <2>4 DEF Fault
  <2>5. CASE ~twice
    BY <1>6, <2>2, <2>3, <2>5 DEF Fault
  <2> QED BY <2>4, <2>5
<1>9. CASE InsertFails(i)
  <2>1. PICK k \in {0, 1} : rows' = [rows EXCEPT ![Message(i)] = @ + k]
    BY <1>9 DEF InsertFails
  <2>2. faults' = faults + 1
    BY <1>9 DEF InsertFails, Fault
  <2>3. CASE Naked(i) /\ Dropped(i)
    BY <1>6, <2>1, <2>2, <2>3
  <2>4. CASE UNCHANGED <<consumer, inbox>>
    <3>1. ASSUME NEW n \in Ids
          PROVE  Copies(i, n)' <= Copies(i, n) + (IF n = Message(i) THEN 1 ELSE 0)
      <4>1. Live' => Live
        BY <1>1, <2>4 DEF Live
      <4>2. MayCome(n)' => MayCome(n)
        BY <2>4, <4>1, QuietMayCome
      <4>3. rows[n] \in Nat /\ Occ(inbox[i], n) \in Nat
        BY <1>1, CopiesTypes
      <4>4. rows'[n] = rows[n] + (IF n = Message(i) THEN k ELSE 0)
        BY <1>1, <2>1, <4>3
      <4> QED BY <2>4, <4>2, <4>3, <4>4 DEF Copies
    <3> QED BY <1>1, <1>2, <1>3, <2>2, <2>4, <3>1, FaultStep
  <2> QED BY <1>9, <2>3, <2>4 DEF InsertFails
<1> QED BY <1>7, <1>8, <1>9

(* start() and the lock file.  A new consumer is paid for by its start.    *)
LEMMA StartPaid ==
  ASSUME Usual, Known', AllPaid, NEW j \in Processes,
         NotReady(j) \/ DeleteConsumer(j) \/ AddConsumer(j) \/ Bind(j) \/ Start(j) \/ Lock(j)
         \/ Unlock(j) \/ Unlink(j)
  PROVE  AllPaid'
<1>1. /\ Known /\ inbox' = inbox /\ {faults, starts, replayed} \subseteq Nat
      /\ pc \in [Processes -> Pcs]
  BY DEF Usual, Known, FileTypes, CountsOK, NotReady, DeleteConsumer, AddConsumer, Bind, Start,
         Lock, Unlock, Unlink, work
<1>2. PICK i \in Processes : Alone(i) /\ Paid(i)
  BY DEF AllPaid
<1>3. Alone(i)'
  BY <1>1, <1>2, AloneStays
<1>4. Cardinality(Opening) \in Nat /\ Cardinality(Opening') \in Nat
  BY SomeProcesses DEF Opening
<1>5. CASE AddConsumer(j) /\ AsMeant(Consumer(FirstDelivered, Nobody))
  <2>1. /\ pc[j] = "add" /\ pc' = [pc EXCEPT ![j] = "bind"]
        /\ UNCHANGED <<starts, faults, replayed>> /\ consumer' = Consumer(FirstDelivered, Nobody)
    BY <1>5 DEF AddConsumer, AsMeant, Goes
  <2>2. Cardinality(Opening') + 1 <= Cardinality(Opening)
    BY <1>1, <2>1, FewerOpening DEF Opens
  <2>3. \A n \in Ids : \/ Copies(i, n)' <= 1
                       \/ Copies(i, n)' <= Copies(i, n) + (IF n = stream THEN 1 ELSE 0)
    BY <1>5, <2>1, AddCopies
  <2>4. Cardinality(Opening') + 1 + faults + starts + replayed
        <= Cardinality(Opening) + faults' + starts' + replayed'
    BY <1>1, <1>4, <2>1, <2>2
  <2>5. 1 \in Nat
    OBVIOUS
  <2> QED BY <1>1, <1>2, <1>3, <2>3, <2>4, <2>5, PaidStep
<1>8. CASE (DeleteConsumer(j) \/ AddConsumer(j)) /\ NotAsMeant
  <2>1. /\ \A p \in Processes : pc'[p] \in Opens => pc[p] \in Opens
        /\ starts' = starts /\ faults' = faults + 1
        /\ replayed' = replayed + Cardinality(StoredToCome)
    BY <1>1, <1>8 DEF DeleteConsumer, AddConsumer, NotAsMeant, Fault, Goes, Opens
  <2>2. Cardinality(Opening') <= Cardinality(Opening)
    BY <2>1, FewerOpening
  <2>3. StoredToCome \in SUBSET Ids /\ Cardinality(StoredToCome) \in Nat
    BY <1>1, StoredToComeType DEF Known
  <2>4. \A n \in Ids : \/ Copies(i, n)' <= 1
                       \/ Copies(i, n)' <= Copies(i, n) + (IF n \in StoredToCome THEN 1 ELSE 0)
    BY <1>8, ReplayCopies
  <2>5. Cardinality(Opening') + Cardinality(StoredToCome) + faults + starts + replayed
        <= Cardinality(Opening) + faults' + starts' + replayed'
    BY <1>1, <1>4, <2>1, <2>2, <2>3
  <2> HIDE DEF Paid, Alone
  <2> QED BY <1>1, <1>2, <1>3, <2>3, <2>4, <2>5, PaidStepOn
<1>9. CASE AddConsumer(j) /\ AsMeant(consumer)
  <2>1. /\ pc[j] = "add" /\ pc' = [pc EXCEPT ![j] = "bind"]
        /\ UNCHANGED <<starts, faults, replayed, rows, consumer>>
    BY <1>9 DEF AddConsumer, AsMeant, Goes
  <2>2. CASE consumer # NoConsumer
    <3>1. Cardinality(Opening') <= Cardinality(Opening)
      BY <1>1, <2>1, FewerOpening DEF Opens
    <3>2. Live' => Live
      BY <2>1, <2>2 DEF Live
    <3>3. \A n \in Ids : Copies(i, n)' <= Copies(i, n)
      BY <1>1, <2>1, <3>2, QuietMayCome, QuietCopies
    <3> QED BY <1>1, <1>2, <1>3, <1>4, <2>1, <3>1, <3>3, FreeStep
  <2>3. CASE consumer = NoConsumer
    <3>1. FirstDelivered \in Int /\ FirstDelivered >= 1
      <4>1. stream \in Int /\ Max({stream, 1}) = IF stream > 1 THEN stream ELSE 1
        BY <1>1 DEF Known, DeliveryInv, DataOK, None, Max
      <4> QED BY <4>1 DEF FirstDelivered
    <3>2. Consumer(FirstDelivered, Nobody) # NoConsumer
      BY <3>1 DEF Consumer, NoConsumer, None
    <3> QED BY <1>5, <1>8, <1>9, <2>3 DEF AddConsumer
  <2> QED BY <2>2, <2>3
<1>6. CASE Start(j)
  <2>1. starts' = starts + 1 /\ UNCHANGED <<faults, replayed, consumer, rows>>
        /\ pc' = [pc EXCEPT ![j] = "opened"]
    BY <1>6 DEF Start, Goes
  <2>2. Cardinality(Opening') <= Cardinality(Opening) + 1
    BY <1>1, <2>1, OneOpening
  <2>3. Live' => Live
    BY <1>1, <2>1 DEF Live
  <2>4. \A n \in Ids : Copies(i, n)' <= Copies(i, n)
    BY <1>1, <2>1, <2>3, QuietMayCome, QuietCopies
  <2>5. /\ Cardinality(Opening') + starts <= Cardinality(Opening) + starts'
        /\ faults <= faults' /\ replayed <= replayed'
    BY <1>1, <1>4, <2>1, <2>2
  <2> QED BY <1>1, <1>2, <1>3, <2>4, <2>5, FreeStep
<1>7. CASE \/ NotReady(j) \/ Bind(j) \/ Lock(j) \/ Unlock(j) \/ Unlink(j)
           \/ DeleteConsumer(j) /\ AsMeant(NoConsumer)
  <2>1. starts' = starts /\ faults <= faults' /\ replayed <= replayed'
    BY <1>1, <1>7 DEF NotReady, DeleteConsumer, AsMeant, Bind, Lock, Unlock, Unlink, faulty
  <2>2. \A p \in Processes : pc'[p] \in Opens => pc[p] \in Opens
    BY <1>1, <1>7 DEF NotReady, DeleteConsumer, Bind, Lock, Unlock, Unlink, Goes, Opens
  <2>3. Cardinality(Opening') + starts <= Cardinality(Opening) + starts'
    BY <1>1, <1>4, <2>1, <2>2, FewerOpening
  <2>4. \A n \in Ids : Copies(i, n)' <= Copies(i, n)
    <3>1. CASE (DeleteConsumer(j) /\ AsMeant(NoConsumer)) \/ Bind(j)
      BY <3>1, DeleteCopies, BindCopies DEF AsMeant
    <3>2. CASE NotReady(j) \/ Lock(j) \/ Unlock(j) \/ Unlink(j)
      <4>1. UNCHANGED <<consumer, rows>>
        BY <3>2 DEF NotReady, Lock, Unlock, Unlink
      <4>2. Live' => Live
        BY <1>1, <3>2, <4>1 DEF NotReady, Lock, Unlock, Unlink, Goes, Live
      <4> QED BY <1>1, <4>1, <4>2, QuietMayCome, QuietCopies
    <3> QED BY <1>7, <3>1, <3>2
  <2> QED BY <1>1, <1>2, <1>3, <2>1, <2>3, <2>4, FreeStep
<1> QED BY <1>5, <1>6, <1>7, <1>8, <1>9 DEF AddConsumer, DeleteConsumer

LEMMA StopPaid ==
  ASSUME Usual, Known', AllPaid, NEW j \in Processes, Stop(j) \/ CutOff(j) \/ Crash(j)
  PROVE  AllPaid'
<1>1. /\ Known /\ {faults, starts, replayed} \subseteq Nat /\ pc \in [Processes -> Pcs]
      /\ Unsubscribed(j) /\ starts' = starts /\ faults <= faults' /\ replayed <= replayed'
      /\ inbox \in [Processes -> Seq(Ids)]
  BY DEF Usual, Known, FileTypes, CountsOK, DeliveryInv, DataOK, Stop, CutOff, Crash, Fault, faulty
<1>2. pc' = pc \/ pc' = [pc EXCEPT ![j] = "stopped"] \/ pc' = [pc EXCEPT ![j] = "down"]
  BY DEF Stop, CutOff, Crash, Goes
<1>3. \A p \in Processes : pc'[p] \in {"add", "bind"} => pc[p] = pc'[p] /\ p # j
  <2>1. CutOff(j) => pc[j] = "running"
    BY SubsRun DEF CutOff
  <2>2. Stop(j) \/ Crash(j) => pc'[j] \notin {"add", "bind"}
    BY <1>1 DEF Stop, Crash, Goes
  <2>3. CutOff(j) => pc' = pc
    BY DEF CutOff
  <2> QED BY <1>1, <1>2, <2>1, <2>2, <2>3
<1>4. PICK i \in Processes : Alone(i) /\ Paid(i) /\ (Working(j) => i = j)
  BY PaidForWhoRuns DEF AllPaid, Working
<1>5. \A n \in Ids : Copies(i, n)' <= Copies(i, n)
  BY <1>1, <1>3, <1>4, UnsubscribedCopies
<1>6. Alone(i)'
  BY <1>1, <1>4 DEF Alone, Unsubscribed
<1>7. \A p \in Processes : pc'[p] \in Opens => pc[p] \in Opens
  BY <1>1, <1>2 DEF Opens
<1>8. Cardinality(Opening) \in Nat /\ Cardinality(Opening') \in Nat
  BY SomeProcesses DEF Opening
<1>9. Cardinality(Opening') + starts <= Cardinality(Opening) + starts'
  BY <1>1, <1>7, <1>8, FewerOpening
<1> QED BY <1>1, <1>4, <1>5, <1>6, <1>9, FreeStep

LEMMA PaidKept ==
  ASSUME Usual, Known', AllPaid, [Next]_vars, ~hung' PROVE AllPaid'
<1>1. CASE UNCHANGED vars
  BY <1>1 DEF vars, work, lock, faulty, AllPaid, Alone, Paid, Excess, Copies, MayCome, Live, Due, Held,
              Pending, Opening
<1>2. CASE EnsureStream \/ Publish \/ Nats
  BY <1>2, PublishPaid, NatsPaid
<1>3. ASSUME NEW i \in Processes, Process(i) \/ Start(i) \/ Stop(i) \/ CutOff(i) \/ Crash(i)
      PROVE  AllPaid'
  BY <1>3, HandledPaid, StartPaid, StopPaid DEF Process
<1>4. ASSUME NEW i \in Processes, StopFails(i) PROVE FALSE
  BY <1>4 DEF StopFails
<1> QED BY <1>1, <1>2, <1>3, <1>4 DEF Next

(* Before there is a consumer nothing is stored.                           *)
LEMMA FirstConsumer ==
  ASSUME Usual, Known', Unused, NEW j \in Processes, AddConsumer(j) PROVE AllPaid'
<1>0. Cardinality(StoredToCome) \in Nat
  BY StoredToComeType DEF Usual, Known
<1>1. /\ Known /\ {faults, starts, replayed} \subseteq Nat /\ pc \in [Processes -> Pcs]
      /\ pc[j] = "add" /\ pc' = [pc EXCEPT ![j] = "bind"]
      /\ UNCHANGED <<starts, inbox, rows>>
      /\ faults' \in Nat /\ faults <= faults' /\ replayed' \in Nat /\ replayed <= replayed'
  BY <1>0 DEF Usual, Known, FileTypes, CountsOK, AddConsumer, AsMeant, NotAsMeant, Fault, Goes, work
<1>2. \A p \in Processes : inbox[p] = <<>>
  BY SubsRun DEF Unused
<1>3. ASSUME NEW n \in Ids PROVE Over(Copies(j, n)') = 0
  <2>1. rows'[n] = 0 /\ Occ(inbox'[j], n) = 0
    BY <1>1, <1>2, OccEmpty DEF Unused
  <2>2. Copies(j, n)' \in {0, 1}
    BY <2>1 DEF Copies
  <2> QED BY <2>2 DEF Over
<1>4. Excess(j)' = 0
  <2> DEFINE f == [n \in Ids |-> Over(Copies(j, n)')]
  <2>1. f \in [Ids -> Nat] /\ \A n \in Ids : f[n] = 0
    BY <1>3
  <2>2. Excess(j)' = Total(f, Ids)
    BY DEF Excess, Ids
  <2> HIDE DEF f
  <2> QED BY <2>1, <2>2, IdsFinite, TotalOfZeros
<1>5. Cardinality(Opening') + 1 <= Cardinality(Opening)
  BY <1>1, FewerOpening DEF Opens
<1>6. Cardinality(Opening) \in Nat /\ Cardinality(Opening') \in Nat /\ Cardinality(Opening) <= starts
  BY SomeProcesses DEF Opening, Unused
<1>7. Paid(j)' /\ Alone(j)'
  BY <1>1, <1>2, <1>4, <1>5, <1>6 DEF Paid, Alone
<1> QED BY <1>7 DEF AllPaid

LEMMA UnusedKept ==
  ASSUME Usual, Known', Unused, [Next]_vars, ~hung' PROVE Unused' \/ AllPaid'
<1>1. /\ Known /\ {faults, starts} \subseteq Nat /\ pc \in [Processes -> Pcs]
      /\ inbox \in [Processes -> Seq(Ids)] /\ sub \in [Processes -> Subs]
  BY DEF Usual, Known, FileTypes, CountsOK, DeliveryInv, DataOK
<1>2. \A p \in Processes : inbox[p] = <<>> /\ pc[p] # "bind" /\ ~Working(p)
  BY SubsRun DEF Unused, Working
<1>3. consumer.to = Nobody /\ Pending = {}
  BY DEF Unused, NoConsumer, Pending
<1>4. Cardinality(Opening) \in Nat /\ Cardinality(Opening') \in Nat
  BY SomeProcesses DEF Opening
<1>5. CASE UNCHANGED vars
  BY <1>5 DEF vars, faulty, Unused, Opening
<1>6. CASE EnsureStream \/ Publish
  BY <1>6 DEF EnsureStream, Publish, faulty, Unused, Opening
<1>7. CASE Nats
  BY <1>3, <1>7 DEF Nats, Deliver, Expire, Redeliver
<1>8. ASSUME NEW j \in Processes, Process(j) \/ Start(j) PROVE Unused' \/ AllPaid'
  <2>1. CASE AddConsumer(j)
    BY <2>1, FirstConsumer
  <2>2. CASE Bind(j) \/ Refuse(j) \/ Insert(j) \/ InsertFails(j)
    BY <1>2, <2>2 DEF Bind, Goes, Refuse, Insert, InsertFails
  <2>3. CASE Start(j)
    <3>1. pc' = [pc EXCEPT ![j] = "opened"] /\ starts' = starts + 1
          /\ UNCHANGED <<consumer, rows, sub>>
      BY <2>3 DEF Start, Goes
    <3>2. Cardinality(Opening') <= Cardinality(Opening) + 1
      BY <1>1, <3>1, OneOpening
    <3> QED BY <1>1, <1>4, <3>1, <3>2 DEF Unused
  <2>4. CASE Lock(j) \/ NotReady(j) \/ DeleteConsumer(j) \/ Unlock(j) \/ Unlink(j)
    <3>1. UNCHANGED <<rows, sub, starts>> /\ consumer' = NoConsumer
      BY <2>4 DEF Lock, NotReady, DeleteConsumer, AsMeant, Unlock, Unlink, faulty, Unused
    <3>2. \A p \in Processes : /\ pc'[p] \in Opens => pc[p] \in Opens
                              /\ pc'[p] # "bind"
      BY <1>1, <1>2, <2>4 DEF Lock, NotReady, DeleteConsumer, Unlock, Unlink, Goes, Opens
    <3>3. Cardinality(Opening') <= Cardinality(Opening)
      BY <3>2, FewerOpening
    <3> QED BY <1>1, <1>4, <3>1, <3>2, <3>3 DEF Unused
  <2> QED BY <1>8, <2>1, <2>2, <2>3, <2>4 DEF Process
<1>9. ASSUME NEW j \in Processes, Stop(j) \/ CutOff(j) \/ Crash(j) PROVE Unused'
  <2>1. Unsubscribed(j) /\ starts' = starts
    BY <1>9 DEF Stop, CutOff, Crash, faulty
  <2>2. consumer' = NoConsumer /\ rows' = rows /\ \A p \in Processes : sub'[p] = "none"
    BY <1>1, <1>2, <1>3, <2>1, NobodyAssumption DEF Unsubscribed, Unused
  <2>3. \A p \in Processes : /\ pc'[p] \in Opens => pc[p] \in Opens
                            /\ pc'[p] # "bind"
    BY <1>1, <1>2, <1>9 DEF Stop, CutOff, Crash, Goes, Opens
  <2>4. Cardinality(Opening') <= Cardinality(Opening)
    BY <2>3, FewerOpening
  <2> QED BY <1>1, <1>4, <2>1, <2>2, <2>3, <2>4 DEF Unused
<1>10. ASSUME NEW j \in Processes, StopFails(j) PROVE FALSE
  BY <1>10 DEF StopFails
<1> QED BY <1>5, <1>6, <1>7, <1>8, <1>9, <1>10 DEF Next

LEMMA HungStays == hung /\ [Next]_vars => hung'
<1> SUFFICES ASSUME hung, [Next]_vars PROVE hung'
  OBVIOUS
<1>1. CASE UNCHANGED vars
  BY <1>1 DEF vars, faulty
<1>2. CASE EnsureStream \/ Publish \/ Nats
           \/ \E i \in Processes : Refuse(i) \/ Insert(i) \/ InsertFails(i)
  BY <1>2, DataSteps DEF Untouched
<1>3. ASSUME NEW i \in Processes,
             Lock(i) \/ NotReady(i) \/ DeleteConsumer(i) \/ AddConsumer(i) \/ Bind(i)
             \/ Unlock(i) \/ Unlink(i)
      PROVE hung'
  BY <1>3 DEF Lock, NotReady, DeleteConsumer, AddConsumer, Bind, Unlock, Unlink, faulty
<1>4. ASSUME NEW i \in Processes,
             Start(i) \/ Stop(i) \/ StopFails(i) \/ CutOff(i) \/ Crash(i)
      PROVE hung'
  BY <1>4 DEF Start, Stop, StopFails, CutOff, Crash, faulty
<1> QED BY <1>1, <1>2, <1>3, <1>4 DEF Next, Process

LEMMA StepCopies == Known /\ CopiesInv /\ [Next]_vars => CopiesInv'
<1> SUFFICES ASSUME Known, CopiesInv, [Next]_vars PROVE CopiesInv'
  OBVIOUS
<1>1. CASE raced \/ hung \/ raced' \/ hung'
  BY <1>1, RacedStays, HungStays DEF CopiesInv
<1>2. CASE ~raced /\ ~hung /\ ~raced' /\ ~hung'
  <2>1. Usual /\ (Unused \/ AllPaid) /\ Known'
    BY <1>2, KnownKept DEF Usual, CopiesInv
  <2>2. Shared'
    BY <1>2, <2>1, SharedKept
  <2>3. Unused' \/ AllPaid'
    BY <1>2, <2>1, UnusedKept, PaidKept
  <2> QED BY <2>2, <2>3 DEF CopiesInv
<1> QED BY <1>1, <1>2

LEMMA InitCopies == Init => Known /\ CopiesInv
<1> SUFFICES ASSUME Init PROVE Known /\ CopiesInv
  OBVIOUS
<1>1. Known
  BY InitDelivery, InitTypes, InitLock DEF Known, Init, Stored, CountsOK, Ids
<1>2. Opening = {}
  BY DEF Init, Opening
<1>3. Unused
  BY <1>2, FS_EmptySet DEF Init, Unused, Ids
<1>4. Shared
  BY DEF Init, Shared, NoConsumer
<1> QED BY <1>1, <1>3, <1>4 DEF CopiesInv

LEMMA CopiesSuffice == Known /\ CopiesInv => CopiesPaidFor
<1> SUFFICES ASSUME Known, CopiesInv, ~raced, ~hung
             PROVE  SumFunction([n \in DOMAIN rows |-> Max({rows[n] - 1, 0})])
                      <= faults + Max({starts - 1, 0}) + replayed
  BY DEF CopiesPaidFor
<1> DEFINE f == [n \in DOMAIN rows |-> Max({rows[n] - 1, 0})]
<1>1. DOMAIN rows = Ids /\ rows \in [Ids -> Nat]
      /\ {faults, starts, replayed} \subseteq Nat
  BY DEF Known, DeliveryInv, DataOK, CountsOK
<1>2. \A k \in Nat : Max({k - 1, 0}) = Over(k)
  <2> SUFFICES ASSUME NEW k \in Nat PROVE Max({k - 1, 0}) = Over(k)
    OBVIOUS
  <2> QED BY DEF Max, Over
<1>3. f \in [Ids -> Nat] /\ \A n \in Ids : f[n] = Over(rows[n])
  <2>1. \A n \in Ids : Over(rows[n]) \in Nat
    BY <1>1 DEF Over
  <2> QED BY <1>1, <1>2, <2>1
<1>4. Max({starts - 1, 0}) = Over(starts)
  BY <1>1, <1>2
<1>5. SumFunction(f) = Total(f, Ids)
  <2>1. DOMAIN f = Ids
    BY <1>1
  <2> HIDE DEF f
  <2> QED BY <2>1, SumIsTotal
<1> HIDE DEF f
<1>6. CASE Unused
  <2>1. \A n \in Ids : f[n] = 0
    BY <1>3, <1>6 DEF Unused, Over
  <2>2. Total(f, Ids) = 0
    BY <1>3, <2>1, IdsFinite, TotalOfZeros
  <2>3. Over(starts) \in Nat
    BY <1>1 DEF Over
  <2> QED BY <1>1, <1>4, <1>5, <2>2, <2>3 DEF f
<1>7. CASE AllPaid
  <2>1. PICK i \in Processes : Paid(i)
    BY <1>7 DEF AllPaid
  <2> DEFINE g == [n \in Ids |-> Over(Copies(i, n))]
  <2>2. \A n \in Ids : /\ rows[n] \in Nat /\ rows[n] <= Copies(i, n)
                       /\ Copies(i, n) \in Nat /\ Over(Copies(i, n)) \in Nat
    <3> SUFFICES ASSUME NEW n \in Ids
                 PROVE  /\ rows[n] \in Nat /\ rows[n] <= Copies(i, n)
                        /\ Copies(i, n) \in Nat /\ Over(Copies(i, n)) \in Nat
      OBVIOUS
    <3>1. /\ rows[n] \in Nat /\ Occ(inbox[i], n) \in Nat
          /\ Copies(i, n) \in Nat /\ Over(Copies(i, n)) \in Nat
      BY CopiesTypes
    <3> QED BY <3>1 DEF Copies
  <2>3. g \in [Ids -> Nat] /\ \A n \in Ids : f[n] <= g[n] + (IF n = 0 THEN 0 ELSE 0)
    <3>1. \A n \in Ids : Over(rows[n]) <= Over(Copies(i, n))
      BY <2>2 DEF Over
    <3> QED BY <1>3, <2>2, <3>1
  <2>4. Excess(i) = Total(g, Ids)
    BY DEF Excess
  <2> HIDE DEF g
  <2>5. 0 \in Nat
    OBVIOUS
  <2>6. Total(f, Ids) <= Total(g, Ids) + 0
    BY <1>3, <2>3, <2>5, IdsFinite, TotalGrows
  <2>7. /\ Total(f, Ids) \in Nat /\ Total(g, Ids) \in Nat
        /\ Cardinality(Opening) \in Nat
    BY <1>3, <2>3, IdsFinite, TotalType, SomeProcesses DEF Opening
  <2>8. Total(g, Ids) + Cardinality(Opening) + 1 <= faults + starts + replayed
    BY <2>1, <2>4 DEF Paid
  <2>9. Total(f, Ids) <= faults + Over(starts) + replayed
    BY <1>1, <2>6, <2>7, <2>8 DEF Over
  <2> QED BY <1>4, <1>5, <2>9 DEF f
<1> QED BY <1>6, <1>7 DEF CopiesInv

(* A row comes to ClickHouse once more only for a cause: an insert that    *)
(* failed and did not, a lost or late ack, a crash, a start after the      *)
(* first, whose consumer begins with the last message again, or a consumer *)
(* that could not be deleted or not be added, so that the one there is, or *)
(* the subscription's own from the first message on, brings what is stored *)
(* already: each such message is one of those counted in replayed.         *)
THEOREM CopiesArePaidFor == Spec => []CopiesPaidFor
<1>1. Known /\ CopiesInv /\ [Next]_vars => (Known /\ CopiesInv)'
  BY KnownKept, StepCopies
<1>2. Spec => [](Known /\ CopiesInv)
  BY <1>1, InitCopies, PTL DEF Spec
<1> QED
  BY <1>2, CopiesSuffice, PTL
===============================================================================
