---------------------------- MODULE SpotBookProofs ----------------------------
(***************************************************************************)
(* What the Binance spot book publishes is exact, for any number of price  *)
(* levels, any queue and any number of faults, but for the two causes that *)
(* HolesHaveCauses names.                                                  *)
(***************************************************************************)
EXTENDS SpotBook, SequenceTheorems, WellFoundedInduction, TLAPS

(* A message carries at least one update.                                  *)
Messages == {m \in [first : 1..MaxId, last : 1..MaxId] : m.first <= m.last}
Books == [Levels -> 0..MaxId]

Types ==
  /\ TypeOK
  /\ wire \in Seq(Messages) /\ queue \in Seq(Messages)
  /\ \A t \in Tasks : snap[t] <= exch
  /\ drops \in Nat /\ fetchFails \in Nat /\ losses \in Nat /\ refusals \in Nat
  /\ raced \in BOOLEAN

(* The book is as of the sequence number whenever the worker looks at it,  *)
(* and as of the message it has applied while it waits for the publisher;  *)
(* while it fetches a snapshot, the book does not matter.  A sequence      *)
(* number of 0 is seen only before the first snapshot, when nothing has    *)
(* been received yet.                                                      *)
BookKept ==
  /\ worker = "get" => book = BookAt(last) /\ (last = 0 => main = "startFetch")
  /\ worker = "publish" => book = BookAt(u) /\ u > 0
  /\ worker = "fetch" => snap["worker"] # 0
  /\ main = "startFetch" => conn = "none" /\ wire = <<>> /\ queue = <<>> /\ worker = "get"
  /\ main \in {"startFetch", "restore"} => snap["main"] # 0

IInv == Types /\ (fetchFails > 0 \/ raced \/ (Exact /\ BookKept))

-------------------------------------------------------------------------------
(* Books.                                                                  *)

LEMMA Least ==
  ASSUME NEW S \in SUBSET Nat, S # {}
  PROVE  \E x \in S : \A y \in S : x <= y
<1> DEFINE R == OpToRel(<, Nat)
<1>1. IsWellFoundedOn(R, Nat)
  BY NatLessThanWellFounded
<1>2. \A x, y \in Nat : y < x => <<y, x>> \in R
  BY DEF OpToRel
<1> HIDE DEF R
<1>3. PICK x \in S : \A y \in S : ~ (<<y, x>> \in R)
  BY <1>1, WFMin
<1>4. ASSUME NEW y \in S PROVE x <= y
  <2>1. ~ (y < x)
    BY <1>2, <1>3
  <2> QED BY <2>1
<1> QED BY <1>4

LEMMA Greatest ==
  ASSUME NEW b \in Nat, NEW S \in SUBSET (0..b), S # {}
  PROVE  \E x \in S : \A y \in S : y <= x
<1> DEFINE T == {b - n : n \in S}
<1>1. T \in SUBSET Nat
  <2>1. \A n \in S : b - n \in Nat
    OBVIOUS
  <2> QED BY <2>1
<1>5. T # {}
  <2>1. PICK x : x \in S
    OBVIOUS
  <2>2. b - x \in T
    BY <2>1
  <2> QED BY <2>2
<1>2. PICK z \in T : \A y \in T : z <= y
  BY <1>1, <1>5, Least
<1>3. PICK x \in S : z = b - x
  BY <1>2
<1>4. ASSUME NEW y \in S PROVE y <= x
  <2>1. b - y \in T
    OBVIOUS
  <2>2. b - x <= b - y
    BY <1>2, <1>3, <2>1
  <2> QED BY <2>2
<1> QED BY <1>4

(* Among the updates that set a level one is the last.                     *)
LEMMA LatestExists ==
  ASSUME NEW l, NEW a \in Nat, NEW b \in Nat, NEW n \in a..b, LevelOf(n) = l
  PROVE  Latest(l, a, b) # {}
<1> DEFINE S == {k \in a..b : LevelOf(k) = l}
<1>1. S \in SUBSET (0..b) /\ S # {}
  OBVIOUS
<1>2. PICK x \in S : \A y \in S : y <= x
  BY <1>1, Greatest
<1>3. \A m \in (x + 1)..b : LevelOf(m) # l
  <2> SUFFICES ASSUME NEW m \in (x + 1)..b, LevelOf(m) = l PROVE FALSE
    OBVIOUS
  <2>1. m \in S /\ m > x
    OBVIOUS
  <2> QED BY <1>2, <2>1
<1> QED BY <1>2, <1>3 DEF Latest

LEMMA LatestUnique ==
  ASSUME NEW l, NEW a \in Nat, NEW b \in Nat,
         NEW x \in Latest(l, a, b), NEW y \in Latest(l, a, b)
  PROVE  x = y
<1>1. x \in a..b /\ y \in a..b /\ LevelOf(x) = l /\ LevelOf(y) = l
  BY DEF Latest
<1>2. ~ (x < y) /\ ~ (y < x)
  BY <1>1 DEF Latest
<1> QED BY <1>1, <1>2

LEMMA BookAtType ==
  ASSUME NEW n \in 0..MaxId PROVE BookAt(n) \in Books
<1> SUFFICES ASSUME NEW l \in Levels
             PROVE (IF Latest(l, 1, n) = {} THEN Empty[l]
                    ELSE CHOOSE k \in Latest(l, 1, n) : TRUE) \in 0..MaxId
  BY DEF BookAt, Updated, Books
<1>1. Latest(l, 1, n) \subseteq 0..MaxId
  BY SettingsAssumption DEF Latest, SettingsAssumption
<1>2. Empty[l] \in 0..MaxId
  BY SettingsAssumption DEF Empty, SettingsAssumption
<1> QED BY <1>1, <1>2

LEMMA UpdatedType ==
  ASSUME NEW b \in Books, NEW m \in Messages
  PROVE  Updated(b, m.first, m.last) \in Books
<1> SUFFICES ASSUME NEW l \in Levels
             PROVE (IF Latest(l, m.first, m.last) = {} THEN b[l]
                    ELSE CHOOSE k \in Latest(l, m.first, m.last) : TRUE) \in 0..MaxId
  BY DEF Updated, Books
<1>1. Latest(l, m.first, m.last) \subseteq 0..MaxId
  BY SettingsAssumption DEF Latest, Messages, SettingsAssumption
<1>2. b[l] \in 0..MaxId
  BY DEF Books
<1> QED BY <1>1, <1>2

LEMMA BookAtZero == BookAt(0) = Empty
BY DEF BookAt, Updated, Latest, Empty

(* A message that begins no later than right after the book, and ends no   *)
(* earlier than it, takes the book to the message's last update.           *)
LEMMA UpdatedBook ==
  ASSUME NEW k \in 0..MaxId, NEW m \in Messages, m.first <= k + 1, k <= m.last
  PROVE  Updated(BookAt(k), m.first, m.last) = BookAt(m.last)
<1> DEFINE a == m.first
           b == m.last
<1>1. a \in Nat /\ b \in Nat /\ 1 <= a /\ k \in Nat
  BY SettingsAssumption DEF Messages, SettingsAssumption
<1> HIDE DEF a, b
<1>2. a <= k + 1 /\ k <= b
  BY DEF a, b
<1>3. ASSUME NEW l \in Levels
      PROVE  (IF Latest(l, a, b) = {} THEN BookAt(k)[l] ELSE CHOOSE n \in Latest(l, a, b) : TRUE)
             = (IF Latest(l, 1, b) = {} THEN Empty[l] ELSE CHOOSE n \in Latest(l, 1, b) : TRUE)
  <2>1. CASE Latest(l, a, b) # {}
    <3>1. PICK x : x \in Latest(l, a, b)
      BY <2>1
    <3>2. x \in Latest(l, 1, b)
      BY <1>1, <3>1 DEF Latest
    <3>3. Latest(l, a, b) = {x} /\ Latest(l, 1, b) = {x}
      BY <1>1, <3>1, <3>2, LatestUnique
    <3> QED BY <3>3
  <2>2. CASE Latest(l, a, b) = {}
    <3>1. \A n \in a..b : LevelOf(n) # l
      BY <1>1, <2>2, LatestExists
    <3>2. Latest(l, 1, b) = Latest(l, 1, k)
      <4>1. ASSUME NEW n PROVE n \in Latest(l, 1, b) <=> n \in Latest(l, 1, k)
        BY <1>1, <1>2, <3>1 DEF Latest
      <4> QED BY <4>1
    <3>3. BookAt(k)[l] = IF Latest(l, 1, k) = {} THEN Empty[l]
                         ELSE CHOOSE n \in Latest(l, 1, k) : TRUE
      BY DEF BookAt, Updated
    <3> QED BY <2>2, <3>2, <3>3
  <2> QED BY <2>1, <2>2
<1> QED BY <1>3 DEF BookAt, Updated, a, b

-------------------------------------------------------------------------------
(* The types.                                                              *)

LEMMA InitTypes == Init => Types
<1> SUFFICES ASSUME Init PROVE Types
  OBVIOUS
<1>1. Empty \in Books
  BY SettingsAssumption DEF Empty, Books, SettingsAssumption
<1>2. /\ exch \in 1..MaxId /\ sent \in 0..exch /\ last \in 0..MaxId /\ u \in 0..MaxId
      /\ exch = 1 /\ out.id \in 0..MaxId /\ Len(queue) <= Early
  BY SettingsAssumption DEF Init, SettingsAssumption
<1>3. snap \in [Tasks -> {Pending} \cup 0..MaxId] /\ \A t \in Tasks : snap[t] <= exch
  BY <1>2, SettingsAssumption DEF Init, SettingsAssumption, Pending, Tasks
<1>4. wire \in Seq(Messages) /\ queue \in Seq(Messages)
  BY DEF Init
<1> QED
  BY <1>1, <1>2, <1>3, <1>4 DEF Init, Types, TypeOK, Books

LEMMA TakenMessage ==
  ASSUME NEW q \in Seq(Messages), q # <<>>
  PROVE  /\ Head(q) \in Messages /\ Tail(q) \in Seq(Messages) /\ Len(Tail(q)) = Len(q) - 1
         /\ Head(q).first \in 1..MaxId /\ Head(q).last \in 1..MaxId
         /\ Head(q).first <= Head(q).last
<1>1. /\ Head(q) \in Messages /\ Tail(q) \in Seq(Messages) /\ Len(Tail(q)) = Len(q) - 1
  BY HeadTailProperties
<1> QED BY <1>1 DEF Messages

LEMMA NetworkTypes ==
  ASSUME Types, Update \/ Send \/ Lose \/ \E t \in Tasks : TakeSnapshot(t)
  PROVE  Types'
<1> USE SettingsAssumption DEF Types, TypeOK, SettingsAssumption, local, history, network
<1>1. CASE Update
  <2>1. exch' \in 1..MaxId /\ sent' \in 0..exch'
    BY <1>1 DEF Update
  <2>2. \A t \in Tasks : snap'[t] <= exch'
    BY <1>1 DEF Update, Pending
  <2> QED BY <1>1, <2>1, <2>2 DEF Update
<1>2. CASE Send
  <2>1. [first |-> sent + 1, last |-> exch] \in Messages
    BY <1>2 DEF Send, Messages
  <2>2. wire' \in Seq(Messages)
    BY <1>2, <2>1, AppendProperties DEF Send
  <2> QED BY <1>2, <2>2 DEF Send
<1>3. CASE Lose
  BY <1>3 DEF Lose
<1>4. ASSUME NEW t \in Tasks, TakeSnapshot(t) PROVE Types'
  BY <1>4 DEF TakeSnapshot
<1> QED BY <1>1, <1>2, <1>3, <1>4

LEMMA LoopTypes ==
  ASSUME Types, Loop
  PROVE  Types'
<1> USE SettingsAssumption DEF Types, TypeOK, SettingsAssumption, local, history, network
<1>1. CASE Enqueue
  <2>1. Head(wire) \in Messages /\ Tail(wire) \in Seq(Messages)
    BY <1>1, TakenMessage DEF Enqueue
  <2>2. queue' \in Seq(Messages) /\ Len(queue') = Len(queue) + 1 /\ Len(queue) \in Nat
    BY <1>1, <2>1, AppendProperties, LenProperties DEF Enqueue
  <2> QED BY <1>1, <2>1, <2>2 DEF Enqueue, Room
<1>2. CASE Drop
  BY <1>2, TakenMessage DEF Drop
<1>3. CASE LoopBreaks
  BY <1>3 DEF LoopBreaks
<1>4. CASE LoopEnds
  BY <1>4 DEF LoopEnds
<1> QED BY <1>1, <1>2, <1>3, <1>4 DEF Loop

LEMMA AppliedTypes ==
  ASSUME Types, NEW t \in Tasks, ApplySnapshot(t)
  PROVE  /\ last' \in 0..MaxId /\ book' \in Books
         /\ snap' \in [Tasks -> {Pending} \cup 0..MaxId]
         /\ \A s \in Tasks : snap'[s] <= exch
<1>1. snap[t] \in 0..MaxId
  BY DEF Types, TypeOK, ApplySnapshot
<1>2. book' \in Books
  BY <1>1, BookAtType DEF ApplySnapshot
<1> QED BY <1>1, <1>2, SettingsAssumption DEF Types, TypeOK, ApplySnapshot, SettingsAssumption

LEMMA WorkerTypes ==
  ASSUME Types, Worker
  PROVE  Types'
<1> USE SettingsAssumption DEF Types, TypeOK, SettingsAssumption, local, history, network
<1>1. CASE Process
  <2>1. Message \in Messages /\ queue' \in Seq(Messages) /\ Len(queue') <= Early
        /\ Message.last \in 1..MaxId
    BY <1>1, TakenMessage, LenProperties DEF Process, TakesNext, Message
  <2>2. book' \in Books
    BY <1>1, <2>1, UpdatedType DEF Process, Books
  <2>3. out'.id = Message.last /\ out'.book = book'
    BY <1>1 DEF Process
  <2>4. /\ last' \in 0..MaxId /\ u' \in 0..MaxId /\ out'.id \in 0..MaxId
        /\ book' \in [Levels -> 0..MaxId] /\ out'.book \in [Levels -> 0..MaxId]
    BY <1>1, <2>1, <2>2, <2>3 DEF Process, Books
  <2> QED BY <1>1, <2>1, <2>4 DEF Process
<1>2. CASE Ignore
  <2>1. queue' \in Seq(Messages) /\ Len(queue') <= Early
    BY <1>2, TakenMessage, LenProperties DEF Ignore, TakesNext
  <2> QED BY <1>2, <2>1 DEF Ignore
<1>3. CASE Reinitialize
  <2>1. queue' \in Seq(Messages) /\ Len(queue') <= Early
    BY <1>3, TakenMessage, LenProperties DEF Reinitialize, TakesNext
  <2>2. Empty \in Books
    BY DEF Empty, Books
  <2>3. /\ snap' \in [Tasks -> {Pending} \cup 0..MaxId]
        /\ \A t \in Tasks : snap'[t] <= exch
    BY <1>3 DEF Reinitialize, Pending, Tasks
  <2> QED BY <1>3, <2>1, <2>2, <2>3 DEF Reinitialize, Books
<1>4. CASE Published
  BY <1>4 DEF Published, LastAgain
<1>5. CASE WorkerFetched
  BY <1>5, AppliedTypes DEF WorkerFetched, Tasks, Books
<1>6. CASE WorkerFetchFails
  <2>1. /\ snap' \in [Tasks -> {Pending} \cup 0..MaxId]
        /\ \A t \in Tasks : snap'[t] <= exch
    BY <1>6 DEF WorkerFetchFails, Pending, Tasks
  <2> QED BY <1>6, <2>1 DEF WorkerFetchFails
<1> QED BY <1>1, <1>2, <1>3, <1>4, <1>5, <1>6 DEF Worker

LEMMA MainTypes ==
  ASSUME Types, Main
  PROVE  Types'
<1> USE SettingsAssumption DEF Types, TypeOK, SettingsAssumption, local, history, network
<1>1. CASE Fetched
  BY <1>1, AppliedTypes DEF Fetched, Tasks, Books
<1>2. CASE FetchFails
  <2>1. /\ snap' \in [Tasks -> {Pending} \cup 0..MaxId]
        /\ \A t \in Tasks : snap'[t] <= exch
    BY <1>2 DEF FetchFails, Pending, Tasks
  <2> QED BY <1>2, <2>1 DEF FetchFails
<1>3. CASE Connect
  <2>1. /\ snap' \in [Tasks -> {Pending} \cup 0..MaxId]
        /\ \A t \in Tasks : snap'[t] <= exch
    BY <1>3 DEF Connect, Pending, Tasks
  <2>2. wire' = <<>> /\ main' \in {"rest", "restore"} /\ conn' = "up"
    BY <1>3 DEF Connect
  <2> QED BY <1>3, <2>1, <2>2 DEF Connect
<1>4. CASE ConnectFails
  BY <1>4 DEF ConnectFails
<1> QED BY <1>1, <1>2, <1>3, <1>4 DEF Main

LEMMA StutterTypes == Types /\ UNCHANGED vars => Types'
BY DEF Types, TypeOK, vars, local, history, network

-------------------------------------------------------------------------------
(* The book.                                                               *)

LEMMA InitBook == Init => Exact /\ BookKept
BY BookAtZero DEF Init, Exact, BookKept, Tasks, Pending

LEMMA NetworkBook ==
  ASSUME Types, Exact, BookKept, Update \/ Send \/ Lose \/ \E t \in Tasks : TakeSnapshot(t)
  PROVE  Exact' /\ BookKept'
<1> USE DEF Exact, BookKept, local, history, network
<1>1. CASE Update
  BY <1>1 DEF Update
<1>2. CASE Send
  BY <1>2 DEF Send
<1>3. CASE Lose
  BY <1>3 DEF Lose
<1>4. ASSUME NEW t \in Tasks, TakeSnapshot(t) PROVE Exact' /\ BookKept'
  <2>1. exch # 0
    BY DEF Types, TypeOK
  <2> QED BY <1>4, <2>1 DEF TakeSnapshot, Types, TypeOK
<1> QED BY <1>1, <1>2, <1>3, <1>4

LEMMA LoopBook ==
  ASSUME Types, Exact, BookKept, Loop
  PROVE  Exact' /\ BookKept'
<1> USE DEF Exact, BookKept, local, history, network
<1>1. CASE Enqueue
  BY <1>1 DEF Enqueue
<1>2. CASE Drop
  BY <1>2 DEF Drop
<1>3. CASE LoopBreaks
  BY <1>3 DEF LoopBreaks
<1>4. CASE LoopEnds
  BY <1>4 DEF LoopEnds
<1> QED BY <1>1, <1>2, <1>3, <1>4 DEF Loop

LEMMA WorkerBook ==
  ASSUME Types, Exact, BookKept, Worker, fetchFails' = 0
  PROVE  Exact' /\ BookKept'
<1>1. CASE Process
  <2>1. /\ Message \in Messages /\ Message.first \in 1..MaxId /\ Message.last \in 1..MaxId
        /\ last \in 0..MaxId /\ worker = "get" /\ queue # <<>>
    BY <1>1, TakenMessage DEF Process, TakesNext, Message, Types, TypeOK
  <2>2. last # 0 /\ main # "startFetch" /\ book = BookAt(last)
    BY <2>1 DEF BookKept
  <2>3. Message.first <= last + 1 /\ last <= Message.last
    BY <1>1, <2>1, <2>2, SettingsAssumption DEF Process, Gap, Expired, SettingsAssumption
  <2>4. book' = BookAt(Message.last)
    BY <1>1, <2>1, <2>2, <2>3, UpdatedBook DEF Process
  <2> QED BY <1>1, <2>1, <2>2, <2>4 DEF Process, Exact, BookKept, network
<1>2. CASE Ignore
  BY <1>2 DEF Ignore, TakesNext, Exact, BookKept, network, local
<1>3. CASE Reinitialize
  BY <1>3, SettingsAssumption
  DEF Reinitialize, TakesNext, Exact, BookKept, network, Pending, Tasks, Types, TypeOK
<1>4. CASE Published
  BY <1>4 DEF Published, LastAgain, Exact, BookKept, network, Types, TypeOK
<1>5. CASE WorkerFetched
  <2>1. snap["worker"] \in 1..MaxId
    <3>1. snap["worker"] # Pending /\ snap["worker"] # 0
      BY <1>5 DEF WorkerFetched, ApplySnapshot, BookKept
    <3>2. snap["worker"] \in {Pending} \cup 0..MaxId
      BY DEF Types, TypeOK, Tasks
    <3> QED BY <3>1, <3>2
  <2>2. /\ book' = BookAt(last') /\ last' # 0 /\ snap'["main"] = snap["main"]
        /\ worker' = "get"
    BY <1>5, <2>1 DEF WorkerFetched, ApplySnapshot, Types, TypeOK, Tasks
  <2> QED BY <1>5, <2>2 DEF WorkerFetched, Exact, BookKept, network
<1>6. CASE WorkerFetchFails
  BY <1>6 DEF WorkerFetchFails, Types
<1> QED BY <1>1, <1>2, <1>3, <1>4, <1>5, <1>6 DEF Worker

LEMMA MainBook ==
  ASSUME Types, Exact, BookKept, Main, fetchFails' = 0, ~raced'
  PROVE  Exact' /\ BookKept'
<1>1. CASE Fetched
  <2>1. snap["main"] \in 1..MaxId /\ worker # "publish"
    <3>1. snap["main"] # Pending /\ snap["main"] # 0
      BY <1>1 DEF Fetched, ApplySnapshot, BookKept
    <3>2. snap["main"] \in {Pending} \cup 0..MaxId
      BY DEF Types, TypeOK, Tasks
    <3>3. worker # "publish"
      BY <1>1 DEF Fetched
    <3> QED BY <3>1, <3>2, <3>3
  <2>2. book' = BookAt(last') /\ last' # 0 /\ snap'["worker"] = snap["worker"]
    BY <1>1, <2>1 DEF Fetched, ApplySnapshot, Types, TypeOK, Tasks
  <2> QED BY <1>1, <2>1, <2>2 DEF Fetched, Exact, BookKept, network
<1>2. CASE FetchFails
  BY <1>2 DEF FetchFails, Types
<1>3. CASE Connect
  BY <1>3 DEF Connect, Exact, BookKept, Pending, local, Types, TypeOK, Tasks
<1>4. CASE ConnectFails
  BY <1>4 DEF ConnectFails, Exact, BookKept, local, network
<1> QED BY <1>1, <1>2, <1>3, <1>4 DEF Main

(* Causes are not forgotten.                                               *)
LEMMA CausesStay ==
  ASSUME Types, [Next]_vars, fetchFails > 0 \/ raced
  PROVE  fetchFails' > 0 \/ raced'
<1>1. fetchFails' \in {fetchFails, fetchFails + 1} /\ (raced => raced')
  <2>1. CASE Update \/ Send \/ Lose \/ (\E t \in Tasks : TakeSnapshot(t)) \/ Loop
    BY <2>1 DEF Update, Send, Lose, TakeSnapshot, Loop, Enqueue, Drop, LoopBreaks, LoopEnds, history
  <2>2. CASE Worker
    BY <2>2 DEF Worker, Process, Ignore, Reinitialize, Published, WorkerFetched,
                WorkerFetchFails, history
  <2>3. CASE Main
    BY <2>3 DEF Main, Fetched, FetchFails, Connect, ConnectFails, history
  <2>4. CASE UNCHANGED vars
    BY <2>4 DEF vars, history
  <2> QED BY <2>1, <2>2, <2>3, <2>4 DEF Next
<1> QED BY <1>1 DEF Types

-------------------------------------------------------------------------------

LEMMA StepIInv == IInv /\ [Next]_vars => IInv'
<1> SUFFICES ASSUME IInv, [Next]_vars PROVE IInv'
  OBVIOUS
<1>1. Types
  BY DEF IInv
<1>2. Types'
  BY <1>1, NetworkTypes, LoopTypes, WorkerTypes, MainTypes, StutterTypes DEF Next
<1>3. CASE fetchFails > 0 \/ raced
  BY <1>1, <1>2, <1>3, CausesStay DEF IInv
<1>4. CASE ~ (fetchFails > 0 \/ raced) /\ (fetchFails' > 0 \/ raced')
  BY <1>2, <1>4 DEF IInv
<1>5. CASE ~ (fetchFails > 0 \/ raced) /\ ~ (fetchFails' > 0 \/ raced')
  <2>1. Exact /\ BookKept /\ fetchFails' = 0 /\ ~raced'
    BY <1>2, <1>5 DEF IInv, Types
  <2>2. CASE UNCHANGED vars
    BY <1>2, <2>1, <2>2 DEF IInv, Exact, BookKept, vars, network, local, history
  <2>3. CASE Next
    BY <1>1, <1>2, <2>1, <2>3, NetworkBook, LoopBook, WorkerBook, MainBook DEF Next, IInv
  <2> QED BY <2>2, <2>3
<1> QED BY <1>3, <1>4, <1>5

(* The variables keep their types, and the queue its bound, for every      *)
(* setting.                                                                *)
THEOREM TypeCorrect == Spec => []TypeOK
<1>1. Init => IInv
  BY InitTypes, InitBook DEF IInv
<1>2. IInv => TypeOK
  BY DEF IInv, Types
<1> QED BY <1>1, <1>2, StepIInv, PTL DEF Spec

(* No published book has a hole, but after a snapshot that could not be    *)
(* fetched or one that was applied while the worker was publishing.        *)
THEOREM HolesExplained == Spec => []HolesHaveCauses
<1>1. Init => IInv
  BY InitTypes, InitBook DEF IInv
<1>2. IInv => HolesHaveCauses
  BY DEF IInv, HolesHaveCauses
<1> QED BY <1>1, <1>2, StepIInv, PTL DEF Spec
===============================================================================
