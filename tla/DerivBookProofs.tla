---------------------------- MODULE DerivBookProofs ----------------------------
(***************************************************************************)
(* The published book of DerivBook lacks nothing but the updates in lost,  *)
(* for any number of levels, any queue and buffer, and any order of        *)
(* losses, rebuilds and cleanups; and the ids that it carries ascend.      *)
(***************************************************************************)
EXTENDS DerivBook, SequenceTheorems, WellFoundedInduction, TLAPS

Messages == {m \in [prev : 0..MaxId, last : 1..MaxId] : m.prev < m.last}
Books == [Levels -> 0..MaxId]

Types ==
  /\ TypeOK
  /\ wire \in Seq(Messages) /\ queue \in Seq(Messages) /\ buffer \in Seq(Messages)

(* The messages of a sequence; those that are not yet taken from the queue *)
(* and all there are.                                                      *)
Of(q) == {q[i] : i \in 1..Len(q)}
Ascends(q) == \A i, j \in 1..Len(q) : i < j => q[i].last <= q[j].prev
Way == Of(queue) \cup Of(wire)
All == Way \cup Of(buffer)

(* Messages come in the order of the exchange, after what is published.    *)
Ordered ==
  /\ Ascends(queue) /\ Ascends(wire)
  /\ \A x \in Of(queue), y \in Of(wire) : x.last <= y.prev
  /\ \A m \in All : m.last <= sent
  /\ out.id <= sent /\ \A m \in Way : out.id <= m.prev

Phases ==
  /\ main \in {"connect", "ahead", "fetch"} =>
       /\ ~ready /\ ~rebuild /\ keyed
       /\ worker = IF main = "connect" THEN "none" ELSE "get"
  /\ main = "connect" => conn = "none" /\ wire = <<>> /\ queue = <<>> /\ buffer = <<>>
  /\ main \in {"close", "off"} => worker = "gone"
  /\ main = "fetch" => snap["main"] # 0
  /\ rebuild => ~ready

(* What becomes of an update: a message brings it; no message will, as the *)
(* connection broke before it.                                             *)
Coming(n) == \E m \in Way : n \in Updates(m)
Cut(n) == conn # "up" /\ \A m \in All : m.last < n
Accounted(G) == \A n \in 1..sent : n \in G \/ n \in lost \/ Coming(n) \/ Cut(n)

(* A book shows the updates up to one that are not lost; it shows those    *)
(* before the next message, whichever that is.                             *)
Covers(b, id) == \A n \in 1..id : b[LevelOf(n)] >= n \/ n \in lost
Awaits(b) == \A n \in 1..sent : \/ b[LevelOf(n)] >= n
                                \/ n \in lost
                                \/ \E m \in Way : m.prev < n
                                \/ conn # "up" /\ Way = {}

(* Before the first snapshot, no update is missing between two messages.   *)
Gathered ==
  /\ Ascends(buffer) /\ \A x \in Of(buffer), y \in Way : x.last <= y.prev
  /\ \A n \in 1..sent : \/ Coming(n) \/ n \in Replayed \/ Cut(n)
                        \/ \A m \in All : n <= m.prev

Kept ==
  /\ ready /\ expected # 0 => expected = last /\ Covers(book, last)
  /\ ready /\ expected = 0 => Awaits(book)
  /\ rebuild /\ snap["rebuild"] # Pending => Accounted(1..snap["rebuild"])
  /\ main \in {"ahead", "fetch"} => Gathered
  /\ main = "fetch" /\ snap["main"] # Pending => Accounted(1..snap["main"] \cup Replayed)

IInv ==
  /\ Types /\ Ordered /\ Phases /\ Covers(out.book, out.id)
  /\ worker # "gone" => Kept

-------------------------------------------------------------------------------
(* Books.                                                                  *)

LEMMA Least ==
  ASSUME NEW S \in SUBSET Nat, S # {}
  PROVE  \E x \in S : \A y \in S : x <= y
<1> DEFINE R == OpToRel(<, Nat)
<1>1. IsWellFoundedOn(R, Nat)
  BY NatLessThanWellFounded
<1>2. \A x, y \in Nat : y < x => <<y, x>> \in R
  BY DEF OpToRel
<1> HIDE DEF R
<1>3. PICK x \in S : \A y \in S : ~ (<<y, x>> \in R)
  BY <1>1, WFMin
<1>4. ASSUME NEW y \in S PROVE x <= y
  <2>1. ~ (y < x)
    BY <1>2, <1>3
  <2> QED BY <2>1
<1> QED BY <1>4

LEMMA Greatest ==
  ASSUME NEW b \in Nat, NEW S \in SUBSET (0..b), S # {}
  PROVE  \E x \in S : \A y \in S : y <= x
<1> DEFINE T == {b - n : n \in S}
<1>1. T \in SUBSET Nat
  <2>1. \A n \in S : b - n \in Nat
    OBVIOUS
  <2> QED BY <2>1
<1>5. T # {}
  <2>1. PICK x : x \in S
    OBVIOUS
  <2>2. b - x \in T
    BY <2>1
  <2> QED BY <2>2
<1>2. PICK z \in T : \A y \in T : z <= y
  BY <1>1, <1>5, Least
<1>3. PICK x \in S : z = b - x
  BY <1>2
<1>4. ASSUME NEW y \in S PROVE y <= x
  <2>1. b - y \in T
    OBVIOUS
  <2>2. b - x <= b - y
    BY <1>2, <1>3, <2>1
  <2> QED BY <2>2
<1> QED BY <1>4


LEMMA MaxOf ==
  ASSUME NEW b \in Nat, NEW S \in SUBSET (0..b), S # {}
  PROVE  Max(S) \in S /\ \A y \in S : y <= Max(S)
<1>1. PICK x \in S : \A y \in S : y <= x
  BY Greatest
<1>2. \A y \in S : x >= y
  BY <1>1
<1> QED BY <1>2 DEF Max

(* A book after a set of updates shows the last one at each level.         *)
LEMMA OverlaidShows ==
  ASSUME NEW b \in Books, NEW S \in SUBSET (1..MaxId)
  PROVE  /\ Overlaid(b, S) \in Books
         /\ \A n \in S : LevelOf(n) \in Levels /\ Overlaid(b, S)[LevelOf(n)] >= n
         /\ \A l \in Levels : \/ Overlaid(b, S)[l] = b[l]
                              \/ Overlaid(b, S)[l] \in S /\ LevelOf(Overlaid(b, S)[l]) = l
<1> DEFINE H(l) == {n \in S : LevelOf(n) = l}
<1>1. MaxId \in Nat /\ NLevels \in Nat \ {0} /\ S \in SUBSET (0..MaxId)
  BY SettingsAssumption DEF SettingsAssumption
<1>2. \A l, n : n \in H(l) <=> n \in S /\ LevelOf(n) = l
  OBVIOUS
<1>3. \A l \in Levels : Overlaid(b, S)[l] = IF H(l) = {} THEN b[l] ELSE Max(H(l))
  BY DEF Overlaid
<1> HIDE DEF H
<1>4. ASSUME NEW l \in Levels, H(l) # {}
      PROVE  Max(H(l)) \in H(l) /\ \A y \in H(l) : y <= Max(H(l))
  <2>1. H(l) \in SUBSET (0..MaxId)
    BY <1>1, <1>2
  <2> QED BY <1>1, <1>4, <2>1, MaxOf
<1>5. \A l \in Levels : Overlaid(b, S)[l] \in 0..MaxId
  <2> SUFFICES ASSUME NEW l \in Levels PROVE Overlaid(b, S)[l] \in 0..MaxId
    OBVIOUS
  <2>1. b[l] \in 0..MaxId
    BY DEF Books
  <2>2. H(l) # {} => Max(H(l)) \in 0..MaxId
    BY <1>1, <1>4, <1>2
  <2> QED BY <1>3, <2>1, <2>2
<1>6. Overlaid(b, S) \in Books
  <2>1. Overlaid(b, S) = [l \in Levels |-> Overlaid(b, S)[l]]
    BY DEF Overlaid
  <2> QED BY <1>5, <2>1 DEF Books
<1>7. ASSUME NEW n \in S
      PROVE  LevelOf(n) \in Levels /\ Overlaid(b, S)[LevelOf(n)] >= n
  <2>1. n \in Nat /\ LevelOf(n) \in Levels
    BY <1>1 DEF LevelOf, Levels
  <2>2. n \in H(LevelOf(n))
    BY <1>2
  <2>3. n <= Max(H(LevelOf(n))) /\ Max(H(LevelOf(n))) \in Nat
    <3>1. Max(H(LevelOf(n))) \in H(LevelOf(n)) /\ \A y \in H(LevelOf(n)) : y <= Max(H(LevelOf(n)))
      BY <1>4, <2>1, <2>2
    <3>2. Max(H(LevelOf(n))) \in S
      BY <1>2, <3>1
    <3>3. n <= Max(H(LevelOf(n)))
      BY <2>2, <3>1
    <3>4. Max(H(LevelOf(n))) \in 0..MaxId
      BY <1>1, <3>2
    <3> QED BY <1>1, <3>3, <3>4
  <2>4. Overlaid(b, S)[LevelOf(n)] = Max(H(LevelOf(n)))
    BY <1>3, <2>1, <2>2
  <2> QED BY <2>1, <2>3, <2>4
<1>8. ASSUME NEW l \in Levels
      PROVE  \/ Overlaid(b, S)[l] = b[l]
             \/ Overlaid(b, S)[l] \in S /\ LevelOf(Overlaid(b, S)[l]) = l
  <2>1. H(l) # {} => Max(H(l)) \in S /\ LevelOf(Max(H(l))) = l
    BY <1>4, <1>2
  <2> QED BY <1>3, <2>1
<1> QED BY <1>6, <1>7, <1>8

LEMMA LevelOfNat == \A n \in Nat : LevelOf(n) \in Levels
BY SettingsAssumption DEF LevelOf, Levels, SettingsAssumption

LEMMA EmptyBook == Empty \in Books
BY SettingsAssumption DEF Empty, Books, SettingsAssumption

LEMMA BookAtShows ==
  ASSUME NEW id \in 0..MaxId
  PROVE  /\ BookAt(id) \in Books
         /\ \A n \in 1..id : BookAt(id)[LevelOf(n)] >= n
         /\ \A l \in Levels : \/ BookAt(id)[l] = 0
                              \/ BookAt(id)[l] \in 1..id /\ LevelOf(BookAt(id)[l]) = l
<1>1. 1..id \in SUBSET (1..MaxId)
  BY SettingsAssumption DEF SettingsAssumption
<1>2. \A l \in Levels : Empty[l] = 0
  BY DEF Empty
<1> QED BY <1>1, <1>2, EmptyBook, OverlaidShows DEF BookAt

(* A message applied on a book that shows what precedes it.                *)
LEMMA AppliedShows ==
  ASSUME NEW b \in Books, NEW m \in Messages, NEW L,
         \A n \in 1..m.prev : b[LevelOf(n)] >= n \/ n \in L
  PROVE  \A n \in 1..m.last : Overlaid(b, Updates(m))[LevelOf(n)] >= n \/ n \in L
<1>1. m.prev \in Nat /\ m.last \in Nat /\ m.prev < m.last /\ Updates(m) \in SUBSET (1..MaxId)
  BY SettingsAssumption DEF Messages, Updates, SettingsAssumption
<1> SUFFICES ASSUME NEW n \in 1..m.last, n \notin L
             PROVE  Overlaid(b, Updates(m))[LevelOf(n)] >= n
  OBVIOUS
<1>2. n \in Nat /\ LevelOf(n) \in Levels
  BY <1>1, LevelOfNat
<1>3. CASE n \in Updates(m)
  BY <1>1, <1>3, OverlaidShows
<1>4. CASE n \notin Updates(m)
  <2>1. n \in 1..m.prev /\ b[LevelOf(n)] >= n
    BY <1>1, <1>4 DEF Updates
  <2>2. CASE Overlaid(b, Updates(m))[LevelOf(n)] = b[LevelOf(n)]
    BY <2>1, <2>2
  <2>3. CASE Overlaid(b, Updates(m))[LevelOf(n)] \in Updates(m)
    BY <1>1, <2>1, <2>3 DEF Updates
  <2> QED BY <1>1, <1>2, <2>2, <2>3, OverlaidShows
<1> QED BY <1>3, <1>4

-------------------------------------------------------------------------------
(* Messages.                                                               *)

LEMMA MessageFields ==
  ASSUME NEW m \in Messages
  PROVE  /\ m.prev \in Nat /\ m.last \in Nat /\ m.prev < m.last
         /\ m.prev \in 0..MaxId /\ m.last \in 1..MaxId
         /\ Updates(m) \in SUBSET (1..MaxId)
         /\ \A n \in Nat : n \in Updates(m) <=> m.prev < n /\ n <= m.last
BY SettingsAssumption DEF Messages, Updates, SettingsAssumption

LEMMA OfEmpty == Of(<<>>) = {} /\ Ascends(<<>>)
BY DEF Of, Ascends

LEMMA OfType ==
  ASSUME NEW q \in Seq(Messages) PROVE Of(q) \in SUBSET Messages
BY ElementOfSeq DEF Of

LEMMA OfAppend ==
  ASSUME NEW q \in Seq(Messages), NEW m \in Messages
  PROVE  /\ Append(q, m) \in Seq(Messages) /\ Len(Append(q, m)) = Len(q) + 1
         /\ Of(Append(q, m)) = Of(q) \cup {m}
         /\ Ascends(q) /\ (\A x \in Of(q) : x.last <= m.prev) => Ascends(Append(q, m))
<1>1. /\ Append(q, m) \in Seq(Messages) /\ Len(Append(q, m)) = Len(q) + 1 /\ Len(q) \in Nat
      /\ \A i \in 1..Len(q) : Append(q, m)[i] = q[i]
      /\ Append(q, m)[Len(q) + 1] = m
  BY AppendProperties, LenProperties
<1> DEFINE r == Append(q, m)
<1> HIDE DEF r
<1>2. Of(r) = Of(q) \cup {m}
  BY <1>1 DEF Of, r
<1>3. ASSUME Ascends(q), \A x \in Of(q) : x.last <= m.prev PROVE Ascends(r)
  <2> SUFFICES ASSUME NEW i \in 1..Len(r), NEW j \in 1..Len(r), i < j
               PROVE  r[i].last <= r[j].prev
    BY DEF Ascends
  <2>1. i \in 1..Len(q) /\ r[i] = q[i]
    BY <1>1 DEF r
  <2>2. CASE j = Len(q) + 1
    BY <1>1, <1>3, <2>1, <2>2 DEF Of, r
  <2>3. CASE j \in 1..Len(q)
    BY <1>1, <1>3, <2>1, <2>3 DEF Ascends, r
  <2> QED BY <1>1, <2>2, <2>3 DEF r
<1> QED BY <1>1, <1>2, <1>3 DEF r

LEMMA OfTail ==
  ASSUME NEW q \in Seq(Messages), q # <<>>
  PROVE  /\ Head(q) \in Messages /\ Head(q) = q[1]
         /\ Tail(q) \in Seq(Messages) /\ Len(Tail(q)) = Len(q) - 1
         /\ Of(q) = Of(Tail(q)) \cup {Head(q)}
         /\ Ascends(q) => /\ Ascends(Tail(q))
                          /\ \A x \in Of(Tail(q)) : Head(q).last <= x.prev
<1>1. /\ Head(q) \in Messages /\ Head(q) = q[1] /\ Len(q) \in Nat \ {0}
      /\ Tail(q) \in Seq(Messages) /\ Len(Tail(q)) = Len(q) - 1
      /\ \A i \in 1..Len(q) - 1 : Tail(q)[i] = q[i + 1]
  BY HeadTailProperties, LenProperties, EmptySeq
<1> DEFINE r == Tail(q)
           h == Head(q)
<1>2. Len(r) \in Nat /\ \A i \in 1..Len(r) : r[i] = q[i + 1] /\ i + 1 \in 1..Len(q)
  BY <1>1
<1> HIDE DEF r, h
<1>3. Of(q) = Of(r) \cup {h}
  <2>1. ASSUME NEW i \in 1..Len(q) PROVE q[i] \in Of(r) \cup {h}
    <3>1. CASE i = 1
      BY <1>1, <3>1 DEF h
    <3>2. CASE i # 1
      <4>1. i - 1 \in 1..Len(r) /\ (i - 1) + 1 = i
        BY <1>1, <3>2 DEF r
      <4> QED BY <1>2, <4>1 DEF Of
    <3> QED BY <3>1, <3>2
  <2>2. h \in Of(q)
    BY <1>1 DEF Of, h
  <2> QED BY <1>2, <2>1, <2>2 DEF Of
<1>4. ASSUME Ascends(q) PROVE Ascends(r) /\ \A x \in Of(r) : h.last <= x.prev
  <2>1. ASSUME NEW i \in 1..Len(r), NEW j \in 1..Len(r), i < j
        PROVE  r[i].last <= r[j].prev
    <3>1. i + 1 < j + 1
      BY <1>2, <2>1
    <3> QED BY <1>2, <1>4, <3>1 DEF Ascends
  <2>2. ASSUME NEW i \in 1..Len(r) PROVE h.last <= r[i].prev
    <3>1. 1 < i + 1 /\ 1 \in 1..Len(q)
      BY <1>1
    <3> QED BY <1>1, <1>2, <1>4, <3>1 DEF Ascends, h
  <2> QED BY <2>1, <2>2 DEF Ascends, Of
<1> QED BY <1>1, <1>3, <1>4 DEF r, h

-------------------------------------------------------------------------------
(* Types.                                                                  *)

LEMMA InitTypes == Init => Types
<1> SUFFICES ASSUME Init PROVE Types
  OBVIOUS
<1>1. MaxId \in Nat \ {0} /\ Early \in Nat \ {0} /\ BufferMax \in Nat \ {0}
  BY SettingsAssumption DEF SettingsAssumption
<1>2. /\ exch \in 1..MaxId /\ sent \in 0..exch /\ {last, expected} \subseteq 0..MaxId
      /\ Len(queue) <= Early /\ Len(buffer) <= BufferMax
  BY <1>1 DEF Init
<1>3. book \in [Levels -> 0..MaxId] /\ out.id \in 0..MaxId /\ out.book \in [Levels -> 0..MaxId]
  BY <1>1, EmptyBook DEF Init, Books
<1>4. snap \in [Tasks -> {Pending} \cup 0..MaxId]
  BY <1>1 DEF Init
<1>5. wire \in Seq(Messages) /\ queue \in Seq(Messages) /\ buffer \in Seq(Messages)
  BY DEF Init
<1> QED BY <1>2, <1>3, <1>4, <1>5 DEF Init, Types, TypeOK

LEMMA NetworkTypes ==
  ASSUME Types, Update \/ Send \/ Lose \/ \E t \in Tasks : TakeSnapshot(t)
  PROVE  Types'
<1> USE DEF Types, TypeOK, local, history, network
<1>1. CASE Update
  <2>1. exch' \in 1..MaxId /\ sent' \in 0..exch'
    BY <1>1, SettingsAssumption DEF Update, SettingsAssumption
  <2> QED BY <1>1, <2>1 DEF Update
<1>2. CASE Send
  <2>1. [prev |-> sent, last |-> exch] \in Messages
    BY <1>2, SettingsAssumption DEF Send, Messages, SettingsAssumption
  <2>2. wire' \in Seq(Messages)
    BY <1>2, <2>1, OfAppend DEF Send
  <2>3. sent' \in 0..exch'
    BY <1>2 DEF Send
  <2> QED BY <1>2, <2>2, <2>3 DEF Send
<1>3. CASE Lose
  BY <1>3 DEF Lose
<1>4. ASSUME NEW t \in Tasks, TakeSnapshot(t) PROVE Types'
  <2>1. exch \in 0..MaxId
    BY SettingsAssumption DEF SettingsAssumption
  <2>2. snap' \in [Tasks -> {Pending} \cup 0..MaxId]
    BY <1>4, <2>1 DEF TakeSnapshot
  <2> QED BY <1>4, <2>2 DEF TakeSnapshot
<1> QED BY <1>1, <1>2, <1>3, <1>4

LEMMA HandlerTypes ==
  ASSUME Types, Handler
  PROVE  Types'
<1> USE DEF Types, TypeOK, local, history, network
<1>1. CASE Enqueue
  <2>1. Head(wire) \in Messages /\ Tail(wire) \in Seq(Messages)
    BY <1>1, OfTail DEF Enqueue
  <2>2. queue' \in Seq(Messages) /\ Len(queue') = Len(queue) + 1 /\ Len(queue) \in Nat
    BY <1>1, <2>1, OfAppend, LenProperties DEF Enqueue
  <2>3. Len(queue') <= Early
    BY <1>1, <2>2, SettingsAssumption DEF Enqueue, Room, SettingsAssumption
  <2> QED BY <1>1, <2>1, <2>2, <2>3 DEF Enqueue
<1>2. CASE Drop
  <2>1. Head(wire) \in Messages /\ Tail(wire) \in Seq(Messages)
    BY <1>2, OfTail DEF Drop
  <2>2. (dropped' \cup lost') \subseteq 1..MaxId
    BY <1>2, <2>1, MessageFields DEF Drop
  <2> QED BY <1>2, <2>1, <2>2 DEF Drop
<1>3. CASE HandlerEnds
  BY <1>3 DEF HandlerEnds
<1> QED BY <1>1, <1>2, <1>3 DEF Handler

(* The message that the processor takes.                                   *)
LEMMA Taken ==
  ASSUME Types, Takes
  PROVE  /\ Message \in Messages /\ Message.last \in 1..MaxId
         /\ queue' \in Seq(Messages) /\ Len(queue') <= Early
         /\ Updates(Message) \in SUBSET (1..MaxId)
<1>1. /\ Message \in Messages /\ queue' \in Seq(Messages) /\ Len(queue') = Len(queue) - 1
  BY OfTail DEF Takes, Message, Types
<1>2. Len(queue) \in Nat /\ Early \in Nat /\ Len(queue) <= Early
  BY LenProperties, SettingsAssumption DEF Types, TypeOK, SettingsAssumption
<1> QED BY <1>1, <1>2, MessageFields

(* The buffer after a message is put in it.                                *)
LEMMA BufferedMessages ==
  ASSUME Types, Takes
  PROVE  /\ Buffered \in Seq(Messages) /\ Len(Buffered) <= BufferMax
         /\ Len(buffer) < BufferMax => Buffered = Append(buffer, Message)
         /\ Len(buffer) = BufferMax => /\ Append(buffer, Message) # <<>>
                                       /\ Buffered = Tail(Append(buffer, Message))
                                       /\ Head(Append(buffer, Message)) = Head(buffer)
                                       /\ Head(buffer) \in Messages
<1> DEFINE b == Append(buffer, Message)
<1>1. Message \in Messages /\ buffer \in Seq(Messages)
  BY Taken DEF Types
<1>2. b \in Seq(Messages) /\ Len(b) = Len(buffer) + 1 /\ Len(buffer) \in Nat
      /\ \A i \in 1..Len(buffer) : b[i] = buffer[i]
  BY <1>1, AppendProperties, LenProperties
<1>3. Len(buffer) <= BufferMax /\ BufferMax \in Nat \ {0}
  BY SettingsAssumption DEF Types, TypeOK, SettingsAssumption
<1>4. Buffered = SubSeq(b, IF Len(b) > BufferMax THEN 2 ELSE 1, Len(b))
  BY DEF Buffered
<1> HIDE DEF b
<1>5. CASE Len(buffer) < BufferMax
  <2>1. Buffered = b
    <3>1. Buffered = SubSeq(b, 1, Len(b))
      BY <1>2, <1>3, <1>4, <1>5
    <3> QED BY <1>2, <3>1
  <2> QED BY <1>2, <1>3, <1>5, <2>1 DEF b
<1>6. CASE Len(buffer) = BufferMax
  <2>1. Buffered = Tail(b) /\ b # <<>>
    <3>1. Buffered = SubSeq(b, 2, Len(b))
      BY <1>2, <1>3, <1>4, <1>6
    <3>2. b # <<>>
      BY <1>2
    <3> QED BY <1>2, <3>1, <3>2
  <2>2. buffer # <<>>
    BY <1>3, <1>6
  <2>3. Tail(b) \in Seq(Messages) /\ Len(Tail(b)) = Len(b) - 1 /\ Head(b) = b[1]
    BY <1>2, <2>1, OfTail
  <2>4. Head(buffer) = buffer[1] /\ Head(buffer) \in Messages /\ 1 \in 1..Len(buffer)
    BY <1>1, <1>3, <1>6, <2>2, OfTail
  <2> QED BY <1>2, <1>3, <1>6, <2>1, <2>3, <2>4 DEF b
<1> QED BY <1>2, <1>3, <1>5, <1>6

LEMMA WorkerTypes ==
  ASSUME Types, Worker
  PROVE  Types'
<1> USE DEF Types, TypeOK, local, history, network
<1>1. CASE Store
  <2>1. buffer' \in Seq(Messages) /\ Len(buffer') <= BufferMax
    BY <1>1, BufferedMessages DEF Store
  <2>2. GivenUp \in SUBSET (1..MaxId)
    <3>1. Len(buffer) = BufferMax => Updates(Head(buffer)) \in SUBSET (1..MaxId)
      BY <1>1, BufferedMessages, MessageFields DEF Store
    <3> QED BY <1>1, <3>1, Taken DEF Store, GivenUp
  <2>3. (dropped' \cup lost') \subseteq 1..MaxId
    BY <1>1, <2>2 DEF Store
  <2>4. queue' \in Seq(Messages) /\ Len(queue') <= Early
    BY <1>1, Taken DEF Store
  <2> QED BY <1>1, <2>1, <2>3, <2>4 DEF Store
<1>2. CASE StoreFails
  BY <1>2, Taken DEF StoreFails
<1>3. CASE NapEnds
  BY <1>3 DEF NapEnds
<1>4. CASE Process
  <2>1. Message.last \in 0..MaxId /\ queue' \in Seq(Messages) /\ Len(queue') <= Early
        /\ Updates(Message) \in SUBSET (1..MaxId)
    BY <1>4, Taken DEF Process
  <2>2. book' \in Books
    BY <1>4, <2>1, OverlaidShows DEF Process, Books
  <2>3. out'.id = Message.last /\ out'.book = book'
    BY <1>4 DEF Process
  <2>4. /\ {last', expected'} \subseteq 0..MaxId /\ out'.id \in 0..MaxId
        /\ book' \in [Levels -> 0..MaxId] /\ out'.book \in [Levels -> 0..MaxId]
    BY <1>4, <2>1, <2>2, <2>3 DEF Process, Books
  <2> QED BY <1>4, <2>1, <2>4 DEF Process
<1>5. CASE Published
  BY <1>5 DEF Published
<1>6. CASE Reinitialize
  <2>1. snap' \in [Tasks -> {Pending} \cup 0..MaxId]
    BY <1>6 DEF Reinitialize
  <2>2. /\ {last', expected'} \subseteq 0..MaxId /\ book' \in [Levels -> 0..MaxId]
        /\ buffer' \in Seq(Messages) /\ Len(buffer') <= BufferMax
    BY <1>6, EmptyBook, SettingsAssumption DEF Reinitialize, Books, SettingsAssumption
  <2> QED BY <1>6, <2>1, <2>2, Taken DEF Reinitialize
<1>7. CASE ReinitializeFails
  BY <1>7, Taken DEF ReinitializeFails
<1> QED BY <1>1, <1>2, <1>3, <1>4, <1>5, <1>6, <1>7 DEF Worker

LEMMA RebuildTypes ==
  ASSUME Types, Rebuild
  PROVE  Types'
<1> USE DEF Types, TypeOK, local, history, network
<1>1. 0 \in 0..MaxId /\ snap["rebuild"] \in {Pending} \cup 0..MaxId
  BY SettingsAssumption DEF SettingsAssumption, Tasks
<1>2. CASE RebuildFetched
  <2>1. snap["rebuild"] \in 0..MaxId
    BY <1>1, <1>2 DEF RebuildFetched
  <2>2. book' \in [Levels -> 0..MaxId]
    BY <1>2, <2>1, BookAtShows DEF RebuildFetched, Books
  <2>3. snap' \in [Tasks -> {Pending} \cup 0..MaxId] /\ {last', expected'} \subseteq 0..MaxId
    BY <1>1, <1>2, <2>1 DEF RebuildFetched
  <2> QED BY <1>2, <2>2, <2>3 DEF RebuildFetched, Ready
<1>3. CASE RebuildFails
  <2>1. snap' \in [Tasks -> {Pending} \cup 0..MaxId] /\ {last', expected'} \subseteq 0..MaxId
    BY <1>1, <1>3 DEF RebuildFails
  <2>2. 1..exch \subseteq 1..MaxId
    BY SettingsAssumption DEF SettingsAssumption
  <2>3. (dropped' \cup lost') \subseteq 1..MaxId
    BY <1>3, <2>2 DEF RebuildFails
  <2> QED BY <1>3, <2>1, <2>3 DEF RebuildFails, Ready
<1> QED BY <1>2, <1>3 DEF Rebuild

(* The first snapshot and what the buffer adds to it.                      *)
LEMMA Replays ==
  ASSUME Types, NEW n \in 0..MaxId
  PROVE  /\ \A k : k \in Replayed <=> \E m \in Of(buffer) : k \in Updates(m)
         /\ Replayed \in SUBSET (1..MaxId)
         /\ buffer # <<>> => buffer[Len(buffer)] \in Of(buffer)
         /\ NextExpected(n) \in 0..MaxId
<1>1. buffer \in Seq(Messages) /\ Of(buffer) \in SUBSET Messages /\ DOMAIN buffer = 1..Len(buffer)
  BY OfType DEF Types
<1>2. \A k : k \in Replayed <=> \E m \in Of(buffer) : k \in Updates(m)
  BY <1>1 DEF Replayed, Of
<1>3. Replayed \in SUBSET (1..MaxId)
  BY <1>1, <1>2, MessageFields
<1>4. ASSUME buffer # <<>> PROVE buffer[Len(buffer)] \in Of(buffer)
  <2>1. Len(buffer) \in Nat \ {0}
    BY <1>1, <1>4, LenProperties, EmptySeq
  <2> QED BY <2>1 DEF Of
<1>5. NextExpected(n) \in 0..MaxId
  <2>1. CASE buffer = <<>>
    BY <2>1 DEF NextExpected
  <2>2. CASE buffer # <<>>
    <3>1. buffer[Len(buffer)].last \in 1..MaxId
      BY <1>1, <1>4, <2>2, MessageFields
    <3> QED BY <2>2, <3>1 DEF NextExpected
  <2> QED BY <2>1, <2>2
<1> QED BY <1>2, <1>3, <1>4, <1>5

LEMMA MainTypes ==
  ASSUME Types, Main \/ Cancel \/ ForcedCleanup
  PROVE  Types'
<1> USE DEF Types, TypeOK, local, history, network
<1>1. 0 \in 0..MaxId /\ snap["main"] \in {Pending} \cup 0..MaxId
  BY SettingsAssumption DEF SettingsAssumption, Tasks
<1>2. CASE Connect
  BY <1>2 DEF Connect
<1>3. CASE OthersDone
  <2>1. snap' \in [Tasks -> {Pending} \cup 0..MaxId]
    BY <1>3 DEF OthersDone
  <2> QED BY <1>3, <2>1 DEF OthersDone
<1>4. CASE Fetched
  <2>1. snap["main"] \in 0..MaxId
    BY <1>1, <1>4 DEF Fetched
  <2>2. book' \in [Levels -> 0..MaxId]
    BY <1>4, <2>1, BookAtShows, Replays, OverlaidShows DEF Fetched, Books
  <2>3. snap' \in [Tasks -> {Pending} \cup 0..MaxId] /\ {last', expected'} \subseteq 0..MaxId
    BY <1>1, <1>4, <2>1, Replays DEF Fetched
  <2>4. buffer' \in Seq(Messages) /\ Len(buffer') <= BufferMax
    BY <1>4, SettingsAssumption DEF Fetched, SettingsAssumption
  <2> QED BY <1>4, <2>2, <2>3, <2>4 DEF Fetched
<1>5. CASE Close
  BY <1>5 DEF Close
<1>6. CASE Cancel
  <2>1. snap' \in [Tasks -> {Pending} \cup 0..MaxId]
    BY <1>1, <1>6 DEF Cancel
  <2> QED BY <1>6, <2>1 DEF Cancel
<1>7. CASE ForcedCleanup
  <2>1. buffer' \in Seq(Messages) /\ Len(buffer') <= BufferMax
    BY <1>7, SettingsAssumption DEF ForcedCleanup, SettingsAssumption
  <2> QED BY <1>7, <2>1 DEF ForcedCleanup
<1> QED BY <1>2, <1>3, <1>4, <1>5, <1>6, <1>7 DEF Main

LEMMA NextTypes == ASSUME Types, [Next]_vars PROVE Types'
<1>1. CASE UNCHANGED vars
  BY <1>1 DEF Types, TypeOK, vars, local, history, network
<1> QED BY <1>1, NetworkTypes, HandlerTypes, WorkerTypes, RebuildTypes, MainTypes DEF Next

-------------------------------------------------------------------------------
(* The order of the messages.                                              *)

LEMMA Fields ==
  ASSUME Types
  PROVE  /\ Of(queue) \in SUBSET Messages /\ Of(wire) \in SUBSET Messages
         /\ Of(buffer) \in SUBSET Messages /\ All \in SUBSET Messages
         /\ \A m \in All : m.prev \in Nat /\ m.last \in Nat /\ m.prev < m.last
         /\ sent \in Nat /\ out.id \in Nat
<1>1. /\ Of(queue) \in SUBSET Messages /\ Of(wire) \in SUBSET Messages
      /\ Of(buffer) \in SUBSET Messages
  BY OfType DEF Types
<1>2. All \in SUBSET Messages
  BY <1>1 DEF All, Way
<1>3. \A m \in All : m.prev \in Nat /\ m.last \in Nat /\ m.prev < m.last
  BY <1>2, MessageFields
<1>4. sent \in Nat /\ out.id \in Nat
  BY DEF Types, TypeOK
<1> QED BY <1>1, <1>2, <1>3, <1>4

(* Messages are only passed on: none is added or comes back.               *)
LEMMA OrderedSame ==
  ASSUME Ordered, UNCHANGED <<sent, wire, queue, out>>, Of(buffer') \subseteq Of(buffer)
  PROVE  Ordered' /\ Way' = Way /\ All' \subseteq All
BY DEF Ordered, Way, All, Of, Ascends

LEMMA SendFlow ==
  ASSUME Types, Ordered, Send
  PROVE  /\ Ordered' /\ sent < sent'
         /\ conn = "up" => Way' = Way \cup {[prev |-> sent, last |-> sent']}
         /\ conn # "up" => Way' = Way
         /\ All' = Way' \cup Of(buffer)
<1> DEFINE m == [prev |-> sent, last |-> exch]
<1>1. m \in Messages /\ sent < exch /\ sent' = exch /\ exch \in Nat
  BY SettingsAssumption DEF Send, Messages, Types, TypeOK, SettingsAssumption
<1>2. m.prev = sent /\ m.last = sent'
  BY <1>1
<1>3. queue' = queue /\ buffer' = buffer /\ out' = out
  BY DEF Send
<1> HIDE DEF m
<1>4. \A x \in All : x.last \in Nat /\ x.last <= sent /\ x.last < sent'
  BY <1>1, Fields DEF Ordered
<1>5. CASE conn = "up"
  <2>1. wire' = Append(wire, m)
    BY <1>5 DEF Send, m
  <2>2. Of(wire') = Of(wire) \cup {m} /\ Ascends(wire')
    BY <1>1, <1>2, <1>4, <2>1, OfAppend DEF Ordered, Types, Way, All
  <2>3. Way' = Way \cup {m} /\ All' = Way' \cup Of(buffer)
    BY <1>3, <2>2 DEF Way, All, Of
  <2>4. Ordered'
    <3>1. Ascends(queue')
      BY <1>3 DEF Ordered
    <3>2. \A x \in Of(queue)', y \in Of(wire') : x.last <= y.prev
      BY <1>2, <1>3, <1>4, <2>2 DEF Ordered, Way, All, Of
    <3>3. \A x \in All' : x.last <= sent'
      BY <1>1, <1>2, <1>4, <2>3 DEF All
    <3>4. out'.id <= sent' /\ \A x \in Way' : out'.id <= x.prev
      BY <1>1, <1>2, <1>3, <2>3, Fields DEF Ordered
    <3> QED BY <2>2, <3>1, <3>2, <3>3, <3>4 DEF Ordered
  <2> QED BY <1>1, <1>5, <2>3, <2>4 DEF m
<1>6. CASE conn # "up"
  <2>1. wire' = wire
    BY <1>6 DEF Send
  <2>2. Way' = Way /\ All' = All
    BY <1>3, <2>1 DEF Way, All, Of
  <2>3. Ordered'
    BY <1>1, <1>3, <1>4, <2>1, <2>2, Fields DEF Ordered, Of
  <2> QED BY <1>1, <1>6, <2>2, <2>3 DEF All
<1> QED BY <1>5, <1>6

LEMMA EnqueueFlow ==
  ASSUME Types, Ordered, Enqueue
  PROVE  Ordered' /\ Way' = Way /\ All' = All
<1>1. /\ queue' = Append(queue, Head(wire)) /\ wire' = Tail(wire) /\ wire # <<>>
      /\ buffer' = buffer /\ sent' = sent /\ out' = out
  BY DEF Enqueue
<1>2. /\ Head(wire) \in Messages /\ Of(wire) = Of(wire') \cup {Head(wire)}
      /\ Ascends(wire') /\ \A x \in Of(wire') : Head(wire).last <= x.prev
  BY <1>1, OfTail DEF Types, Ordered
<1>3. Of(queue') = Of(queue) \cup {Head(wire)} /\ Ascends(queue')
  BY <1>1, <1>2, OfAppend DEF Types, Ordered
<1>4. Way' = Way /\ All' = All
  BY <1>1, <1>2, <1>3 DEF Way, All, Of
<1> QED BY <1>1, <1>2, <1>3, <1>4 DEF Ordered, Of

LEMMA DropFlow ==
  ASSUME Types, Ordered, Drop
  PROVE  /\ Ordered' /\ Head(wire) \in Way /\ Way = Way' \cup {Head(wire)} /\ All' \subseteq All
         /\ \E h \in Way' : h.prev <= Head(wire).prev
<1>1. wire' = Tail(wire) /\ wire # <<>> /\ queue' = queue /\ buffer' = buffer
      /\ sent' = sent /\ out' = out
  BY DEF Drop
<1>2. /\ Head(wire) \in Messages /\ Of(wire) = Of(wire') \cup {Head(wire)}
      /\ Ascends(wire')
  BY <1>1, OfTail DEF Types, Ordered
<1>3. Way = Way' \cup {Head(wire)} /\ All' \subseteq All
  BY <1>1, <1>2 DEF Way, All, Of
<1>4. Ordered'
  BY <1>1, <1>2, <1>3 DEF Ordered, Of
<1>5. queue # <<>>
  BY SettingsAssumption DEF Drop, Room, SettingsAssumption
<1>6. Head(queue) \in Of(queue)
  BY <1>5, OfTail DEF Types
<1>7. Head(queue) \in Way' /\ Head(queue).prev <= Head(wire).prev
  <2>1. Head(queue).last <= Head(wire).prev
    BY <1>2, <1>6 DEF Ordered
  <2>2. Head(queue) \in All /\ Head(wire) \in All
    BY <1>2, <1>6 DEF All, Way
  <2> QED BY <1>1, <1>6, <2>1, <2>2, Fields DEF Way, Of
<1> QED BY <1>3, <1>4, <1>7

(* A message is taken from the queue.                                      *)
LEMMA TakeFlow ==
  ASSUME Types, Ordered, Takes, wire' = wire
  PROVE  /\ Message \in Way /\ Way = Way' \cup {Message}
         /\ \A x \in Way' : Message.last <= x.prev
         /\ Ascends(queue') /\ Of(queue') \subseteq Of(queue)
<1>1. /\ Of(queue) = Of(queue') \cup {Message} /\ Ascends(queue')
      /\ \A x \in Of(queue') : Message.last <= x.prev
  BY OfTail DEF Types, Ordered, Takes, Message
<1>2. Way = Way' \cup {Message}
  BY <1>1 DEF Way, Of
<1>3. \A x \in Way' : Message.last <= x.prev
  BY <1>1 DEF Ordered, Way, Of
<1> QED BY <1>1, <1>2, <1>3

LEMMA TakeOrdered ==
  ASSUME Types, Ordered, Takes, UNCHANGED <<wire, sent>>,
         Of(buffer') \subseteq Of(buffer) \cup {Message},
         out' = out \/ out'.id = Message.last
  PROVE  Ordered' /\ All' \subseteq All
<1>1. All' \subseteq All
  BY TakeFlow DEF All, Way, Of
<1>2. out'.id <= sent' /\ \A m \in Way' : out'.id <= m.prev
  <2>1. Message.last <= sent
    BY TakeFlow DEF Ordered, All
  <2> QED BY <2>1, TakeFlow DEF Ordered
<1>3. Ascends(queue') /\ Ascends(wire')
      /\ \A x \in Of(queue)', y \in Of(wire)' : x.last <= y.prev
  BY TakeFlow DEF Ordered, Of
<1> QED BY <1>1, <1>2, <1>3 DEF Ordered

LEMMA BufferedFlow ==
  ASSUME Types, Takes
  PROVE  /\ Len(buffer) < BufferMax => Of(Buffered) = Of(buffer) \cup {Message}
         /\ Len(buffer) = BufferMax =>
              Of(Buffered) \cup {Head(buffer)} = Of(buffer) \cup {Message}
         /\ Len(buffer) < BufferMax \/ Len(buffer) = BufferMax
<1>1. buffer \in Seq(Messages) /\ Message \in Messages
  BY Taken DEF Types
<1>2. Of(Append(buffer, Message)) = Of(buffer) \cup {Message}
      /\ Append(buffer, Message) \in Seq(Messages)
  BY <1>1, OfAppend
<1>3. ASSUME Len(buffer) = BufferMax
      PROVE  Of(Append(buffer, Message)) = Of(Buffered) \cup {Head(buffer)}
  BY <1>2, <1>3, BufferedMessages, OfTail
<1>4. Len(buffer) < BufferMax \/ Len(buffer) = BufferMax
  <2>1. Len(buffer) \in Nat /\ Len(buffer) <= BufferMax /\ BufferMax \in Nat
    BY <1>1, LenProperties, SettingsAssumption DEF Types, TypeOK, SettingsAssumption
  <2> QED BY <2>1
<1> QED BY <1>2, <1>3, <1>4, BufferedMessages

LEMMA NextOrdered == ASSUME Types, Ordered, [Next]_vars PROVE Ordered'
<1> USE DEF local, network, history
<1>1. CASE Send
  BY <1>1, SendFlow
<1>2. CASE Enqueue
  BY <1>2, EnqueueFlow
<1>3. CASE Drop
  BY <1>3, DropFlow
<1>4. CASE HandlerEnds
  <2>1. Of(wire') = {} /\ Ascends(wire') /\ queue' = queue /\ buffer' = buffer
        /\ sent' = sent /\ out' = out /\ wire' = wire
    BY <1>4, OfEmpty DEF HandlerEnds
  <2> QED BY <2>1, OrderedSame
<1>5. CASE Store
  BY <1>5, BufferedFlow, TakeOrdered DEF Store
<1>6. CASE StoreFails \/ Process \/ ReinitializeFails
  BY <1>6, TakeOrdered DEF StoreFails, Process, ReinitializeFails
<1>7. CASE Reinitialize
  BY <1>7, TakeOrdered, OfEmpty DEF Reinitialize
<1>8. CASE \/ Update \/ Lose \/ (\E t \in Tasks : TakeSnapshot(t)) \/ NapEnds \/ Published
           \/ Rebuild \/ Connect \/ OthersDone \/ Close \/ Cancel \/ UNCHANGED vars
  <2>1. UNCHANGED <<sent, wire, queue, out, buffer>>
    BY <1>8 DEF Update, Lose, TakeSnapshot, NapEnds, Published, Rebuild, RebuildFetched,
                RebuildFails, Connect, OthersDone, Close, Cancel, vars
  <2> QED BY <2>1, OrderedSame
<1>9. CASE Fetched \/ ForcedCleanup
  <2>1. UNCHANGED <<sent, wire, queue, out>> /\ Of(buffer') = {}
    BY <1>9, OfEmpty DEF Fetched, ForcedCleanup
  <2> QED BY <2>1, OrderedSame
<1> QED BY <1>1, <1>2, <1>3, <1>4, <1>5, <1>6, <1>7, <1>8, <1>9 DEF Next, Handler, Worker, Main

-------------------------------------------------------------------------------
(* Where the tasks are.                                                    *)

LEMMA NextPhases == ASSUME Types, Phases, [Next]_vars PROVE Phases'
<1> USE DEF Phases, local, network, history
<1>1. CASE Update \/ Lose \/ Enqueue \/ Drop \/ HandlerEnds
  BY <1>1 DEF Update, Lose, Enqueue, Drop, HandlerEnds
<1>2. CASE Send
  BY <1>2 DEF Send
<1>3. CASE \E t \in Tasks : TakeSnapshot(t)
  BY <1>3 DEF TakeSnapshot, Types, TypeOK
<1>4. CASE Store \/ StoreFails \/ NapEnds
  BY <1>4 DEF Store, StoreFails, NapEnds, Takes
<1>5. CASE Process \/ Published
  BY <1>5 DEF Process, Published, Takes
<1>6. CASE Reinitialize \/ ReinitializeFails
  BY <1>6 DEF Reinitialize, ReinitializeFails, Takes
<1>7. CASE Rebuild
  BY <1>7 DEF Rebuild, RebuildFetched, RebuildFails
<1>8. CASE Connect \/ Close \/ Cancel
  BY <1>8 DEF Connect, Close, Cancel
<1>11. CASE Fetched
  BY <1>11 DEF Fetched
<1>12. CASE ForcedCleanup
  BY <1>12 DEF ForcedCleanup
<1>9. CASE OthersDone
  <2>1. main' = "fetch" => snap'["main"] # 0
    BY <1>9 DEF OthersDone, Types, TypeOK, Tasks, Pending
  <2> QED BY <1>9, <2>1 DEF OthersDone
<1>10. CASE UNCHANGED vars
  BY <1>10 DEF vars
<1> QED BY <1>1, <1>2, <1>3, <1>4, <1>5, <1>6, <1>7, <1>8, <1>9, <1>10, <1>11, <1>12
        DEF Next, Handler, Worker, Main

-------------------------------------------------------------------------------
(* What the book shows.                                                    *)

LEMMA LostGrows == ASSUME [Next]_vars PROVE lost \subseteq lost'
<1> USE DEF history
<1>1. CASE UNCHANGED vars
  BY <1>1 DEF vars
<1>2. CASE \/ Update \/ Send \/ Lose \/ (\E t \in Tasks : TakeSnapshot(t)) \/ Handler
  BY <1>2 DEF Update, Send, Lose, TakeSnapshot, Handler, Enqueue, Drop, HandlerEnds
<1>3. CASE Worker
  BY <1>3 DEF Worker, Store, StoreFails, NapEnds, Process, Published, Reinitialize,
              ReinitializeFails
<1>4. CASE Rebuild \/ Main \/ Cancel \/ ForcedCleanup
  BY <1>4 DEF Rebuild, RebuildFetched, RebuildFails, Main, Connect, OthersDone, Fetched, Close,
              Cancel, ForcedCleanup
<1> QED BY <1>1, <1>2, <1>3, <1>4 DEF Next

(* A step of the messages that loses none but as it should.                *)
LEMMA FlowKept ==
  ASSUME Kept, UNCHANGED <<local, main, rebuild, snap, sent>>, conn # "up" => conn' # "up",
         Way' \subseteq Way, All' \subseteq All, lost \subseteq lost',
         rebuild => \A m \in Way : m \in Way' \/ Updates(m) \subseteq lost',
         ready => \A m \in Way : \E h \in Way' : h.prev <= m.prev,
         \A m \in All : m.prev \in Nat /\ m.last \in Nat,
         main \in {"ahead", "fetch"} => Way' = Way /\ buffer' = buffer
  PROVE  Kept'
<1> USE DEF local
<1>1. (ready /\ expected # 0 => expected = last /\ Covers(book, last))'
  BY DEF Kept, Covers
<1>2. (ready /\ expected = 0 => Awaits(book))'
  <2> SUFFICES ASSUME ready, expected = 0, NEW n \in 1..sent
               PROVE  \/ book[LevelOf(n)] >= n \/ n \in lost'
                      \/ \E m \in Way' : m.prev < n
                      \/ conn' # "up" /\ Way' = {}
    BY DEF Awaits
  <2>1. CASE \E m \in Way : m.prev < n
    <3>1. PICK m \in Way : m.prev < n
      BY <2>1
    <3>2. PICK h \in Way' : h.prev <= m.prev
      BY <3>1
    <3>3. m.prev \in Nat /\ h.prev \in Nat
      BY <3>1, <3>2 DEF All
    <3> QED BY <3>1, <3>2, <3>3
  <2>2. CASE ~ \E m \in Way : m.prev < n
    BY <2>2 DEF Kept, Awaits
  <2> QED BY <2>1, <2>2
<1>3. ASSUME NEW n, Cut(n) PROVE Cut(n)'
  BY <1>3 DEF Cut
<1>4. (rebuild /\ snap["rebuild"] # Pending => Accounted(1..snap["rebuild"]))'
  <2> SUFFICES ASSUME rebuild, snap["rebuild"] # Pending, NEW n \in 1..sent
               PROVE  n \in 1..snap["rebuild"] \/ n \in lost' \/ Coming(n)' \/ Cut(n)'
    BY DEF Accounted
  <2>1. Coming(n) => n \in lost' \/ Coming(n)'
    BY DEF Coming
  <2> QED BY <1>3, <2>1 DEF Kept, Accounted
<1>5. main \in {"ahead", "fetch"} =>
        /\ \A n : Coming(n) => Coming(n)'
        /\ \A n : n \in Replayed => n \in Replayed'
        /\ Of(buffer') = Of(buffer) /\ Ascends(buffer)' = Ascends(buffer)
  BY DEF Coming, Replayed, Of, Ascends
<1>6. (main \in {"ahead", "fetch"} => Gathered)'
  BY <1>3, <1>5 DEF Kept, Gathered
<1>7. (main = "fetch" /\ snap["main"] # Pending => Accounted(1..snap["main"] \cup Replayed))'
  BY <1>3, <1>5 DEF Kept, Accounted
<1> QED BY <1>1, <1>2, <1>4, <1>6, <1>7 DEF Kept

LEMMA SendKept ==
  ASSUME Types, Ordered, Kept, Send
  PROVE  Kept'
<1>1. UNCHANGED <<conn, queue, buffer, local, main, rebuild, snap, lost>>
  BY DEF Send, history
<1>2. /\ sent \in Nat /\ sent' \in Nat /\ sent < sent'
      /\ \A m \in All : m.prev \in Nat /\ m.last \in Nat /\ m.prev < m.last /\ m.last <= sent
  BY SendFlow, Fields DEF Ordered, Send, Types, TypeOK
<1>3. /\ Way \subseteq Way' /\ All' = Way' \cup Of(buffer)
      /\ conn # "up" => Way' = Way /\ All' = All
      /\ \A m \in Way' : m \in Way \/ (conn = "up" /\ m.prev = sent /\ m.last = sent')
  BY SendFlow DEF All
<1>4. \A n \in (sent + 1)..sent' : Coming(n)' \/ Cut(n)'
  <2> SUFFICES ASSUME NEW n \in (sent + 1)..sent' PROVE Coming(n)' \/ Cut(n)'
    OBVIOUS
  <2>1. CASE conn = "up"
    <3>1. [prev |-> sent, last |-> sent'] \in Way'
      BY <2>1, SendFlow
    <3>2. n \in Updates([prev |-> sent, last |-> sent'])
      BY DEF Updates
    <3> QED BY <3>1, <3>2 DEF Coming
  <2>2. CASE conn # "up"
    <3>1. All' = All /\ conn' # "up"
      BY <1>1, <1>3, <2>2
    <3>2. \A m \in All : m.last < n
      BY <1>2
    <3> QED BY <3>1, <3>2 DEF Cut
  <2> QED BY <2>1, <2>2
<1>5. \A n : (Coming(n) => Coming(n)') /\ (Cut(n) => Cut(n)')
  <2>1. \A n : Coming(n) => Coming(n)'
    BY <1>3 DEF Coming
  <2>2. \A n : Cut(n) => Cut(n)'
    BY <1>1, <1>3 DEF Cut
  <2> QED BY <2>1, <2>2
<1>6. \A n \in 1..sent' : n \in 1..sent \/ n \in (sent + 1)..sent'
  BY <1>2
<1>7. (ready /\ expected # 0 => expected = last /\ Covers(book, last))'
  BY <1>1 DEF Kept, Covers, local
<1>8. (ready /\ expected = 0 => Awaits(book))'
  <2> SUFFICES ASSUME ready, expected = 0, NEW n \in 1..sent'
               PROVE  \/ book[LevelOf(n)] >= n \/ n \in lost
                      \/ \E m \in Way' : m.prev < n
                      \/ conn # "up" /\ Way' = {}
    BY <1>1 DEF Awaits, local
  <2>1. CASE n \in 1..sent
    BY <1>3, <2>1 DEF Kept, Awaits
  <2>2. CASE n \in (sent + 1)..sent'
    <3>1. CASE Way' = {}
      BY <1>3, <3>1, SendFlow
    <3>2. CASE Way' # {}
      <4>1. PICK m : m \in Way'
        BY <3>2
      <4>2. m.prev <= sent /\ m.prev \in Nat
        BY <1>2, <1>3, <4>1 DEF All
      <4> QED BY <1>2, <2>2, <4>1, <4>2
    <3> QED BY <3>1, <3>2
  <2> QED BY <1>6, <2>1, <2>2
<1>9. (rebuild /\ snap["rebuild"] # Pending => Accounted(1..snap["rebuild"]))'
  BY <1>1, <1>4, <1>5, <1>6 DEF Kept, Accounted
<1>10. (main \in {"ahead", "fetch"} => Gathered)'
  <2> SUFFICES ASSUME main \in {"ahead", "fetch"} PROVE Gathered'
    BY <1>1
  <2>1. Gathered /\ Ascends(buffer)' /\ Of(buffer)' = Of(buffer) /\ Replayed' = Replayed
    <3>1. Gathered
      BY <1>1 DEF Kept
    <3>2. Ascends(buffer)' /\ Of(buffer)' = Of(buffer) /\ Replayed' = Replayed
      BY <1>1, <3>1 DEF Gathered, Ascends, Of, Replayed
    <3> QED BY <3>1, <3>2
  <2>2. \A x \in Of(buffer)', y \in Way' : x.last <= y.prev
    BY <1>2, <1>3, <2>1 DEF Gathered, All
  <2>3. ASSUME NEW n \in 1..sent, \A m \in All : n <= m.prev
        PROVE  \A m \in All' : n <= m.prev
    BY <1>2, <1>3, <2>3 DEF All
  <2>4. \A n \in 1..sent' : \/ Coming(n)' \/ n \in Replayed' \/ Cut(n)'
                            \/ \A m \in All' : n <= m.prev
    BY <1>4, <1>5, <1>6, <2>1, <2>3 DEF Gathered
  <2> QED BY <2>1, <2>2, <2>4 DEF Gathered
<1>11. (main = "fetch" /\ snap["main"] # Pending => Accounted(1..snap["main"] \cup Replayed))'
  <2>1. Replayed' = Replayed
    BY <1>1 DEF Replayed
  <2> QED BY <1>1, <1>4, <1>5, <1>6, <2>1 DEF Kept, Accounted
<1> QED BY <1>7, <1>8, <1>9, <1>10, <1>11 DEF Kept

(* Whatever has been sent is in a snapshot that is taken now.              *)
LEMMA SnapshotKept ==
  ASSUME Types, Kept, NEW t \in Tasks, TakeSnapshot(t)
  PROVE  Kept'
<1>1. UNCHANGED <<sent, conn, wire, queue, buffer, local, main, rebuild, lost>>
  BY DEF TakeSnapshot, network, history
<1>2. Way' = Way /\ All' = All /\ Of(buffer)' = Of(buffer) /\ Ascends(buffer)' = Ascends(buffer)
      /\ Replayed' = Replayed
  BY <1>1 DEF Way, All, Of, Ascends, Replayed
<1>3. /\ 1..sent \subseteq 1..exch
      /\ \A s \in Tasks : snap'[s] = IF s = t THEN exch ELSE snap[s]
      /\ snap[t] = Pending
  BY DEF TakeSnapshot, Types, TypeOK
<1>4. \A n : Coming(n)' = Coming(n) /\ Cut(n)' = Cut(n)
  BY <1>1, <1>2 DEF Coming, Cut
<1>5. \A s \in Tasks : snap'[s] # Pending =>
        1..sent \subseteq 1..snap'[s] \/ (snap'[s] = snap[s] /\ snap[s] # Pending)
  BY <1>3
<1>6. (ready /\ expected # 0 => expected = last /\ Covers(book, last))'
  BY <1>1 DEF Kept, Covers, local
<1>7. (ready /\ expected = 0 => Awaits(book))'
  BY <1>1, <1>2 DEF Kept, Awaits, local
<1>8. (rebuild /\ snap["rebuild"] # Pending => Accounted(1..snap["rebuild"]))'
  BY <1>1, <1>4, <1>5 DEF Kept, Accounted, Tasks
<1>9. (main \in {"ahead", "fetch"} => Gathered)'
  BY <1>1, <1>2, <1>4 DEF Kept, Gathered
<1>10. (main = "fetch" /\ snap["main"] # Pending => Accounted(1..snap["main"] \cup Replayed))'
  BY <1>1, <1>2, <1>4, <1>5 DEF Kept, Accounted, Tasks
<1> QED BY <1>6, <1>7, <1>8, <1>9, <1>10 DEF Kept

LEMMA HandlerKept ==
  ASSUME Types, Ordered, Phases, Kept, worker # "gone", Handler
  PROVE  Kept'
<1>1. UNCHANGED <<local, main, rebuild, snap, sent, buffer>> /\ lost \subseteq lost'
      /\ (conn # "up" => conn' # "up")
  BY DEF Handler, Enqueue, Drop, HandlerEnds, history
<1>2. \A m \in All : m.prev \in Nat /\ m.last \in Nat
  BY Fields
<1>3. CASE Enqueue \/ HandlerEnds
  <2>1. Way' = Way /\ All' = All
    <3>1. CASE HandlerEnds
      BY <3>1 DEF HandlerEnds, Way, All, Of
    <3> QED BY <1>3, <3>1, EnqueueFlow
  <2>2. \A m \in Way : m.prev <= m.prev
    BY <1>2 DEF All
  <2> QED BY <1>1, <1>2, <2>1, <2>2, FlowKept
<1>4. CASE Drop
  <2>1. main \notin {"connect", "ahead", "fetch"} /\ (rebuild => Started /\ ~ready)
    BY <1>4 DEF Drop, Phases, Started, Types, TypeOK
  <2>2. rebuild => Updates(Head(wire)) \subseteq lost'
    BY <1>4, <2>1 DEF Drop
  <2>3. \A m \in Way : \E h \in Way' : h.prev <= m.prev
    BY <1>2, <1>4, DropFlow DEF All
  <2> QED BY <1>1, <1>2, <1>4, <2>1, <2>2, <2>3, DropFlow, FlowKept
<1> QED BY <1>3, <1>4 DEF Handler

(* A message is kept for the first snapshot.                               *)
LEMMA StoreGathered ==
  ASSUME Types, Ordered, Phases, Kept, worker # "gone", Store, main \in {"ahead", "fetch"}
  PROVE  /\ Gathered'
         /\ main = "fetch" /\ snap["main"] # Pending => Accounted(1..snap["main"] \cup Replayed)'
<1>1. /\ Takes /\ buffer' = Buffered /\ lost \subseteq lost'
      /\ Len(buffer) = BufferMax => Updates(Head(buffer)) \subseteq lost'
      /\ UNCHANGED <<sent, conn, wire, snap, main>>
  BY DEF Store, GivenUp, Started, network
<1>2. Gathered
  BY DEF Kept
<1>3. /\ Message \in Way /\ Way = Way' \cup {Message} /\ Message \in Messages
      /\ \A x \in Way' : Message.last <= x.prev
  BY <1>1, TakeFlow, Taken
<1>4. Types' /\ All' \subseteq All /\ All \in SUBSET Messages
  BY <1>1, <1>2, NextTypes, BufferedFlow, TakeOrdered, Fields
  DEF Store, Next, Worker, history
<1>5. Ascends(buffer')
  <2>1. Ascends(Append(buffer, Message)) /\ Append(buffer, Message) \in Seq(Messages)
    BY <1>2, <1>3, OfAppend DEF Gathered, Types
  <2> QED BY <1>1, <2>1, BufferedMessages, BufferedFlow, OfTail
<1>6. \A x \in Of(buffer'), y \in Way' : x.last <= y.prev
  <2>1. \A x \in Of(buffer) \cup {Message}, y \in Way' : x.last <= y.prev
    BY <1>2, <1>3 DEF Gathered
  <2>2. Of(buffer') \subseteq Of(buffer) \cup {Message}
    BY <1>1, BufferedFlow
  <2> QED BY <2>1, <2>2
<1>7. \A n : Coming(n) => Coming(n)' \/ n \in Updates(Message)
  BY <1>3 DEF Coming
<1>8. \A n : Cut(n) => Cut(n)'
  BY <1>1, <1>4 DEF Cut
<1>9. /\ \A n : n \in Replayed <=> \E m \in Of(buffer) : n \in Updates(m)
      /\ \A n : n \in Replayed' <=> \E m \in Of(buffer') : n \in Updates(m)
  <2>1. 0 \in 0..MaxId
    BY SettingsAssumption DEF SettingsAssumption
  <2>2. \A n : n \in Replayed <=> \E m \in Of(buffer) : n \in Updates(m)
    BY <2>1, Replays
  <2>3. buffer' \in Seq(Messages) /\ DOMAIN buffer' = 1..Len(buffer')
    BY <1>4 DEF Types
  <2>4. \A n : n \in Replayed' <=> \E m \in Of(buffer') : n \in Updates(m)
    BY <2>3 DEF Replayed, Of
  <2> QED BY <2>2, <2>4
<1>10. CASE Len(buffer) < BufferMax
  <2>1. Of(buffer') = Of(buffer) \cup {Message} /\ All' = All
    <3>1. Of(buffer') = Of(buffer) \cup {Message}
      BY <1>1, <1>10, BufferedFlow
    <3>2. All' = Way' \cup Of(buffer')
      BY DEF All, Of
    <3> QED BY <1>3, <3>1, <3>2 DEF All
  <2>2. \A n : (n \in Replayed => n \in Replayed') /\ (n \in Updates(Message) => n \in Replayed')
    BY <1>9, <2>1
  <2>3. Gathered'
    BY <1>1, <1>2, <1>5, <1>6, <1>7, <1>8, <2>1, <2>2 DEF Gathered
  <2> QED BY <1>1, <1>7, <1>8, <2>2, <2>3 DEF Kept, Accounted
<1>11. CASE Len(buffer) = BufferMax
  <2>1. Of(buffer') \cup {Head(buffer)} = Of(buffer) \cup {Message}
        /\ Head(buffer) \in Messages /\ buffer # <<>>
    BY <1>1, <1>11, BufferedFlow, BufferedMessages, SettingsAssumption DEF SettingsAssumption
  <2>2. \A n : /\ n \in Replayed => n \in Replayed' \/ n \in Updates(Head(buffer))
               /\ n \in Updates(Message) => n \in Replayed' \/ n \in Updates(Head(buffer))
    BY <1>9, <2>1
  <2>3. \A m \in All' : Head(buffer).last <= m.prev
    <3>1. /\ Ascends(Append(buffer, Message)) /\ Append(buffer, Message) \in Seq(Messages)
          /\ Append(buffer, Message) # <<>>
          /\ Head(Append(buffer, Message)) = Head(buffer)
          /\ buffer' = Tail(Append(buffer, Message))
      BY <1>1, <1>2, <1>3, <1>11, OfAppend, BufferedMessages DEF Gathered, Types
    <3>2. \A m \in Of(buffer') : Head(buffer).last <= m.prev
      BY <3>1, OfTail
    <3>3. Head(buffer) \in Of(buffer)
      BY <2>1, OfTail DEF Types
    <3>4. \A m \in Way' : Head(buffer).last <= m.prev
      BY <1>2, <1>3, <3>3 DEF Gathered
    <3> QED BY <3>2, <3>4 DEF All, Of
  <2>4. \A n \in Nat : n \in Updates(Head(buffer)) => \A m \in All' : n <= m.prev
    <3>1. \A m \in All' : m.prev \in Nat
      BY <1>4, MessageFields
    <3>2. /\ Head(buffer).last \in Nat
          /\ \A n \in Nat : n \in Updates(Head(buffer)) => n <= Head(buffer).last
      BY <2>1, MessageFields
    <3> QED BY <2>3, <3>1, <3>2
  <2>5. 1..sent \subseteq Nat
    BY DEF Types, TypeOK
  <2>6. ASSUME NEW n \in 1..sent, \A m \in All : n <= m.prev
        PROVE  \A m \in All' : n <= m.prev
    BY <1>4, <2>6
  <2>7. Gathered'
    <3>1. \A n \in 1..sent : Coming(n)' \/ n \in Replayed' \/ Cut(n)' \/ \A m \in All' : n <= m.prev
      BY <1>2, <1>7, <1>8, <2>2, <2>4, <2>5, <2>6 DEF Gathered
    <3> QED BY <1>1, <1>5, <1>6, <3>1 DEF Gathered, Of
  <2> QED BY <1>1, <1>7, <1>8, <1>11, <2>2, <2>7 DEF Kept, Accounted
<1> QED BY <1>1, <1>10, <1>11, BufferedFlow

(* A message that is taken while the manager waits for a rebuild is lost.  *)
LEMMA TakenKept ==
  ASSUME Types, Ordered, Phases, Kept, worker # "gone", Store \/ StoreFails
  PROVE  Kept'
<1>1. /\ Takes /\ ~ready /\ lost \subseteq lost'
      /\ UNCHANGED <<sent, conn, wire, snap, main, rebuild, local>>
  BY DEF Store, StoreFails, network
<1>2. /\ Way = Way' \cup {Message} /\ All' \subseteq All
  <2>1. CASE Store
    BY <1>1, <2>1, TakeFlow, BufferedFlow, TakeOrdered DEF Store
  <2>2. CASE StoreFails
    BY <1>1, <2>2, TakeFlow, TakeOrdered DEF StoreFails
  <2> QED BY <2>1, <2>2
<1>3. CASE main \in {"ahead", "fetch"}
  <2>1. Store /\ ~rebuild
    BY <1>3 DEF StoreFails, Phases
  <2> QED BY <1>1, <1>3, <2>1, StoreGathered DEF Kept, local
<1>4. CASE main \notin {"ahead", "fetch"}
  <2>1. Started \/ main = "connect"
    BY <1>4 DEF Started, Phases, Types, TypeOK
  <2>2. main # "connect"
    BY <1>1 DEF Phases, Takes
  <2>3. Updates(Message) \subseteq lost'
    BY <2>1, <2>2 DEF Store, StoreFails, GivenUp
  <2>4. \A m \in All : m.prev \in Nat /\ m.last \in Nat
    BY Fields
  <2> QED BY <1>1, <1>2, <1>4, <2>3, <2>4, FlowKept
<1> QED BY <1>3, <1>4

(* The message that is processed follows what the book shows.              *)
LEMMA ProcessKept ==
  ASSUME Types, Ordered, Phases, Kept, Process
  PROVE  Kept' /\ Covers(out.book, out.id)'
<1>1. /\ Message \in Way /\ Message \in Messages
      /\ \A x \in Way : x = Message \/ Message.last <= x.prev
      /\ Message.last <= sent
  BY TakeFlow, Taken DEF Process, network, Ordered, All
<1>2. /\ Message.prev \in Nat /\ Message.last \in 1..MaxId /\ Message.prev < Message.last
      /\ Message.last \in Nat /\ sent \in Nat /\ last \in Nat
      /\ \A x \in Way : x.prev \in Nat /\ x.last \in Nat /\ x.prev < x.last
  BY <1>1, Fields, MessageFields, SettingsAssumption
  DEF All, Types, TypeOK, SettingsAssumption
<1>3. \A n \in 1..Message.prev : book[LevelOf(n)] >= n \/ n \in lost
  <2> SUFFICES ASSUME NEW n \in 1..Message.prev
               PROVE  book[LevelOf(n)] >= n \/ n \in lost
    OBVIOUS
  <2>1. CASE expected # 0
    <3>1. Message.prev = last /\ Covers(book, last)
      BY <2>1 DEF Process, Gap, Kept
    <3> QED BY <3>1 DEF Covers
  <2>2. CASE expected = 0
    <3>1. n \in 1..sent /\ Awaits(book)
      BY <1>1, <1>2, <2>2 DEF Process, Kept
    <3>2. ~ \E m \in Way : m.prev < n
      BY <1>1, <1>2
    <3> QED BY <1>1, <3>1, <3>2 DEF Awaits
  <2> QED BY <2>1, <2>2
<1>4. /\ book' = Overlaid(book, Updates(Message)) /\ last' = Message.last
      /\ expected' = Message.last /\ lost' = lost /\ ready /\ ready' = ready
      /\ out' = [id |-> Message.last, book |-> book'] /\ rebuild' = rebuild /\ main' = main
  BY DEF Process, history
<1>5. book \in Books
  BY DEF Types, TypeOK, Books
<1>6. \A n \in 1..Message.last : book'[LevelOf(n)] >= n \/ n \in lost
  <2>1. \A n \in 1..Message.last : \/ Overlaid(book, Updates(Message))[LevelOf(n)] >= n
                                   \/ n \in lost
    BY <1>1, <1>3, <1>5, AppliedShows
  <2> QED BY <1>4, <2>1
<1>7. main \notin {"ahead", "fetch"} /\ ~rebuild
  BY <1>4 DEF Phases
<1>8. expected' # 0 /\ expected' = last' /\ Covers(book, last)'
  BY <1>2, <1>4, <1>6 DEF Covers
<1>9. Covers(out.book, out.id)'
  BY <1>4, <1>6 DEF Covers
<1>10. Kept'
  BY <1>4, <1>7, <1>8 DEF Kept
<1> QED BY <1>9, <1>10

LEMMA RebuildKept ==
  ASSUME Types, Phases, Kept, worker # "gone", Rebuild
  PROVE  Kept'
<1>1. /\ rebuild /\ ~rebuild' /\ ready' /\ expected' = 0 /\ main' = main
      /\ UNCHANGED <<sent, conn, wire, queue>> /\ main \notin {"ahead", "fetch"}
  BY DEF Rebuild, RebuildFetched, RebuildFails, Ready, network, Phases
<1>2. Way' = Way /\ sent \in Nat /\ sent <= exch /\ exch \in Nat
  BY <1>1, SettingsAssumption DEF Way, Of, Types, TypeOK, SettingsAssumption
<1>3. Awaits(book)'
  <2> SUFFICES ASSUME NEW n \in 1..sent
               PROVE  \/ book'[LevelOf(n)] >= n \/ n \in lost'
                      \/ \E m \in Way : m.prev < n
                      \/ conn # "up" /\ Way = {}
    BY <1>1, <1>2 DEF Awaits
  <2>1. CASE RebuildFails
    <3>1. n \in 1..exch /\ lost' = lost \cup 1..exch
      BY <1>2, <2>1 DEF RebuildFails
    <3> QED BY <3>1
  <2>2. CASE RebuildFetched
    <3>1. /\ snap["rebuild"] # Pending /\ book' = BookAt(snap["rebuild"]) /\ lost' = lost
      BY <2>2 DEF RebuildFetched, history
    <3>2. snap["rebuild"] \in 0..MaxId
      BY <3>1 DEF Types, TypeOK, Tasks
    <3>3. Accounted(1..snap["rebuild"])
      BY <1>1, <3>1 DEF Kept
    <3>4. CASE n \in 1..snap["rebuild"]
      BY <3>1, <3>2, <3>4, BookAtShows
    <3>5. CASE Coming(n)
      <4>1. PICK m \in Way : n \in Updates(m)
        BY <3>5 DEF Coming
      <4>2. m \in Messages /\ n \in Nat
        BY <1>2, <4>1, Fields DEF All
      <4> QED BY <4>1, <4>2, MessageFields
    <3>6. CASE Cut(n)
      <4>1. conn # "up" /\ \A m \in Way : m.prev < n
        BY <3>6, Fields DEF Cut, All
      <4> QED BY <4>1
    <3> QED BY <3>1, <3>3, <3>4, <3>5, <3>6 DEF Accounted
  <2> QED BY <2>1, <2>2 DEF Rebuild
<1> QED BY <1>1, <1>3 DEF Kept

(* The buffer goes on where the first snapshot ends.                       *)
LEMMA FetchedKept ==
  ASSUME Types, Ordered, Phases, Kept, Fetched
  PROVE  Kept'
<1> DEFINE s == snap["main"]
<1>1. /\ main = "fetch" /\ s # Pending /\ ready' /\ main' = "behind" /\ expected' = last'
      /\ last' = NextExpected(s) /\ book' = Overlaid(BookAt(s), Replayed)
      /\ UNCHANGED <<lost, rebuild>>
  BY DEF Fetched, history
<1>2. s \in 1..MaxId /\ s \in 0..MaxId
  <2>1. s \in {Pending} \cup 0..MaxId /\ s # 0
    BY <1>1 DEF Types, TypeOK, Tasks, Phases
  <2> QED BY <1>1, <2>1, SettingsAssumption DEF SettingsAssumption
<1>3. Gathered /\ Accounted(1..s \cup Replayed) /\ ~rebuild
  BY <1>1 DEF Kept, Phases
<1> HIDE DEF s
<1>4. /\ BookAt(s) \in Books /\ Replayed \in SUBSET (1..MaxId)
      /\ \A k : k \in Replayed <=> \E m \in Of(buffer) : k \in Updates(m)
  BY <1>2, BookAtShows, Replays
<1>5. \A m \in All : m \in Messages /\ m.prev \in Nat /\ m.last \in Nat /\ m.prev < m.last
                     /\ m.last <= sent
  BY Fields DEF Ordered
<1>6. CASE buffer = <<>>
  <2>1. last' = s /\ Replayed = {}
    BY <1>1, <1>4, <1>6, OfEmpty DEF NextExpected
  <2>2. \A n \in 1..s : BookAt(s)[LevelOf(n)] >= n /\ LevelOf(n) \in Levels
    BY <1>2, BookAtShows, LevelOfNat
  <2>3. \A l \in Levels : book'[l] = BookAt(s)[l]
    BY <1>1, <1>4, <2>1, OverlaidShows
  <2>4. Covers(book, last)'
    BY <2>1, <2>2, <2>3 DEF Covers
  <2>5. expected' # 0
    BY <1>1, <1>2, <2>1
  <2> QED BY <1>1, <1>3, <2>4, <2>5 DEF Kept
<1>7. CASE buffer # <<>>
  <2> DEFINE b == buffer[Len(buffer)]
  <2>1. last' = b.last /\ b \in Of(buffer) /\ b \in All
    BY <1>1, <1>2, <1>7, Replays DEF NextExpected, All
  <2> HIDE DEF b
  <2>2. b.last \in Nat /\ b.last # 0 /\ b.last <= sent /\ sent \in Nat
    BY <1>5, <2>1, Fields
  <2>3. ASSUME NEW n \in 1..b.last PROVE book'[LevelOf(n)] >= n \/ n \in lost
    <3>1. n \in 1..sent /\ n \in Nat /\ LevelOf(n) \in Levels
      BY <2>2, LevelOfNat
    <3>2. ~Coming(n) /\ ~Cut(n)
      <4>1. \A y \in Way : n \notin Updates(y)
        <5> SUFFICES ASSUME NEW y \in Way PROVE n \notin Updates(y)
          OBVIOUS
        <5>1. b.last <= y.prev /\ y.prev \in Nat /\ y \in Messages
          BY <1>3, <1>5, <2>1 DEF Gathered, All
        <5> QED BY <2>2, <3>1, <5>1, MessageFields
      <4> QED BY <2>1, <2>2, <4>1 DEF Coming, Cut
    <3>3. CASE n \in Replayed
      BY <1>1, <1>4, <3>3, OverlaidShows
    <3>4. CASE n \notin Replayed
      <4>1. \A m \in All : n <= m.prev
        BY <1>3, <3>1, <3>2, <3>4 DEF Gathered
      <4>2. n \in 1..s \/ n \in lost
        BY <1>3, <3>1, <3>2, <3>4 DEF Accounted
      <4>3. CASE n \in 1..s
        <5>1. BookAt(s)[LevelOf(n)] >= n
          BY <1>2, <4>3, BookAtShows
        <5>2. \A k \in Replayed : k >= n
          <6> SUFFICES ASSUME NEW k \in Replayed PROVE k >= n
            OBVIOUS
          <6>1. PICK m \in Of(buffer) : k \in Updates(m)
            BY <1>4
          <6>2. m \in All /\ k \in Nat
            BY <1>4, <6>1 DEF All
          <6>3. m.prev < k /\ n <= m.prev /\ m.prev \in Nat
            BY <1>5, <4>1, <6>1, <6>2, MessageFields
          <6> QED BY <3>1, <6>2, <6>3
        <5> QED BY <1>1, <1>4, <3>1, <5>1, <5>2, OverlaidShows
      <4> QED BY <4>2, <4>3
    <3> QED BY <3>3, <3>4
  <2>4. Covers(book, last)' /\ expected' # 0
    BY <1>1, <2>1, <2>2, <2>3 DEF Covers
  <2> QED BY <1>1, <1>3, <2>4 DEF Kept
<1> QED BY <1>6, <1>7

LEMMA MainKept ==
  ASSUME Types, Ordered, Phases, Kept, Main \/ Cancel \/ ForcedCleanup, worker' # "gone"
  PROVE  Kept'
<1>1. CASE Connect
  <2>1. Way' = {} /\ All' = {} /\ main' = "ahead" /\ ~ready' /\ ~rebuild'
    BY <1>1, OfEmpty DEF Connect, Phases, Way, All, Of, local
  <2>2. Ascends(buffer')
    BY <1>1, OfEmpty DEF Connect, Phases
  <2>3. Gathered'
    <3>1. Of(buffer)' = {}
      BY <2>1 DEF All
    <3> QED BY <2>1, <2>2, <3>1 DEF Gathered, Ascends
  <2> QED BY <2>1, <2>3 DEF Kept
<1>2. CASE OthersDone
  <2>1. UNCHANGED <<local, sent, conn, wire, queue, buffer, rebuild, lost>>
    BY <1>2 DEF OthersDone, network, history
  <2>2. Way' = Way /\ All' = All /\ Of(buffer)' = Of(buffer) /\ Replayed' = Replayed
    BY <2>1 DEF Way, All, Of, Replayed
  <2>3. \A n : Coming(n)' = Coming(n) /\ Cut(n)' = Cut(n)
    BY <2>1, <2>2 DEF Coming, Cut
  <2>4. snap'["rebuild"] = snap["rebuild"] /\ (main' = "fetch" => snap'["main"] = Pending)
    BY <1>2 DEF OthersDone, Types, TypeOK, Tasks
  <2>5. main' \in {"ahead", "fetch"} => Gathered'
    BY <1>2, <2>1, <2>2, <2>3 DEF OthersDone, Kept, Gathered, Ascends
  <2>6. (ready /\ expected # 0 => expected = last /\ Covers(book, last))'
    BY <2>1 DEF Kept, Covers, local
  <2>7. (ready /\ expected = 0 => Awaits(book))'
    BY <2>1, <2>2 DEF Kept, Awaits, local
  <2>8. (rebuild /\ snap["rebuild"] # Pending => Accounted(1..snap["rebuild"]))'
    BY <2>1, <2>3, <2>4 DEF Kept, Accounted
  <2> QED BY <2>4, <2>5, <2>6, <2>7, <2>8 DEF Kept
<1>3. CASE Fetched
  BY <1>3, FetchedKept
<1>4. CASE Close \/ Cancel
  BY <1>4 DEF Close, Cancel, Phases
<1>5. CASE ForcedCleanup
  <2>1. /\ UNCHANGED <<local, main, rebuild, snap, sent, conn, wire, queue, lost>>
        /\ main \notin {"ahead", "fetch"} /\ buffer' = <<>>
    BY <1>5 DEF ForcedCleanup, network, history
  <2>2. Way' = Way /\ All' \subseteq All
    BY <2>1, OfEmpty DEF Way, All, Of
  <2>3. \A m \in All : m.prev \in Nat /\ m.last \in Nat
    BY Fields
  <2>4. \A m \in Way : m.prev <= m.prev
    BY <2>3 DEF All
  <2> QED BY <2>1, <2>2, <2>3, <2>4, FlowKept
<1> QED BY <1>1, <1>2, <1>3, <1>4, <1>5 DEF Main

LEMMA NextKept ==
  ASSUME Types, Ordered, Phases, worker # "gone" => Kept, [Next]_vars, worker' # "gone"
  PROVE  Kept'
<1>1. worker # "gone"
  <2>1. worker' # worker => worker # "gone" \/ Connect
    BY DEF Next, Update, Send, Lose, TakeSnapshot, Handler, Enqueue, Drop, HandlerEnds, Worker,
           Store, StoreFails, NapEnds, Process, Published, Reinitialize, ReinitializeFails,
           Rebuild, RebuildFetched, RebuildFails, Main, OthersDone, Fetched, Close, Cancel,
           ForcedCleanup, Takes, vars
  <2> QED BY <2>1 DEF Connect, Phases
<1>2. Kept
  BY <1>1
<1>3. CASE Update \/ Lose \/ NapEnds \/ Published \/ UNCHANGED vars
  <2>1. /\ UNCHANGED <<local, main, rebuild, snap, sent, wire, queue, buffer, lost>>
        /\ conn # "up" => conn' # "up"
    BY <1>3 DEF Update, Lose, NapEnds, Published, network, history, vars
  <2>2. Way' = Way /\ All' = All
    BY <2>1 DEF Way, All, Of
  <2>3. \A m \in All : m.prev \in Nat /\ m.last \in Nat
    BY Fields
  <2>4. \A m \in Way : m.prev <= m.prev
    BY <2>3 DEF All
  <2> QED BY <1>2, <2>1, <2>2, <2>3, <2>4, FlowKept
<1>4. CASE Send
  BY <1>2, <1>4, SendKept
<1>5. CASE \E t \in Tasks : TakeSnapshot(t)
  BY <1>2, <1>5, SnapshotKept
<1>6. CASE Handler
  BY <1>1, <1>2, <1>6, HandlerKept
<1>7. CASE Store \/ StoreFails
  BY <1>1, <1>2, <1>7, TakenKept
<1>8. CASE Process
  BY <1>2, <1>8, ProcessKept
<1>9. CASE Reinitialize
  <2>1. ~ready' /\ main' \notin {"ahead", "fetch"} /\ snap'["rebuild"] = Pending
    BY <1>9 DEF Reinitialize, Phases, Types, TypeOK, Tasks
  <2> QED BY <2>1 DEF Kept
<1>10. CASE ReinitializeFails
  <2>1. ~ready' /\ main' \notin {"ahead", "fetch"} /\ ~rebuild'
    BY <1>10 DEF ReinitializeFails, Phases
  <2> QED BY <2>1 DEF Kept
<1>11. CASE Rebuild
  BY <1>1, <1>2, <1>11, RebuildKept
<1>12. CASE Main \/ Cancel \/ ForcedCleanup
  BY <1>2, <1>12, MainKept
<1> QED BY <1>3, <1>4, <1>5, <1>6, <1>7, <1>8, <1>9, <1>10, <1>11, <1>12 DEF Next, Worker

LEMMA NextPublished ==
  ASSUME Types, Ordered, Phases, worker # "gone" => Kept, Covers(out.book, out.id), [Next]_vars
  PROVE  Covers(out.book, out.id)'
<1>1. CASE out' = out
  BY <1>1, LostGrows DEF Covers
<1>2. CASE out' # out
  <2>1. Process
    BY <1>2 DEF Next, Update, Send, Lose, TakeSnapshot, Handler, Enqueue, Drop, HandlerEnds, Worker,
           Store, StoreFails, NapEnds, Published, Reinitialize, ReinitializeFails,
           Rebuild, RebuildFetched, RebuildFails, Main, Connect, OthersDone, Fetched, Close, Cancel,
           ForcedCleanup, vars
  <2>2. Kept
    BY <2>1 DEF Process, Takes
  <2> QED BY <2>1, <2>2, ProcessKept
<1> QED BY <1>1, <1>2

-------------------------------------------------------------------------------

LEMMA InitIInv == Init => IInv
<1> SUFFICES ASSUME Init PROVE IInv
  OBVIOUS
<1>1. Types
  BY InitTypes
<1>2. Way = {} /\ All = {} /\ Ascends(queue) /\ Ascends(wire) /\ Of(queue) = {}
  BY OfEmpty DEF Init, Way, All
<1>3. Ordered
  BY <1>2 DEF Init, Ordered
<1>4. Phases /\ Kept
  BY DEF Init, Phases, Kept
<1>5. Covers(out.book, out.id)
  BY DEF Init, Covers
<1> QED BY <1>1, <1>3, <1>4, <1>5 DEF IInv

LEMMA StepIInv == IInv /\ [Next]_vars => IInv'
<1> SUFFICES ASSUME IInv, [Next]_vars PROVE IInv'
  OBVIOUS
<1> QED BY NextTypes, NextOrdered, NextPhases, NextKept, NextPublished DEF IInv

(* The types, the order of the ids wherever a message waits, the phases of *)
(* a rebuild, what the book has missed and what was published of it hold   *)
(* together in every behaviour.                                            *)
THEOREM Invariance == Spec => []IInv
BY InitIInv, StepIInv, PTL DEF Spec

(* Every variable has its type, and queue and buffer their bounds.         *)
THEOREM TypeCorrect == Spec => []TypeOK
<1>1. IInv => TypeOK
  BY DEF IInv, Types
<1> QED BY <1>1, Invariance, PTL

(* A published book lacks an update that it claims only if the update was  *)
(* pushed out of the buffer, came or was dropped while a rebuild fetched   *)
(* its snapshot, or precedes a rebuild without one: pu check, snapshot and *)
(* buffer leave no other hole.                                             *)
THEOREM HolesExplained == Spec => []HolesHaveCauses
<1>1. IInv => HolesHaveCauses
  <2> SUFFICES ASSUME IInv, NEW l \in Levels, out.book[l] < BookAt(out.id)[l]
               PROVE  BookAt(out.id)[l] \in lost
    BY DEF HolesHaveCauses
  <2>1. out.id \in 0..MaxId /\ out.book[l] \in 0..MaxId /\ Covers(out.book, out.id)
    BY DEF IInv, Types, TypeOK
  <2>2. BookAt(out.id)[l] \in 1..out.id /\ LevelOf(BookAt(out.id)[l]) = l
    BY <2>1, BookAtShows
  <2> QED BY <2>1, <2>2 DEF Covers
<1> QED BY <1>1, Invariance, PTL

(* The ids that are published ascend, though last_update_ids goes back.    *)
THEOREM IdsAscendAlways == Spec => IdsAscend
<1>1. IInv /\ [Next]_vars => [out'.id > out.id]_out
  <2> SUFFICES ASSUME IInv, [Next]_vars, out' # out PROVE out'.id > out.id
    OBVIOUS
  <2>1. Process
    BY DEF Next, Update, Send, Lose, TakeSnapshot, Handler, Enqueue, Drop, HandlerEnds, Worker,
           Store, StoreFails, NapEnds, Published, Reinitialize, ReinitializeFails,
           Rebuild, RebuildFetched, RebuildFails, Main, Connect, OthersDone, Fetched, Close, Cancel,
           ForcedCleanup, vars
  <2>2. out'.id = Message.last
    BY <2>1 DEF Process
  <2>3. Message \in Way
    BY <2>1, TakeFlow DEF IInv, Process, network
  <2>4. Message.prev \in Nat /\ Message.last \in Nat /\ Message.prev < Message.last
        /\ out.id <= Message.prev /\ out.id \in Nat
    BY <2>3, Fields DEF IInv, All, Ordered
  <2> QED BY <2>2, <2>4
<1> QED BY <1>1, Invariance, PTL DEF Spec, IdsAscend
===============================================================================
