----------------------------- MODULE OkxBookProofs -----------------------------
(***************************************************************************)
(* What the OKX books publish lacks no update, for any symbols and queues  *)
(* and any number of losses, unless a message was dropped and the exchange *)
(* has started its numbers again.                                          *)
(***************************************************************************)
EXTENDS OkxBook, SequenceTheorems, WellFoundedInduction, TLAPS

(* No number on its way is younger than the one before it.                 *)
Messages == {m \in [kind : {"update", "snapshot"}, prev : None..Old, seq : 0..Old,
                    again : BOOLEAN] :
               /\ m.kind = "update" => m.seq <= m.prev
               /\ m.kind = "snapshot" => ~m.again}

Indices(q) == 1..Len(q)
Queues == {q \in Seq(Messages) : Len(q) <= QueueMax}
Buffers == {q \in Seq(Messages) : /\ Len(q) <= BufferMax
                                  /\ \A i \in Indices(q) : q[i].kind = "update"}
Books == [at : None..Old, whole : BOOLEAN]
Counts == {e \in [all : Nat, sequence : Nat, checksum : Nat] :
             e.all < MaxErrors /\ e.sequence <= e.all}

Kinds ==
  /\ market \in Markets /\ up \in BOOLEAN
  /\ sub \in [Symbols -> {"off", "due", "on"}]
  /\ queue \in [Symbols -> Queues] /\ buffer \in [Symbols -> Buffers]
  /\ book \in [Symbols -> Books] /\ last \in [Symbols -> None..Old]
  /\ waiting \in [Symbols -> {"no", "short", "long"}]
  /\ proc \in [Symbols -> {"get", "unsubscribe", "nap", "pause", "resync"}]
  /\ later \in [Symbols -> SUBSET {"reset", "resync", "once more"}]
  /\ errors \in Counts /\ failed \in [Symbols -> 0..Threshold]
  /\ out \in [Symbols -> BOOLEAN]
  /\ drops \in Nat /\ losses \in Nat /\ restarts \in Nat /\ rejects \in Nat

(* The numbers of a symbol grow younger from the buffer through the queue. *)
Descends(q) == \A i, j \in Indices(q) : i < j => q[j].seq <= q[i].seq
After(b, q) == \A i \in Indices(b), j \in Indices(q) : q[j].seq <= b[i].seq
Sorted(s) == Descends(queue[s]) /\ Descends(buffer[s]) /\ After(buffer[s], queue[s])

(* While nothing has been dropped, each update continues what precedes it: *)
(* the message before it, or the book.                                     *)
Linked(q) ==
  \A i, j \in Indices(q) : j = i + 1 /\ q[j].kind = "update" => q[j].prev = q[i].seq
Joined(s) ==
  /\ Linked(queue[s])
  /\ queue[s] # <<>> /\ sub[s] = "on" => queue[s][Len(queue[s])].seq = 0
  /\ HasBook(s) => /\ queue[s] # <<>> /\ Message(s).kind = "update" =>
                        Message(s).prev = book[s].at
                   /\ queue[s] = <<>> /\ sub[s] = "on" => book[s].at = 0

NoneAgain(s) == \A i \in Indices(queue[s]) : ~queue[s][i].again
Whole(s) ==
  out[s] /\ (HasBook(s) => book[s].whole /\ book[s].at # None /\ last[s] = book[s].at)

Held(s) ==
  /\ Sorted(s)
  /\ restarts = 0 => NoneAgain(s)
  /\ drops = 0 => Joined(s)
  /\ restarts = 0 \/ drops = 0 => Whole(s)

IInv == Kinds /\ \A s \in Symbols : Held(s)

-------------------------------------------------------------------------------
(* Numbers.                                                                *)

LEMMA Least ==
  ASSUME NEW S \in SUBSET Nat, S # {}
  PROVE  \E x \in S : \A y \in S : x <= y
<1> DEFINE R == OpToRel(<, Nat)
<1>1. IsWellFoundedOn(R, Nat)
  BY NatLessThanWellFounded
<1>2. \A x, y \in Nat : y < x => <<y, x>> \in R
  BY DEF OpToRel
<1> HIDE DEF R
<1>3. PICK x \in S : \A y \in S : ~ (<<y, x>> \in R)
  BY <1>1, WFMin
<1>4. ASSUME NEW y \in S PROVE x <= y
  <2>1. ~ (y < x)
    BY <1>2, <1>3
  <2> QED BY <2>1
<1> QED BY <1>4

LEMMA Greatest ==
  ASSUME NEW b \in Nat, NEW S \in SUBSET (0..b), S # {}
  PROVE  \E x \in S : \A y \in S : y <= x
<1> DEFINE T == {b - n : n \in S}
<1>1. T \in SUBSET Nat
  <2>1. \A n \in S : b - n \in Nat
    OBVIOUS
  <2> QED BY <2>1
<1>5. T # {}
  <2>1. PICK x : x \in S
    OBVIOUS
  <2>2. b - x \in T
    BY <2>1
  <2> QED BY <2>2
<1>2. PICK z \in T : \A y \in T : z <= y
  BY <1>1, <1>5, Least
<1>3. PICK x \in S : z = b - x
  BY <1>2
<1>4. ASSUME NEW y \in S PROVE y <= x
  <2>1. b - y \in T
    OBVIOUS
  <2>2. b - x <= b - y
    BY <1>2, <1>3, <2>1
  <2> QED BY <2>2
<1> QED BY <1>4

LEMMA MaxOf ==
  ASSUME NEW b \in Nat, NEW S \in SUBSET (0..b), S # {}
  PROVE  Max(S) \in S /\ \A y \in S : y <= Max(S)
<1>1. PICK x \in S : \A y \in S : y <= x
  BY Greatest
<1>2. \A y \in S : x >= y
  BY <1>1
<1> QED BY <1>2 DEF Max

LEMMA MinPair ==
  ASSUME NEW a \in Int, NEW b \in Int
  PROVE  Min({a, b}) = IF a <= b THEN a ELSE b
<1> DEFINE c == IF a <= b THEN a ELSE b
<1>1. c \in {a, b} /\ \A y \in {a, b} : c <= y
  OBVIOUS
<1>2. \A x \in {a, b} : (\A y \in {a, b} : x <= y) => x = c
  OBVIOUS
<1> HIDE DEF c
<1>3. Min({a, b}) = c
  BY <1>1, <1>2 DEF Min
<1> QED BY <1>3 DEF c

LEMMA MaxPair ==
  ASSUME NEW a \in Int, NEW b \in Int
  PROVE  Max({a, b}) = IF a >= b THEN a ELSE b
<1> DEFINE c == IF a >= b THEN a ELSE b
<1>1. c \in {a, b} /\ \A y \in {a, b} : c >= y
  OBVIOUS
<1>2. \A x \in {a, b} : (\A y \in {a, b} : x >= y) => x = c
  OBVIOUS
<1> HIDE DEF c
<1>3. Max({a, b}) = c
  BY <1>1, <1>2 DEF Max
<1> QED BY <1>3 DEF c

LEMMA CountedTo ==
  ASSUME NEW t \in Nat \ {0}, NEW n \in 0..t
  PROVE  0 \in 0..t /\ Min({n + 1, t}) \in 0..t
<1>1. n + 1 \in Int /\ t \in Int
  OBVIOUS
<1>2. Min({n + 1, t}) = IF n + 1 <= t THEN n + 1 ELSE t
  BY <1>1, MinPair
<1> QED BY <1>2

LEMMA OldNumber == Old \in Nat /\ Old >= 2
BY SettingsAssumption DEF Old, SettingsAssumption

LEMMA OlderNumbers ==
  /\ Older(None) = None /\ Older(0) = 1
  /\ \A n \in 0..Old : Older(n) \in 0..Old
  /\ \A n \in None..Old : Older(n) \in None..Old
  /\ \A m, n \in 0..Old : m <= n => Older(m) <= Older(n)
<1>1. \A n \in 0..Old : Older(n) = IF n + 1 <= Old THEN n + 1 ELSE Old
  <2> SUFFICES ASSUME NEW n \in 0..Old PROVE Older(n) = IF n + 1 <= Old THEN n + 1 ELSE Old
    OBVIOUS
  <2>1. n + 1 \in Int /\ Old \in Int /\ n # None
    BY OldNumber DEF None
  <2> QED BY <2>1, MinPair DEF Older
<1>2. Older(None) = None
  BY DEF Older
<1>3. \A n \in 0..Old : Older(n) \in 0..Old
  BY <1>1, OldNumber
<1>4. \A m, n \in 0..Old : m <= n => Older(m) <= Older(n)
  BY <1>1, OldNumber
<1>5. \A n \in None..Old : Older(n) \in None..Old
  <2> SUFFICES ASSUME NEW n \in None..Old PROVE Older(n) \in None..Old
    OBVIOUS
  <2>1. n = None \/ n \in 0..Old
    BY OldNumber DEF None
  <2>2. None \in None..Old /\ \A k \in 0..Old : k \in None..Old
    BY OldNumber DEF None
  <2> QED BY <1>2, <1>3, <2>1, <2>2
<1>6. Older(0) = 1
  BY <1>1, OldNumber
<1> QED BY <1>2, <1>3, <1>4, <1>5, <1>6

-------------------------------------------------------------------------------
(* Messages and queues.                                                    *)

LEMMA MessageFields ==
  ASSUME NEW m \in Messages
  PROVE  /\ m.kind \in {"update", "snapshot"} /\ m.prev \in None..Old /\ m.seq \in 0..Old
         /\ m.again \in BOOLEAN /\ m.seq \in Nat /\ m.seq \in None..Old
         /\ m.kind = "update" => m.seq <= m.prev /\ m.prev \in 0..Old
         /\ m.kind = "snapshot" => ~m.again
BY OldNumber DEF Messages, None

LEMMA QueueElements ==
  ASSUME NEW q \in Seq(Messages)
  PROVE  /\ Len(q) \in Nat /\ \A i \in Indices(q) : q[i] \in Messages /\ q[i].seq \in 0..Old
         /\ q # <<>> => Len(q) \in Indices(q) /\ 1 \in Indices(q) /\ Head(q) = q[1]
<1>1. Len(q) \in Nat /\ \A i \in Indices(q) : q[i] \in Messages
  BY ElementOfSeq, LenProperties DEF Indices
<1>2. q # <<>> => Len(q) # 0 /\ Head(q) = q[1]
  BY EmptySeq, HeadTailProperties
<1> QED BY <1>1, <1>2, MessageFields DEF Indices

LEMMA AppendElements ==
  ASSUME NEW q \in Seq(Messages), NEW m \in Messages
  PROVE  /\ Append(q, m) \in Seq(Messages) /\ Append(q, m) # <<>>
         /\ Len(Append(q, m)) = Len(q) + 1 /\ Len(q) \in Nat
         /\ \A i \in Indices(q) : Append(q, m)[i] = q[i]
         /\ Append(q, m)[Len(q) + 1] = m
         /\ Indices(Append(q, m)) = Indices(q) \cup {Len(q) + 1}
<1>1. /\ Append(q, m) \in Seq(Messages) /\ Append(q, m) # <<>>
      /\ Len(Append(q, m)) = Len(q) + 1 /\ Len(q) \in Nat
      /\ \A i \in 1..Len(q) : Append(q, m)[i] = q[i]
      /\ Append(q, m)[Len(q) + 1] = m
  BY AppendProperties, LenProperties
<1>2. 1..(Len(q) + 1) = (1..Len(q)) \cup {Len(q) + 1}
  BY <1>1
<1> QED BY <1>1, <1>2 DEF Indices

LEMMA TailElements ==
  ASSUME NEW q \in Seq(Messages), q # <<>>
  PROVE  /\ Head(q) \in Messages /\ Head(q) = q[1] /\ 1 \in Indices(q)
         /\ Tail(q) \in Seq(Messages) /\ Len(Tail(q)) = Len(q) - 1 /\ Len(q) \in Nat \ {0}
         /\ \A i \in Indices(Tail(q)) : i + 1 \in Indices(q) /\ Tail(q)[i] = q[i + 1]
<1>1. /\ Head(q) \in Messages /\ Head(q) = q[1] /\ Len(q) \in Nat \ {0}
      /\ Tail(q) \in Seq(Messages) /\ Len(Tail(q)) = Len(q) - 1
      /\ \A i \in 1..Len(q) - 1 : Tail(q)[i] = q[i + 1]
  BY HeadTailProperties, LenProperties, EmptySeq
<1>2. \A i \in 1..Len(q) - 1 : i + 1 \in 1..Len(q)
  BY <1>1
<1> QED BY <1>1, <1>2 DEF Indices

LEMMA SubSeqElements ==
  ASSUME NEW q \in Seq(Messages), NEW k \in Nat, k <= Len(q)
  PROVE  /\ SubSeq(q, k + 1, Len(q)) \in Seq(Messages)
         /\ Len(SubSeq(q, k + 1, Len(q))) = Len(q) - k /\ Len(q) \in Nat
         /\ \A i \in Indices(SubSeq(q, k + 1, Len(q))) :
              i + k \in Indices(q) /\ SubSeq(q, k + 1, Len(q))[i] = q[i + k]
<1>1. Len(q) \in Nat /\ \A i \in 1..Len(q) : q[i] \in Messages
  BY QueueElements DEF Indices
<1> DEFINE r == SubSeq(q, k + 1, Len(q))
<1>2. /\ r \in Seq(Messages) /\ Len(r) = Len(q) - k
      /\ \A i \in 1..Len(q) - k : r[i] = q[i + k]
  <2>1. Len(r) = Len(q) - k
    BY <1>1
  <2>2. \A i \in 1..Len(q) - k : r[i] = q[i + k]
    BY <1>1
  <2>3. r \in Seq(Messages)
    BY <1>1
  <2> QED BY <2>1, <2>2, <2>3
<1>3. \A i \in 1..Len(q) - k : i + k \in 1..Len(q)
  BY <1>1
<1> QED BY <1>1, <1>2, <1>3 DEF Indices

LEMMA AgedElements ==
  ASSUME NEW q \in Seq(Messages)
  PROVE  /\ Aged(q) \in Seq(Messages) /\ Len(Aged(q)) = Len(q)
         /\ Aged(q) = <<>> <=> q = <<>>
         /\ \A i \in Indices(q) : /\ Aged(q)[i].kind = q[i].kind /\ Aged(q)[i].again = q[i].again
                                  /\ Aged(q)[i].prev = Older(q[i].prev)
                                  /\ Aged(q)[i].seq = Older(q[i].seq)
<1>1. DOMAIN q = 1..Len(q) /\ Len(q) \in Nat /\ \A i \in 1..Len(q) : q[i] \in Messages
  BY QueueElements, LenProperties DEF Indices
<1>2. ASSUME NEW m \in Messages
      PROVE  /\ [m EXCEPT !.prev = Older(@), !.seq = Older(@)] \in Messages
             /\ [m EXCEPT !.prev = Older(@), !.seq = Older(@)].kind = m.kind
             /\ [m EXCEPT !.prev = Older(@), !.seq = Older(@)].again = m.again
             /\ [m EXCEPT !.prev = Older(@), !.seq = Older(@)].prev = Older(m.prev)
             /\ [m EXCEPT !.prev = Older(@), !.seq = Older(@)].seq = Older(m.seq)
  <2> DEFINE a == [m EXCEPT !.prev = Older(@), !.seq = Older(@)]
  <2>1. m \in [kind : {"update", "snapshot"}, prev : None..Old, seq : 0..Old, again : BOOLEAN]
    BY DEF Messages
  <2>2. /\ a.kind = m.kind /\ a.again = m.again
        /\ a.prev = Older(m.prev) /\ a.seq = Older(m.seq)
    BY <2>1
  <2>3. Older(m.prev) \in None..Old /\ Older(m.seq) \in 0..Old
    BY MessageFields, OlderNumbers
  <2>4. a \in [kind : {"update", "snapshot"}, prev : None..Old, seq : 0..Old, again : BOOLEAN]
    BY <2>1, <2>3
  <2>5. a.kind = "update" => a.seq <= a.prev
    BY <2>2, MessageFields, OlderNumbers
  <2>6. a.kind = "snapshot" => ~a.again
    BY <2>2, MessageFields
  <2> HIDE DEF a
  <2>7. a \in Messages
    BY <2>4, <2>5, <2>6 DEF Messages
  <2> QED BY <2>2, <2>7 DEF a
<1>3. Aged(q) \in Seq(Messages) /\ Len(Aged(q)) = Len(q)
  <2>1. Aged(q) \in [1..Len(q) -> Messages]
    BY <1>1, <1>2 DEF Aged
  <2>2. Aged(q) \in Seq(Messages)
    BY <1>1, <2>1 DEF Seq
  <2> QED BY <1>1, <2>1, <2>2, LenProperties
<1>4. \A i \in Indices(q) : Aged(q)[i] = [q[i] EXCEPT !.prev = Older(@), !.seq = Older(@)]
  BY <1>1 DEF Aged, Indices
<1>5. Aged(q) = <<>> <=> q = <<>>
  BY <1>3, EmptySeq
<1> QED BY <1>1, <1>2, <1>3, <1>4, <1>5 DEF Indices

-------------------------------------------------------------------------------
(* Types.                                                                  *)

LEMMA Settings ==
  /\ QueueMax \in Nat \ {0} /\ HighMark \in Nat \ {0} /\ BufferMax \in Nat \ {0}
  /\ Threshold \in Nat \ {0} /\ MaxErrors \in Nat \ {0}
BY SettingsAssumption DEF SettingsAssumption

LEMMA QueueTypes ==
  ASSUME NEW q \in Queues
  PROVE  /\ q \in Seq(Messages) /\ Len(q) <= QueueMax /\ <<>> \in Queues /\ Aged(q) \in Queues
         /\ q # <<>> => Tail(q) \in Queues /\ Head(q) \in Messages
         /\ \A m \in Messages : Len(q) < QueueMax => Append(q, m) \in Queues
<1>1. q \in Seq(Messages) /\ Len(q) <= QueueMax /\ Len(q) \in Nat
  BY LenProperties DEF Queues
<1>2. Aged(q) \in Queues
  BY <1>1, AgedElements DEF Queues
<1>3. <<>> \in Queues
  BY Settings DEF Queues
<1>4. q # <<>> => Tail(q) \in Queues /\ Head(q) \in Messages
  BY <1>1, TailElements, Settings DEF Queues
<1>5. ASSUME NEW m \in Messages, Len(q) < QueueMax PROVE Append(q, m) \in Queues
  BY <1>1, <1>5, AppendElements, Settings DEF Queues
<1> QED BY <1>1, <1>2, <1>3, <1>4, <1>5

(* The end of a buffer from a place in it.                                 *)
LEMMA BufferTypes ==
  ASSUME NEW b \in Seq(Messages), \A i \in Indices(b) : b[i].kind = "update",
         NEW k \in Nat, k <= Len(b), Len(b) <= BufferMax + k
  PROVE  SubSeq(b, k + 1, Len(b)) \in Buffers
<1> DEFINE r == SubSeq(b, k + 1, Len(b))
<1>1. /\ r \in Seq(Messages) /\ Len(r) = Len(b) - k /\ Len(b) \in Nat
      /\ \A i \in Indices(r) : i + k \in Indices(b) /\ r[i] = b[i + k]
  BY SubSeqElements
<1> HIDE DEF r
<1>2. Len(r) <= BufferMax
  BY <1>1, Settings
<1> QED BY <1>1, <1>2 DEF Buffers, r

LEMMA BufferElements ==
  ASSUME NEW b \in Buffers
  PROVE  /\ b \in Seq(Messages) /\ Len(b) \in Nat /\ Len(b) <= BufferMax
         /\ \A i \in Indices(b) : b[i].kind = "update" /\ b[i] \in Messages
         /\ <<>> \in Buffers /\ Aged(b) \in Buffers
<1>1. b \in Seq(Messages) /\ Len(b) \in Nat /\ Len(b) <= BufferMax
      /\ \A i \in Indices(b) : b[i].kind = "update" /\ b[i] \in Messages
  BY QueueElements DEF Buffers
<1>2. <<>> \in Buffers
  BY Settings DEF Buffers, Indices
<1>3. Aged(b) \in Buffers
  BY <1>1, AgedElements DEF Buffers, Indices
<1> QED BY <1>1, <1>2, <1>3

LEMMA CountTypes ==
  ASSUME NEW e \in Counts, NEW kind \in {"sequence", "checksum"}
  PROVE  /\ ErrorsAfter(e, kind) \in Counts
         /\ \A kinds \in {{"all", "sequence"}, {"sequence"}, {"all", "sequence", "checksum"}} :
              Eased(e, kinds) \in Counts
         /\ kind = "checksum" => Eased(ErrorsAfter(e, kind), {"all"}) \in Counts
<1>1. /\ e \in [all : Nat, sequence : Nat, checksum : Nat] /\ e.all < MaxErrors
      /\ e.sequence <= e.all /\ MaxErrors \in Nat \ {0}
      /\ e.all \in Nat /\ e.sequence \in Nat /\ e.checksum \in Nat
  BY Settings DEF Counts
<1> DEFINE c == Counted(e, kind)
<1>2. /\ c \in [all : Nat, sequence : Nat, checksum : Nat]
      /\ c.all = e.all + 1 /\ c.sequence <= c.all
      /\ kind = "checksum" => c.sequence = e.sequence
  <2>1. CASE kind = "sequence"
    <3>1. c = [e EXCEPT !.all = @ + 1, !.sequence = @ + 1]
      BY <2>1 DEF Counted
    <3>2. c = [all |-> e.all + 1, sequence |-> e.sequence + 1, checksum |-> e.checksum]
      BY <1>1, <3>1
    <3> QED BY <1>1, <2>1, <3>2
  <2>2. CASE kind = "checksum"
    <3>1. c = [e EXCEPT !.all = @ + 1, !.checksum = @ + 1]
      BY <2>2 DEF Counted
    <3>2. c = [all |-> e.all + 1, sequence |-> e.sequence, checksum |-> e.checksum + 1]
      BY <1>1, <3>1
    <3> QED BY <1>1, <2>2, <3>2
  <2> QED BY <2>1, <2>2
<1> HIDE DEF c
<1>3. NoErrors \in Counts /\ NoErrors.all = 0 /\ NoErrors.sequence = 0 /\ NoErrors.checksum = 0
  BY <1>1 DEF NoErrors, Counts
<1>4. ErrorsAfter(e, kind) \in Counts
  <2>1. CASE c.all >= MaxErrors
    BY <1>3, <2>1 DEF ErrorsAfter, Recovers, c
  <2>2. CASE ~ (c.all >= MaxErrors)
    <3>1. c \in Counts
      BY <1>1, <1>2, <2>2 DEF Counts
    <3> QED BY <2>2, <3>1 DEF ErrorsAfter, Recovers, c
  <2> QED BY <2>1, <2>2
<1>5. ASSUME NEW f \in [all : Nat, sequence : Nat, checksum : Nat], NEW kinds
      PROVE  /\ Eased(f, kinds) \in [all : Nat, sequence : Nat, checksum : Nat]
             /\ Eased(f, kinds).all = IF market = "spot" /\ "all" \in kinds /\ f.all > 0
                                      THEN f.all - 1 ELSE f.all
             /\ Eased(f, kinds).sequence =
                  IF market = "spot" /\ "sequence" \in kinds /\ f.sequence > 0
                  THEN f.sequence - 1 ELSE f.sequence
  <2>1. DOMAIN f = {"all", "sequence", "checksum"}
    OBVIOUS
  <2>2. Eased(f, kinds) = [k \in {"all", "sequence", "checksum"} |->
                             IF market = "spot" /\ k \in kinds /\ f[k] > 0 THEN f[k] - 1 ELSE f[k]]
    BY <2>1 DEF Eased
  <2>3. \A k \in {"all", "sequence", "checksum"} : f[k] \in Nat
    OBVIOUS
  <2>4. \A k \in {"all", "sequence", "checksum"} : Eased(f, kinds)[k] \in Nat
    BY <2>2, <2>3
  <2> QED BY <2>2, <2>4
<1>6. ASSUME NEW kinds \in {{"all", "sequence"}, {"sequence"}, {"all", "sequence", "checksum"}}
      PROVE  Eased(e, kinds) \in Counts
  <2>1. "sequence" \in kinds
    OBVIOUS
  <2>2. /\ Eased(e, kinds).all < MaxErrors
        /\ Eased(e, kinds).sequence <= Eased(e, kinds).all
    BY <1>1, <1>5, <2>1
  <2> QED BY <1>1, <1>5, <2>2 DEF Counts
<1>7. ASSUME kind = "checksum" PROVE Eased(ErrorsAfter(e, kind), {"all"}) \in Counts
  <2> DEFINE f == ErrorsAfter(e, kind)
  <2>1. f = NoErrors \/ (f = c /\ c.all < MaxErrors /\ c.sequence < c.all)
    BY <1>1, <1>2, <1>7 DEF ErrorsAfter, Recovers, c
  <2>2. f \in Counts
    BY <1>4
  <2> HIDE DEF f
  <2>3. f \in [all : Nat, sequence : Nat, checksum : Nat] /\ f.all \in Nat /\ f.sequence \in Nat
        /\ f.all < MaxErrors
    BY <2>2 DEF Counts
  <2>4. f.sequence = 0 \/ f.sequence < f.all
    BY <1>3, <2>1
  <2>5. /\ Eased(f, {"all"}).all < MaxErrors
        /\ Eased(f, {"all"}).sequence <= Eased(f, {"all"}).all
    BY <1>1, <1>5, <2>3, <2>4
  <2> QED BY <1>5, <2>3, <2>5 DEF Counts, f
<1> QED BY <1>4, <1>6, <1>7

LEMMA KindsTypes == Kinds => TypeOK
<1> SUFFICES ASSUME Kinds PROVE TypeOK
  OBVIOUS
<1>1. ASSUME NEW s \in Symbols
      PROVE  /\ Len(queue[s]) <= QueueMax /\ Len(buffer[s]) <= BufferMax
             /\ {last[s], book[s].at} \subseteq None..Old /\ out[s] \in BOOLEAN
             /\ later[s] \subseteq {"reset", "resync", "once more"}
             /\ failed[s] \in 0..Threshold
  <2>1. queue[s] \in Queues /\ buffer[s] \in Buffers /\ book[s] \in Books
        /\ last[s] \in None..Old
    BY DEF Kinds
  <2> QED BY <2>1 DEF Kinds, Queues, Buffers, Books
<1>2. errors.all \in 0..(MaxErrors - 1) /\ errors.sequence \in 0..errors.all
      /\ errors.checksum \in Nat
  <2>1. /\ errors \in [all : Nat, sequence : Nat, checksum : Nat]
        /\ errors.all < MaxErrors /\ errors.sequence <= errors.all
    BY DEF Kinds, Counts
  <2> QED BY <2>1, Settings
<1> QED BY <1>1, <1>2 DEF Kinds, TypeOK

LEMMA InitKinds == Init => Kinds
<1> SUFFICES ASSUME Init PROVE Kinds
  OBVIOUS
<1>1. <<>> \in Queues /\ <<>> \in Buffers
  BY Settings DEF Queues, Buffers, Indices
<1>2. NoBook \in Books /\ None \in None..Old
  BY OldNumber DEF NoBook, Books, None
<1>3. NoErrors \in Counts /\ 0 \in 0..Threshold
  BY Settings DEF NoErrors, Counts
<1> QED BY <1>1, <1>2, <1>3 DEF Init, Kinds

LEMMA OneMore ==
  ASSUME Kinds PROVE drops + 1 \in Nat /\ losses + 1 \in Nat /\ rejects + 1 \in Nat
<1>1. drops \in Nat /\ losses \in Nat /\ rejects \in Nat
  BY DEF Kinds
<1> QED BY <1>1

(* What a step at symbol s leaves alone of the others.                     *)
Elsewhere(s) ==
  \A u \in Symbols : u # s => /\ queue'[u] = queue[u] /\ book'[u] = book[u]
                              /\ last'[u] = last[u] /\ buffer'[u] = buffer[u]
                              /\ sub'[u] = sub[u] /\ out'[u] = out[u]

LEMMA OlderAllIs ==
  ASSUME NEW f, NEW s \in Symbols
  PROVE  OlderAll(f, s) = [f EXCEPT ![s] = Aged(f[s])]
BY DEF OlderAll

LEMMA AgesStep ==
  ASSUME Kinds, NEW s \in Symbols, Ages(s)
  PROVE  /\ last' \in [Symbols -> None..Old] /\ book' \in [Symbols -> Books]
         /\ buffer' \in [Symbols -> Buffers]
         /\ \A u \in Symbols : u # s => /\ last'[u] = last[u] /\ book'[u] = book[u]
                                        /\ buffer'[u] = buffer[u]
         /\ last'[s] = Older(last[s]) /\ buffer'[s] = Aged(buffer[s])
         /\ book'[s].at = Older(book[s].at) /\ book'[s].whole = book[s].whole
<1>1. last[s] \in None..Old /\ book[s] \in Books /\ buffer[s] \in Buffers
  BY DEF Kinds
<1>2. Older(last[s]) \in None..Old /\ Aged(buffer[s]) \in Buffers
  BY <1>1, OlderNumbers, BufferElements
<1>3. /\ [book[s] EXCEPT !.at = Older(@)] \in Books
      /\ [book[s] EXCEPT !.at = Older(@)].at = Older(book[s].at)
      /\ [book[s] EXCEPT !.at = Older(@)].whole = book[s].whole
  <2>1. book[s].at \in None..Old
    BY <1>1 DEF Books
  <2>2. Older(book[s].at) \in None..Old
    BY <2>1, OlderNumbers
  <2> QED BY <1>1, <2>2 DEF Books
<1>4. last' = [last EXCEPT ![s] = Older(last[s])]
  BY DEF Ages
<1>5. book' = [book EXCEPT ![s] = [book[s] EXCEPT !.at = Older(@)]]
  BY DEF Ages
<1>6. buffer' = [buffer EXCEPT ![s] = Aged(buffer[s])]
  BY OlderAllIs DEF Ages
<1> QED BY <1>1, <1>2, <1>3, <1>4, <1>5, <1>6 DEF Kinds

LEMMA ReceiveStep ==
  ASSUME Kinds, NEW s \in Symbols, NEW q \in [Symbols -> Queues], NEW m \in Messages,
         Receive(s, q, m)
  PROVE  /\ queue' \in [Symbols -> Queues] /\ drops' \in Nat
         /\ \A u \in Symbols : u # s => queue'[u] = q[u]
         /\ \/ queue'[s] = Append(q[s], m) /\ drops' = drops
            \/ queue'[s] = q[s] /\ drops' = drops + 1
<1>1. q[s] \in Queues
  OBVIOUS
<1>2. CASE Len(q[s]) < QueueMax /\ queue' = [q EXCEPT ![s] = Append(@, m)] /\ drops' = drops
  BY <1>1, <1>2, QueueTypes DEF Kinds
<1>3. CASE queue' = q /\ drops' = drops + 1
  <2>1. drops + 1 \in Nat
    BY OneMore
  <2> QED BY <1>3, <2>1
<1> QED BY <1>2, <1>3 DEF Receive

(* The message that an update or a snapshot puts in a queue.               *)
LEMMA NewMessages ==
  /\ \A again \in BOOLEAN :
       [kind |-> "update", prev |-> 1, seq |-> 0, again |-> again] \in Messages
  /\ [kind |-> "snapshot", prev |-> None, seq |-> 0, again |-> FALSE] \in Messages
BY OldNumber DEF Messages, None

LEMMA UpdateStep ==
  ASSUME Kinds, NEW s \in Symbols, Update(s)
  PROVE  /\ Kinds' /\ Elsewhere(s) /\ Ages(s) /\ sub' = sub /\ out' = out /\ sub[s] = "on"
         /\ \E again \in BOOLEAN :
              /\ restarts' = IF again THEN restarts + 1 ELSE restarts
              /\ \/ /\ drops' = drops
                    /\ queue'[s] = Append(Aged(queue[s]), [kind |-> "update", prev |-> 1,
                                                          seq |-> 0, again |-> again])
                 \/ drops' = drops + 1 /\ queue'[s] = Aged(queue[s])
<1>1. PICK again \in BOOLEAN :
        /\ restarts' = restarts + (IF again THEN 1 ELSE 0)
        /\ Receive(s, OlderAll(queue, s),
                   [kind |-> "update", prev |-> 1, seq |-> 0, again |-> again])
  BY DEF Update
<1>2. restarts' = (IF again THEN restarts + 1 ELSE restarts) /\ restarts' \in Nat
  <2>1. restarts \in Nat /\ restarts' = restarts + (IF again THEN 1 ELSE 0)
    BY <1>1 DEF Kinds
  <2> QED BY <2>1
<1> DEFINE q == [queue EXCEPT ![s] = Aged(queue[s])]
           m == [kind |-> "update", prev |-> 1, seq |-> 0, again |-> again]
<1>3. q \in [Symbols -> Queues] /\ q[s] = Aged(queue[s]) /\ m \in Messages
      /\ \A u \in Symbols : u # s => q[u] = queue[u]
  BY QueueTypes, NewMessages DEF Kinds
<1>4. Receive(s, q, m)
  BY <1>1, OlderAllIs
<1> HIDE DEF q, m
<1>5. /\ queue' \in [Symbols -> Queues] /\ drops' \in Nat
      /\ \A u \in Symbols : u # s => queue'[u] = q[u]
      /\ \/ queue'[s] = Append(q[s], m) /\ drops' = drops
         \/ queue'[s] = q[s] /\ drops' = drops + 1
  BY <1>3, <1>4, ReceiveStep
<1>6. /\ Ages(s) /\ sub[s] = "on"
      /\ UNCHANGED <<market, up, sub, waiting, later, failed, proc, errors, out, losses, rejects>>
  BY DEF Update
<1>7. Kinds'
  BY <1>2, <1>5, <1>6, AgesStep DEF Kinds
<1>8. Elsewhere(s)
  BY <1>3, <1>5, <1>6, AgesStep DEF Elsewhere
<1> QED BY <1>2, <1>3, <1>5, <1>6, <1>7, <1>8 DEF m

LEMMA SnapshotStep ==
  ASSUME Kinds, NEW s \in Symbols, Snapshot(s)
  PROVE  /\ Kinds' /\ Elsewhere(s) /\ out' = out /\ restarts' = restarts
         /\ \E q \in {queue[s], Aged(queue[s])} :
              /\ \/ Ages(s) /\ q = Aged(queue[s])
                 \/ UNCHANGED <<last, book, buffer>> /\ q = queue[s]
              /\ \/ /\ drops' = drops
                    /\ queue'[s] = Append(q, [kind |-> "snapshot", prev |-> None, seq |-> 0,
                                              again |-> FALSE])
                 \/ drops' = drops + 1 /\ queue'[s] = q
<1> DEFINE m == [kind |-> "snapshot", prev |-> None, seq |-> 0, again |-> FALSE]
<1>1. PICK changed \in BOOLEAN :
        /\ Receive(s, IF changed THEN OlderAll(queue, s) ELSE queue, m)
        /\ IF changed THEN Ages(s) ELSE UNCHANGED <<last, book, buffer>>
  BY DEF Snapshot
<1> DEFINE q == IF changed THEN Aged(queue[s]) ELSE queue[s]
           f == [queue EXCEPT ![s] = q]
<1>2. f \in [Symbols -> Queues] /\ f[s] = q /\ m \in Messages
      /\ \A u \in Symbols : u # s => f[u] = queue[u]
  BY QueueTypes, NewMessages DEF Kinds
<1>3. Receive(s, f, m)
  <2>1. queue = [queue EXCEPT ![s] = queue[s]]
    BY DEF Kinds
  <2> QED BY <1>1, <2>1, OlderAllIs
<1>4. /\ \/ Ages(s) /\ q = Aged(queue[s])
         \/ UNCHANGED <<last, book, buffer>> /\ q = queue[s]
      /\ q \in {queue[s], Aged(queue[s])}
  BY <1>1
<1> HIDE DEF q, f, m
<1>5. /\ queue' \in [Symbols -> Queues] /\ drops' \in Nat
      /\ \A u \in Symbols : u # s => queue'[u] = f[u]
      /\ \/ queue'[s] = Append(f[s], m) /\ drops' = drops
         \/ queue'[s] = f[s] /\ drops' = drops + 1
  BY <1>2, <1>3, ReceiveStep
<1>6. /\ sub' = [sub EXCEPT ![s] = "on"]
      /\ UNCHANGED <<market, up, waiting, later, failed, proc, errors, out, losses, restarts,
                     rejects>>
  BY DEF Snapshot
<1>7. /\ last' \in [Symbols -> None..Old] /\ book' \in [Symbols -> Books]
      /\ buffer' \in [Symbols -> Buffers]
      /\ \A u \in Symbols : u # s => /\ last'[u] = last[u] /\ book'[u] = book[u]
                                     /\ buffer'[u] = buffer[u]
  BY <1>4, AgesStep DEF Kinds
<1>8. sub' \in [Symbols -> {"off", "due", "on"}] /\ \A u \in Symbols : u # s => sub'[u] = sub[u]
  BY <1>6 DEF Kinds
<1>9. Kinds'
  BY <1>5, <1>6, <1>7, <1>8 DEF Kinds
<1>10. Elsewhere(s)
  BY <1>2, <1>5, <1>6, <1>7, <1>8 DEF Elsewhere
<1> QED BY <1>2, <1>4, <1>5, <1>6, <1>9, <1>10 DEF m

(* Steps that take no message: at most the book is given up, and the       *)
(* subscription ends or is asked for.                                      *)
Idles ==
  /\ UNCHANGED <<queue, buffer, out, drops, restarts>>
  /\ \A s \in Symbols : /\ sub'[s] \in {sub[s], "off", "due"}
                        /\ \/ book'[s] = book[s] /\ last'[s] = last[s]
                           \/ book'[s] = NoBook

LEMMA ResetStep ==
  ASSUME Kinds, NEW s \in Symbols, Reset(s)
  PROVE  /\ book' \in [Symbols -> Books] /\ last' \in [Symbols -> None..Old]
         /\ book'[s] = NoBook
         /\ \A u \in Symbols : u # s => book'[u] = book[u] /\ last'[u] = last[u]
<1>1. NoBook \in Books /\ None \in None..Old
  BY OldNumber DEF NoBook, Books, None
<1> QED BY <1>1 DEF Kinds, Reset

LEMMA ConnectionStep ==
  ASSUME Kinds, Lose \/ Connect \/ \E s \in Symbols : Reject(s)
  PROVE  Kinds' /\ Idles
<1> USE DEF local, faults
<1>1. CASE Lose
  <2>1. sub' \in [Symbols -> {"off", "due", "on"}] /\ losses' \in Nat /\ up' \in BOOLEAN
    BY <1>1, OneMore DEF Lose, Kinds
  <2> QED BY <1>1, <2>1 DEF Lose, Kinds, Idles
<1>2. CASE Connect
  BY <1>2 DEF Connect, Kinds, Idles
<1>3. ASSUME NEW s \in Symbols, Reject(s) PROVE Kinds' /\ Idles
  <2>1. sub' \in [Symbols -> {"off", "due", "on"}] /\ rejects' \in Nat
    BY <1>3, OneMore DEF Reject, Kinds
  <2>2. \A u \in Symbols : sub'[u] \in {sub[u], "off", "due"}
    BY <1>3 DEF Reject, Kinds
  <2> QED BY <1>3, <2>1, <2>2 DEF Reject, Kinds, Idles
<1> QED BY <1>1, <1>2, <1>3

LEMMA TaskStep ==
  ASSUME Kinds, NEW s \in Symbols,
         \/ Unsubscribe(s) \/ Subscribe(s) \/ PauseEnds(s) \/ ResyncEnds(s)
         \/ ResetTasks(s) \/ TimePasses(s)
  PROVE  Kinds' /\ Idles
<1> USE DEF local, faults
<1>1. CASE Unsubscribe(s)
  <2>1. /\ sub' \in [Symbols -> {"off", "due", "on"}]
        /\ \A u \in Symbols : sub'[u] \in {sub[u], "off", "due"}
    BY <1>1 DEF Unsubscribe, Kinds
  <2> QED BY <1>1, <2>1 DEF Unsubscribe, GoesOn, Kinds, Idles
<1>6. CASE PauseEnds(s)
  BY <1>6 DEF PauseEnds, GoesOn, Kinds, Idles
<1>2. CASE Subscribe(s)
  BY <1>2 DEF Subscribe, GoesOn, Kinds, Idles
<1>3. CASE ResyncEnds(s)
  <2>1. Reset(s)
    BY <1>3 DEF ResyncEnds
  <2> QED BY <1>3, <2>1, ResetStep DEF ResyncEnds, GoesOn, Kinds, Idles
<1>4. CASE ResetTasks(s)
  <2>1. PICK t \in later[s] : ResetTask(s, t)
    BY <1>4 DEF ResetTasks
  <2>2. /\ UNCHANGED <<market, up, sub, queue, buffer, waiting, proc, failed, errors, out, faults>>
        /\ Reset(s) \/ UNCHANGED <<book, last>>
    BY <2>1 DEF ResetTask
  <2>3. later' \in [Symbols -> SUBSET {"reset", "resync", "once more"}]
    <3>1. later[s] \in SUBSET {"reset", "resync", "once more"}
      BY DEF Kinds
    <3>2. PICK x \in {{}, {"once more"}} : later' = [later EXCEPT ![s] = (@ \ {t}) \cup x]
      BY <2>1 DEF ResetTask
    <3> QED BY <3>1, <3>2 DEF Kinds
  <2> QED BY <2>2, <2>3, ResetStep DEF Kinds, Idles
<1>5. CASE TimePasses(s)
  BY <1>5 DEF TimePasses, Kinds, Idles
<1> QED BY <1>1, <1>2, <1>3, <1>4, <1>5, <1>6

-------------------------------------------------------------------------------
(* A message is taken.                                                     *)

LEMMA TakenMessage ==
  ASSUME Kinds, NEW s \in Symbols, Takes(s)
  PROVE  /\ Message(s) \in Messages /\ queue[s] # <<>> /\ queue[s] \in Seq(Messages)
         /\ Tail(queue[s]) \in Queues /\ <<>> \in Queues
         /\ UNCHANGED <<market, up, sub, losses, restarts, rejects>>
<1>1. queue[s] \in Queues
  BY DEF Kinds
<1> QED BY <1>1, QueueTypes DEF Takes, Message

(* What every step of this kind does.                                      *)
Takings(s) ==
  /\ Elsewhere(s) /\ sub' = sub /\ restarts' = restarts
  /\ \/ queue'[s] = Tail(queue[s]) /\ drops' = drops
     \/ queue'[s] = <<>> /\ drops' = drops + 1

LEMMA TakeKinds ==
  ASSUME Kinds, NEW s \in Symbols, Takes(s),
         \/ queue' = [queue EXCEPT ![s] = Tail(@)] /\ drops' = drops
         \/ queue' = [queue EXCEPT ![s] = <<>>] /\ drops' = drops + 1,
         book' \in [Symbols -> Books], last' \in [Symbols -> None..Old],
         buffer' \in [Symbols -> Buffers], out' \in [Symbols -> BOOLEAN],
         \A u \in Symbols : u # s => /\ book'[u] = book[u] /\ last'[u] = last[u]
                                     /\ buffer'[u] = buffer[u] /\ out'[u] = out[u],
         waiting' \in [Symbols -> {"no", "short", "long"}],
         proc' \in [Symbols -> {"get", "unsubscribe", "nap", "pause", "resync"}],
         later' \in [Symbols -> SUBSET {"reset", "resync", "once more"}],
         errors' \in Counts, failed' \in [Symbols -> 0..Threshold]
  PROVE  Kinds' /\ Takings(s)
<1>1. queue \in [Symbols -> Queues] /\ drops \in Nat /\ drops + 1 \in Nat
  BY OneMore DEF Kinds
<1>2. /\ queue' \in [Symbols -> Queues] /\ drops' \in Nat
      /\ \A u \in Symbols : u # s => queue'[u] = queue[u]
      /\ \/ queue'[s] = Tail(queue[s]) /\ drops' = drops
         \/ queue'[s] = <<>> /\ drops' = drops + 1
  BY <1>1, TakenMessage
<1>3. UNCHANGED <<market, up, sub, losses, restarts, rejects>>
  BY TakenMessage
<1>4. Kinds'
  BY <1>2, <1>3 DEF Kinds
<1> QED BY <1>2, <1>3, <1>4 DEF Takings, Elsewhere

LEMMA SleepKinds ==
  ASSUME Kinds, NEW s \in Symbols, NEW x \in BOOLEAN,
         \E p \in SleepsIf(x) : proc' = [proc EXCEPT ![s] = p]
  PROVE  proc' \in [Symbols -> {"get", "unsubscribe", "nap", "pause", "resync"}]
<1>1. PICK p \in {"get", "resync"} : proc' = [proc EXCEPT ![s] = p]
  BY DEF SleepsIf
<1> QED BY <1>1 DEF Kinds

LEMMA PublishStep ==
  ASSUME Kinds, NEW s \in Symbols, NEW b \in Books, Publish(s, b, Tail(queue[s]))
  PROVE  /\ \/ queue' = [queue EXCEPT ![s] = Tail(@)] /\ drops' = drops
            \/ queue' = [queue EXCEPT ![s] = <<>>] /\ drops' = drops + 1
         /\ out' \in [Symbols -> BOOLEAN] /\ out'[s] \in {out[s], b.whole}
         /\ \A u \in Symbols : u # s => out'[u] = out[u]
         /\ later' \in [Symbols -> SUBSET {"reset", "resync", "once more"}]
<1>1. b.whole \in BOOLEAN
  BY DEF Books
<1>2. out' = out \/ out' = [out EXCEPT ![s] = b.whole]
  BY DEF Publish
<1>3. later' = later \/ later' = [later EXCEPT ![s] = @ \cup {"resync"}]
  BY DEF Publish
<1>4. \/ queue' = [queue EXCEPT ![s] = Tail(@)] /\ drops' = drops
      \/ queue' = [queue EXCEPT ![s] = <<>>] /\ drops' = drops + 1
  BY DEF Publish
<1>5. later[s] \in SUBSET {"reset", "resync", "once more"}
  BY DEF Kinds
<1>6. out \in [Symbols -> BOOLEAN] /\ later \in [Symbols -> SUBSET {"reset", "resync", "once more"}]
  BY DEF Kinds
<1>7. /\ out' \in [Symbols -> BOOLEAN] /\ out'[s] \in {out[s], b.whole}
      /\ \A u \in Symbols : u # s => out'[u] = out[u]
  BY <1>1, <1>2, <1>6
<1>8. later' \in [Symbols -> SUBSET {"reset", "resync", "once more"}]
  <2>1. later[s] \cup {"resync"} \in SUBSET {"reset", "resync", "once more"}
    BY <1>5
  <2> QED BY <1>3, <1>6, <2>1
<1> QED BY <1>4, <1>7, <1>8

(* The buffered messages that continue a snapshot, oldest first.           *)
LEMMA ChainStep ==
  ASSUME NEW n, NEW b \in Seq(Messages)
  PROVE  /\ Chain(n, b) \in 0..Len(b) /\ Len(b) \in Nat
         /\ Chain(n, b) # 0 => b[1].prev = n
<1>1. Len(b) \in Nat
  BY LenProperties
<1> DEFINE S == {k \in 0..Len(b) :
                   \A i \in 1..k : b[i].prev = IF i = 1 THEN n ELSE b[i - 1].seq}
<1>2. 0 \in S
  BY <1>1
<1>3. S \in SUBSET (0..Len(b)) /\ S # {}
  BY <1>2
<1>4. \A k \in S : k # 0 => b[1].prev = n
  <2> SUFFICES ASSUME NEW k \in S, k # 0 PROVE b[1].prev = n
    OBVIOUS
  <2>1. 1 \in 1..k
    BY <1>1
  <2> QED BY <2>1
<1>5. Chain(n, b) = Max(S)
  BY DEF Chain
<1> HIDE DEF S
<1>6. Max(S) \in S
  BY <1>1, <1>3, MaxOf
<1> QED BY <1>1, <1>3, <1>4, <1>5, <1>6

LEMMA SnapshotTaken ==
  ASSUME Kinds, NEW s \in Symbols, ApplySnapshot(s)
  PROVE  /\ Kinds' /\ Takings(s) /\ Message(s).kind = "snapshot"
         /\ \E at \in 0..Old, k \in 0..Len(buffer[s]) :
              /\ book'[s] = [at |-> at, whole |-> TRUE] /\ last'[s] = at
              /\ Sorted(s) => at = Message(s).seq
              /\ \A i \in Indices(buffer'[s]) :
                   i + k \in Indices(buffer[s]) /\ buffer'[s][i] = buffer[s][i + k]
         /\ out'[s] \in {out[s], TRUE}
<1>1. Takes(s) /\ Message(s).kind = "snapshot" /\ proc' = proc /\ failed' = failed
  BY DEF ApplySnapshot
<1>2. /\ Message(s) \in Messages /\ Message(s).seq \in 0..Old /\ Message(s).seq \in Nat
      /\ queue[s] # <<>> /\ queue[s] \in Seq(Messages)
  BY <1>1, TakenMessage, MessageFields
<1>3. /\ buffer[s] \in Seq(Messages) /\ Len(buffer[s]) \in Nat /\ Len(buffer[s]) <= BufferMax
      /\ \A i \in Indices(buffer[s]) : buffer[s][i].kind = "update" /\ buffer[s][i] \in Messages
  BY BufferElements DEF Kinds
<1>4. PICK expired \in 0..Len(buffer[s]) :
        LET kept == SubSeq(buffer[s], expired + 1, Len(buffer[s]))
            n == Chain(Message(s).seq, kept)
            at == IF n = 0 THEN Message(s).seq ELSE kept[n].seq
        IN /\ book' = [book EXCEPT ![s] = [at |-> at, whole |-> TRUE]]
           /\ last' = [last EXCEPT ![s] = at]
           /\ buffer' = [buffer EXCEPT ![s] = SubSeq(kept, n + 1, Len(kept))]
  BY DEF ApplySnapshot
<1> DEFINE kept == SubSeq(buffer[s], expired + 1, Len(buffer[s]))
           n == Chain(Message(s).seq, kept)
           at == IF n = 0 THEN Message(s).seq ELSE kept[n].seq
           b == SubSeq(kept, n + 1, Len(kept))
<1>5. /\ book' = [book EXCEPT ![s] = [at |-> at, whole |-> TRUE]]
      /\ last' = [last EXCEPT ![s] = at]
      /\ buffer' = [buffer EXCEPT ![s] = b]
  BY <1>4
<1>6. /\ kept \in Seq(Messages) /\ Len(kept) = Len(buffer[s]) - expired
      /\ \A i \in Indices(kept) : /\ i + expired \in Indices(buffer[s])
                                  /\ kept[i] = buffer[s][i + expired]
  <2>1. expired \in Nat /\ expired <= Len(buffer[s])
    BY <1>3
  <2> QED BY <1>3, <2>1, SubSeqElements
<1> HIDE DEF kept
<1>7. /\ n \in 0..Len(kept) /\ n \in Nat /\ n <= Len(kept) /\ Len(kept) \in Nat
      /\ n # 0 => kept[1].prev = Message(s).seq
  <2>1. n \in 0..Len(kept) /\ Len(kept) \in Nat /\ (n # 0 => kept[1].prev = Message(s).seq)
    BY <1>6, ChainStep
  <2> HIDE DEF n
  <2> QED BY <2>1
<1> HIDE DEF n, at, b
<1>8. \A i \in Indices(kept) : kept[i].kind = "update" /\ kept[i] \in Messages
  BY <1>3, <1>6
<1>9. b \in Buffers
  <2>1. Len(kept) <= BufferMax + n
    BY <1>3, <1>6, <1>7, Settings
  <2> QED BY <1>6, <1>7, <1>8, <2>1, BufferTypes DEF b
<1>10. \A i \in Indices(b) : i + n \in Indices(kept) /\ b[i] = kept[i + n]
  BY <1>6, <1>7, SubSeqElements DEF b
<1>11. n # 0 => n \in Indices(kept) /\ 1 \in Indices(kept)
  BY <1>7 DEF Indices
<1>12. at \in 0..Old
  BY <1>2, <1>8, <1>11, MessageFields DEF at
<1>13. ASSUME Sorted(s) PROVE at = Message(s).seq
  <2>1. CASE n = 0
    BY <2>1 DEF at
  <2>2. CASE n # 0
    <3>1. /\ n + expired \in Indices(buffer[s]) /\ 1 + expired \in Indices(buffer[s])
          /\ kept[n] = buffer[s][n + expired] /\ kept[1] = buffer[s][1 + expired]
      BY <1>6, <1>11, <2>2
    <3>2. Message(s).seq <= kept[n].seq
      <4>1. 1 \in Indices(queue[s]) /\ Message(s) = queue[s][1]
        BY <1>2, QueueElements DEF Message
      <4> QED BY <1>13, <3>1, <4>1 DEF Sorted, After
    <3>3. kept[n].seq <= kept[1].seq
      <4>1. CASE n = 1
        BY <1>8, <1>11, <2>2, <4>1, MessageFields
      <4>2. CASE n # 1
        <5>1. 1 + expired < n + expired
          BY <1>7, <2>2, <4>2
        <5> QED BY <1>13, <3>1, <5>1 DEF Sorted, Descends
      <4> QED BY <4>1, <4>2
    <3>4. kept[1].seq <= kept[1].prev /\ kept[1].prev = Message(s).seq
      BY <1>7, <1>8, <1>11, <2>2, MessageFields
    <3>5. kept[1].seq \in Nat /\ kept[n].seq \in Nat
      BY <1>8, <1>11, <2>2, MessageFields
    <3>6. kept[n].seq = Message(s).seq
      BY <1>2, <3>2, <3>3, <3>4, <3>5
    <3> QED BY <2>2, <3>6 DEF at
  <2> QED BY <2>1, <2>2
<1>14. /\ book' \in [Symbols -> Books] /\ book'[s] = [at |-> at, whole |-> TRUE]
       /\ book'[s] \in Books
       /\ \A u \in Symbols : u # s => book'[u] = book[u]
  <2>1. [at |-> at, whole |-> TRUE] \in Books
    BY <1>12, OldNumber DEF Books, None
  <2> QED BY <1>5, <2>1 DEF Kinds
<1>15. /\ last' \in [Symbols -> None..Old] /\ last'[s] = at
       /\ \A u \in Symbols : u # s => last'[u] = last[u]
  <2>1. at \in None..Old
    BY <1>12, OldNumber DEF None
  <2> QED BY <1>5, <2>1 DEF Kinds
<1>16. /\ buffer' \in [Symbols -> Buffers] /\ buffer'[s] = b
       /\ \A u \in Symbols : u # s => buffer'[u] = buffer[u]
  BY <1>5, <1>9 DEF Kinds
<1>17. /\ \/ queue' = [queue EXCEPT ![s] = Tail(@)] /\ drops' = drops
          \/ queue' = [queue EXCEPT ![s] = <<>>] /\ drops' = drops + 1
       /\ out' \in [Symbols -> BOOLEAN] /\ out'[s] \in {out[s], TRUE}
       /\ \A u \in Symbols : u # s => out'[u] = out[u]
       /\ later' \in [Symbols -> SUBSET {"reset", "resync", "once more"}]
  <2>1. PICK x \in Books : x = book'[s]
    BY <1>14
  <2>2. Publish(s, x, Tail(queue[s]))
    <3>1. Publish(s, book'[s], Tail(queue[s]))
      BY DEF ApplySnapshot
    <3> QED BY <2>1, <3>1 DEF Publish
  <2>3. x.whole = TRUE
    BY <1>14, <2>1
  <2> QED BY <2>2, <2>3, PublishStep
<1>18. errors' \in Counts
  BY CountTypes DEF ApplySnapshot, Kinds
<1>19. waiting' \in [Symbols -> {"no", "short", "long"}]
  BY DEF ApplySnapshot, Kinds
<1>20. /\ proc' \in [Symbols -> {"get", "unsubscribe", "nap", "pause", "resync"}]
       /\ failed' \in [Symbols -> 0..Threshold]
  BY <1>1 DEF Kinds
<1>21. Kinds' /\ Takings(s)
  BY <1>1, <1>14, <1>15, <1>16, <1>17, <1>18, <1>19, <1>20, TakeKinds
<1>22. \E k \in 0..Len(buffer[s]) : \A i \in Indices(buffer'[s]) :
         i + k \in Indices(buffer[s]) /\ buffer'[s][i] = buffer[s][i + k]
  <2>1. expired + n \in 0..Len(buffer[s])
    BY <1>3, <1>6, <1>7
  <2>2. ASSUME NEW i \in Indices(b)
        PROVE  i + (expired + n) \in Indices(buffer[s]) /\ b[i] = buffer[s][i + (expired + n)]
    <3>1. i + n \in Indices(kept) /\ b[i] = kept[i + n]
      BY <1>10
    <3>2. (i + n) + expired \in Indices(buffer[s]) /\ kept[i + n] = buffer[s][(i + n) + expired]
      BY <1>6, <3>1
    <3>3. (i + n) + expired = i + (expired + n)
      BY <1>7 DEF Indices
    <3> QED BY <3>1, <3>2, <3>3
  <2> QED BY <1>16, <2>1, <2>2
<1> QED BY <1>1, <1>12, <1>13, <1>14, <1>15, <1>17, <1>21, <1>22

LEMMA RefuseTaken ==
  ASSUME Kinds, NEW s \in Symbols, RefuseUpdate(s)
  PROVE  /\ Kinds' /\ Takings(s) /\ Takes(s) /\ UNCHANGED <<buffer, out>>
         /\ Message(s).kind = "update" /\ ~Valid(s, Message(s))
         /\ \/ book'[s] = book[s] /\ last'[s] = last[s]
            \/ book'[s] = NoBook
<1>1. /\ Takes(s) /\ Message(s).kind = "update" /\ ~Valid(s, Message(s))
      /\ queue' = [queue EXCEPT ![s] = Tail(@)]
      /\ UNCHANGED <<buffer, waiting, out, drops>>
  BY DEF RefuseUpdate
<1>2. Reset(s) \/ UNCHANGED <<book, last>>
  BY DEF RefuseUpdate
<1>3. /\ book' \in [Symbols -> Books] /\ last' \in [Symbols -> None..Old]
      /\ \A u \in Symbols : u # s => book'[u] = book[u] /\ last'[u] = last[u]
      /\ (book'[s] = book[s] /\ last'[s] = last[s]) \/ book'[s] = NoBook
  BY <1>2, ResetStep DEF Kinds
<1>4. errors' \in Counts
  BY CountTypes DEF RefuseUpdate, Kinds
<1>5. /\ proc' \in [Symbols -> {"get", "unsubscribe", "nap", "pause", "resync"}]
      /\ failed' \in [Symbols -> 0..Threshold]
      /\ later' \in [Symbols -> SUBSET {"reset", "resync", "once more"}]
  <2>1. CASE UNCHANGED <<later, failed, proc>>
    BY <2>1 DEF Kinds
  <2>2. CASE /\ failed' = [failed EXCEPT ![s] = Min({@ + 1, Threshold})]
             /\ later' = IF failed'[s] = Threshold THEN [later EXCEPT ![s] = @ \cup {"reset"}]
                         ELSE later
             /\ \E p \in SleepsIf(Rebuilds(errors, "sequence")) : proc' = [proc EXCEPT ![s] = p]
    <3>1. failed[s] \in 0..Threshold /\ later[s] \in SUBSET {"reset", "resync", "once more"}
      BY DEF Kinds
    <3>2. Min({failed[s] + 1, Threshold}) \in 0..Threshold
      BY <3>1, Settings, CountedTo
    <3>3. failed' \in [Symbols -> 0..Threshold]
      BY <2>2, <3>2 DEF Kinds
    <3>4. later' \in [Symbols -> SUBSET {"reset", "resync", "once more"}]
      <4>1. later' = later \/ later' = [later EXCEPT ![s] = @ \cup {"reset"}]
        BY <2>2
      <4>2. later[s] \cup {"reset"} \in SUBSET {"reset", "resync", "once more"}
        BY <3>1
      <4> QED BY <4>1, <4>2 DEF Kinds
    <3>5. Rebuilds(errors, "sequence") \in BOOLEAN
      BY DEF Rebuilds
    <3>6. proc' \in [Symbols -> {"get", "unsubscribe", "nap", "pause", "resync"}]
      BY <2>2, <3>5, SleepKinds
    <3> QED BY <3>3, <3>4, <3>6
  <2> QED BY <2>1, <2>2 DEF RefuseUpdate
<1>6. Kinds' /\ Takings(s)
  BY <1>1, <1>3, <1>4, <1>5, TakeKinds DEF Kinds
<1> QED BY <1>1, <1>3, <1>6

LEMMA BufferTaken ==
  ASSUME Kinds, NEW s \in Symbols, BufferUpdate(s)
  PROVE  /\ Kinds' /\ Takings(s) /\ Takes(s) /\ UNCHANGED <<book, out>> /\ ~HasBook(s)
         /\ \E k \in Nat : \A i \in Indices(buffer'[s]) :
              /\ i + k \in Indices(Append(buffer[s], Message(s)))
              /\ buffer'[s][i] = Append(buffer[s], Message(s))[i + k]
<1> DEFINE m == Message(s)
           b == Append(buffer[s], m)
           full == market = "derivatives" /\ Len(b) >= BufferMax
<1>1. /\ Takes(s) /\ m.kind = "update" /\ ~HasBook(s)
      /\ queue' = [queue EXCEPT ![s] = Tail(@)] /\ drops' = drops
      /\ last' = [last EXCEPT ![s] = NextLast(m)]
      /\ UNCHANGED <<book, failed, out>>
      /\ buffer' = [buffer EXCEPT ![s] = IF full THEN <<>>
                                    ELSE SubSeq(b, Max({1, Len(b) - BufferMax + 1}), Len(b))]
      /\ later' = IF full THEN [later EXCEPT ![s] = @ \cup {"reset"}] ELSE later
  BY DEF BufferUpdate, Buffer
<1>2. m \in Messages /\ buffer[s] \in Buffers
  BY <1>1, TakenMessage DEF Kinds
<1>3. /\ buffer[s] \in Seq(Messages) /\ Len(buffer[s]) \in Nat /\ Len(buffer[s]) <= BufferMax
      /\ \A i \in Indices(buffer[s]) : buffer[s][i].kind = "update"
  BY <1>2, BufferElements
<1>4. /\ b \in Seq(Messages) /\ Len(b) = Len(buffer[s]) + 1
      /\ \A i \in Indices(b) : b[i].kind = "update"
  <2>1. /\ b \in Seq(Messages) /\ Len(b) = Len(buffer[s]) + 1
        /\ \A i \in Indices(buffer[s]) : b[i] = buffer[s][i]
        /\ b[Len(buffer[s]) + 1] = m
        /\ Indices(b) = Indices(buffer[s]) \cup {Len(buffer[s]) + 1}
    BY <1>2, <1>3, AppendElements
  <2> QED BY <1>1, <1>3, <2>1
<1> HIDE DEF b, full
<1> DEFINE k == IF Len(b) > BufferMax THEN 1 ELSE 0
<1>5. /\ k \in Nat /\ k <= Len(b) /\ Len(b) <= BufferMax + k /\ Len(b) \in Nat
      /\ Max({1, Len(b) - BufferMax + 1}) = k + 1
  <2>1. Len(b) - BufferMax + 1 \in Int /\ Len(b) <= BufferMax + 1 /\ Len(b) >= 1 /\ Len(b) \in Nat
        /\ BufferMax \in Nat
    BY <1>3, <1>4, Settings
  <2>2. Max({1, Len(b) - BufferMax + 1}) =
          IF 1 >= Len(b) - BufferMax + 1 THEN 1 ELSE Len(b) - BufferMax + 1
    BY <2>1, MaxPair
  <2>3. (IF 1 >= Len(b) - BufferMax + 1 THEN 1 ELSE Len(b) - BufferMax + 1) = k + 1
    BY <2>1
  <2> QED BY <2>1, <2>2, <2>3
<1> HIDE DEF k
<1>6. buffer' = [buffer EXCEPT ![s] = IF full THEN <<>> ELSE SubSeq(b, k + 1, Len(b))]
  BY <1>1, <1>5
<1>7. SubSeq(b, k + 1, Len(b)) \in Buffers /\ <<>> \in Buffers
  BY <1>2, <1>4, <1>5, BufferTypes, BufferElements
<1>8. /\ buffer' \in [Symbols -> Buffers]
      /\ \A u \in Symbols : u # s => buffer'[u] = buffer[u]
      /\ buffer'[s] = <<>> \/ buffer'[s] = SubSeq(b, k + 1, Len(b))
  BY <1>6, <1>7 DEF Kinds
<1>9. \A i \in Indices(buffer'[s]) : i + k \in Indices(b) /\ buffer'[s][i] = b[i + k]
  <2>1. \A i \in Indices(SubSeq(b, k + 1, Len(b))) :
          i + k \in Indices(b) /\ SubSeq(b, k + 1, Len(b))[i] = b[i + k]
    BY <1>4, <1>5, SubSeqElements
  <2>2. Indices(<<>>) = {}
    BY DEF Indices
  <2> QED BY <1>8, <2>1, <2>2
<1>10. /\ last' \in [Symbols -> None..Old]
       /\ \A u \in Symbols : u # s => last'[u] = last[u]
  <2>1. NextLast(m) \in None..Old
    BY <1>2, MessageFields, OldNumber DEF NextLast, None
  <2> QED BY <1>1, <2>1 DEF Kinds
<1>11. later' \in [Symbols -> SUBSET {"reset", "resync", "once more"}]
  <2>1. later[s] \cup {"reset"} \in SUBSET {"reset", "resync", "once more"}
    BY DEF Kinds
  <2> QED BY <1>1, <2>1 DEF Kinds
<1>12. errors' \in Counts
  BY CountTypes DEF BufferUpdate, Kinds
<1>13. /\ proc' \in [Symbols -> {"get", "unsubscribe", "nap", "pause", "resync"}]
       /\ waiting' \in [Symbols -> {"no", "short", "long"}]
  BY DEF BufferUpdate, Kinds
<1>14. Kinds' /\ Takings(s)
  BY <1>1, <1>8, <1>10, <1>11, <1>12, <1>13, TakeKinds DEF Kinds
<1> QED BY <1>1, <1>5, <1>9, <1>14 DEF b

LEMMA ApplyTaken ==
  ASSUME Kinds, NEW s \in Symbols, ApplyUpdate(s)
  PROVE  /\ Kinds' /\ Takings(s) /\ TakesUpdate(s) /\ buffer' = buffer
         /\ book'[s] = Updated(s, Message(s)) /\ last'[s] = Message(s).seq
         /\ out'[s] \in {out[s], Updated(s, Message(s)).whole}
<1>1. /\ TakesUpdate(s) /\ Takes(s)
      /\ book' = [book EXCEPT ![s] = Updated(s, Message(s))]
      /\ last' = [last EXCEPT ![s] = Message(s).seq]
      /\ UNCHANGED <<buffer, waiting, proc>>
  BY DEF ApplyUpdate, TakesUpdate
<1>2. Message(s) \in Messages /\ Message(s).seq \in None..Old
  BY <1>1, TakenMessage, MessageFields
<1>3. Updated(s, Message(s)) \in Books
  <2>1. book[s].whole \in BOOLEAN
    BY DEF Kinds, Books
  <2> QED BY <1>2, <2>1 DEF Updated, Books
<1>4. /\ book' \in [Symbols -> Books] /\ book'[s] = Updated(s, Message(s))
      /\ last' \in [Symbols -> None..Old] /\ last'[s] = Message(s).seq
      /\ \A u \in Symbols : u # s => book'[u] = book[u] /\ last'[u] = last[u]
  BY <1>1, <1>2, <1>3 DEF Kinds
<1>5. /\ \/ queue' = [queue EXCEPT ![s] = Tail(@)] /\ drops' = drops
         \/ queue' = [queue EXCEPT ![s] = <<>>] /\ drops' = drops + 1
      /\ out' \in [Symbols -> BOOLEAN] /\ out'[s] \in {out[s], Updated(s, Message(s)).whole}
      /\ \A u \in Symbols : u # s => out'[u] = out[u]
      /\ later' \in [Symbols -> SUBSET {"reset", "resync", "once more"}]
  <2>1. PICK x \in Books : x = book'[s]
    BY <1>3, <1>4
  <2>2. Publish(s, x, Tail(queue[s]))
    <3>1. Publish(s, book'[s], Tail(queue[s]))
      BY DEF ApplyUpdate
    <3> QED BY <2>1, <3>1 DEF Publish
  <2> QED BY <1>4, <2>1, <2>2, PublishStep
<1>6. errors' \in Counts
  BY CountTypes DEF ApplyUpdate, Kinds
<1>7. failed' \in [Symbols -> 0..Threshold]
  <2>1. failed' = failed \/ failed' = [failed EXCEPT ![s] = 0]
    BY DEF ApplyUpdate
  <2>2. failed \in [Symbols -> 0..Threshold] /\ 0 \in 0..Threshold
    <3>1. failed \in [Symbols -> 0..Threshold]
      BY DEF Kinds
    <3>2. 0 \in 0..Threshold
      BY Settings
    <3> QED BY <3>1, <3>2
  <2> QED BY <2>1, <2>2
<1>8. Kinds' /\ Takings(s)
  BY <1>1, <1>4, <1>5, <1>6, <1>7, TakeKinds DEF Kinds
<1> QED BY <1>1, <1>4, <1>5, <1>8

LEMMA MismatchTaken ==
  ASSUME Kinds, NEW s \in Symbols, MismatchSpot(s) \/ MismatchDerivatives(s)
  PROVE  /\ Kinds' /\ Takings(s) /\ TakesUpdate(s) /\ UNCHANGED <<buffer, out>>
         /\ ~Updated(s, Message(s)).whole
<1>1. /\ TakesUpdate(s) /\ Takes(s) /\ ~Updated(s, Message(s)).whole
      /\ queue' = [queue EXCEPT ![s] = Tail(@)] /\ drops' = drops
      /\ UNCHANGED <<buffer, waiting, later, out>>
  BY DEF MismatchSpot, MismatchDerivatives, TakesUpdate
<1>2. /\ book' \in [Symbols -> Books] /\ last' \in [Symbols -> None..Old]
      /\ \A u \in Symbols : u # s => book'[u] = book[u] /\ last'[u] = last[u]
  <2>1. CASE Reset(s)
    BY <2>1, ResetStep
  <2>2. CASE /\ book' = book
             /\ last' = [last EXCEPT ![s] = IF Message(s).again THEN None ELSE @]
    <3>1. None \in None..Old
      BY OldNumber DEF None
    <3> QED BY <2>2, <3>1 DEF Kinds
  <2> QED BY <2>1, <2>2 DEF MismatchSpot, MismatchDerivatives
<1>3. /\ errors' \in Counts
      /\ failed' \in [Symbols -> 0..Threshold]
      /\ proc' \in [Symbols -> {"get", "unsubscribe", "nap", "pause", "resync"}]
  <2>1. CASE MismatchSpot(s)
    <3>1. errors' \in Counts
      BY <2>1, CountTypes DEF MismatchSpot, Kinds
    <3>2. failed' \in [Symbols -> 0..Threshold]
      <4>1. failed[s] \in 0..Threshold
        BY DEF Kinds
      <4>2. 0 \in 0..Threshold /\ (~ (failed[s] + 1 >= Threshold) => failed[s] + 1 \in 0..Threshold)
        BY <4>1, Settings
      <4>3. failed' = [failed EXCEPT ![s] = IF failed[s] + 1 >= Threshold THEN 0
                                            ELSE failed[s] + 1]
        BY <2>1 DEF MismatchSpot
      <4> QED BY <4>2, <4>3 DEF Kinds
    <3>3. proc' = proc \/ proc' = [proc EXCEPT ![s] = "pause"]
      BY <2>1 DEF MismatchSpot
    <3> QED BY <3>1, <3>2, <3>3 DEF Kinds
  <2>2. CASE MismatchDerivatives(s)
    <3>1. errors' \in Counts
      BY <2>2, CountTypes DEF MismatchDerivatives, Kinds
    <3>2. Rebuilds(errors, "checksum") \in BOOLEAN
      BY DEF Rebuilds
    <3>3. proc' \in [Symbols -> {"get", "unsubscribe", "nap", "pause", "resync"}]
      BY <2>2, <3>2, SleepKinds DEF MismatchDerivatives
    <3>4. failed' \in [Symbols -> 0..Threshold]
      BY <2>2 DEF MismatchDerivatives, Kinds
    <3> QED BY <3>1, <3>3, <3>4
  <2> QED BY <2>1, <2>2
<1>4. Kinds' /\ Takings(s)
  BY <1>1, <1>2, <1>3, TakeKinds DEF Kinds
<1> QED BY <1>1, <1>4

LEMMA QueueGivenUp ==
  ASSUME Kinds, NEW s \in Symbols, GiveQueueUp(s)
  PROVE  /\ Kinds' /\ Takings(s) /\ UNCHANGED <<buffer, out>> /\ drops' = drops + 1
         /\ queue'[s] = <<>>
         /\ book'[s] = NoBook \/ (book'[s] = book[s] /\ last'[s] = last[s])
<1>1. /\ Takes(s) /\ queue' = [queue EXCEPT ![s] = <<>>] /\ drops' = drops + 1
      /\ UNCHANGED <<buffer, waiting, later, failed, errors, out>>
      /\ Reset(s) \/ UNCHANGED <<book, last>>
      /\ proc' \in {proc, [proc EXCEPT ![s] = "resync"]}
  BY DEF GiveQueueUp
<1>2. proc' \in [Symbols -> {"get", "unsubscribe", "nap", "pause", "resync"}]
  BY <1>1 DEF Kinds
<1>3. Kinds' /\ Takings(s)
  <2>1. /\ book' \in [Symbols -> Books] /\ last' \in [Symbols -> None..Old]
        /\ \A u \in Symbols : u # s => book'[u] = book[u] /\ last'[u] = last[u]
    BY <1>1, ResetStep DEF Kinds
  <2>2. /\ buffer' \in [Symbols -> Buffers] /\ out' \in [Symbols -> BOOLEAN]
        /\ waiting' \in [Symbols -> {"no", "short", "long"}]
        /\ later' \in [Symbols -> SUBSET {"reset", "resync", "once more"}]
        /\ errors' \in Counts /\ failed' \in [Symbols -> 0..Threshold]
        /\ \A u \in Symbols : u # s => buffer'[u] = buffer[u] /\ out'[u] = out[u]
    BY <1>1 DEF Kinds
  <2> QED BY <1>1, <1>2, <2>1, <2>2, TakeKinds
<1>4. queue'[s] = <<>>
  BY <1>1 DEF Kinds
<1> QED BY <1>1, <1>3, <1>4, ResetStep

-------------------------------------------------------------------------------
(* Order and links of queues.                                              *)

LEMMA AgedOrder ==
  ASSUME NEW q \in Seq(Messages), NEW b \in Seq(Messages)
  PROVE  /\ Descends(q) => Descends(Aged(q))
         /\ After(b, q) => After(Aged(b), Aged(q))
         /\ Linked(q) => Linked(Aged(q))
<1>1. /\ Indices(Aged(q)) = Indices(q) /\ Indices(Aged(b)) = Indices(b)
      /\ \A i \in Indices(q) : /\ Aged(q)[i].seq = Older(q[i].seq) /\ q[i].seq \in 0..Old
                               /\ Aged(q)[i].prev = Older(q[i].prev)
                               /\ Aged(q)[i].kind = q[i].kind
      /\ \A i \in Indices(b) : Aged(b)[i].seq = Older(b[i].seq) /\ b[i].seq \in 0..Old
  BY AgedElements, QueueElements DEF Indices
<1>2. \A m, n \in 0..Old : m <= n => Older(m) <= Older(n)
  BY OlderNumbers
<1>3. Descends(q) => Descends(Aged(q))
  BY <1>1, <1>2 DEF Descends
<1>4. After(b, q) => After(Aged(b), Aged(q))
  BY <1>1, <1>2 DEF After
<1>5. Linked(q) => Linked(Aged(q))
  BY <1>1 DEF Linked
<1> QED BY <1>3, <1>4, <1>5

(* A message as young as can be, or younger than what is there.            *)
LEMMA AppendOrder ==
  ASSUME NEW q \in Seq(Messages), NEW b \in Seq(Messages), NEW m \in Messages
  PROVE  /\ Descends(q) /\ (\A i \in Indices(q) : m.seq <= q[i].seq) => Descends(Append(q, m))
         /\ After(b, q) /\ (\A i \in Indices(b) : m.seq <= b[i].seq) => After(b, Append(q, m))
         /\ After(q, b) /\ (\A i \in Indices(b) : b[i].seq <= m.seq) => After(Append(q, m), b)
         /\ /\ Linked(q)
            /\ m.kind = "update" /\ q # <<>> => m.prev = q[Len(q)].seq
            => Linked(Append(q, m))
<1>1. /\ \A i \in Indices(q) : Append(q, m)[i] = q[i] /\ i <= Len(q) /\ i \in Nat
      /\ Append(q, m)[Len(q) + 1] = m /\ Len(q) \in Nat
      /\ Indices(Append(q, m)) = Indices(q) \cup {Len(q) + 1}
      /\ q # <<>> => Len(q) \in Indices(q)
      /\ q = <<>> => Indices(q) = {}
  BY AppendElements, QueueElements DEF Indices
<1>2. Descends(q) /\ (\A i \in Indices(q) : m.seq <= q[i].seq) => Descends(Append(q, m))
  <2> SUFFICES ASSUME Descends(q), \A i \in Indices(q) : m.seq <= q[i].seq,
                      NEW i \in Indices(Append(q, m)), NEW j \in Indices(Append(q, m)), i < j
               PROVE  Append(q, m)[j].seq <= Append(q, m)[i].seq
    BY DEF Descends
  <2>1. i \in Indices(q)
    BY <1>1
  <2> QED BY <1>1, <2>1 DEF Descends
<1>3. After(b, q) /\ (\A i \in Indices(b) : m.seq <= b[i].seq) => After(b, Append(q, m))
  BY <1>1 DEF After
<1>4. After(q, b) /\ (\A i \in Indices(b) : b[i].seq <= m.seq) => After(Append(q, m), b)
  BY <1>1 DEF After
<1>5. ASSUME Linked(q), m.kind = "update" /\ q # <<>> => m.prev = q[Len(q)].seq
      PROVE  Linked(Append(q, m))
  <2> SUFFICES ASSUME NEW i \in Indices(Append(q, m)), NEW j \in Indices(Append(q, m)),
                      j = i + 1, Append(q, m)[j].kind = "update"
               PROVE  Append(q, m)[j].prev = Append(q, m)[i].seq
    BY DEF Linked
  <2>1. i \in Indices(q)
    BY <1>1
  <2>2. CASE j \in Indices(q)
    BY <1>1, <1>5, <2>1, <2>2 DEF Linked
  <2>3. CASE j = Len(q) + 1
    <3>1. i = Len(q) /\ q # <<>>
      BY <1>1, <2>1, <2>3
    <3> QED BY <1>1, <1>5, <2>1, <2>3, <3>1
  <2> QED BY <1>1, <2>2, <2>3
<1> QED BY <1>2, <1>3, <1>4, <1>5

(* r is what remains of q after its first k messages, or part of that.     *)
Rest(r, q, k) == \A i \in Indices(r) : i + k \in Indices(q) /\ r[i] = q[i + k]

LEMMA RestOrder ==
  ASSUME NEW q, NEW r, NEW b, NEW k \in Nat, Rest(r, q, k)
  PROVE  /\ Descends(q) => Descends(r)
         /\ After(b, q) => After(b, r)
         /\ After(q, b) => After(r, b)
         /\ Linked(q) => Linked(r)
<1>1. \A i, j \in Indices(r) : i < j => i + k < j + k
  BY DEF Indices
<1>2. \A i, j \in Indices(r) : j = i + 1 => j + k = (i + k) + 1
  BY DEF Indices
<1> QED BY <1>1, <1>2 DEF Rest, Descends, After, Linked

-------------------------------------------------------------------------------
(* What holds of a symbol is kept.                                         *)

LEMMA IdlesHeld ==
  ASSUME Idles, NEW s \in Symbols, Held(s)
  PROVE  Held(s)'
<1>1. /\ queue'[s] = queue[s] /\ buffer'[s] = buffer[s] /\ out'[s] = out[s]
      /\ sub'[s] = "on" => sub[s] = "on"
      /\ book'[s] # NoBook => book[s] # NoBook /\ book'[s] = book[s] /\ last'[s] = last[s]
  BY DEF Idles
<1>2. Sorted(s)' /\ (NoneAgain(s) => NoneAgain(s)')
  BY <1>1 DEF Held, Sorted, NoneAgain
<1>3. Joined(s) => Joined(s)'
  BY <1>1 DEF Joined, Message, HasBook
<1>4. Whole(s) => Whole(s)'
  BY <1>1 DEF Whole, HasBook
<1>5. drops' = drops /\ restarts' = restarts
  BY DEF Idles
<1> QED BY <1>2, <1>3, <1>4, <1>5 DEF Held

LEMMA ElsewhereHeld ==
  ASSUME NEW s \in Symbols, Elsewhere(s), NEW u \in Symbols, u # s, Held(u),
         drops' = 0 => drops = 0, restarts' = 0 => restarts = 0
  PROVE  Held(u)'
<1>1. /\ queue'[u] = queue[u] /\ book'[u] = book[u] /\ last'[u] = last[u]
      /\ buffer'[u] = buffer[u] /\ sub'[u] = sub[u] /\ out'[u] = out[u]
  BY DEF Elsewhere
<1>2. Sorted(u)' /\ (NoneAgain(u) => NoneAgain(u)')
  BY <1>1 DEF Held, Sorted, NoneAgain
<1>3. Joined(u) => Joined(u)'
  BY <1>1 DEF Joined, Message, HasBook
<1>4. Whole(u) => Whole(u)'
  BY <1>1 DEF Whole, HasBook
<1> QED BY <1>2, <1>3, <1>4 DEF Held

(* A book and the numbers in the buffer grow older.                        *)
LEMMA AgesBook ==
  ASSUME Kinds, NEW s \in Symbols, Ages(s)
  PROVE  /\ HasBook(s)' => HasBook(s)
         /\ book'[s].at = Older(book[s].at)
         /\ out'[s] = out[s] /\ Whole(s) => Whole(s)'
         /\ buffer[s] \in Seq(Messages) /\ buffer'[s] = Aged(buffer[s])
<1>1. /\ book'[s] \in Books /\ last'[s] = Older(last[s]) /\ buffer'[s] = Aged(buffer[s])
      /\ book'[s].at = Older(book[s].at) /\ book'[s].whole = book[s].whole
  BY AgesStep
<1>2. ASSUME book[s] = NoBook PROVE book'[s] = NoBook
  <2>1. book'[s].at = None /\ book'[s].whole = FALSE
    BY <1>1, <1>2, OlderNumbers DEF NoBook
  <2> QED BY <1>1, <2>1 DEF Books, NoBook
<1>3. book[s].at # None => book'[s].at # None
  <2>1. book[s].at \in None..Old
    BY DEF Kinds, Books
  <2>2. book[s].at # None => book[s].at \in 0..Old
    BY <2>1, OldNumber DEF None
  <2> QED BY <1>1, <2>2, OlderNumbers, OldNumber DEF None
<1>4. buffer[s] \in Seq(Messages)
  BY BufferElements DEF Kinds
<1>5. out'[s] = out[s] /\ Whole(s) => Whole(s)'
  BY <1>1, <1>2, <1>3 DEF Whole, HasBook
<1> QED BY <1>1, <1>2, <1>4, <1>5 DEF HasBook

LEMMA UpdateHeld ==
  ASSUME Kinds, NEW s \in Symbols, Update(s), Held(s)
  PROVE  Held(s)'
<1>1. PICK again \in BOOLEAN :
        /\ restarts' = IF again THEN restarts + 1 ELSE restarts
        /\ \/ /\ drops' = drops
              /\ queue'[s] = Append(Aged(queue[s]), [kind |-> "update", prev |-> 1,
                                                    seq |-> 0, again |-> again])
           \/ drops' = drops + 1 /\ queue'[s] = Aged(queue[s])
  BY UpdateStep
<1> DEFINE m == [kind |-> "update", prev |-> 1, seq |-> 0, again |-> again]
           q == Aged(queue[s])
<1>2. /\ Ages(s) /\ sub[s] = "on" /\ out'[s] = out[s]
      /\ restarts \in Nat /\ drops \in Nat /\ queue[s] \in Queues
  BY UpdateStep DEF Kinds
<1>3. /\ m \in Messages /\ m.seq = 0 /\ m.prev = 1 /\ m.kind = "update" /\ m.again = again
      /\ queue[s] \in Seq(Messages) /\ q \in Seq(Messages) /\ Len(q) = Len(queue[s])
      /\ q = <<>> <=> queue[s] = <<>>
      /\ \A i \in Indices(queue[s]) :
           /\ q[i].kind = queue[s][i].kind /\ q[i].again = queue[s][i].again
           /\ q[i].prev = Older(queue[s][i].prev) /\ q[i].seq = Older(queue[s][i].seq)
  <2>1. m \in Messages
    BY NewMessages
  <2> QED BY <1>2, <2>1, QueueTypes, AgedElements
<1>4. \/ drops' = drops /\ queue'[s] = Append(q, m)
      \/ drops' = drops + 1 /\ queue'[s] = q
  BY <1>1
<1> HIDE DEF m, q
<1>5. /\ Descends(q) /\ Descends(Aged(buffer[s])) /\ After(Aged(buffer[s]), q)
      /\ Aged(buffer[s]) \in Seq(Messages)
  BY <1>2, <1>3, AgesBook, AgedOrder, AgedElements DEF q, Held, Sorted
<1>6. Sorted(s)'
  <2>1. /\ \A i \in Indices(q) : m.seq <= q[i].seq
        /\ \A i \in Indices(Aged(buffer[s])) : m.seq <= Aged(buffer[s])[i].seq
    BY <1>3, <1>5, QueueElements
  <2>2. Descends(Append(q, m)) /\ After(Aged(buffer[s]), Append(q, m))
    BY <1>3, <1>5, <2>1, AppendOrder
  <2> QED BY <1>2, <1>4, <1>5, <2>2, AgesBook DEF Sorted
<1>7. ASSUME restarts' = 0 PROVE NoneAgain(s)'
  <2>1. ~again /\ restarts = 0
    BY <1>1, <1>2, <1>7
  <2>2. \A i \in Indices(q) : ~q[i].again
    BY <1>3, <2>1 DEF Held, NoneAgain, Indices
  <2>3. \A i \in Indices(Append(q, m)) : ~Append(q, m)[i].again
    <3>1. m.again = FALSE
      BY <1>3, <2>1
    <3>2. /\ \A i \in Indices(q) : Append(q, m)[i] = q[i]
          /\ Append(q, m)[Len(q) + 1] = m
          /\ Indices(Append(q, m)) = Indices(q) \cup {Len(q) + 1}
      BY <1>3, AppendElements
    <3> QED BY <2>2, <3>1, <3>2
  <2> QED BY <1>4, <2>2, <2>3 DEF NoneAgain
<1>8. ASSUME drops' = 0 PROVE Joined(s)'
  <2>1. Joined(s) /\ queue'[s] = Append(q, m)
    BY <1>2, <1>4, <1>8 DEF Held
  <2>2. ASSUME q # <<>> PROVE q[Len(q)].seq = 1 /\ q[1].kind = queue[s][1].kind
                              /\ q[1].prev = Older(queue[s][1].prev)
    <3>1. Len(queue[s]) \in Indices(queue[s]) /\ 1 \in Indices(queue[s])
      BY <1>3, <2>2, QueueElements
    <3>2. queue[s][Len(queue[s])].seq = 0
      BY <1>2, <1>3, <2>1, <2>2 DEF Joined
    <3> QED BY <1>3, <3>1, <3>2, OlderNumbers
  <2>3. Linked(Append(q, m))
    <3>1. Linked(q)
      BY <1>3, <2>1, AgedOrder DEF q, Joined
    <3> QED BY <1>3, <2>2, <3>1, AppendOrder
  <2>4. /\ Append(q, m) # <<>> /\ Append(q, m)[Len(Append(q, m))] = m
        /\ q = <<>> => Append(q, m)[1] = m
        /\ q # <<>> => Append(q, m)[1] = q[1]
        /\ Head(Append(q, m)) = Append(q, m)[1]
    <3>1. /\ Append(q, m) \in Seq(Messages) /\ Append(q, m) # <<>>
          /\ Len(Append(q, m)) = Len(q) + 1
          /\ \A i \in Indices(q) : Append(q, m)[i] = q[i]
          /\ Append(q, m)[Len(q) + 1] = m
      BY <1>3, AppendElements
    <3>2. q = <<>> => Len(q) + 1 = 1
      BY <1>3, EmptySeq
    <3>3. q # <<>> => 1 \in Indices(q)
      BY <1>3, QueueElements
    <3> QED BY <3>1, <3>2, <3>3, QueueElements
  <2>5. ASSUME HasBook(s)', Head(Append(q, m)).kind = "update"
        PROVE  Head(Append(q, m)).prev = book'[s].at
    <3>1. HasBook(s) /\ book'[s].at = Older(book[s].at)
      BY <1>2, <2>5, AgesBook
    <3>2. CASE q = <<>>
      <4>1. book[s].at = 0
        BY <1>2, <1>3, <2>1, <3>1, <3>2 DEF Joined
      <4> QED BY <1>3, <2>4, <3>1, <3>2, <4>1, OlderNumbers
    <3>3. CASE q # <<>>
      <4>1. queue[s] # <<>> /\ Message(s) = queue[s][1] /\ Message(s).kind = "update"
        BY <1>3, <2>2, <2>4, <2>5, <3>3, QueueElements DEF Message
      <4>2. queue[s][1].prev = book[s].at
        BY <2>1, <3>1, <4>1 DEF Joined
      <4> QED BY <2>2, <2>4, <3>1, <3>3, <4>2
    <3> QED BY <3>2, <3>3
  <2> QED BY <1>3, <2>1, <2>3, <2>4, <2>5 DEF Joined, Message
<1>9. ASSUME restarts' = 0 \/ drops' = 0 PROVE Whole(s)'
  <2>1. restarts = 0 \/ drops = 0
    BY <1>1, <1>2, <1>4, <1>9
  <2> QED BY <1>2, <2>1, AgesBook DEF Held
<1> QED BY <1>6, <1>7, <1>8, <1>9 DEF Held

LEMMA SnapshotHeld ==
  ASSUME Kinds, NEW s \in Symbols, Snapshot(s), Held(s)
  PROVE  Held(s)'
<1> DEFINE m == [kind |-> "snapshot", prev |-> None, seq |-> 0, again |-> FALSE]
<1>1. PICK q \in {queue[s], Aged(queue[s])} :
        /\ \/ Ages(s) /\ q = Aged(queue[s])
           \/ UNCHANGED <<last, book, buffer>> /\ q = queue[s]
        /\ \/ drops' = drops /\ queue'[s] = Append(q, m)
           \/ drops' = drops + 1 /\ queue'[s] = q
  BY SnapshotStep
<1>2. /\ restarts' = restarts /\ out' = out /\ drops \in Nat
      /\ queue[s] \in Queues /\ buffer[s] \in Seq(Messages)
  BY SnapshotStep, BufferElements DEF Kinds
<1>3. /\ m \in Messages /\ m.seq = 0 /\ m.kind = "snapshot" /\ m.again = FALSE
      /\ queue[s] \in Seq(Messages) /\ q \in Seq(Messages) /\ Len(q) = Len(queue[s])
      /\ q = <<>> <=> queue[s] = <<>>
      /\ \A i \in Indices(queue[s]) :
           q[i].kind = queue[s][i].kind /\ q[i].again = queue[s][i].again
  <2>1. m \in Messages
    BY NewMessages
  <2> QED BY <1>1, <1>2, <2>1, QueueTypes, AgedElements
<1>4. /\ HasBook(s)' => HasBook(s)
      /\ Whole(s) => Whole(s)'
      /\ buffer'[s] \in Seq(Messages)
      /\ Descends(q) /\ Descends(buffer'[s]) /\ After(buffer'[s], q)
      /\ Linked(queue[s]) => Linked(q)
      /\ HasBook(s)' /\ q # <<>> /\ queue[s][1].prev = book[s].at => q[1].prev = book'[s].at
  <2>1. CASE Ages(s) /\ q = Aged(queue[s])
    <3>1. q # <<>> => q[1].prev = Older(queue[s][1].prev)
      BY <1>3, <2>1, QueueElements, AgedElements
    <3> QED BY <1>2, <1>3, <2>1, <3>1, AgesBook, AgedOrder, AgedElements DEF Held, Sorted
  <2>2. CASE UNCHANGED <<last, book, buffer>> /\ q = queue[s]
    <3>1. HasBook(s)' => HasBook(s)
      BY <2>2 DEF HasBook
    <3>2. Whole(s) => Whole(s)'
      BY <1>2, <2>2 DEF Whole, HasBook
    <3>3. /\ buffer'[s] \in Seq(Messages)
          /\ Descends(q) /\ Descends(buffer'[s]) /\ After(buffer'[s], q)
      BY <1>2, <2>2 DEF Held, Sorted
    <3> QED BY <2>2, <3>1, <3>2, <3>3
  <2> QED BY <1>1, <2>1, <2>2
<1> HIDE DEF m
<1>5. Sorted(s)'
  <2>1. /\ \A i \in Indices(q) : m.seq <= q[i].seq
        /\ \A i \in Indices(buffer'[s]) : m.seq <= buffer'[s][i].seq
    BY <1>3, <1>4, QueueElements
  <2>2. PICK b \in Seq(Messages) : b = buffer'[s]
    BY <1>4
  <2>3. Descends(Append(q, m)) /\ After(b, Append(q, m))
    BY <1>3, <1>4, <2>1, <2>2, AppendOrder
  <2> QED BY <1>1, <1>4, <2>2, <2>3 DEF Sorted
<1>6. ASSUME restarts' = 0 PROVE NoneAgain(s)'
  <2>1. \A i \in Indices(q) : ~q[i].again
    BY <1>2, <1>3, <1>6 DEF Held, NoneAgain, Indices
  <2>2. /\ \A i \in Indices(q) : Append(q, m)[i] = q[i]
        /\ Append(q, m)[Len(q) + 1] = m
        /\ Indices(Append(q, m)) = Indices(q) \cup {Len(q) + 1}
    BY <1>3, AppendElements
  <2>3. \A i \in Indices(Append(q, m)) : ~Append(q, m)[i].again
    BY <1>3, <2>1, <2>2
  <2> QED BY <1>1, <2>1, <2>3 DEF NoneAgain
<1>7. ASSUME drops' = 0 PROVE Joined(s)'
  <2>1. Joined(s) /\ queue'[s] = Append(q, m)
    BY <1>1, <1>2, <1>7 DEF Held
  <2>2. Linked(Append(q, m))
    BY <1>3, <1>4, <2>1, AppendOrder DEF Joined
  <2>3. /\ Append(q, m) # <<>> /\ Append(q, m)[Len(Append(q, m))] = m
        /\ q = <<>> => Append(q, m)[1] = m
        /\ q # <<>> => Append(q, m)[1] = q[1]
        /\ Head(Append(q, m)) = Append(q, m)[1]
    <3>1. /\ Append(q, m) \in Seq(Messages) /\ Append(q, m) # <<>>
          /\ Len(Append(q, m)) = Len(q) + 1
          /\ \A i \in Indices(q) : Append(q, m)[i] = q[i]
          /\ Append(q, m)[Len(q) + 1] = m
      BY <1>3, AppendElements
    <3>2. q = <<>> => Len(q) + 1 = 1
      BY <1>3, EmptySeq
    <3>3. q # <<>> => 1 \in Indices(q)
      BY <1>3, QueueElements
    <3> QED BY <3>1, <3>2, <3>3, QueueElements
  <2>4. ASSUME HasBook(s)', Head(Append(q, m)).kind = "update"
        PROVE  Head(Append(q, m)).prev = book'[s].at
    <3>1. q # <<>>
      BY <1>3, <2>3, <2>4
    <3>2. queue[s] # <<>> /\ Message(s) = queue[s][1] /\ queue[s][1].kind = "update"
      <4>1. 1 \in Indices(queue[s]) /\ Head(queue[s]) = queue[s][1] /\ queue[s] # <<>>
        BY <1>3, <3>1, QueueElements
      <4> QED BY <1>3, <2>3, <2>4, <3>1, <4>1 DEF Message
    <3>3. queue[s][1].prev = book[s].at
      BY <1>4, <2>1, <2>4, <3>2 DEF Joined
    <3> QED BY <1>4, <2>3, <2>4, <3>1, <3>3
  <2> QED BY <1>3, <2>1, <2>2, <2>3, <2>4 DEF Joined, Message
<1>8. ASSUME restarts' = 0 \/ drops' = 0 PROVE Whole(s)'
  <2>1. restarts = 0 \/ drops = 0
    BY <1>1, <1>2, <1>8
  <2> QED BY <1>4, <2>1 DEF Held
<1> QED BY <1>5, <1>6, <1>7, <1>8 DEF Held

(* Without a drop or without a restart, an update that is accepted         *)
(* continues the book.                                                     *)
LEMMA UpdateContinues ==
  ASSUME Kinds, NEW s \in Symbols, Takes(s), Message(s).kind = "update", HasBook(s),
         Held(s), restarts = 0 \/ drops = 0
  PROVE  /\ Valid(s, Message(s)) => Updated(s, Message(s)) = [at |-> Message(s).seq, whole |-> TRUE]
         /\ drops = 0 => Valid(s, Message(s))
<1>1. book[s].whole /\ book[s].at # None /\ last[s] = book[s].at
  BY DEF Held, Whole
<1>2. queue[s] # <<>> /\ 1 \in Indices(queue[s]) /\ Message(s) = queue[s][1]
  BY TakenMessage, QueueElements DEF Message
<1>3. drops = 0 => Message(s).prev = book[s].at
  BY <1>2 DEF Held, Joined
<1>4. restarts = 0 => ~Message(s).again
  BY <1>2 DEF Held, NoneAgain
<1>5. Valid(s, Message(s)) => Message(s).prev = book[s].at
  BY <1>1, <1>3, <1>4 DEF Valid, Follows
<1> QED BY <1>1, <1>3, <1>5 DEF Updated, Valid, Follows

LEMMA TakingHeld ==
  ASSUME Kinds, NEW s \in Symbols, Takes(s), Takings(s), Held(s),
         \E k \in Nat : \/ Rest(buffer'[s], buffer[s], k)
                        \/ Rest(buffer'[s], Append(buffer[s], Message(s)), k),
         restarts = 0 \/ drops = 0 =>
           /\ out'[s] \in {out[s], TRUE}
           /\ \/ book'[s] = NoBook
              \/ /\ book'[s] = [at |-> Message(s).seq, whole |-> TRUE]
                 /\ last'[s] = Message(s).seq
              \/ drops' # 0 /\ book'[s] = book[s] /\ last'[s] = last[s]
  PROVE  Held(s)'
<1>1. /\ restarts' = restarts /\ sub' = sub /\ drops \in Nat
      /\ \/ queue'[s] = Tail(queue[s]) /\ drops' = drops
         \/ queue'[s] = <<>> /\ drops' = drops + 1
  BY DEF Takings, Kinds
<1>2. /\ queue[s] \in Seq(Messages) /\ queue[s] # <<>> /\ Message(s) \in Messages
      /\ buffer[s] \in Seq(Messages) /\ Message(s).seq \in 0..Old
  BY TakenMessage, BufferElements, MessageFields DEF Kinds
<1>3. /\ Message(s) = queue[s][1] /\ 1 \in Indices(queue[s])
      /\ Tail(queue[s]) \in Seq(Messages) /\ Len(Tail(queue[s])) = Len(queue[s]) - 1
      /\ Len(queue[s]) \in Nat \ {0} /\ Rest(Tail(queue[s]), queue[s], 1)
  BY <1>2, TailElements DEF Message, Rest
<1>4. Rest(queue'[s], queue[s], 1)
  <2>1. Indices(<<>>) = {}
    BY DEF Indices
  <2>2. Rest(<<>>, queue[s], 1)
    BY <2>1 DEF Rest
  <2> QED BY <1>1, <1>3, <2>2 DEF Rest
<1>5. Sorted(s)'
  <2>1. \E b \in Seq(Messages), k \in Nat :
          /\ Descends(b) /\ After(b, queue'[s]) /\ Rest(buffer'[s], b, k)
    <3>1. Descends(buffer[s]) /\ After(buffer[s], queue'[s])
      BY <1>4, RestOrder DEF Held, Sorted
    <3>2. Append(buffer[s], Message(s)) \in Seq(Messages)
      BY <1>2, AppendElements
    <3>3. /\ Descends(Append(buffer[s], Message(s)))
          /\ After(Append(buffer[s], Message(s)), queue'[s])
      <4>1. \A i \in Indices(buffer[s]) : Message(s).seq <= buffer[s][i].seq
        BY <1>3 DEF Held, Sorted, After
      <4>2. \A i \in Indices(queue'[s]) : queue'[s][i].seq <= Message(s).seq
        <5>1. \A i \in Indices(queue'[s]) : i + 1 \in Indices(queue[s]) /\ 1 < i + 1
                                            /\ queue'[s][i] = queue[s][i + 1]
          BY <1>4 DEF Rest, Indices
        <5> QED BY <1>3, <5>1 DEF Held, Sorted, Descends
      <4>3. PICK q \in Seq(Messages) : q = queue'[s]
        <5>1. <<>> \in Seq(Messages)
          OBVIOUS
        <5> QED BY <1>1, <1>3, <5>1
      <4> QED BY <1>2, <3>1, <4>1, <4>2, <4>3, AppendOrder DEF Held, Sorted
    <3> QED BY <1>2, <3>1, <3>2, <3>3
  <2>2. Descends(buffer'[s]) /\ After(buffer'[s], queue'[s])
    BY <2>1, RestOrder
  <2>3. Descends(queue'[s])
    BY <1>4, RestOrder DEF Held, Sorted
  <2> QED BY <2>2, <2>3 DEF Sorted
<1>6. ASSUME restarts' = 0 PROVE NoneAgain(s)'
  BY <1>1, <1>4, <1>6 DEF Held, NoneAgain, Rest
<1>7. ASSUME drops' = 0 PROVE Joined(s)'
  <2>1. Joined(s) /\ queue'[s] = Tail(queue[s]) /\ drops = 0
    BY <1>1, <1>7 DEF Held
  <2>2. Linked(Tail(queue[s]))
    BY <1>3, <2>1, RestOrder DEF Joined
  <2>3. ASSUME Tail(queue[s]) # <<>>
        PROVE  /\ Head(Tail(queue[s])) = queue[s][2] /\ 2 \in Indices(queue[s])
               /\ Tail(queue[s])[Len(Tail(queue[s]))] = queue[s][Len(queue[s])]
    <3>1. /\ Len(Tail(queue[s])) \in Indices(Tail(queue[s])) /\ 1 \in Indices(Tail(queue[s]))
          /\ Head(Tail(queue[s])) = Tail(queue[s])[1]
      BY <1>3, <2>3, QueueElements
    <3>2. (Len(queue[s]) - 1) + 1 = Len(queue[s]) /\ 1 + 1 = 2
      BY <1>3
    <3> QED BY <1>3, <3>1, <3>2 DEF Rest
  <2>4. ASSUME Tail(queue[s]) = <<>> PROVE Len(queue[s]) = 1
    <3>1. Len(Tail(queue[s])) = 0
      BY <1>3, <2>4, EmptySeq
    <3> QED BY <1>3, <3>1
  <2>5. Tail(queue[s]) # <<>> /\ sub'[s] = "on" => Tail(queue[s])[Len(Tail(queue[s]))].seq = 0
    BY <1>1, <1>2, <2>1, <2>3 DEF Joined
  <2>6. ASSUME HasBook(s)'
        PROVE  /\ Tail(queue[s]) # <<>> /\ Head(Tail(queue[s])).kind = "update" =>
                    Head(Tail(queue[s])).prev = book'[s].at
               /\ Tail(queue[s]) = <<>> /\ sub'[s] = "on" => book'[s].at = 0
    <3>1. book'[s].at = queue[s][1].seq
      BY <1>3, <1>7, <2>1, <2>6 DEF HasBook
    <3>2. Tail(queue[s]) # <<>> /\ Head(Tail(queue[s])).kind = "update" =>
            Head(Tail(queue[s])).prev = queue[s][1].seq
      <4>1. 2 = 1 + 1
        OBVIOUS
      <4> QED BY <1>3, <2>1, <2>3, <4>1 DEF Joined, Linked
    <3>3. Tail(queue[s]) = <<>> /\ sub'[s] = "on" => queue[s][1].seq = 0
      BY <1>1, <1>2, <2>1, <2>4 DEF Joined
    <3> QED BY <3>1, <3>2, <3>3
  <2> QED BY <2>1, <2>2, <2>5, <2>6 DEF Joined, Message
<1>8. ASSUME restarts' = 0 \/ drops' = 0 PROVE Whole(s)'
  <2>1. restarts = 0 \/ drops = 0
    BY <1>1, <1>8
  <2>2. out'[s]
    BY <2>1 DEF Held, Whole
  <2>3. Message(s).seq # None
    BY <1>2, OldNumber DEF None
  <2>4. CASE book'[s] = [at |-> Message(s).seq, whole |-> TRUE] /\ last'[s] = Message(s).seq
    BY <2>2, <2>3, <2>4 DEF Whole
  <2>5. CASE book'[s] = book[s] /\ last'[s] = last[s]
    BY <2>1, <2>2, <2>5 DEF Held, Whole, HasBook
  <2>6. CASE book'[s] = NoBook
    BY <2>2, <2>6 DEF Whole, HasBook
  <2> QED BY <2>1, <2>4, <2>5, <2>6
<1> QED BY <1>5, <1>6, <1>7, <1>8 DEF Held

(* The steps that take a message, each a case of the lemma above.          *)
LEMMA ProcessTakes ==
  ASSUME Kinds, NEW s \in Symbols, Held(s),
         \/ ApplySnapshot(s) \/ RefuseUpdate(s) \/ BufferUpdate(s) \/ ApplyUpdate(s)
         \/ MismatchSpot(s) \/ MismatchDerivatives(s) \/ GiveQueueUp(s)
  PROVE  Kinds' /\ Takings(s) /\ Held(s)'
<1> DEFINE kept(b) == \E k \in Nat : Rest(buffer'[s], b, k)
<1>1. ASSUME buffer' = buffer PROVE kept(buffer[s])
  <2>1. \A i \in Indices(buffer[s]) : i + 0 = i
    BY DEF Indices
  <2>2. Rest(buffer'[s], buffer[s], 0)
    BY <1>1, <2>1 DEF Rest
  <2> QED BY <2>2
<1>2. CASE ApplySnapshot(s)
  <2>1. Takes(s) /\ Sorted(s) /\ (restarts = 0 \/ drops = 0 => out[s])
    BY <1>2 DEF ApplySnapshot, Held, Whole
  <2>2. PICK at \in 0..Old, k \in 0..Len(buffer[s]) :
          /\ book'[s] = [at |-> at, whole |-> TRUE] /\ last'[s] = at
          /\ Sorted(s) => at = Message(s).seq
          /\ \A i \in Indices(buffer'[s]) :
               i + k \in Indices(buffer[s]) /\ buffer'[s][i] = buffer[s][i + k]
    BY <1>2, SnapshotTaken
  <2>3. Kinds' /\ Takings(s) /\ out'[s] \in {out[s], TRUE}
    BY <1>2, SnapshotTaken
  <2>4. k \in Nat /\ Rest(buffer'[s], buffer[s], k)
    BY <2>2 DEF Rest
  <2> QED BY <2>1, <2>2, <2>3, <2>4, TakingHeld
<1>3. CASE RefuseUpdate(s)
  <2>1. /\ Kinds' /\ Takings(s) /\ Takes(s) /\ UNCHANGED <<buffer, out>>
        /\ Message(s).kind = "update" /\ ~Valid(s, Message(s))
        /\ (book'[s] = book[s] /\ last'[s] = last[s]) \/ book'[s] = NoBook
    BY <1>3, RefuseTaken
  <2>2. book'[s] # NoBook => drops' # 0
    <3>1. drops \in Nat /\ drops' \in {drops, drops + 1}
      BY <2>1 DEF Takings, Kinds
    <3>2. book'[s] # NoBook => drops # 0
      BY <2>1, UpdateContinues DEF HasBook
    <3> QED BY <3>1, <3>2
  <2> QED BY <1>1, <2>1, <2>2, TakingHeld
<1>4. CASE BufferUpdate(s)
  <2>1. /\ Kinds' /\ Takings(s) /\ Takes(s) /\ UNCHANGED <<book, out>> /\ ~HasBook(s)
        /\ \E k \in Nat : \A i \in Indices(buffer'[s]) :
             /\ i + k \in Indices(Append(buffer[s], Message(s)))
             /\ buffer'[s][i] = Append(buffer[s], Message(s))[i + k]
    BY <1>4, BufferTaken
  <2>2. kept(Append(buffer[s], Message(s)))
    BY <2>1 DEF Rest
  <2>3. book'[s] = NoBook
    BY <2>1 DEF HasBook
  <2> QED BY <2>1, <2>2, <2>3, TakingHeld
<1>5. CASE ApplyUpdate(s)
  <2>1. /\ Kinds' /\ Takings(s) /\ TakesUpdate(s) /\ buffer' = buffer
        /\ book'[s] = Updated(s, Message(s)) /\ last'[s] = Message(s).seq
        /\ out'[s] \in {out[s], Updated(s, Message(s)).whole}
    BY <1>5, ApplyTaken
  <2>2. /\ Takes(s) /\ Message(s).kind = "update" /\ HasBook(s) /\ Valid(s, Message(s))
    BY <2>1 DEF TakesUpdate
  <2>3. restarts = 0 \/ drops = 0 =>
          Updated(s, Message(s)) = [at |-> Message(s).seq, whole |-> TRUE]
    BY <2>2, UpdateContinues
  <2>4. Updated(s, Message(s)) = [at |-> Message(s).seq, whole |-> TRUE] =>
          Updated(s, Message(s)).whole = TRUE
    OBVIOUS
  <2> QED BY <1>1, <2>1, <2>2, <2>3, <2>4, TakingHeld
<1>6. CASE MismatchSpot(s) \/ MismatchDerivatives(s)
  <2>1. /\ Kinds' /\ Takings(s) /\ TakesUpdate(s) /\ UNCHANGED <<buffer, out>>
        /\ ~Updated(s, Message(s)).whole
    BY <1>6, MismatchTaken
  <2>2. Takes(s) /\ Message(s).kind = "update" /\ HasBook(s) /\ Valid(s, Message(s))
    BY <2>1 DEF TakesUpdate
  <2>3. ~ (restarts = 0 \/ drops = 0)
    BY <2>1, <2>2, UpdateContinues
  <2> QED BY <1>1, <2>1, <2>2, <2>3, TakingHeld
<1>7. CASE GiveQueueUp(s)
  <2>1. /\ Kinds' /\ Takings(s) /\ UNCHANGED <<buffer, out>> /\ drops' = drops + 1
        /\ book'[s] = NoBook \/ (book'[s] = book[s] /\ last'[s] = last[s])
    BY <1>7, QueueGivenUp
  <2>2. Takes(s) /\ drops' # 0
    <3>1. drops \in Nat
      BY DEF Kinds
    <3> QED BY <1>7, <2>1, <3>1 DEF GiveQueueUp
  <2> QED BY <1>1, <2>1, <2>2, TakingHeld
<1> QED BY <1>2, <1>3, <1>4, <1>5, <1>6, <1>7

-------------------------------------------------------------------------------
(* The theorems.                                                           *)

LEMMA InitIInv == Init => IInv
<1> SUFFICES ASSUME Init PROVE IInv
  OBVIOUS
<1>1. ASSUME NEW s \in Symbols PROVE Held(s)
  <2>1. Indices(<<>>) = {}
    BY DEF Indices
  <2>2. queue[s] = <<>> /\ buffer[s] = <<>> /\ book[s] = NoBook /\ out[s]
    BY DEF Init
  <2>3. Sorted(s) /\ NoneAgain(s)
    BY <2>1, <2>2 DEF Sorted, Descends, After, NoneAgain
  <2>4. Joined(s) /\ Whole(s)
    BY <2>1, <2>2 DEF Joined, Linked, Whole, HasBook
  <2> QED BY <2>3, <2>4 DEF Held
<1> QED BY <1>1, InitKinds DEF IInv

LEMMA IdlesIInv == ASSUME IInv, Kinds', Idles PROVE IInv'
BY IdlesHeld DEF IInv

(* A step at one symbol: it keeps what holds of that symbol, and so does   *)
(* what it leaves alone.                                                   *)
LEMMA OneSymbol ==
  ASSUME IInv, NEW s \in Symbols, Elsewhere(s), Kinds', Held(s)',
         drops' = 0 => drops = 0, restarts' = 0 => restarts = 0
  PROVE  IInv'
<1>1. ASSUME NEW u \in Symbols PROVE Held(u)'
  <2>1. CASE u = s
    BY <2>1
  <2>2. CASE u # s
    BY <2>2, ElsewhereHeld DEF IInv
  <2> QED BY <2>1, <2>2
<1> QED BY <1>1 DEF IInv

LEMMA NextIInv == IInv /\ [Next]_vars => IInv'
<1> SUFFICES ASSUME IInv, [Next]_vars PROVE IInv'
  OBVIOUS
<1>1. Kinds /\ drops \in Nat /\ restarts \in Nat /\ \A s \in Symbols : Held(s)
  BY DEF IInv, Kinds
<1>2. CASE Lose \/ Connect \/ \E s \in Symbols : Reject(s)
  BY <1>1, <1>2, ConnectionStep, IdlesIInv
<1>3. ASSUME NEW s \in Symbols, Update(s) PROVE IInv'
  <2>1. Kinds' /\ Elsewhere(s) /\ Held(s)'
    BY <1>1, <1>3, UpdateStep, UpdateHeld
  <2>2. drops' \in {drops, drops + 1} /\ restarts' \in {restarts, restarts + 1}
    BY <1>1, <1>3, UpdateStep
  <2> QED BY <1>1, <2>1, <2>2, OneSymbol
<1>4. ASSUME NEW s \in Symbols, Snapshot(s) PROVE IInv'
  <2>1. Kinds' /\ Elsewhere(s) /\ Held(s)'
    BY <1>1, <1>4, SnapshotStep, SnapshotHeld
  <2>2. drops' \in {drops, drops + 1} /\ restarts' = restarts
    BY <1>1, <1>4, SnapshotStep
  <2> QED BY <1>1, <2>1, <2>2, OneSymbol
<1>5. ASSUME NEW s \in Symbols,
             \/ ApplySnapshot(s) \/ RefuseUpdate(s) \/ BufferUpdate(s) \/ ApplyUpdate(s)
             \/ MismatchSpot(s) \/ MismatchDerivatives(s) \/ GiveQueueUp(s)
      PROVE  IInv'
  <2>1. Kinds' /\ Takings(s) /\ Held(s)'
    BY <1>1, <1>5, ProcessTakes
  <2>2. Elsewhere(s) /\ drops' \in {drops, drops + 1} /\ restarts' = restarts
    BY <2>1 DEF Takings
  <2> QED BY <1>1, <2>1, <2>2, OneSymbol
<1>6. ASSUME NEW s \in Symbols,
             \/ Unsubscribe(s) \/ Subscribe(s) \/ PauseEnds(s) \/ ResyncEnds(s)
             \/ ResetTasks(s) \/ TimePasses(s)
      PROVE  IInv'
  BY <1>1, <1>6, TaskStep, IdlesIInv
<1>7. CASE UNCHANGED vars
  <2>1. Kinds'
    BY <1>1, <1>7 DEF Kinds, vars, local, faults
  <2>2. Idles
    BY <1>7 DEF Idles, vars, local, faults
  <2> QED BY <2>1, <2>2, IdlesIInv
<1> QED BY <1>2, <1>3, <1>4, <1>5, <1>6, <1>7 DEF Next, Process, Exchange

(* What is kept of every symbol: the numbers it has waiting grow younger,  *)
(* and until something was dropped and the numbers started again its book  *)
(* is whole.                                                               *)
THEOREM Invariance == Spec => []IInv
BY InitIInv, NextIInv, PTL DEF Spec

(* Every variable keeps its type; queues and buffers keep within their     *)
(* sizes and the error counts below what would have cleared them           *)
(* (base_orderbook_manager.py).                                            *)
THEOREM TypeCorrect == Spec => []TypeOK
<1>1. IInv => TypeOK
  BY KindsTypes DEF IInv
<1> QED BY <1>1, Invariance, PTL

(* A book that was published with an update missing takes both: a message  *)
(* dropped, and numbers that started again, which the managers accept      *)
(* without a look at what came before (okx_spot_manager.py:213).  A full   *)
(* queue, a queue given up, a reset at any moment, a connection lost or a  *)
(* subscription begun again alone never lead to it.                        *)
THEOREM HolesTakeBoth == Spec => []HolesTakeARestart
<1>1. IInv => HolesTakeARestart
  <2> SUFFICES ASSUME IInv, NEW s \in Symbols PROVE out[s] \/ (restarts > 0 /\ drops > 0)
    BY DEF HolesTakeARestart
  <2>1. Held(s) /\ restarts \in Nat /\ drops \in Nat
    BY DEF IInv, Kinds
  <2>2. CASE restarts = 0 \/ drops = 0
    BY <2>1, <2>2 DEF Held, Whole
  <2>3. CASE restarts # 0 /\ drops # 0
    BY <2>1, <2>3
  <2> QED BY <2>2, <2>3
<1> QED BY <1>1, Invariance, PTL
===============================================================================
