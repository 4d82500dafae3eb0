---------------------------- MODULE SnapPollerProofs ----------------------------
(***************************************************************************)
(* SnapPoller for any number of symbols, outstanding requests, losses and  *)
(* refused connections.  The fetches keep in line for the lock, and none   *)
(* of them stands there twice but the one that holds it; none is closing a *)
(* connection while one is open; and a future is resolved by the answer to *)
(* the request that its fetch has registered, or failed.                   *)
(***************************************************************************)
EXTENDS SnapPoller, SequenceTheorems, FiniteSetTheorems, TLAPS

(* A request has the id under which the reader finds it.                   *)
Requests == {r \in [id : Nat, nr : Nat] : r.id = r.nr}
HeadPcs == {"lock", "closeReader", "closeSocket", "connect", "backoff"}

Shared ==
  /\ running \in BOOLEAN /\ sock \in {"none", "open", "lost"}
  /\ reader \in {"none", "running", "cancelled", "ended", "dead"}
  /\ asked \subseteq Requests /\ IsFiniteSet(asked) /\ inbox \in Seq(Requests)
  /\ Len(inbox) + Cardinality(asked) <= MaxUnanswered
  /\ losses \in 0..MaxLosses /\ refusals \in 0..MaxRefusals

Kinds ==
  /\ line \in Seq(Symbols) /\ fetch \in [Symbols -> FetchPcs]
  /\ request \in [Symbols -> Requests]
  /\ pending \subseteq [id : Nat \ {0}, symbol : Symbols]
  /\ future \in [Symbols -> Int] /\ cancelled \subseteq Symbols

(* Behind its head the line has each fetch once, waiting.                  *)
Once(q) == \A i, j \in 2..Len(q) : q[i] = q[j] => i = j
InLine ==
  /\ Once(line)
  /\ \A i \in 2..Len(line) : fetch[line[i]] = "lock"
  /\ line # <<>> => fetch[line[1]] \in HeadPcs

(* What is registered is what its fetch awaits.                            *)
Answers ==
  /\ \A p \in pending : request[p.symbol].id = p.id
  /\ \A s \in Symbols : future[s] # Awaited =>
       request[s] # NoRequest /\ future[s] \in {Failed, request[s].nr}

Local == Kinds /\ InLine /\ Answers
ClosesNone == sock = "open" => ~Closing
IInv == Shared /\ Local /\ ClosesNone

(* No fetch begins to close.                                               *)
NoNewCloser ==
  \A t \in Symbols : fetch'[t] \in {"closeReader", "closeSocket"} =>
                       fetch[t] \in {"closeReader", "closeSocket"}
Readers == {"none", "running", "cancelled", "ended", "dead"}

-------------------------------------------------------------------------------
(* The line.                                                               *)

LEMMA SymbolsAre == Symbols \in SUBSET Nat /\ IsFiniteSet(Symbols) /\ Cardinality(Symbols) = NSymbols
<1>1. NSymbols \in Nat /\ NSymbols >= 1
  BY SettingsAssumption
<1>2. IsFiniteSet(1..NSymbols) /\ Cardinality(1..NSymbols) = NSymbols
  BY <1>1, FS_Interval
<1> QED BY <1>1, <1>2 DEF Symbols

(* RemoveAt closes the gap.                                                *)
LEMMA LeaveOne ==
  ASSUME NEW q \in Seq(Symbols), NEW s, Contains(q, s)
  PROVE  \E c \in 1..Len(q) :
           /\ q[c] = s /\ Leave(q, s) \in Seq(Symbols)
           /\ Len(Leave(q, s)) = Len(q) - 1
           /\ \A i \in 1..Len(q) - 1 : Leave(q, s)[i] = IF i < c THEN q[i] ELSE q[i + 1]
<1>1. Len(q) \in Nat /\ DOMAIN q = 1..Len(q) /\ \A i \in 1..Len(q) : q[i] \in Symbols
  BY LenProperties, ElementOfSeq
<1> DEFINE c == CHOOSE i \in DOMAIN q : q[i] = s
           w == RemoveAt(q, c)
<1>2. c \in 1..Len(q) /\ q[c] = s
  BY <1>1 DEF Contains
<1>3. w = Leave(q, s)
  BY DEF Leave
<1> HIDE DEF c
<1>4. /\ SubSeq(q, 1, c - 1) \in Seq(Symbols) /\ Len(SubSeq(q, 1, c - 1)) = c - 1
      /\ \A i \in 1..c - 1 : SubSeq(q, 1, c - 1)[i] = q[i]
  <2>1. c - 1 \in Int /\ \A i \in 1..c - 1 : q[i] \in Symbols
    BY <1>1, <1>2
  <2> QED BY <1>2, <2>1, SubSeqProperties
<1>5. /\ SubSeq(q, c + 1, Len(q)) \in Seq(Symbols) /\ Len(SubSeq(q, c + 1, Len(q))) = Len(q) - c
      /\ \A i \in 1..Len(q) - c : SubSeq(q, c + 1, Len(q))[i] = q[c + i]
  <2>1. c \in Nat /\ 1 <= c /\ c <= Len(q) /\ Len(q) \in Nat
    BY <1>1, <1>2
  <2>2. c + 1 \in Int /\ \A i \in c + 1..Len(q) : i \in 1..Len(q)
    BY <2>1
  <2>3. \A i \in c + 1..Len(q) : q[i] \in Symbols
    BY <1>1, <2>2
  <2>4. /\ ~(c + 1 <= Len(q)) => Len(q) - c = 0
        /\ Len(q) - (c + 1) + 1 = Len(q) - c
    BY <2>1
  <2>5. \A i \in 1..Len(q) - c : (c + 1) + i - 1 = c + i
    BY <2>1
  <2> QED BY <1>1, <2>2, <2>3, <2>4, <2>5, SubSeqProperties
<1>6. /\ w \in Seq(Symbols) /\ Len(w) = Len(q) - 1
      /\ \A i \in 1..Len(q) - 1 : w[i] = IF i < c THEN q[i] ELSE q[i + 1]
  <2> DEFINE a == SubSeq(q, 1, c - 1)
             b == SubSeq(q, c + 1, Len(q))
  <2>1. a \in Seq(Symbols) /\ b \in Seq(Symbols) /\ w = a \o b
    BY <1>4, <1>5 DEF RemoveAt
  <2>2. Len(a) = c - 1 /\ Len(b) = Len(q) - c
    BY <1>4, <1>5
  <2>3. \A i \in 1..c - 1 : a[i] = q[i]
    BY <1>4
  <2>4. \A i \in 1..Len(q) - c : b[i] = q[c + i]
    BY <1>5
  <2> HIDE DEF a, b, w
  <2>5. /\ w \in Seq(Symbols) /\ Len(w) = Len(a) + Len(b)
        /\ \A i \in 1..Len(a) + Len(b) : w[i] = IF i <= Len(a) THEN a[i] ELSE b[i - Len(a)]
    BY <2>1, ConcatProperties
  <2>6. Len(w) = Len(q) - 1
    BY <1>1, <1>2, <2>2, <2>5
  <2>7. ASSUME NEW i \in 1..Len(q) - 1 PROVE w[i] = IF i < c THEN q[i] ELSE q[i + 1]
    <3>1. CASE i < c
      BY <1>1, <1>2, <2>2, <2>3, <2>5, <3>1
    <3>2. CASE ~(i < c)
      <4>1. i - Len(a) \in 1..Len(q) - c /\ ~(i <= Len(a)) /\ c + (i - Len(a)) = i + 1
        BY <1>1, <1>2, <2>2, <3>2
      <4>2. w[i] = b[i - Len(a)]
        <5>1. i \in 1..Len(a) + Len(b)
          BY <1>1, <1>2, <2>2
        <5> QED BY <2>5, <4>1, <5>1
      <4>3. b[i - Len(a)] = q[i + 1]
        BY <2>4, <4>1
      <4> QED BY <3>2, <4>2, <4>3
    <3> QED BY <3>1, <3>2
  <2> QED BY <2>5, <2>6, <2>7
<1> QED BY <1>2, <1>3, <1>6

(* Who leaves stands in the line no more if it stood there once; the       *)
(* others keep their order.                                                *)
LEMMA LeaveKeeps ==
  ASSUME NEW q \in Seq(Symbols), NEW s
  PROVE  /\ Leave(q, s) \in Seq(Symbols)
         /\ \A i \in 1..Len(Leave(q, s)) : \E k \in 1..Len(q) :
              Leave(q, s)[i] = q[k] /\ k >= i
         /\ Once(q) => Once(Leave(q, s))
         /\ Once(q) => \A i, j \in 1..Len(Leave(q, s)) :
              Leave(q, s)[i] = s /\ Leave(q, s)[j] = s => i = j
         /\ (\A i, j \in 1..Len(q) : q[i] = s /\ q[j] = s => i = j)
              => \A i \in 1..Len(Leave(q, s)) : Leave(q, s)[i] # s
<1> DEFINE w == Leave(q, s)
<1>1. Len(q) \in Nat
  BY LenProperties
<1>2. CASE ~Contains(q, s)
  <2>1. w = q /\ \A i \in 1..Len(q) : q[i] # s
    BY <1>2, LenProperties DEF Leave, Contains
  <2> QED BY <1>1, <2>1
<1>3. CASE Contains(q, s)
  <2>1. PICK c \in 1..Len(q) : /\ q[c] = s /\ w \in Seq(Symbols) /\ Len(w) = Len(q) - 1
                               /\ \A i \in 1..Len(q) - 1 : w[i] = IF i < c THEN q[i] ELSE q[i + 1]
    BY <1>3, LeaveOne
  <2> HIDE DEF w
  <2>2. \A i \in 1..Len(w) : \E k \in 1..Len(q) : w[i] = q[k] /\ k >= i
    BY <1>1, <2>1
  <2>3. Once(q) => Once(w)
    BY <1>1, <2>1 DEF Once
  <2>4. ASSUME Once(q), NEW i \in 1..Len(w), NEW j \in 1..Len(w), w[i] = s, w[j] = s PROVE i = j
    BY <1>1, <2>1, <2>4 DEF Once
  <2>5. ASSUME \A i, j \in 1..Len(q) : q[i] = s /\ q[j] = s => i = j, NEW i \in 1..Len(w)
        PROVE w[i] # s
    <3>1. CASE i < c
      <4>1. i \in 1..Len(q) /\ i # c /\ w[i] = q[i]
        BY <1>1, <2>1, <3>1
      <4> QED BY <2>1, <2>5, <4>1
    <3>2. CASE ~(i < c)
      <4>1. i + 1 \in 1..Len(q) /\ i + 1 # c /\ w[i] = q[i + 1]
        BY <1>1, <2>1, <3>2
      <4> QED BY <2>1, <2>5, <4>1
    <3> QED BY <3>1, <3>2
  <2> QED BY <2>1, <2>2, <2>3, <2>4, <2>5 DEF w
<1> QED BY <1>2, <1>3

LEMMA WithoutKeeps ==
  ASSUME line \in Seq(Symbols), Once(line), NEW s
  PROVE  /\ Without(s) \in Seq(Symbols) /\ Once(Without(s))
         /\ \A i \in 1..Len(Without(s)) : Without(s)[i] # s
         /\ \A i \in 1..Len(Without(s)) : \E k \in 1..Len(line) :
              Without(s)[i] = line[k] /\ k >= i
<1> DEFINE v == Leave(line, s)
           w == Leave(v, s)
<1>1. /\ v \in Seq(Symbols) /\ Once(v)
      /\ \A i, j \in 1..Len(v) : v[i] = s /\ v[j] = s => i = j
      /\ \A i \in 1..Len(v) : \E k \in 1..Len(line) : v[i] = line[k] /\ k >= i
  BY LeaveKeeps
<1> HIDE DEF v
<1>2. /\ w \in Seq(Symbols) /\ Once(w)
      /\ \A i \in 1..Len(w) : w[i] # s
      /\ \A i \in 1..Len(w) : \E k \in 1..Len(v) : w[i] = v[k] /\ k >= i
  BY <1>1, LeaveKeeps
<1>3. w = Without(s)
  BY DEF Without, v
<1> HIDE DEF w
<1>4. Len(line) \in Nat /\ Len(v) \in Nat /\ Len(w) \in Nat
  BY <1>1, <1>2, LenProperties
<1>5. ASSUME NEW i \in 1..Len(w) PROVE \E k \in 1..Len(line) : w[i] = line[k] /\ k >= i
  <2>1. PICK k \in 1..Len(v) : w[i] = v[k] /\ k >= i
    BY <1>2
  <2>2. PICK l \in 1..Len(line) : v[k] = line[l] /\ l >= k
    BY <1>1
  <2>3. l >= i /\ w[i] = line[l]
    BY <1>4, <2>1, <2>2
  <2> QED BY <2>3
<1> QED BY <1>2, <1>3, <1>5

(* As a line: it has room for each symbol once, and one more.              *)
LEMMA OnceIsShort ==
  ASSUME line \in Seq(Symbols), Once(line)
  PROVE  Len(line) <= NSymbols + 1
<1>1. Len(line) \in Nat /\ NSymbols \in Nat /\ \A i \in 1..Len(line) : line[i] \in Symbols
  BY SettingsAssumption, LenProperties, ElementOfSeq
<1> SUFFICES ASSUME Len(line) > NSymbols + 1 PROVE FALSE
  BY <1>1
<1> DEFINE S == 2..Len(line)
           f == [i \in S |-> line[i]]
<1>2. IsFiniteSet(S) /\ Cardinality(S) = Len(line) - 1
  BY <1>1, FS_Interval
<1>3. f \in [S -> Symbols]
  BY <1>1
<1>4. Cardinality(Symbols) < Cardinality(S)
  BY <1>1, <1>2, SymbolsAre
<1> HIDE DEF S, f
<1>5. \E i, j \in S : i # j /\ f[i] = f[j]
  BY <1>2, <1>3, <1>4, SymbolsAre, FS_PigeonHole
<1> QED BY <1>5 DEF Once, S, f

-------------------------------------------------------------------------------
(* The numbers.                                                            *)

LEMMA ElementsFinite ==
  ASSUME NEW q \in Seq(Requests)
  PROVE  /\ ToSet(q) \subseteq Requests /\ IsFiniteSet(ToSet(q))
         /\ Cardinality(ToSet(q)) <= Len(q)
<1>1. Len(q) \in Nat /\ DOMAIN q = 1..Len(q) /\ \A i \in 1..Len(q) : q[i] \in Requests
  BY LenProperties, ElementOfSeq
<1>2. IsFiniteSet(1..Len(q)) /\ Cardinality(1..Len(q)) = Len(q)
  <2>1. /\ 1 \in Int /\ Len(q) \in Int /\ 1 > Len(q) => Len(q) = 0
        /\ Len(q) - 1 + 1 = Len(q)
    BY <1>1
  <2> QED BY <2>1, FS_Interval
<1>3. q \in Surjection(1..Len(q), ToSet(q))
  <2>1. q \in [1..Len(q) -> ToSet(q)]
    BY <1>1, LenProperties DEF ToSet
  <2> QED BY <1>1, <2>1 DEF Surjection, ToSet
<1>4. IsFiniteSet(ToSet(q)) /\ Cardinality(ToSet(q)) <= Cardinality(1..Len(q))
  BY <1>2, <1>3, FS_Surjection
<1> QED BY <1>1, <1>2, <1>4 DEF ToSet

(* There is always a serial number that no outstanding request has.        *)
LEMMA SerialIsFree ==
  ASSUME Shared, request \in [Symbols -> Requests]
  PROVE  Serial \in Nat \ {0} /\ \A r \in Outstanding : r.nr # Serial
<1> DEFINE room == MaxUnanswered + NSymbols
           mine == {request[s] : s \in Symbols}
           numbers == {r.nr : r \in Outstanding}
<1>1. MaxUnanswered \in Nat /\ NSymbols \in Nat /\ room \in Nat
  BY SettingsAssumption
<1>2. IsFiniteSet(mine) /\ Cardinality(mine) <= NSymbols
  <2>1. request \in Surjection(Symbols, mine)
    BY DEF Surjection
  <2> QED BY <2>1, SymbolsAre, FS_Surjection
<1>3. /\ IsFiniteSet(asked) /\ inbox \in Seq(Requests)
      /\ Len(inbox) + Cardinality(asked) <= MaxUnanswered
  BY DEF Shared
<1>4. IsFiniteSet(ToSet(inbox)) /\ Cardinality(ToSet(inbox)) <= Len(inbox) /\ Len(inbox) \in Nat
  BY <1>3, ElementsFinite, LenProperties
<1>5. IsFiniteSet(Outstanding) /\ Cardinality(Outstanding) <= room
  <2> DEFINE a == asked
             b == ToSet(inbox)
  <2>1. IsFiniteSet(a \cup b) /\ Cardinality(a \cup b) <= MaxUnanswered
    <3>1. /\ IsFiniteSet(a \cup b)
          /\ Cardinality(a \cup b) = Cardinality(a) + Cardinality(b) - Cardinality(a \cap b)
      BY <1>3, <1>4, FS_Union
    <3>2. Cardinality(a \cap b) \in Nat /\ Cardinality(a) \in Nat /\ Cardinality(b) \in Nat
      <4>1. IsFiniteSet(a \cap b)
        BY <1>3, FS_Subset
      <4> QED BY <1>3, <1>4, <4>1, FS_CardinalityType
    <3> HIDE DEF a, b
    <3>3. Cardinality(b) <= Len(inbox) /\ Len(inbox) + Cardinality(a) <= MaxUnanswered
      BY <1>3, <1>4 DEF a, b
    <3> QED BY <1>1, <1>4, <3>1, <3>2, <3>3
  <2> DEFINE c == a \cup b
  <2> HIDE DEF mine
  <2>2. c \cup mine = Outstanding
    BY DEF Outstanding, mine
  <2> HIDE DEF c
  <2>3. IsFiniteSet(c) /\ Cardinality(c) <= MaxUnanswered
    BY <2>1 DEF c
  <2>4. /\ IsFiniteSet(c \cup mine)
        /\ Cardinality(c \cup mine) = Cardinality(c) + Cardinality(mine) - Cardinality(c \cap mine)
    BY <1>2, <2>3, FS_Union
  <2>5. Cardinality(c \cap mine) \in Nat /\ Cardinality(c) \in Nat /\ Cardinality(mine) \in Nat
    <3>1. IsFiniteSet(c \cap mine)
      BY <2>3, FS_Subset
    <3> QED BY <1>2, <2>3, <3>1, FS_CardinalityType
  <2>6. Cardinality(c \cup mine) <= room
    BY <1>1, <1>2, <2>3, <2>4, <2>5
  <2> QED BY <2>2, <2>4, <2>6
<1>6. IsFiniteSet(numbers) /\ Cardinality(numbers) <= room
  <2> DEFINE f == [r \in Outstanding |-> r.nr]
  <2>1. f \in Surjection(Outstanding, numbers)
    BY DEF Surjection
  <2> HIDE DEF f
  <2>2. IsFiniteSet(numbers) /\ Cardinality(numbers) <= Cardinality(Outstanding)
    BY <1>5, <2>1, FS_Surjection
  <2>3. Cardinality(numbers) \in Nat /\ Cardinality(Outstanding) \in Nat
    BY <1>5, <2>2, FS_CardinalityType
  <2> HIDE DEF numbers
  <2> QED BY <1>1, <1>5, <2>2, <2>3
<1>7. \E n \in 1..room + 1 : n \notin numbers
  <2> HIDE DEF numbers
  <2> SUFFICES ASSUME 1..room + 1 \subseteq numbers PROVE FALSE
    OBVIOUS
  <2>1. IsFiniteSet(1..room + 1) /\ Cardinality(1..room + 1) = room + 1
    <3>1. 1 \in Int /\ room + 1 \in Int /\ ~(1 > room + 1) /\ room + 1 - 1 + 1 = room + 1
      BY <1>1
    <3> QED BY <3>1, FS_Interval
  <2>2. Cardinality(1..room + 1) <= Cardinality(numbers)
    BY <1>6, FS_Subset
  <2>3. Cardinality(numbers) \in Nat
    BY <1>6, FS_CardinalityType
  <2> QED BY <1>1, <1>6, <2>1, <2>2, <2>3
<1>8. \E n \in 1..(MaxUnanswered + NSymbols + 1) : \A r \in Outstanding : r.nr # n
  BY <1>7
<1>9. Serial \in 1..(MaxUnanswered + NSymbols + 1) /\ \A r \in Outstanding : r.nr # Serial
  BY <1>8 DEF Serial
<1> QED BY <1>1, <1>9

-------------------------------------------------------------------------------
(* What the parts of the handlers do to the fetches and their requests.    *)

(* A fetch that leaves the line for good, or takes its head.               *)
LEMMA Leaves ==
  ASSUME Local, NEW s \in Symbols, NEW pc \in {"none", "send"},
         At(s, pc), line' = Without(s)
  PROVE  line' \in Seq(Symbols) /\ InLine'
<1>1. line \in Seq(Symbols) /\ Once(line) /\ fetch \in [Symbols -> FetchPcs]
  BY DEF Local, Kinds, InLine
<1> DEFINE w == Without(s)
<1>2. /\ w \in Seq(Symbols) /\ Once(w) /\ \A i \in 1..Len(w) : w[i] # s
      /\ \A i \in 1..Len(w) : \E k \in 1..Len(line) : w[i] = line[k] /\ k >= i
  BY <1>1, WithoutKeeps
<1> HIDE DEF w
<1>3. Len(w) \in Nat /\ Len(line) \in Nat /\ \A i \in 1..Len(w) : w[i] \in Symbols
  BY <1>1, <1>2, LenProperties, ElementOfSeq
<1>4. ASSUME NEW i \in 2..Len(w) PROVE fetch'[w[i]] = "lock"
  <2>1. i \in 1..Len(w)
    BY <1>3
  <2>2. PICK k \in 1..Len(line) : w[i] = line[k] /\ k >= i
    BY <1>2, <2>1
  <2>3. k \in 2..Len(line)
    BY <1>3, <2>2
  <2> QED BY <1>1, <1>2, <1>3, <2>1, <2>2, <2>3 DEF At, Local, InLine
<1>5. ASSUME w # <<>> PROVE fetch'[w[1]] \in HeadPcs
  <2>1. 1 \in 1..Len(w)
    BY <1>2, <1>3, <1>5, EmptySeq
  <2>2. PICK k \in 1..Len(line) : w[1] = line[k]
    BY <1>2, <2>1
  <2>3. line # <<>> /\ fetch[line[k]] \in HeadPcs
    <3>1. line # <<>>
      BY <1>3, <2>2, EmptySeq
    <3>2. k = 1 \/ k \in 2..Len(line)
      BY <1>3
    <3> QED BY <3>1, <3>2 DEF Local, InLine, HeadPcs
  <2> QED BY <1>1, <1>2, <1>3, <2>1, <2>2, <2>3 DEF At
<1>6. line' = w
  BY DEF w
<1> QED BY <1>2, <1>4, <1>5, <1>6 DEF InLine

LEMMA EndKeeps ==
  ASSUME Local, NEW s \in Symbols, End(s)
  PROVE  Local' /\ NoNewCloser
<1> USE DEF Local, Kinds
<1>1. At(s, "none") /\ line' = Without(s)
  BY DEF End, Released
<1>2. line' \in Seq(Symbols) /\ InLine'
  BY <1>1, Leaves
<1>3. fetch' \in [Symbols -> FetchPcs] /\ NoNewCloser
  BY <1>1 DEF At, FetchPcs, NoNewCloser
<1>4. NoRequest \in Requests /\ Awaited \in Int
  BY DEF NoRequest, Requests, Awaited
<1>5. /\ request' = [request EXCEPT ![s] = NoRequest] /\ pending' = Popped(s)
      /\ future' = [future EXCEPT ![s] = Awaited] /\ cancelled' = cancelled \ {s}
  BY DEF End
<1>6. /\ request' \in [Symbols -> Requests] /\ future' \in [Symbols -> Int]
      /\ pending' \subseteq [id : Nat \ {0}, symbol : Symbols] /\ cancelled' \subseteq Symbols
  BY <1>4, <1>5 DEF Popped
<1>7. \A p \in pending' : request'[p.symbol].id = p.id
  BY <1>5 DEF Answers, Popped
<1>8. \A t \in Symbols : future'[t] # Awaited =>
        request'[t] # NoRequest /\ future'[t] \in {Failed, request'[t].nr}
  BY <1>5 DEF Answers
<1> QED BY <1>2, <1>3, <1>6, <1>7, <1>8 DEF Answers

LEMMA EnsuredKeeps ==
  ASSUME Shared, Local, NEW s \in Symbols, Ensured(s)
  PROVE  Local' /\ NoNewCloser
<1>1. CASE request[s] # NoRequest
  BY <1>1, EndKeeps DEF Ensured
<1>2. CASE request[s] = NoRequest
  <2> DEFINE r == [id |-> Serial, nr |-> Serial]
  <2>1. /\ At(s, "send") /\ request' = [request EXCEPT ![s] = r]
        /\ pending' = {p \in pending : p.id # r.id} \cup {[id |-> r.id, symbol |-> s]}
        /\ line' = Without(s) /\ future' = future /\ cancelled' = cancelled
    BY <1>2 DEF Ensured, NextId, Released
  <2>2. Serial \in Nat \ {0}
    BY SerialIsFree DEF Local, Kinds
  <2>3. line' \in Seq(Symbols) /\ InLine'
    BY <2>1, Leaves
  <2> USE DEF Local, Kinds
  <2>4. fetch' \in [Symbols -> FetchPcs] /\ NoNewCloser
    BY <2>1 DEF At, FetchPcs, NoNewCloser
  <2>5. r \in Requests /\ r.id = Serial /\ r.nr = Serial
    BY <2>2 DEF Requests
  <2> HIDE DEF r
  <2>6. request' \in [Symbols -> Requests]
    BY <2>1, <2>5
  <2>7. pending' \subseteq [id : Nat \ {0}, symbol : Symbols]
    BY <2>1, <2>2, <2>5
  <2>8. \A p \in pending' : request'[p.symbol].id = p.id
    <3>1. \A p \in pending : p.symbol # s
      BY <1>2 DEF Answers, NoRequest
    <3> QED BY <2>1, <2>5, <3>1 DEF Answers
  <2>9. \A t \in Symbols : future'[t] # Awaited =>
          request'[t] # NoRequest /\ future'[t] \in {Failed, request'[t].nr}
    BY <1>2, <2>1 DEF Answers
  <2> QED BY <2>1, <2>3, <2>4, <2>6, <2>7, <2>8, <2>9 DEF Answers
<1> QED BY <1>1, <1>2

(* A fetch moves within the line, or without it.                           *)
LEMMA GoesKeeps ==
  ASSUME Local, NEW s \in Symbols, NEW pc \in FetchPcs, At(s, pc),
         UNCHANGED requests, cancelled' \subseteq cancelled,
         \/ line' = line /\ (pc \in HeadPcs \/ fetch[s] \notin HeadPcs)
            /\ \A i \in 2..Len(line) : line[i] # s
         \/ line' = <<s>> /\ pc \in HeadPcs
         \/ line' = Append(line, s) /\ pc = "lock" /\ line # <<>> /\ fetch[s] # "lock"
  PROVE  Local'
<1> USE DEF Local, Kinds
<1>1. fetch' \in [Symbols -> FetchPcs] /\ fetch' = [fetch EXCEPT ![s] = pc]
  BY DEF At
<1>2. Len(line) \in Nat /\ \A i \in 1..Len(line) : line[i] \in Symbols
  BY LenProperties, ElementOfSeq
<1>3. Answers' /\ cancelled' \subseteq Symbols /\ request' = request /\ pending' = pending /\ future' = future
  BY DEF requests, Answers
<1>4. line' \in Seq(Symbols) /\ InLine'
  <2>1. CASE /\ line' = line /\ (pc \in HeadPcs \/ fetch[s] \notin HeadPcs)
             /\ \A i \in 2..Len(line) : line[i] # s
    <3>1. \A i \in 2..Len(line) : fetch'[line[i]] = "lock"
      BY <1>1, <1>2, <2>1 DEF InLine
    <3>2. ASSUME line # <<>> PROVE fetch'[line[1]] \in HeadPcs
      <4>1. 1 \in 1..Len(line) /\ fetch[line[1]] \in HeadPcs
        BY <1>2, <3>2, EmptySeq DEF InLine
      <4> QED BY <1>1, <1>2, <2>1, <4>1
    <3> QED BY <2>1, <3>1, <3>2 DEF InLine
  <2>2. CASE line' = <<s>> /\ pc \in HeadPcs
    <3>1. line' \in Seq(Symbols) /\ Len(line') = 1 /\ line'[1] = s
      BY <2>2
    <3>2. fetch'[line'[1]] \in HeadPcs /\ 2..Len(line') = {}
      BY <1>1, <2>2, <3>1
    <3> QED BY <3>1, <3>2 DEF InLine, Once
  <2>3. CASE line' = Append(line, s) /\ pc = "lock" /\ line # <<>> /\ fetch[s] # "lock"
    <3>1. /\ line' \in Seq(Symbols) /\ Len(line') = Len(line) + 1 /\ line'[Len(line) + 1] = s
          /\ \A i \in 1..Len(line) : line'[i] = line[i]
      BY <2>3, AppendProperties
    <3>2. \A i \in 2..Len(line) : line[i] # s /\ fetch[line[i]] = "lock"
      BY <2>3 DEF InLine
    <3>3. \A i \in 2..Len(line') : fetch'[line'[i]] = "lock"
      BY <1>1, <1>2, <2>3, <3>1, <3>2
    <3>4. Once(line')
      <4>1. \A i \in 2..Len(line') :
              \/ i \in 2..Len(line) /\ line'[i] = line[i] /\ line'[i] # s
              \/ i = Len(line) + 1 /\ line'[i] = s
        BY <1>2, <3>1, <3>2
      <4>2. \A i, j \in 2..Len(line) : line[i] = line[j] => i = j
        BY DEF InLine, Once
      <4> QED BY <4>1, <4>2 DEF Once
    <3>5. fetch'[line'[1]] \in HeadPcs
      <4>1. 1 \in 1..Len(line) /\ fetch[line[1]] \in HeadPcs
        BY <1>2, <2>3, EmptySeq DEF InLine
      <4> QED BY <1>1, <1>2, <2>3, <3>1, <4>1 DEF HeadPcs
    <3> QED BY <3>1, <3>3, <3>4, <3>5 DEF InLine
  <2> QED BY <2>1, <2>2, <2>3
<1> QED BY <1>1, <1>3, <1>4

(* _close_ws begins only where there is no open connection.                *)
LEMMA CloseKeeps ==
  ASSUME Shared, Local, NEW s \in Symbols, NEW next \in {"connect", "backoff"},
         Close(s, next), sock # "open",
         \/ line' = line /\ \A i \in 2..Len(line) : line[i] # s
         \/ line' = <<s>>
  PROVE  Local' /\ (NoNewCloser \/ sock # "open") /\ reader' \in Readers
<1>1. PICK pc \in {"closeReader", "closeSocket", next} : At(s, pc)
  BY DEF Close, CloseSocket
<1>2. pc \in FetchPcs /\ pc \in HeadPcs
  BY DEF FetchPcs, HeadPcs
<1>3. UNCHANGED requests /\ cancelled' \subseteq cancelled
  BY DEF Close
<1>4. Local'
  BY <1>1, <1>2, <1>3, GoesKeeps
<1>5. reader' \in Readers
  BY DEF Close, Shared, Readers
<1> QED BY <1>4, <1>5

LEMMA WithLockKeeps ==
  ASSUME Shared, Local, NEW s \in Symbols, WithLock(s),
         \/ line = <<>>
         \/ Holds(s) /\ \A i \in 2..Len(line) : line[i] # s
  PROVE  Local' /\ (NoNewCloser \/ sock # "open") /\ reader' \in Readers
<1>1. CASE sock = "open"
  BY <1>1, EnsuredKeeps DEF WithLock, OpenedMeanwhile, Shared, Readers
<1>2. CASE sock # "open"
  <2>1. Close(s, "connect") /\ line' = <<s>> \o Without(s)
    BY <1>2 DEF WithLock, OpenedMeanwhile
  <2>2. line \in Seq(Symbols) /\ Once(line) /\ Len(line) \in Nat
    BY LenProperties DEF Local, Kinds, InLine
  <2>3. CASE line = <<>>
    <3>1. Without(s) = <<>>
      BY <2>3 DEF Without, Leave, Contains
    <3>2. line' = <<s>>
      BY <2>1, <3>1
    <3> QED BY <1>2, <2>1, <3>2, CloseKeeps
  <2>4. CASE line # <<>> /\ Holds(s) /\ \A i \in 2..Len(line) : line[i] # s
    <3>1. line' = line
      <4>1. line[1] = s /\ Len(line) >= 1 /\ \A i \in 1..Len(line) : line[i] \in Symbols
        BY <2>2, <2>4, EmptySeq, ElementOfSeq DEF Holds
      <4>2. Contains(line, s)
        BY <2>2, <4>1, LenProperties DEF Contains
      <4> DEFINE v == Leave(line, s)
      <4>3. PICK c \in 1..Len(line) :
              /\ line[c] = s /\ v \in Seq(Symbols) /\ Len(v) = Len(line) - 1
              /\ \A i \in 1..Len(line) - 1 : v[i] = IF i < c THEN line[i] ELSE line[i + 1]
        BY <2>2, <4>2, LeaveOne
      <4> HIDE DEF v
      <4>4. c = 1
        BY <2>2, <2>4, <4>3
      <4>5. \A i \in 1..Len(v) : v[i] = line[i + 1]
        BY <2>2, <4>3, <4>4
      <4>6. \A i \in 1..Len(v) : v[i] # s
        BY <2>2, <2>4, <4>3, <4>5
      <4>7. Without(s) = v
        BY <4>3, <4>6, LenProperties DEF Without, Leave, Contains, v
      <4>8. <<s>> \o v \in Seq(Symbols) /\ Len(<<s>> \o v) = Len(line)
            /\ \A i \in 1..Len(line) : (<<s>> \o v)[i] = line[i]
        <5>1. <<s>> \in Seq(Symbols) /\ Len(<<s>>) = 1 /\ <<s>>[1] = s
          OBVIOUS
        <5> HIDE DEF Symbols
        <5>2. /\ <<s>> \o v \in Seq(Symbols) /\ Len(<<s>> \o v) = 1 + Len(v)
              /\ \A i \in 1..1 + Len(v) : (<<s>> \o v)[i] = IF i <= 1 THEN <<s>>[i] ELSE v[i - 1]
          BY <4>3, <5>1, ConcatProperties
        <5>3. 1 + Len(v) = Len(line)
          BY <2>2, <4>3
        <5>4. \A i \in 1..Len(line) : i <= 1 \/ (i - 1 \in 1..Len(v) /\ (i - 1) + 1 = i)
          BY <2>2, <4>3
        <5>5. \A i \in 1..Len(line) : i <= 1 => i = 1
          BY <2>2
        <5> QED BY <4>1, <4>5, <5>1, <5>2, <5>3, <5>4, <5>5
      <4> QED BY <2>1, <2>2, <4>7, <4>8, SeqEqual
    <3> QED BY <1>2, <2>1, <2>4, <3>1, CloseKeeps
  <2> QED BY <2>3, <2>4
<1> QED BY <1>1, <1>2

LEMMA EnsureConnectionKeeps ==
  ASSUME Shared, Local, NEW s \in Symbols, EnsureConnection(s), fetch[s] # "lock"
  PROVE  Local' /\ (NoNewCloser \/ sock # "open") /\ reader' \in Readers
<1>1. CASE sock = "open"
  BY <1>1, EnsuredKeeps DEF EnsureConnection, Shared, Readers
<1>2. CASE sock # "open" /\ line = <<>>
  BY <1>2, WithLockKeeps DEF EnsureConnection
<1>3. CASE sock # "open" /\ line # <<>>
  <2>1. At(s, "lock") /\ line' = Append(line, s) /\ UNCHANGED <<requests, cancelled, reader>>
    BY <1>3 DEF EnsureConnection
  <2>2. "lock" \in FetchPcs
    BY DEF FetchPcs
  <2>3. Local'
    BY <1>3, <2>1, <2>2, GoesKeeps
  <2> QED BY <1>3, <2>1, <2>3 DEF Shared, Readers
<1> QED BY <1>1, <1>2, <1>3

-------------------------------------------------------------------------------
(* The steps of a fetch.                                                   *)

LEMMA Behind ==
  ASSUME Local, NEW s \in Symbols, fetch[s] # "lock"
  PROVE  \A i \in 2..Len(line) : line[i] # s
BY DEF Local, InLine

LEMMA QuietStep ==
  ASSUME IInv, Local', NoNewCloser \/ sock # "open", reader' \in Readers,
         UNCHANGED <<running, sock, exchange, refusals>>
  PROVE  IInv'
<1>1. Shared'
  BY DEF IInv, Shared, Readers, exchange
<1>2. ClosesNone'
  BY DEF IInv, ClosesNone, Closing, NoNewCloser
<1> QED BY <1>1, <1>2 DEF IInv

LEMMA ConnectingSteps ==
  ASSUME IInv, NEW s \in Symbols, FetchStarts(s) \/ LockGranted(s) \/ BackoffEnds(s)
  PROVE  IInv'
<1>1. Shared /\ Local /\ UNCHANGED <<running, sock, exchange, refusals>>
  BY DEF IInv, FetchStarts, LockGranted, BackoffEnds
<1>2. Local' /\ (NoNewCloser \/ sock # "open") /\ reader' \in Readers
  <2>1. CASE FetchStarts(s) \/ BackoffEnds(s)
    <3>1. EnsureConnection(s) /\ fetch[s] # "lock"
      BY <2>1 DEF FetchStarts, BackoffEnds
    <3> QED BY <1>1, <3>1, EnsureConnectionKeeps
  <2>2. CASE LockGranted(s)
    <3>1. WithLock(s) /\ Holds(s) /\ \A i \in 2..Len(line) : line[i] # s
      BY <2>2 DEF LockGranted
    <3> QED BY <1>1, <3>1, WithLockKeeps
  <2> QED BY <2>1, <2>2
<1> QED BY <1>1, <1>2, QuietStep

LEMMA ReaderAwaitedStep ==
  ASSUME IInv, NEW s \in Symbols, ReaderAwaited(s)
  PROVE  IInv'
<1>1. Shared /\ Local /\ UNCHANGED <<running, sock, exchange, refusals>> /\ fetch[s] = "closeReader"
  BY DEF IInv, ReaderAwaited
<1>2. CASE /\ reader' = "none" /\ CloseSocket(s, AfterClose(s))
           /\ UNCHANGED <<line, requests, cancelled>>
  <2>1. PICK pc \in {"closeSocket", "connect", "backoff"} : At(s, pc)
    BY <1>2 DEF CloseSocket, AfterClose
  <2>2. pc \in FetchPcs /\ pc \in HeadPcs
    BY DEF FetchPcs, HeadPcs
  <2>3. Local'
    <3>1. \A i \in 2..Len(line) : line[i] # s
      BY <1>1, Behind
    <3> QED BY <1>1, <1>2, <2>1, <2>2, <3>1, GoesKeeps
  <2>4. NoNewCloser
    BY <1>1, <2>1 DEF At, NoNewCloser, Local, Kinds
  <2> QED BY <1>1, <1>2, <2>3, <2>4, QuietStep DEF Readers
<1>3. CASE reader = "dead" /\ reader' = reader /\ End(s)
  BY <1>1, <1>3, EndKeeps, QuietStep DEF Readers
<1> QED BY <1>2, <1>3 DEF ReaderAwaited

LEMMA SocketClosedStep ==
  ASSUME IInv, NEW s \in Symbols, SocketClosed(s)
  PROVE  IInv'
<1>1. Shared /\ Local /\ fetch[s] = "closeSocket" /\ sock' = "none"
  BY DEF IInv, SocketClosed
<1>2. PICK pc \in {"connect", "backoff"} : At(s, pc)
  BY DEF SocketClosed, AfterClose
<1>3. Local'
  <2>1. \A i \in 2..Len(line) : line[i] # s
    BY <1>1, Behind
  <2>2. pc \in FetchPcs /\ pc \in HeadPcs
    BY DEF FetchPcs, HeadPcs
  <2>3. UNCHANGED requests /\ line' = line /\ cancelled' \subseteq cancelled
    BY DEF SocketClosed
  <2> QED BY <1>1, <1>2, <2>1, <2>2, <2>3, GoesKeeps
<1>4. Shared'
  BY <1>1 DEF SocketClosed, Shared, exchange
<1> QED BY <1>1, <1>3, <1>4 DEF IInv, ClosesNone

LEMMA ConnectedStep ==
  ASSUME IInv, NEW s \in Symbols, Connected(s)
  PROVE  IInv'
<1>1. Shared /\ Local /\ Ensured(s)
  BY DEF IInv, Connected
<1>2. Local' /\ NoNewCloser
  BY <1>1, EnsuredKeeps
<1>3. ClosesNone'
  BY <1>2 DEF Connected, Closing, ClosesNone, NoNewCloser
<1>4. Shared'
  <2>1. asked' = {} /\ inbox' = <<>> /\ sock' = "open" /\ reader' = "running"
        /\ UNCHANGED <<running, losses, refusals>>
    BY DEF Connected
  <2>2. IsFiniteSet({}) /\ Cardinality({}) = 0
    BY FS_EmptySet
  <2>3. inbox' \in Seq(Requests) /\ Len(inbox') = 0
    BY <2>1, EmptySeq
  <2>4. Cardinality(asked') = 0 /\ IsFiniteSet(asked') /\ asked' \subseteq Requests
    BY <2>1, <2>2
  <2>5. Len(inbox') + Cardinality(asked') <= MaxUnanswered
    BY <2>3, <2>4, SettingsAssumption
  <2> QED BY <1>1, <2>1, <2>3, <2>4, <2>5 DEF Shared
<1> QED BY <1>2, <1>3, <1>4 DEF IInv

LEMMA RefusedStep ==
  ASSUME IInv, NEW s \in Symbols, Refused(s)
  PROVE  IInv'
<1>1. Shared /\ Local /\ fetch[s] = "connect" /\ At(s, "backoff")
  BY DEF IInv, Refused
<1>2. Local'
  <2>1. \A i \in 2..Len(line) : line[i] # s
    BY <1>1, Behind
  <2>2. "backoff" \in FetchPcs /\ "backoff" \in HeadPcs
    BY DEF FetchPcs, HeadPcs
  <2>3. UNCHANGED requests /\ line' = line /\ cancelled' \subseteq cancelled
    BY DEF Refused
  <2> QED BY <1>1, <2>1, <2>2, <2>3, GoesKeeps
<1>3. NoNewCloser
  BY <1>1 DEF At, NoNewCloser, Local, Kinds
<1>4. Shared'
  <2>1. refusals' \in 0..MaxRefusals
    <3>1. MaxRefusals \in Nat /\ refusals \in 0..MaxRefusals /\ refusals < MaxRefusals
          /\ refusals' = refusals + 1
      BY <1>1, SettingsAssumption DEF Refused, Shared
    <3> QED BY <3>1
  <2> QED BY <1>1, <2>1 DEF Refused, Shared, exchange
<1>5. ClosesNone'
  BY <1>3 DEF IInv, ClosesNone, Closing, NoNewCloser, Refused
<1> QED BY <1>2, <1>4, <1>5 DEF IInv

LEMMA SentStep ==
  ASSUME IInv, NEW s \in Symbols, Sent(s)
  PROVE  IInv'
<1>1. Shared /\ Local /\ fetch[s] = "send" /\ At(s, "wait")
  BY DEF IInv, Sent
<1>2. Local'
  <2>1. \A i \in 2..Len(line) : line[i] # s
    BY <1>1, Behind
  <2>2. "wait" \in FetchPcs /\ fetch[s] \notin HeadPcs
    BY <1>1 DEF FetchPcs, HeadPcs
  <2>3. UNCHANGED requests /\ line' = line /\ cancelled' \subseteq cancelled
    BY DEF Sent
  <2> QED BY <1>1, <2>1, <2>2, <2>3, GoesKeeps
<1>3. NoNewCloser
  BY <1>1 DEF At, NoNewCloser, Local, Kinds
<1>4. Shared'
  <2>1. UNCHANGED <<running, sock, reader, inbox, losses, refusals>>
    BY DEF Sent
  <2>2. CASE asked' = asked
    BY <1>1, <2>1, <2>2 DEF Shared
  <2>3. CASE /\ Len(inbox) + Cardinality(asked) < MaxUnanswered
             /\ asked' = asked \cup {request[s]}
    <3>1. asked' \subseteq Requests
      BY <1>1, <2>3 DEF Shared, Local, Kinds
    <3>2. IsFiniteSet(asked) /\ inbox \in Seq(Requests)
      BY <1>1 DEF Shared
    <3>3. Len(inbox) \in Nat /\ Cardinality(asked) \in Nat
      BY <3>2, LenProperties, FS_CardinalityType
    <3>4. /\ IsFiniteSet(asked')
          /\ Cardinality(asked') = Cardinality(asked) \/ Cardinality(asked') = Cardinality(asked) + 1
      BY <2>3, <3>2, FS_AddElement
    <3>5. Len(inbox) + Cardinality(asked') <= MaxUnanswered
      BY <2>3, <3>3, <3>4, SettingsAssumption
    <3> QED BY <1>1, <2>1, <3>1, <3>4, <3>5 DEF Shared
  <2> QED BY <2>2, <2>3 DEF Sent
<1>5. ClosesNone'
  BY <1>3 DEF IInv, ClosesNone, Closing, NoNewCloser, Sent
<1> QED BY <1>2, <1>4, <1>5 DEF IInv

LEMMA SendFailsStep ==
  ASSUME IInv, NEW s \in Symbols, SendFails(s)
  PROVE  IInv'
<1>1. Shared /\ Local /\ fetch[s] = "send" /\ sock # "open"
      /\ UNCHANGED <<running, sock, exchange, refusals>>
  BY DEF IInv, SendFails
<1>2. CASE Close(s, "backoff") /\ UNCHANGED line
  BY <1>1, <1>2, Behind, CloseKeeps, QuietStep
<1>3. CASE End(s) /\ UNCHANGED reader
  BY <1>1, <1>3, EndKeeps, QuietStep DEF Shared, Readers
<1> QED BY <1>2, <1>3 DEF SendFails

LEMMA AnsweredStep ==
  ASSUME IInv, NEW s \in Symbols, Answered(s)
  PROVE  IInv'
<1>1. Shared /\ Local /\ fetch[s] = "wait" /\ reader' \in Readers
      /\ UNCHANGED <<running, sock, exchange, refusals>>
  BY DEF IInv, Answered, Shared, Readers
<1>2. CASE End(s)
  BY <1>1, <1>2, EndKeeps, QuietStep
<1>3. CASE At(s, "publish") /\ cancelled' = cancelled \ {s} /\ UNCHANGED <<line, requests>>
  <2>1. "publish" \in FetchPcs /\ fetch[s] \notin HeadPcs
    BY <1>1 DEF FetchPcs, HeadPcs
  <2>2. Local'
    BY <1>1, <1>3, <2>1, Behind, GoesKeeps
  <2>3. NoNewCloser
    BY <1>1, <1>3 DEF At, NoNewCloser, Local, Kinds
  <2> QED BY <1>1, <2>2, <2>3, QuietStep
<1> QED BY <1>2, <1>3 DEF Answered

LEMMA EndingSteps ==
  ASSUME IInv, NEW s \in Symbols, TimesOut(s) \/ Published(s) \/ FetchCancelled(s)
  PROVE  IInv'
<1>1. Local /\ End(s) /\ reader' \in Readers /\ UNCHANGED <<running, sock, exchange, refusals>>
  BY DEF IInv, TimesOut, Published, FetchCancelled, Shared, Readers
<1> QED BY <1>1, EndKeeps, QuietStep

LEMMA FetchStep == ASSUME IInv, NEW s \in Symbols, Fetch(s) PROVE IInv'
BY ConnectingSteps, ReaderAwaitedStep, SocketClosedStep, ConnectedStep, RefusedStep, SentStep,
   SendFailsStep, AnsweredStep, EndingSteps DEF Fetch

-------------------------------------------------------------------------------
(* The reader, the loop, stop() and the exchange.                          *)

LEMMA FailPendingKeeps ==
  ASSUME Local, FailPending, UNCHANGED <<line, fetch, request, cancelled>>
  PROVE  Local'
<1> USE DEF Local, Kinds, FailPending
<1>1. pending' = {} /\ InLine'
  BY DEF InLine
<1>2. Failed \in Int
  BY DEF Failed
<1>3. future' \in [Symbols -> Int]
  BY <1>2
<1>4. \A s \in Symbols : future'[s] # Awaited =>
        request'[s] # NoRequest /\ future'[s] \in {Failed, request'[s].nr}
  <2>1. ASSUME NEW s \in Symbols, NEW p \in pending, p.symbol = s PROVE request[s] # NoRequest
    BY <2>1 DEF Answers, NoRequest
  <2> QED BY <2>1 DEF Answers
<1> QED BY <1>1, <1>3, <1>4 DEF Answers

LEMMA ReaderEndsSteps ==
  ASSUME IInv, ReaderNotices \/ ReaderCancelled
  PROVE  IInv'
<1>1. Local'
  BY FailPendingKeeps DEF IInv, ReaderNotices, ReaderCancelled
<1>2. NoNewCloser
  BY DEF NoNewCloser, ReaderNotices, ReaderCancelled
<1> QED BY <1>1, <1>2, QuietStep DEF ReaderNotices, ReaderCancelled, EndsQuietly, Readers

(* The answer's number is that of the request it answers.                  *)
LEMMA ReaderTakesStep == ASSUME IInv, ReaderTakes PROVE IInv'
<1>1. Shared /\ Local /\ inbox # <<>>
  BY DEF IInv, ReaderTakes
<1> DEFINE answer == Head(inbox)
           addressee == {p.symbol : p \in {q \in pending : q.id = answer.id}}
<1>2. /\ inbox \in Seq(Requests) /\ Len(inbox) \in Nat /\ answer \in Requests
      /\ Tail(inbox) \in Seq(Requests) /\ Len(Tail(inbox)) = Len(inbox) - 1
  BY <1>1, HeadTailProperties, LenProperties DEF Shared
<1>3. PICK outcome \in {answer.nr, Failed} :
        future' = [s \in Symbols |-> IF s \in addressee /\ future[s] = Awaited
                                    THEN outcome ELSE future[s]]
  BY DEF ReaderTakes
<1>4. /\ pending' = {p \in pending : p.id # answer.id} /\ inbox' = Tail(inbox)
      /\ UNCHANGED <<running, sock, reader, line, fetch, request, cancelled, asked, losses,
                     refusals>>
  BY DEF ReaderTakes
<1>5. answer.nr \in Nat /\ answer.id = answer.nr /\ outcome \in Int
  BY <1>2 DEF Requests, Failed
<1>6. ASSUME NEW s \in addressee PROVE s \in Symbols => request[s] # NoRequest /\ request[s].nr = answer.nr
  <2>1. PICK p \in pending : p.symbol = s /\ p.id = answer.id
    OBVIOUS
  <2>2. p.id # 0 /\ p.symbol \in Symbols /\ request[s].id = p.id
    BY <1>1, <2>1 DEF Local, Kinds, Answers
  <2>3. request[s] \in Requests
    BY <1>1, <2>1, <2>2 DEF Local, Kinds
  <2> QED BY <1>5, <2>1, <2>2, <2>3 DEF Requests, NoRequest
<1> HIDE DEF answer, addressee
<1>7. future' \in [Symbols -> Int]
  BY <1>1, <1>3, <1>5 DEF Local, Kinds
<1>8. Answers'
  <2>1. \A p \in pending' : request'[p.symbol].id = p.id
    BY <1>1, <1>4 DEF Local, Answers
  <2>2. ASSUME NEW s \in Symbols, future'[s] # Awaited
        PROVE  request[s] # NoRequest /\ future'[s] \in {Failed, request[s].nr}
    BY <1>1, <1>3, <1>6, <2>2 DEF Local, Answers
  <2> QED BY <1>4, <2>1, <2>2 DEF Answers
<1>9. Local'
  BY <1>1, <1>4, <1>7, <1>8 DEF Local, Kinds, InLine
<1>10. Shared'
  <2>1. Cardinality(asked) \in Nat /\ MaxUnanswered \in Nat
        /\ Len(inbox) + Cardinality(asked) <= MaxUnanswered
    BY <1>1, FS_CardinalityType, SettingsAssumption DEF Shared
  <2>2. Len(inbox') + Cardinality(asked) <= MaxUnanswered
    BY <1>2, <1>4, <2>1
  <2> QED BY <1>1, <1>2, <1>4, <2>2 DEF Shared
<1> QED BY <1>4, <1>9, <1>10 DEF IInv, ClosesNone, Closing

LEMMA TickStep == ASSUME IInv, Tick PROVE IInv'
<1>1. fetch' = [s \in Symbols |-> IF s \in Idle THEN "new" ELSE fetch[s]]
      /\ UNCHANGED <<running, sock, reader, line, requests, cancelled, exchange, refusals>>
  BY DEF Tick
<1>2. Local
  BY DEF IInv
<1>3. fetch' \in [Symbols -> FetchPcs]
  BY <1>1, <1>2 DEF Local, Kinds, FetchPcs
<1>4. InLine'
  <2>1. line \in Seq(Symbols) /\ Len(line) \in Nat /\ \A i \in 1..Len(line) : line[i] \in Symbols
    BY <1>2, LenProperties, ElementOfSeq DEF Local, Kinds
  <2>2. \A i \in 2..Len(line) : fetch'[line[i]] = "lock"
    BY <1>1, <1>2, <2>1 DEF Local, InLine, Idle
  <2>3. ASSUME line # <<>> PROVE fetch'[line[1]] \in HeadPcs
    <3>1. 1 \in 1..Len(line) /\ fetch[line[1]] \in HeadPcs
      BY <1>2, <2>1, <2>3, EmptySeq DEF Local, InLine
    <3> QED BY <1>1, <2>1, <3>1 DEF HeadPcs, Idle
  <2> QED BY <1>1, <1>2, <2>2, <2>3 DEF Local, InLine
<1>5. Local'
  BY <1>1, <1>2, <1>3, <1>4 DEF Local, Kinds, Answers, requests
<1>6. NoNewCloser
  BY <1>1 DEF NoNewCloser
<1> QED BY <1>1, <1>5, <1>6, QuietStep DEF IInv, Shared, Readers

LEMMA StopStep == ASSUME IInv, Stop PROVE IInv'
<1>1. /\ running' = FALSE /\ cancelled' \subseteq Symbols
      /\ UNCHANGED <<sock, reader, line, fetch, requests, exchange, refusals>>
  BY DEF Stop
<1>2. Local'
  BY <1>1 DEF IInv, Local, Kinds, InLine, Answers, requests
<1>3. Shared'
  BY <1>1 DEF IInv, Shared, exchange
<1> QED BY <1>1, <1>2, <1>3 DEF IInv, ClosesNone, Closing

LEMMA AnswerStep == ASSUME IInv, Answer PROVE IInv'
<1>1. PICK r \in asked : asked' = asked \ {r} /\ inbox' = Append(inbox, r)
  BY DEF Answer
<1>2. UNCHANGED <<running, sock, reader, line, fetch, requests, cancelled, losses, refusals>>
  BY DEF Answer
<1>3. Shared /\ r \in Requests /\ inbox \in Seq(Requests) /\ IsFiniteSet(asked)
  BY DEF IInv, Shared
<1>4. inbox' \in Seq(Requests) /\ Len(inbox') = Len(inbox) + 1 /\ Len(inbox) \in Nat
  BY <1>1, <1>3, AppendProperties, LenProperties
<1>5. IsFiniteSet(asked') /\ Cardinality(asked') = Cardinality(asked) - 1 /\ asked' \subseteq Requests
  BY <1>1, <1>3, FS_RemoveElement DEF Shared
<1>6. Cardinality(asked) \in Nat
  BY <1>3, FS_CardinalityType
<1>7. Len(inbox') + Cardinality(asked') <= MaxUnanswered
  <2>1. Len(inbox) + Cardinality(asked) <= MaxUnanswered
    BY <1>3 DEF Shared
  <2>2. Len(inbox') + Cardinality(asked') = Len(inbox) + Cardinality(asked)
    BY <1>4, <1>5, <1>6
  <2> QED BY <2>1, <2>2
<1>8. Shared'
  BY <1>2, <1>3, <1>4, <1>5, <1>7 DEF Shared
<1>9. Local'
  BY <1>2 DEF IInv, Local, Kinds, InLine, Answers, requests
<1> QED BY <1>2, <1>8, <1>9 DEF IInv, ClosesNone, Closing

LEMMA LoseStep == ASSUME IInv, Lose PROVE IInv'
<1>1. /\ sock' = "lost" /\ losses' = losses + 1 /\ asked' = {} /\ losses < MaxLosses
      /\ UNCHANGED <<running, reader, line, fetch, requests, cancelled, inbox, refusals>>
  BY DEF Lose
<1>2. Shared
  BY DEF IInv
<1>3. IsFiniteSet(asked') /\ Cardinality(asked') = 0
  BY <1>1, FS_EmptySet
<1>4. Len(inbox') + Cardinality(asked') <= MaxUnanswered
  <2>1. /\ Cardinality(asked) \in Nat /\ Len(inbox) \in Nat /\ MaxUnanswered \in Nat
        /\ Len(inbox) + Cardinality(asked) <= MaxUnanswered
    BY <1>2, FS_CardinalityType, LenProperties, SettingsAssumption DEF Shared
  <2> QED BY <1>1, <1>3, <2>1
<1>5. losses' \in 0..MaxLosses
  <2>1. losses \in 0..MaxLosses /\ MaxLosses \in Nat
    BY <1>2, SettingsAssumption DEF Shared
  <2> QED BY <1>1, <2>1
<1>6. Shared'
  BY <1>1, <1>2, <1>3, <1>4, <1>5 DEF Shared
<1>7. Local'
  BY <1>1 DEF IInv, Local, Kinds, InLine, Answers, requests
<1> QED BY <1>1, <1>6, <1>7 DEF IInv, ClosesNone

LEMMA InitIInv == Init => IInv
<1> SUFFICES ASSUME Init PROVE IInv
  OBVIOUS
<1>1. IsFiniteSet({}) /\ Cardinality({}) = 0
  BY FS_EmptySet
<1>2. <<>> \in Seq(Requests) /\ <<>> \in Seq(Symbols) /\ Len(<<>>) = 0
  BY EmptySeq
<1>3. NoRequest \in Requests /\ Awaited \in Int
  BY DEF NoRequest, Requests, Awaited
<1>4. MaxUnanswered \in Nat /\ MaxLosses \in Nat /\ MaxRefusals \in Nat
  BY SettingsAssumption
<1>5. Len(inbox) + Cardinality(asked) <= MaxUnanswered
  BY <1>1, <1>2, <1>4 DEF Init
<1>6. Shared
  BY <1>1, <1>2, <1>4, <1>5 DEF Init, Shared
<1>7. Kinds
  BY <1>2, <1>3 DEF Init, Kinds, FetchPcs
<1>8. InLine
  <2>1. line = <<>> /\ 2..Len(line) = {}
    BY <1>2 DEF Init
  <2> QED BY <2>1 DEF InLine, Once
<1>9. Answers
  BY DEF Init, Answers
<1>10. ClosesNone
  BY DEF Init, ClosesNone
<1> QED BY <1>6, <1>7, <1>8, <1>9, <1>10 DEF IInv, Local

LEMMA StepIInv == IInv /\ [Next]_vars => IInv'
<1> SUFFICES ASSUME IInv, [Next]_vars PROVE IInv'
  OBVIOUS
<1>1. CASE UNCHANGED vars
  BY <1>1 DEF vars, exchange, requests, IInv, Shared, Local, Kinds, InLine, Once, Answers,
              ClosesNone, Closing
<1>2. CASE Next
  BY <1>2, FetchStep, ReaderEndsSteps, ReaderTakesStep, TickStep, StopStep, AnswerStep, LoseStep
     DEF Next, Reader
<1> QED BY <1>1, <1>2

-------------------------------------------------------------------------------

(* The order of the line for the lock, the requests that are registered    *)
(* and awaited, and who may close a connection agree in every behaviour.   *)
THEOREM Invariance == Spec => []IInv
BY InitIInv, StepIInv, PTL DEF Spec

(* Every variable of the poller keeps its type, and the line for the lock  *)
(* is never longer than one place for each symbol and one more.            *)
THEOREM TypeCorrect == Spec => []TypeOK
<1>1. IInv => TypeOK
  <2> SUFFICES ASSUME IInv PROVE TypeOK
    OBVIOUS
  <2>1. Len(line) <= NSymbols + 1
    BY OnceIsShort DEF IInv, Local, Kinds, InLine
  <2>2. \A s \in Symbols : request[s].nr \in Nat /\ future[s] \in Int
    BY DEF IInv, Local, Kinds, Requests
  <2> QED BY <2>1, <2>2 DEF IInv, Shared, Local, Kinds, TypeOK
<1> QED BY <1>1, Invariance, PTL

(* A snapshot that is published answers the very request its fetch sent,   *)
(* however late the answers of earlier requests come.                      *)
THEOREM OwnAnswersOnly == Spec => []AnswersAreOwn
<1>1. IInv => AnswersAreOwn
  BY DEF IInv, Local, Answers, AnswersAreOwn, Awaited, Failed
<1> QED BY <1>1, Invariance, PTL

(* No fetch closes a connection that another has just opened: an open      *)
(* connection ends only by its peer.                                       *)
THEOREM ClosedByPeersOnly == Spec => OnlyPeersClose
<1>1. IInv /\ [Next]_vars => [sock = "open" => sock' \in {"open", "lost"}]_vars
  <2> SUFFICES ASSUME IInv, Next, sock = "open" PROVE sock' \in {"open", "lost"}
    OBVIOUS
  <2>1. ASSUME NEW s \in Symbols, Fetch(s) PROVE sock' \in {"open", "lost"}
    <3>1. ~SocketClosed(s)
      BY DEF SocketClosed, IInv, ClosesNone, Closing
    <3> QED BY <2>1, <3>1 DEF Fetch, FetchStarts, LockGranted, ReaderAwaited, Connected, Refused,
                BackoffEnds, Sent, SendFails, Answered, TimesOut, Published, FetchCancelled
  <2> QED BY <2>1 DEF Next, Tick, Stop, Answer, Lose, Reader, ReaderTakes, ReaderNotices,
                ReaderCancelled
<1> QED BY <1>1, Invariance, PTL DEF Spec, OnlyPeersClose
===============================================================================
