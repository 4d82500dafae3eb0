---------------------------- MODULE HotBatchProofs ----------------------------
(***************************************************************************)
(* HotBatch for any number of types, rows and faults, and any thresholds   *)
(* and retries.  First, its tasks keep in line: one task holds the lock of *)
(* a type, the one that flushes holds it, and stop() and the timers agree  *)
(* on which of them is being cancelled.  Then, what becomes of the rows:   *)
(* every step, whoever takes it, does one of a few things to them (Moves); *)
(* a row is in one place (Sorted); from these follow what the service      *)
(* promises about the rows.                                                *)
(***************************************************************************)
EXTENDS HotBatch, SequenceTheorems, TLAPS

(* Types.  A job has rows left exactly while it is at work; only a single  *)
(* row is tried more than once.                                            *)
Tasks == {"cb", "timer", "stop"}
Lines == Seq(Tasks)
Stands(x, t) == x \in ToSet(line[t])

Jobs == {j \in [rest : Seq(Rows), single : Nat, try : 0..MaxRetries,
                at : {"none", "tcp", "http", "sleep", "end"}] :
           /\ j.single <= Len(j.rest)
           /\ j.rest = <<>> <=> j.at \in {"none", "end"}
           /\ j.at = "sleep" => j.single > 0 /\ j.try < MaxRetries
           /\ j.try > 0 => j.single > 0}

Kinds ==
  /\ running \in BOOLEAN /\ driver \in BOOLEAN
  /\ subscribed \in SUBSET Types /\ cancelled \in SUBSET Types
  /\ buffer \in [Types -> Seq(Rows)] /\ \A t \in Types : Len(buffer[t]) < Threshold[t]
  /\ line \in [Types -> Lines] /\ waiting \in [Types -> SUBSET Rows]
  /\ timer \in [Types -> TimerPcs] /\ job \in [Types -> Jobs]
  /\ keys \in Seq(Types) /\ timerKeys \in Seq(Types) /\ todo \in Seq(Types)
  /\ stop \in StopPcs /\ scan \in [at : Nat \ {0}, size : Nat]
  /\ stored \in [Rows -> Nat] /\ faults \in 0..MaxFaults
  /\ received \in SUBSET Rows /\ early \in SUBSET received /\ dropped \in SUBSET received

(* Where stop() is, as seen from a type.                                   *)
StopAt(t) == IF stop \in {"lock", "flushing"} /\ Head(todo) = t THEN stop ELSE "away"

(* The holder of the lock is in a flush.                                   *)
Flushing(t) ==
  \/ Holder(t) = "cb" /\ waiting[t] = {}
  \/ Holder(t) = "timer" /\ timer[t] \in {"flush", "lastFlush"}
  \/ Holder(t) = "stop" /\ StopAt(t) = "flushing"

(* The line of a type, the job of its holder, and where the three tasks    *)
(* believe to be.                                                          *)
InLine(t) ==
  /\ IsInjective(line[t])
  /\ waiting[t] # {} => Stands("cb", t)
  /\ Stands("cb", t) /\ waiting[t] = {} => Holder(t) = "cb"
  /\ Stands("timer", t) <=> timer[t] \in {"lock", "flush", "lastLock", "lastFlush"}
  /\ timer[t] \in {"flush", "lastFlush"} => Holder(t) = "timer"
  /\ Stands("stop", t) <=> StopAt(t) # "away"
  /\ StopAt(t) = "flushing" => Holder(t) = "stop"
  /\ job[t].at # "none" <=> Flushing(t)
  /\ \A r, s \in waiting[t] : r = s

(* stop() and the timers: a timer is cancelled only while stop() waits for *)
(* that very one, and only a cancelled timer is in its last flush.         *)
Stopping ==
  /\ stop \in {"lock", "flushing"} => todo # <<>>
  /\ stop = "awaitTimer" => scan.at \in 1..Len(timerKeys)
  /\ \A t \in cancelled : /\ stop = "awaitTimer" /\ timerKeys[scan.at] = t
                          /\ timer[t] \in {"new", "sleep", "lock", "flush"}
  /\ \A t \in Types : timer[t] \in {"lastLock", "lastFlush"} =>
       stop = "awaitTimer" /\ timerKeys[scan.at] = t /\ t \notin cancelled

(* One task runs at a time.                                                *)
Busy(t) == job[t].at \in {"tcp", "end"}
Exclusive ==
  /\ stop \in {"flush", "cancel", "unsub", "closed"} => \A t \in Types : ~Busy(t)
  /\ \A t, u \in Types : Busy(t) /\ Busy(u) => t = u
  /\ \A t \in Types : t \in cancelled /\ timer[t] = "flush" => ~Busy(t)

Frame == Kinds /\ (\A t \in Types : InLine(t)) /\ Stopping

-------------------------------------------------------------------------------
(* Sequences and what they contain.                                        *)

(* Append adds one element, Tail takes the first away, and a sequence      *)
(* without repetition stays one.                                           *)
LEMMA ContainsEmpty == \A r : ~Contains(<<>>, r)
BY DEF Contains

LEMMA ContainsAppend ==
  ASSUME NEW S, NEW s \in Seq(S), NEW e \in S, NEW r
  PROVE  Contains(Append(s, e), r) <=> Contains(s, r) \/ r = e
<1>1. /\ Len(Append(s, e)) = Len(s) + 1 /\ Append(s, e)[Len(s) + 1] = e /\ Len(s) \in Nat
      /\ \A i \in 1..Len(s) : Append(s, e)[i] = s[i]
  BY AppendProperties, LenProperties
<1>2. ASSUME Contains(Append(s, e), r), r # e PROVE Contains(s, r)
  BY <1>1, <1>2 DEF Contains
<1>3. ASSUME Contains(s, r) PROVE Contains(Append(s, e), r)
  <2>1. PICK i \in 1..Len(s) : s[i] = r
    BY <1>3 DEF Contains
  <2>2. i \in 1..Len(Append(s, e)) /\ Append(s, e)[i] = r
    BY <1>1, <2>1
  <2> QED BY <2>2 DEF Contains
<1>4. Contains(Append(s, e), e)
  <2>1. Len(s) + 1 \in 1..Len(Append(s, e))
    BY <1>1
  <2> QED BY <1>1, <2>1 DEF Contains
<1> QED BY <1>2, <1>3, <1>4

LEMMA ContainsTail ==
  ASSUME NEW S, NEW s \in Seq(S), s # <<>>, NEW r, Contains(s, r), r # Head(s)
  PROVE  Contains(Tail(s), r)
<1>1. PICK i \in 1..Len(s) : s[i] = r
  BY DEF Contains
<1>2. /\ Len(Tail(s)) = Len(s) - 1 /\ Len(s) \in Nat
      /\ \A k \in 1..Len(Tail(s)) : Tail(s)[k] = s[k + 1]
  BY HeadTailProperties, LenProperties
<1>3. i # 1
  BY <1>1
<1>4. i - 1 \in 1..Len(Tail(s)) /\ Tail(s)[i - 1] = r
  BY <1>1, <1>2, <1>3
<1> QED BY <1>4 DEF Contains

LEMMA InjectiveEmpty == IsInjective(<<>>)
BY DEF IsInjective

LEMMA InjectiveAppend ==
  ASSUME NEW S, NEW s \in Seq(S), NEW e \in S, IsInjective(s), ~Contains(s, e)
  PROVE  IsInjective(Append(s, e))
<1>1. /\ Len(Append(s, e)) = Len(s) + 1 /\ Append(s, e)[Len(s) + 1] = e /\ Len(s) \in Nat
      /\ \A i \in 1..Len(s) : Append(s, e)[i] = s[i]
      /\ DOMAIN Append(s, e) = 1..Len(Append(s, e)) /\ DOMAIN s = 1..Len(s)
  BY AppendProperties, LenProperties
<1>2. ASSUME NEW i \in 1..Len(s) + 1, NEW k \in 1..Len(s) + 1, i < k,
             Append(s, e)[i] = Append(s, e)[k]
      PROVE FALSE
  <2>1. i \in 1..Len(s) /\ Append(s, e)[i] = s[i]
    BY <1>1, <1>2
  <2>2. CASE k = Len(s) + 1
    BY <1>1, <1>2, <2>1, <2>2 DEF Contains
  <2>3. CASE k \in 1..Len(s)
    <3>1. s[i] = s[k] /\ i \in DOMAIN s /\ k \in DOMAIN s
      BY <1>1, <1>2, <2>1, <2>3
    <3>2. i = k
      BY <3>1 DEF IsInjective
    <3> QED BY <1>2, <3>2
  <2> QED BY <1>1, <2>2, <2>3
<1> QED BY <1>1, <1>2 DEF IsInjective

-------------------------------------------------------------------------------
(* Lines of a lock.                                                        *)

(* The line after each of the things that happen to it: it is joined at    *)
(* its end, left at its head, or left from within.                         *)
LEMMA LineEmpty ==
  ASSUME NEW q \in Lines
  PROVE  q = <<>> <=> ToSet(q) = {}
<1>1. q # <<>> => Head(q) \in ToSet(q)
  BY EmptySeq, LenProperties DEF ToSet, Lines
<1>2. ToSet(<<>>) = {}
  BY DEF ToSet
<1> QED BY <1>1, <1>2

LEMMA LineSingle ==
  ASSUME NEW x \in Tasks
  PROVE  /\ <<x>> \in Lines /\ <<x>> # <<>> /\ IsInjective(<<x>>) /\ ToSet(<<x>>) = {x}
         /\ Head(<<x>>) = x
<1>1. ToSet(<<x>>) = {x}
  BY DEF ToSet
<1>2. IsInjective(<<x>>)
  BY DEF IsInjective
<1> QED BY <1>1, <1>2 DEF Lines

LEMMA LineAppend ==
  ASSUME NEW q \in Lines, NEW x \in Tasks, IsInjective(q), x \notin ToSet(q)
  PROVE  /\ Append(q, x) \in Lines /\ Append(q, x) # <<>> /\ IsInjective(Append(q, x))
         /\ ToSet(Append(q, x)) = ToSet(q) \cup {x}
         /\ Head(Append(q, x)) = IF q = <<>> THEN x ELSE Head(q)
<1>1. Append(q, x) \in Lines /\ Append(q, x) # <<>>
      /\ Head(Append(q, x)) = IF q = <<>> THEN x ELSE Head(q)
  BY AppendProperties, HeadTailAppend DEF Lines
<1>2. \A s \in Lines : \A y : y \in ToSet(s) <=> Contains(s, y)
  BY LenProperties DEF ToSet, Contains, Lines
<1>3. IsInjective(Append(q, x))
  BY <1>2, InjectiveAppend DEF Lines
<1>4. \A y : y \in ToSet(Append(q, x)) <=> y \in ToSet(q) \/ y = x
  BY <1>1, <1>2, ContainsAppend DEF Lines
<1> QED BY <1>1, <1>3, <1>4

LEMMA LineTail ==
  ASSUME NEW q \in Lines, q # <<>>, IsInjective(q)
  PROVE  /\ Tail(q) \in Lines /\ IsInjective(Tail(q))
         /\ Head(q) \in ToSet(q) /\ ToSet(Tail(q)) = ToSet(q) \ {Head(q)}
<1>1. /\ Tail(q) \in Lines /\ Len(Tail(q)) = Len(q) - 1 /\ Len(q) \in Nat \ {0}
      /\ \A i \in 1..Len(Tail(q)) : Tail(q)[i] = q[i + 1]
      /\ DOMAIN q = 1..Len(q) /\ DOMAIN Tail(q) = 1..Len(Tail(q)) /\ Head(q) = q[1]
  BY HeadTailProperties, LenProperties, EmptySeq DEF Lines
<1>2. IsInjective(Tail(q))
  BY <1>1 DEF IsInjective
<1>3. Head(q) \in ToSet(q)
  BY <1>1 DEF ToSet
<1>4. ASSUME NEW y \in ToSet(Tail(q)) PROVE y \in ToSet(q) /\ y # Head(q)
  <2>1. PICK i \in 1..Len(Tail(q)) : Tail(q)[i] = y
    BY <1>1 DEF ToSet
  <2>2. i + 1 \in 1..Len(q) /\ q[i + 1] = y /\ i + 1 # 1
    BY <1>1, <2>1
  <2> QED BY <1>1, <2>2 DEF ToSet, IsInjective
<1>5. ASSUME NEW y \in ToSet(q), y # Head(q) PROVE y \in ToSet(Tail(q))
  <2>1. PICK i \in 1..Len(q) : q[i] = y
    BY <1>1 DEF ToSet
  <2>2. i - 1 \in 1..Len(Tail(q)) /\ Tail(q)[i - 1] = y
    BY <1>1, <1>5, <2>1
  <2> QED BY <1>1, <2>2 DEF ToSet
<1> QED BY <1>1, <1>2, <1>3, <1>4, <1>5

(* Without takes one element out and closes the gap.                       *)
LEMMA WithoutOne ==
  ASSUME NEW q \in Lines, NEW x, Contains(q, x)
  PROVE  \E c \in 1..Len(q) :
           /\ q[c] = x /\ Without(x, q) \in Lines
           /\ Len(Without(x, q)) = Len(q) - 1
           /\ \A i \in 1..Len(q) - 1 : Without(x, q)[i] = IF i < c THEN q[i] ELSE q[i + 1]
<1>1. Len(q) \in Nat /\ DOMAIN q = 1..Len(q) /\ \A i \in 1..Len(q) : q[i] \in Tasks
  BY LenProperties, ElementOfSeq DEF Lines
<1> DEFINE c == CHOOSE i \in DOMAIN q : q[i] = x
           w == RemoveAt(q, c)
<1>2. c \in 1..Len(q) /\ q[c] = x
  BY <1>1 DEF Contains
<1>3. w = Without(x, q)
  BY DEF Without
<1> HIDE DEF c
<1>4. /\ SubSeq(q, 1, c - 1) \in Lines /\ Len(SubSeq(q, 1, c - 1)) = c - 1
      /\ \A i \in 1..c - 1 : SubSeq(q, 1, c - 1)[i] = q[i]
  <2>1. c - 1 \in Int /\ \A i \in 1..c - 1 : q[i] \in Tasks
    BY <1>1, <1>2
  <2> QED BY <1>2, <2>1, SubSeqProperties DEF Lines
<1>5. /\ SubSeq(q, c + 1, Len(q)) \in Lines /\ Len(SubSeq(q, c + 1, Len(q))) = Len(q) - c
      /\ \A i \in 1..Len(q) - c : SubSeq(q, c + 1, Len(q))[i] = q[c + i]
  <2>1. c + 1 \in Int /\ \A i \in c + 1..Len(q) : q[i] \in Tasks
    <3>1. c \in Nat /\ 1 <= c /\ Len(q) \in Nat
      BY <1>1, <1>2
    <3>2. c + 1 \in Int /\ \A i \in c + 1..Len(q) : i \in 1..Len(q)
      BY <3>1
    <3> QED BY <1>1, <3>2
  <2>2. c \in Nat /\ 1 <= c /\ c <= Len(q) /\ Len(q) \in Nat
    BY <1>1, <1>2
  <2>3. /\ c + 1 <= Len(q) => Len(q) - (c + 1) + 1 = Len(q) - c
        /\ ~(c + 1 <= Len(q)) => Len(q) - c = 0
        /\ Len(q) - (c + 1) + 1 = Len(q) - c
    BY <2>2
  <2>4. \A i \in 1..Len(q) - c : (c + 1) + i - 1 = c + i
    BY <2>2
  <2> QED BY <1>1, <2>1, <2>3, <2>4, SubSeqProperties DEF Lines
<1>6. /\ w \in Lines /\ Len(w) = Len(q) - 1 /\ DOMAIN w = 1..Len(q) - 1
      /\ \A i \in 1..Len(q) - 1 : w[i] = IF i < c THEN q[i] ELSE q[i + 1]
  <2> DEFINE a == SubSeq(q, 1, c - 1)
             b == SubSeq(q, c + 1, Len(q))
  <2>1. a \in Seq(Tasks) /\ b \in Seq(Tasks) /\ w = a \o b
    BY <1>4, <1>5 DEF RemoveAt, Lines
  <2>2. Len(a) = c - 1 /\ Len(b) = Len(q) - c
    BY <1>4, <1>5
  <2>3. \A i \in 1..c - 1 : a[i] = q[i]
    BY <1>4
  <2>4. \A i \in 1..Len(q) - c : b[i] = q[c + i]
    BY <1>5
  <2> HIDE DEF a, b, w
  <2>5. /\ w \in Lines /\ Len(w) = Len(a) + Len(b)
        /\ \A i \in 1..Len(a) + Len(b) : w[i] = IF i <= Len(a) THEN a[i] ELSE b[i - Len(a)]
    BY <2>1, ConcatProperties DEF Lines
  <2>6. Len(w) = Len(q) - 1
    BY <1>1, <1>2, <2>2, <2>5
  <2>7. DOMAIN w = 1..Len(q) - 1
    BY <2>5, <2>6, LenProperties DEF Lines
  <2>8. ASSUME NEW i \in 1..Len(q) - 1 PROVE w[i] = IF i < c THEN q[i] ELSE q[i + 1]
    <3>1. CASE i < c
      BY <1>1, <1>2, <2>2, <2>3, <2>5, <3>1
    <3>2. CASE ~(i < c)
      <4>1. i - Len(a) \in 1..Len(q) - c /\ ~(i <= Len(a)) /\ c + (i - Len(a)) = i + 1
        BY <1>1, <1>2, <2>2, <3>2
      <4>2. w[i] = b[i - Len(a)]
        <5>1. i \in 1..Len(a) + Len(b)
          BY <1>1, <1>2, <2>2
        <5> QED BY <2>5, <4>1, <5>1
      <4>3. b[i - Len(a)] = q[i + 1]
        BY <2>4, <4>1
      <4> QED BY <3>2, <4>2, <4>3
    <3> QED BY <3>1, <3>2
  <2> QED BY <2>5, <2>6, <2>7, <2>8
<1> QED BY <1>2, <1>3, <1>6

LEMMA LineWithout ==
  ASSUME NEW q \in Lines, NEW x \in Tasks, IsInjective(q)
  PROVE  /\ Without(x, q) \in Lines /\ IsInjective(Without(x, q))
         /\ ToSet(Without(x, q)) = ToSet(q) \ {x}
         /\ q # <<>> /\ Head(q) # x => Without(x, q) # <<>> /\ Head(Without(x, q)) = Head(q)
<1>1. Len(q) \in Nat /\ DOMAIN q = 1..Len(q) /\ \A i \in 1..Len(q) : q[i] \in Tasks
  BY LenProperties, ElementOfSeq DEF Lines
<1>2. CASE ~Contains(q, x)
  BY <1>1, <1>2 DEF Contains, Without, ToSet
<1>3. CASE Contains(q, x)
  <2> DEFINE w == Without(x, q)
  <2>1. PICK c \in 1..Len(q) : /\ q[c] = x /\ w \in Lines /\ Len(w) = Len(q) - 1
                              /\ \A i \in 1..Len(q) - 1 : w[i] = IF i < c THEN q[i] ELSE q[i + 1]
    BY <1>3, WithoutOne
  <2> HIDE DEF w
  <2>2. DOMAIN w = 1..Len(q) - 1
    BY <2>1, LenProperties DEF Lines
  <2>3. IsInjective(w)
    <3> SUFFICES ASSUME NEW a \in 1..Len(q) - 1, NEW b \in 1..Len(q) - 1, w[a] = w[b]
                 PROVE  a = b
      BY <2>2 DEF IsInjective
    <3> DEFINE at(i) == IF i < c THEN i ELSE i + 1
    <3>1. /\ at(a) \in 1..Len(q) /\ at(b) \in 1..Len(q)
          /\ at(a) = at(b) => a = b
          /\ w[a] = q[at(a)] /\ w[b] = q[at(b)]
      BY <1>1, <2>1
    <3> HIDE DEF at
    <3>2. at(a) = at(b)
      BY <1>1, <2>1, <3>1 DEF IsInjective
    <3> QED BY <3>1, <3>2
  <2>4. ASSUME NEW y \in ToSet(w) PROVE y \in ToSet(q) /\ y # x
    <3>1. PICK i \in 1..Len(q) - 1 : w[i] = y
      BY <2>2 DEF ToSet
    <3>2. PICK k \in 1..Len(q) : q[k] = y /\ k # c
      <4>1. CASE i < c
        BY <1>1, <2>1, <2>2, <3>1, <4>1
      <4>2. CASE ~(i < c)
        <5>1. i + 1 \in 1..Len(q) /\ q[i + 1] = y /\ i + 1 # c
          BY <1>1, <2>1, <2>2, <3>1, <4>2
        <5> QED BY <5>1
      <4> QED BY <4>1, <4>2
    <3> QED BY <1>1, <2>1, <3>2 DEF ToSet, IsInjective
  <2>5. ASSUME NEW y \in ToSet(q), y # x PROVE y \in ToSet(w)
    <3>1. PICK k \in 1..Len(q) : q[k] = y
      BY <1>1 DEF ToSet
    <3>2. CASE k < c
      <4>1. k \in 1..Len(q) - 1 /\ w[k] = y
        BY <1>1, <2>1, <2>2, <3>1, <3>2
      <4> QED BY <2>2, <4>1 DEF ToSet
    <3>3. CASE k > c
      <4>1. k - 1 \in 1..Len(q) - 1 /\ w[k - 1] = y
        BY <1>1, <2>1, <2>2, <3>1, <3>3
      <4> QED BY <2>2, <4>1 DEF ToSet
    <3> QED BY <1>1, <2>1, <2>5, <3>1, <3>2, <3>3
  <2>6. ASSUME q # <<>>, Head(q) # x PROVE w # <<>> /\ Head(w) = Head(q)
    <3>1. c # 1 /\ Len(q) >= 2
      BY <1>1, <2>1, <2>6
    <3>2. 1 \in 1..Len(q) - 1 /\ w[1] = q[1]
      BY <1>1, <2>1, <2>2, <3>1
    <3> QED BY <2>2, <3>1, <3>2 DEF Lines
  <2> QED BY <2>1, <2>2, <2>3, <2>4, <2>5, <2>6 DEF w
<1> QED BY <1>2, <1>3

-------------------------------------------------------------------------------
(* Flush jobs.                                                             *)

(* The fields of a job, and the job that each outcome of an insert leaves. *)
LEMMA JobFields ==
  ASSUME NEW j \in Jobs
  PROVE  /\ j.rest \in Seq(Rows) /\ j.single \in Nat /\ j.try \in 0..MaxRetries
         /\ j.at \in {"none", "tcp", "http", "sleep", "end"} /\ j.single <= Len(j.rest)
         /\ j.rest = <<>> <=> j.at \in {"none", "end"}
         /\ j.at = "sleep" => j.single > 0 /\ j.try < MaxRetries
         /\ j.try > 0 => j.single > 0
         /\ Len(j.rest) \in Nat /\ (j.rest # <<>> => Len(j.rest) > 0)
<1>1. j.rest \in Seq(Rows)
  BY DEF Jobs
<1>2. Len(j.rest) \in Nat /\ (j.rest # <<>> => Len(j.rest) > 0)
  BY <1>1, LenProperties, EmptySeq
<1> QED BY <1>1, <1>2 DEF Jobs

LEMMA NoJobIsJob == NoJob \in Jobs
BY SettingsAssumption, EmptySeq DEF NoJob, Jobs, SettingsAssumption

LEMMA FlushOfJob ==
  ASSUME NEW rest \in Seq(Rows), NEW single \in 0..Len(rest)
  PROVE  /\ FlushOf(rest, single) \in Jobs
         /\ FlushOf(rest, single).at \in {"tcp", "http", "end"}
         /\ FlushOf(rest, single).rest = rest /\ FlushOf(rest, single).single = single
         /\ FlushOf(rest, single).try = 0
<1>1. Len(rest) \in Nat /\ 0 \in 0..MaxRetries
  BY LenProperties, SettingsAssumption DEF SettingsAssumption
<1> QED BY <1>1 DEF FlushOf, Jobs

LEMMA CutBounds ==
  ASSUME NEW j \in Jobs, j.rest # <<>>
  PROVE  /\ Cut(j) \in 1..Len(j.rest)
         /\ j.single > 0 => Cut(j) = 1
         /\ Portion(j) = {j.rest[i] : i \in 1..Cut(j)} /\ Portion(j) \subseteq Rows
<1>1. j.single > 0 => Cut(j) = 1
  BY JobFields, SettingsAssumption DEF Cut, SettingsAssumption
<1>2. Cut(j) \in 1..Len(j.rest)
  BY JobFields, SettingsAssumption DEF Cut, SettingsAssumption
<1>3. \A i \in 1..Cut(j) : j.rest[i] \in Rows
  BY <1>2, JobFields, ElementOfSeq
<1> QED BY <1>1, <1>2, <1>3 DEF Portion

(* What is left after a portion: the other rows, each of them once if they *)
(* were there once.                                                        *)
LEMMA RestAfter ==
  ASSUME NEW j \in Jobs, j.rest # <<>>
  PROVE  LET rest == SubSeq(j.rest, Cut(j) + 1, Len(j.rest))
         IN /\ rest \in Seq(Rows) /\ Len(rest) = Len(j.rest) - Cut(j)
            /\ \A r : Contains(rest, r) => Contains(j.rest, r)
            /\ \A r : Contains(j.rest, r) => r \in Portion(j) \/ Contains(rest, r)
            /\ \A r \in Portion(j) : Contains(j.rest, r)
            /\ IsInjective(j.rest) => IsInjective(rest) /\ \A r \in Portion(j) : ~Contains(rest, r)
<1> DEFINE n == Len(j.rest)
           c == Cut(j)
           rest == SubSeq(j.rest, c + 1, n)
<1>1. c \in Nat /\ 1 <= c /\ c <= n /\ n \in Nat /\ Portion(j) = {j.rest[i] : i \in 1..c}
  BY CutBounds, JobFields
<1>2. DOMAIN j.rest = 1..n /\ \A i \in 1..n : j.rest[i] \in Rows
  BY JobFields, LenProperties, ElementOfSeq
<1> HIDE DEF n, c
<1>3. rest \in Seq(Rows) /\ Len(rest) = n - c /\ \A i \in 1..n - c : rest[i] = j.rest[c + i]
  <2>1. c + 1 \in Int /\ n \in Int /\ \A i \in c + 1..n : j.rest[i] \in Rows
    BY <1>1, <1>2
  <2>2. /\ c + 1 <= n => n - (c + 1) + 1 = n - c
        /\ ~(c + 1 <= n) => n - c = 0
        /\ n - (c + 1) + 1 = n - c
    BY <1>1
  <2>3. \A i \in 1..n - c : (c + 1) + i - 1 = c + i
    BY <1>1
  <2> QED BY <2>1, <2>2, <2>3, SubSeqProperties
<1> HIDE DEF rest
<1>4. DOMAIN rest = 1..n - c
  BY <1>3, LenProperties
<1>5. ASSUME NEW r, Contains(rest, r) PROVE Contains(j.rest, r)
  <2>1. PICK i \in 1..n - c : rest[i] = r
    BY <1>3, <1>5 DEF Contains
  <2>2. c + i \in 1..n /\ j.rest[c + i] = r
    BY <1>1, <1>3, <2>1
  <2> QED BY <2>2 DEF Contains, n
<1>6. ASSUME NEW r, Contains(j.rest, r), r \notin Portion(j) PROVE Contains(rest, r)
  <2>1. PICK i \in 1..n : j.rest[i] = r
    BY <1>6 DEF Contains, n
  <2>2. ~(i <= c)
    BY <1>1, <1>6, <2>1
  <2>3. i - c \in 1..n - c /\ c + (i - c) = i
    BY <1>1, <2>1, <2>2
  <2>4. rest[i - c] = r
    BY <1>3, <2>1, <2>3
  <2> QED BY <1>3, <2>3, <2>4 DEF Contains
<1>7. ASSUME NEW r \in Portion(j) PROVE Contains(j.rest, r)
  <2>1. PICK i \in 1..c : j.rest[i] = r
    BY <1>1
  <2>2. i \in 1..n
    BY <1>1, <2>1
  <2> QED BY <2>1, <2>2 DEF Contains, n
<1>8. ASSUME IsInjective(j.rest) PROVE IsInjective(rest)
  <2> SUFFICES ASSUME NEW a \in 1..n - c, NEW b \in 1..n - c, rest[a] = rest[b] PROVE a = b
    BY <1>4 DEF IsInjective
  <2>1. j.rest[c + a] = j.rest[c + b] /\ c + a \in 1..n /\ c + b \in 1..n
    BY <1>1, <1>3
  <2>2. c + a = c + b
    BY <1>2, <1>8, <2>1 DEF IsInjective
  <2> QED BY <1>1, <2>2
<1>9. ASSUME IsInjective(j.rest), NEW r \in Portion(j), Contains(rest, r) PROVE FALSE
  <2>1. PICK i \in 1..c : j.rest[i] = r
    BY <1>1
  <2>2. PICK k \in 1..n - c : rest[k] = r
    BY <1>3, <1>9 DEF Contains
  <2>3. c + k \in 1..n /\ j.rest[c + k] = r /\ i \in 1..n /\ i # c + k
    BY <1>1, <1>3, <2>1, <2>2
  <2> QED BY <1>2, <1>9, <2>1, <2>3 DEF IsInjective
<1> QED BY <1>3, <1>5, <1>6, <1>7, <1>8, <1>9 DEF n, c, rest

LEMMA PassedJob ==
  ASSUME NEW j \in Jobs, j.rest # <<>>
  PROVE  /\ Passed(j) \in Jobs /\ Passed(j).at \in {"tcp", "http", "end"}
         /\ Passed(j).rest = SubSeq(j.rest, Cut(j) + 1, Len(j.rest))
         /\ Passed(j).rest # j.rest /\ Passed(j).try = 0
<1> DEFINE rest == SubSeq(j.rest, Cut(j) + 1, Len(j.rest))
           single == IF j.single > 0 THEN j.single - 1 ELSE 0
<1>1. rest \in Seq(Rows) /\ Len(rest) = Len(j.rest) - Cut(j)
  BY RestAfter
<1>2. single \in 0..Len(rest) /\ Len(rest) # Len(j.rest)
  BY <1>1, CutBounds, JobFields
<1>3. Passed(j) = FlushOf(rest, single)
  BY DEF Passed
<1> HIDE DEF rest, single
<1>4. FlushOf(rest, single) \in Jobs /\ FlushOf(rest, single).at \in {"tcp", "http", "end"}
      /\ FlushOf(rest, single).rest = rest /\ FlushOf(rest, single).try = 0
  BY <1>1, <1>2, FlushOfJob
<1> QED BY <1>2, <1>3, <1>4 DEF rest

LEMMA FailedJob ==
  ASSUME NEW j \in Jobs, j.rest # <<>>
  PROVE  /\ Failed(j) \in Jobs /\ Failed(j).at # "none"
         /\ Failed(j).rest = j.rest \/ Failed(j) = Passed(j)
<1>1. CASE j.single = 0
  <2>1. Cut(j) \in 0..Len(j.rest)
    BY CutBounds, JobFields
  <2> QED BY <1>1, <2>1, FlushOfJob, JobFields DEF Failed
<1>2. CASE j.single # 0 /\ j.try < MaxRetries
  <2>1. Failed(j) = [j EXCEPT !.at = "sleep"]
    BY <1>2 DEF Failed
  <2>2. j.single > 0 /\ j.rest # <<>> /\ j.try < MaxRetries
    BY <1>2, JobFields
  <2>3. [j EXCEPT !.at = "sleep"].rest = j.rest /\ [j EXCEPT !.at = "sleep"] \in Jobs
    BY <2>2 DEF Jobs
  <2> QED BY <2>1, <2>3
<1>3. CASE j.single # 0 /\ ~(j.try < MaxRetries)
  BY <1>3, PassedJob DEF Failed
<1> QED BY <1>1, <1>2, <1>3

LEMMA RetriedJob ==
  ASSUME NEW j \in Jobs, j.at = "sleep"
  PROVE  /\ [FlushOf(j.rest, j.single) EXCEPT !.try = j.try + 1] \in Jobs
         /\ [FlushOf(j.rest, j.single) EXCEPT !.try = j.try + 1].at # "none"
<1> DEFINE f == FlushOf(j.rest, j.single)
           k == [f EXCEPT !.try = j.try + 1]
<1>1. f \in Jobs /\ f.at \in {"tcp", "http", "end"} /\ f.single = j.single /\ j.single > 0
  BY JobFields, FlushOfJob
<1>2. j.try + 1 \in 0..MaxRetries
  BY JobFields, SettingsAssumption DEF SettingsAssumption
<1> HIDE DEF f
<1>3. k \in Jobs /\ k.at # "none"
  BY <1>1, <1>2 DEF Jobs
<1> QED BY <1>3 DEF f

-------------------------------------------------------------------------------
(* Standing in line.                                                       *)

(* A type that a step does not touch stays in line.                        *)
LEMMA Elsewhere ==
  ASSUME NEW u, InLine(u), line'[u] = line[u], waiting'[u] = waiting[u],
         timer'[u] = timer[u], job'[u].at # "none" <=> job[u].at # "none",
         StopAt(u)' = StopAt(u)
  PROVE  InLine(u)'
BY DEF InLine, Stands, Holder, Flushing

(* The holder stands in its line.                                          *)
LEMMA HolderStands ==
  ASSUME NEW q \in Lines, q # <<>>
  PROVE  Head(q) \in ToSet(q)
BY EmptySeq, LenProperties DEF ToSet, Lines

LEMMA SameStop == UNCHANGED <<stop, todo>> => \A u : StopAt(u)' = StopAt(u)
BY DEF StopAt

(* A buffer that is taken, and the job that takes it.                      *)
LEMMA EmptiedBuffer ==
  ASSUME Kinds, NEW t \in Types, buffer' = Emptied(t)
  PROVE  /\ buffer' \in [Types -> Seq(Rows)] /\ \A u \in Types : Len(buffer'[u]) < Threshold[u]
         /\ buffer'[t] = <<>> /\ \A u \in Types : u # t => buffer'[u] = buffer[u]
<1>1. /\ buffer' \in [Types -> Seq(Rows)] /\ buffer'[t] = <<>>
      /\ \A u \in Types : u # t => buffer'[u] = buffer[u]
  BY EmptySeq DEF Emptied, Kinds
<1>2. Len(<<>>) = 0 /\ Threshold[t] \in Nat \ {0}
  BY SettingsAssumption DEF SettingsAssumption
<1>3. ASSUME NEW u \in Types PROVE Len(buffer'[u]) < Threshold[u]
  <2>1. CASE u = t
    BY <1>1, <1>2, <2>1
  <2>2. CASE u # t
    BY <1>1, <2>2 DEF Kinds
  <2> QED BY <2>1, <2>2
<1> QED BY <1>1, <1>3

LEMMA BufferFlush ==
  ASSUME Kinds, NEW t \in Types
  PROVE  /\ FlushOf(buffer[t], 0) \in Jobs /\ FlushOf(buffer[t], 0).at # "none"
         /\ FlushOf(buffer[t], 0).rest = buffer[t]
<1>1. buffer[t] \in Seq(Rows) /\ 0 \in 0..Len(buffer[t])
  BY LenProperties DEF Kinds
<1> QED BY <1>1, FlushOfJob

(* Who stands in line, once the head q is the callback's.                  *)
LEMMA EnterInLine ==
  ASSUME Kinds, NEW t \in Types, InLine(t), NEW r \in Rows, NEW q \in Lines,
         IsInjective(q), q # <<>>, Head(q) = "cb", ToSet(q) = ToSet(line[t]) \cup {"cb"},
         Holder(t) \in {"free", "cb"}, job[t].at = "none",
         EnterBuffer(t, r, q), waiting'[t] = {}, UNCHANGED <<stop, todo>>
  PROVE  /\ InLine(t)' /\ line' \in [Types -> Lines] /\ timer' \in [Types -> TimerPcs]
         /\ buffer' \in [Types -> Seq(Rows)] /\ job' \in [Types -> Jobs]
         /\ timerKeys' \in Seq(Types) /\ \A u \in Types : Len(buffer'[u]) < Threshold[u]
         /\ \A u \in Types : u # t => /\ line'[u] = line[u] /\ timer'[u] = timer[u]
                                     /\ job'[u] = job[u] /\ buffer'[u] = buffer[u]
         /\ timer'[t] = timer[t] \/ (timer[t] \in {"none", "done"} /\ timer'[t] = "new")
         /\ timerKeys' = timerKeys \/ timerKeys' = Append(timerKeys, t)
<1> DEFINE rows == Append(buffer[t], r)
<1>1. rows \in Seq(Rows) /\ Len(rows) \in Nat
  BY AppendProperties, LenProperties DEF Kinds
<1>2. timer[t] \notin {"flush", "lastFlush"} /\ StopAt(t) # "flushing"
  BY DEF InLine
<1>3. StopAt(t)' = StopAt(t)
  BY SameStop
<1>4. CASE Full(t, rows)
  <2>1. /\ buffer' = Emptied(t) /\ job' = [job EXCEPT ![t] = FlushOf(rows, 0)]
        /\ line' = [line EXCEPT ![t] = q] /\ UNCHANGED timers
    BY <1>4 DEF EnterBuffer
  <2> HIDE DEF rows
  <2>2. FlushOf(rows, 0) \in Jobs /\ FlushOf(rows, 0).at # "none"
    BY <1>1, FlushOfJob
  <2>3. InLine(t)'
    BY <1>2, <1>3, <2>1, <2>2 DEF InLine, Stands, Holder, Flushing, Kinds, timers
  <2>4. buffer' \in [Types -> Seq(Rows)] /\ \A u \in Types : Len(buffer'[u]) < Threshold[u]
    BY <2>1, EmptiedBuffer
  <2> QED BY <2>1, <2>2, <2>3, <2>4 DEF Kinds, timers, Emptied
<1>5. CASE ~Full(t, rows)
  <2>1. /\ buffer' = [buffer EXCEPT ![t] = rows] /\ line' = [line EXCEPT ![t] = Tail(q)]
        /\ StartTimer(t) /\ UNCHANGED job
    BY <1>5 DEF EnterBuffer
  <2>2. Len(rows) < Threshold[t]
    BY <1>1, <1>5, SettingsAssumption DEF Full, SettingsAssumption
  <2> HIDE DEF rows
  <2>3. /\ Tail(q) \in Lines /\ IsInjective(Tail(q)) /\ "cb" \notin ToSet(Tail(q))
        /\ \A x : x # "cb" => (x \in ToSet(Tail(q)) <=> x \in ToSet(line[t]))
        /\ Tail(q) # <<>> => Head(Tail(q)) \in ToSet(Tail(q))
    BY LineTail, HolderStands
  <2>4. /\ timer' \in [Types -> TimerPcs] /\ \A u \in Types : u # t => timer'[u] = timer[u]
        /\ timer'[t] = timer[t] \/ (timer[t] \in {"none", "done"} /\ timer'[t] = "new")
        /\ timerKeys' = timerKeys \/ timerKeys' = Append(timerKeys, t)
    BY <2>1 DEF StartTimer, Kinds, TimerPcs
  <2>5. timerKeys' \in Seq(Types)
    <3>1. Append(timerKeys, t) \in Seq(Types)
      BY AppendProperties DEF Kinds
    <3> QED BY <2>4, <3>1 DEF Kinds
  <2>6. line'[t] = Tail(q) /\ job' = job
    BY <2>1 DEF Kinds
  <2>7. timer'[t] \notin {"flush", "lastFlush"}
        /\ (timer'[t] \in {"lock", "flush", "lastLock", "lastFlush"}
              <=> timer[t] \in {"lock", "flush", "lastLock", "lastFlush"})
    BY <1>2, <2>4
  <2>8. ~Flushing(t)'
    BY <1>2, <1>3, <2>3, <2>6, <2>7 DEF Flushing, Holder
  <2>9. InLine(t)'
    BY <1>2, <1>3, <2>3, <2>6, <2>7, <2>8 DEF InLine, Stands
  <2>10. buffer' \in [Types -> Seq(Rows)] /\ \A u \in Types : Len(buffer'[u]) < Threshold[u]
    BY <1>1, <2>1, <2>2 DEF Kinds
  <2> QED BY <2>1, <2>3, <2>4, <2>5, <2>9, <2>10 DEF Kinds
<1> QED BY <1>4, <1>5

(* The same for the timer and for stop().                                  *)
LEMMA TakeInLine ==
  ASSUME Kinds, NEW t \in Types, InLine(t), NEW q \in Lines, NEW last \in BOOLEAN,
         IsInjective(q), q # <<>>, Head(q) = "timer", ToSet(q) = ToSet(line[t]) \cup {"timer"},
         Holder(t) \in {"free", "timer"}, TimerTakes(t, q, last),
         UNCHANGED <<waiting, stop, todo>>
  PROVE  /\ InLine(t)' /\ line' \in [Types -> Lines] /\ timer' \in [Types -> TimerPcs]
         /\ buffer' \in [Types -> Seq(Rows)] /\ job' \in [Types -> Jobs]
         /\ timerKeys' = timerKeys /\ \A u \in Types : Len(buffer'[u]) < Threshold[u]
         /\ \A u \in Types : u # t => /\ line'[u] = line[u] /\ timer'[u] = timer[u]
                                     /\ job'[u] = job[u] /\ buffer'[u] = buffer[u]
         /\ timer'[t] \in IF last THEN {"lastFlush", "done"} ELSE {"flush", "sleep", "done"}
<1>1. StopAt(t) # "flushing" /\ StopAt(t)' = StopAt(t)
  BY SameStop DEF InLine
<1>2. ~(Stands("cb", t) /\ waiting[t] = {})
  BY DEF InLine
<1>3. CASE Work(t, last)
  <2>1. /\ buffer' = Emptied(t) /\ job' = [job EXCEPT ![t] = FlushOf(buffer[t], 0)]
        /\ line' = [line EXCEPT ![t] = q] /\ timerKeys' = timerKeys
        /\ timer' = [timer EXCEPT ![t] = IF last THEN "lastFlush" ELSE "flush"]
    BY <1>3 DEF TimerTakes, TimerAt
  <2>2. FlushOf(buffer[t], 0) \in Jobs /\ FlushOf(buffer[t], 0).at # "none"
    BY BufferFlush
  <2>3. /\ line'[t] = q /\ job'[t].at # "none" /\ waiting'[t] = waiting[t]
        /\ timer'[t] \in {"flush", "lastFlush"}
        /\ timer'[t] = IF last THEN "lastFlush" ELSE "flush"
    BY <2>1, <2>2 DEF Kinds
  <2>4. InLine(t)'
    BY <1>1, <1>2, <2>3 DEF InLine, Stands, Holder, Flushing
  <2>5. timer' \in [Types -> TimerPcs]
    BY <2>1 DEF Kinds, TimerPcs
  <2> QED BY <2>1, <2>2, <2>3, <2>4, <2>5, EmptiedBuffer DEF Kinds, Emptied
<1>4. CASE ~Work(t, last)
  <2>1. /\ line' = [line EXCEPT ![t] = Tail(q)] /\ timerKeys' = timerKeys
        /\ timer' = [timer EXCEPT ![t] = IF last THEN "done" ELSE LoopTop]
        /\ job' = [job EXCEPT ![t] = NoJob] /\ buffer' = buffer
    BY <1>4 DEF TimerTakes, TimerAt
  <2>2. /\ Tail(q) \in Lines /\ IsInjective(Tail(q)) /\ "timer" \notin ToSet(Tail(q))
        /\ \A x : x # "timer" => (x \in ToSet(Tail(q)) <=> x \in ToSet(line[t]))
        /\ Tail(q) # <<>> => Head(Tail(q)) \in ToSet(Tail(q))
    BY LineTail, HolderStands
  <2>3. /\ line'[t] = Tail(q) /\ job'[t].at = "none" /\ waiting'[t] = waiting[t]
        /\ timer'[t] \in IF last THEN {"done"} ELSE {"sleep", "done"}
    BY <2>1 DEF Kinds, NoJob, LoopTop
  <2>4. ~Flushing(t)'
    BY <1>1, <1>2, <2>2, <2>3 DEF Flushing, Holder, Stands
  <2>5. InLine(t)'
    BY <1>1, <1>2, <2>2, <2>3, <2>4 DEF InLine, Stands
  <2>6. timer' \in [Types -> TimerPcs]
    BY <2>1 DEF Kinds, TimerPcs, LoopTop
  <2> QED BY <2>1, <2>2, <2>3, <2>5, <2>6, NoJobIsJob DEF Kinds
<1> QED BY <1>3, <1>4

LEMMA StopInLine ==
  ASSUME Kinds, NEW t \in Types, InLine(t), NEW q \in Lines,
         IsInjective(q), q # <<>>, Head(q) = "stop", ToSet(q) = ToSet(line[t]) \cup {"stop"},
         Holder(t) \in {"free", "stop"}, todo # <<>>, t = Head(todo),
         stop \in {"flush", "lock"}, StopTakes(t, q), UNCHANGED <<waiting, timer>>
  PROVE  /\ InLine(t)' /\ line' \in [Types -> Lines]
         /\ buffer' \in [Types -> Seq(Rows)] /\ job' \in [Types -> Jobs]
         /\ todo' \in Seq(Types) /\ \A u \in Types : Len(buffer'[u]) < Threshold[u]
         /\ \A u \in Types : u # t => /\ line'[u] = line[u] /\ job'[u] = job[u]
                                     /\ buffer'[u] = buffer[u] /\ StopAt(u)' = StopAt(u)
         /\ stop' = "flush" \/ (stop' = "flushing" /\ todo' = todo)
<1>1. ~(Stands("cb", t) /\ waiting[t] = {}) /\ timer[t] \notin {"flush", "lastFlush"}
  BY DEF InLine
<1>2. Tail(todo) \in Seq(Types)
  BY HeadTailProperties DEF Kinds
<1>3. CASE buffer[t] # <<>>
  <2>1. /\ buffer' = Emptied(t) /\ job' = [job EXCEPT ![t] = FlushOf(buffer[t], 0)]
        /\ line' = [line EXCEPT ![t] = q] /\ stop' = "flushing" /\ todo' = todo
    BY <1>3 DEF StopTakes
  <2>2. FlushOf(buffer[t], 0) \in Jobs /\ FlushOf(buffer[t], 0).at # "none"
    BY BufferFlush
  <2>3. line'[t] = q /\ job'[t].at # "none" /\ waiting'[t] = waiting[t] /\ timer'[t] = timer[t]
    BY <2>1, <2>2 DEF Kinds
  <2>4. StopAt(t)' = "flushing" /\ \A u \in Types : u # t => StopAt(u)' = StopAt(u)
    BY <2>1 DEF StopAt
  <2>5. InLine(t)'
    BY <1>1, <2>3, <2>4 DEF InLine, Stands, Holder, Flushing
  <2> QED BY <2>1, <2>2, <2>4, <2>5, EmptiedBuffer DEF Kinds, Emptied
<1>4. CASE buffer[t] = <<>>
  <2>1. /\ line' = [line EXCEPT ![t] = Tail(q)] /\ stop' = "flush" /\ todo' = Tail(todo)
        /\ job' = job /\ buffer' = buffer
    BY <1>4 DEF StopTakes
  <2>2. /\ Tail(q) \in Lines /\ IsInjective(Tail(q)) /\ "stop" \notin ToSet(Tail(q))
        /\ \A x : x # "stop" => (x \in ToSet(Tail(q)) <=> x \in ToSet(line[t]))
        /\ Tail(q) # <<>> => Head(Tail(q)) \in ToSet(Tail(q))
    BY LineTail, HolderStands
  <2>3. line'[t] = Tail(q) /\ waiting'[t] = waiting[t] /\ timer'[t] = timer[t]
    BY <2>1 DEF Kinds
  <2>4. \A u \in Types : StopAt(u)' = "away" /\ (u # t => StopAt(u) = "away")
    BY <2>1 DEF StopAt
  <2>5. ~Flushing(t) /\ ~Flushing(t)'
    <3>1. StopAt(t) # "flushing"
      BY DEF StopAt
    <3>2. ~Flushing(t)
      BY <1>1, <3>1 DEF Flushing, Holder, InLine
    <3>3. ~Flushing(t)'
      BY <1>1, <2>2, <2>3, <2>4 DEF Flushing, Holder, Stands
    <3> QED BY <3>2, <3>3
  <2>6. InLine(t)'
    BY <1>1, <2>1, <2>2, <2>3, <2>4, <2>5 DEF InLine, Stands
  <2> QED BY <1>2, <2>1, <2>2, <2>4, <2>6 DEF Kinds
<1> QED BY <1>3, <1>4

-------------------------------------------------------------------------------
(* One action after the other.                                             *)

(* Steps that cancel nobody leave stop() and the timers agreed.            *)
LEMMA StoppingKept ==
  ASSUME Kinds, Stopping, UNCHANGED <<stop, todo, scan, cancelled>>,
         timerKeys' = timerKeys \/ \E t \in Types : timerKeys' = Append(timerKeys, t),
         \A u \in Types :
           \/ timer'[u] = timer[u]
           \/ timer'[u] \in {"new", "sleep", "lock", "flush", "done"}
              /\ (u \in cancelled => timer'[u] # "done")
  PROVE  Stopping'
<1>1. stop = "awaitTimer" =>
        scan.at \in 1..Len(timerKeys') /\ timerKeys'[scan.at] = timerKeys[scan.at]
  <2> SUFFICES ASSUME stop = "awaitTimer", NEW t \in Types, timerKeys' = Append(timerKeys, t)
               PROVE scan.at \in 1..Len(timerKeys') /\ timerKeys'[scan.at] = timerKeys[scan.at]
    BY DEF Stopping
  <2>1. scan.at \in 1..Len(timerKeys) /\ Len(timerKeys) \in Nat
    BY LenProperties DEF Stopping, Kinds
  <2>2. /\ Len(timerKeys') = Len(timerKeys) + 1
        /\ \A i \in 1..Len(timerKeys) : timerKeys'[i] = timerKeys[i]
    BY AppendProperties DEF Kinds
  <2> QED BY <2>1, <2>2
<1> QED BY <1>1 DEF Stopping, Kinds

(* A holder that is not in a flush has no job.                             *)
LEMMA HeadNone ==
  ASSUME NEW t \in Types, InLine(t), Holder(t) = "free" \/ (Holder(t) = "cb" /\ waiting[t] # {})
         \/ (Holder(t) = "timer" /\ timer[t] \notin {"flush", "lastFlush"})
         \/ (Holder(t) = "stop" /\ StopAt(t) # "flushing")
  PROVE  job[t].at = "none"
BY DEF InLine, Flushing

(* The callback.                                                           *)
LEMMA ReceiveFrame ==
  ASSUME Frame, NEW r \in Rows, Receive(r) PROVE Frame'
<1> DEFINE t == TypeOf[r]
<1>1. t \in Types
  BY RowsAssumption DEF RowsAssumption
<1>2. Kinds /\ InLine(t) /\ Stopping
  BY <1>1 DEF Frame
<1>3. keys' \in Seq(Types)
  <2>1. Append(keys, t) \in Seq(Types)
    BY <1>1, <1>2, AppendProperties DEF Kinds
  <2> QED BY <1>2, <2>1 DEF Receive, Kinds
<1> HIDE DEF t
<1>4. /\ UNCHANGED <<running, driver, subscribed, cancelled, todo, stop, scan, stored, faults,
                     early, dropped>>
      /\ received' = received \cup {r} /\ received' \in SUBSET Rows
  <2>1. UNCHANGED cancelled
    BY DEF Receive, EnterBuffer, StartTimer, timers
  <2> QED BY <1>2, <2>1 DEF Receive, stopping, settled, Kinds
<1>5. waiting[t] = {} /\ Holder(t) # "cb" /\ ~Stands("cb", t)
  BY <1>2 DEF Receive, CallbackBusy, InLine, t
<1>6. CASE line[t] = <<>>
  <2>1. EnterBuffer(t, r, <<"cb">>) /\ waiting' = waiting
    BY <1>6 DEF Receive, t
  <2>2. Holder(t) = "free" /\ job[t].at = "none"
    BY <1>1, <1>2, <1>6, HeadNone DEF Holder
  <2>3. ToSet(<<"cb">>) = ToSet(line[t]) \cup {"cb"} /\ <<"cb">> \in Lines /\ <<"cb">> # <<>>
        /\ IsInjective(<<"cb">>) /\ Head(<<"cb">>) = "cb"
    BY <1>1, <1>2, <1>6, LineSingle, LineEmpty DEF Tasks, Kinds
  <2>4. /\ InLine(t)' /\ line' \in [Types -> Lines] /\ timer' \in [Types -> TimerPcs]
        /\ buffer' \in [Types -> Seq(Rows)] /\ job' \in [Types -> Jobs]
        /\ timerKeys' \in Seq(Types) /\ \A u \in Types : Len(buffer'[u]) < Threshold[u]
        /\ \A u \in Types : u # t => /\ line'[u] = line[u] /\ timer'[u] = timer[u]
                                     /\ job'[u] = job[u] /\ buffer'[u] = buffer[u]
        /\ timer'[t] = timer[t] \/ (timer[t] \in {"none", "done"} /\ timer'[t] = "new")
        /\ timerKeys' = timerKeys \/ timerKeys' = Append(timerKeys, t)
    BY <1>1, <1>2, <1>4, <1>5, <2>1, <2>2, <2>3, EnterInLine
  <2>5. \A u \in Types : InLine(u)'
    BY <1>4, <2>1, <2>4, Elsewhere, SameStop DEF Frame
  <2>6. Stopping'
    BY <1>1, <1>2, <1>4, <2>4, StoppingKept
  <2>7. Kinds'
    BY <1>2, <1>3, <1>4, <2>1, <2>4 DEF Kinds
  <2> QED BY <2>5, <2>6, <2>7 DEF Frame
<1>7. CASE line[t] # <<>>
  <2>1. /\ line' = [line EXCEPT ![t] = Append(line[t], "cb")]
        /\ waiting' = [waiting EXCEPT ![t] = {r}]
        /\ UNCHANGED <<buffer, job, timer, timerKeys>>
    BY <1>1, <1>7 DEF Receive, timers, t
  <2>2. /\ Append(line[t], "cb") \in Lines /\ IsInjective(Append(line[t], "cb"))
        /\ Append(line[t], "cb") # <<>>
        /\ ToSet(Append(line[t], "cb")) = ToSet(line[t]) \cup {"cb"}
        /\ Head(Append(line[t], "cb")) = Head(line[t])
    BY <1>1, <1>2, <1>5, <1>7, LineAppend DEF Tasks, Kinds, InLine, Stands
  <2>3. /\ line'[t] = Append(line[t], "cb") /\ waiting'[t] = {r} /\ job'[t] = job[t]
        /\ timer'[t] = timer[t] /\ StopAt(t)' = StopAt(t)
    BY <1>1, <1>2, <1>4, <2>1, SameStop DEF Kinds
  <2>4. InLine(t)'
    BY <1>2, <1>5, <1>7, <2>2, <2>3 DEF InLine, Stands, Holder, Flushing
  <2>5. \A u \in Types : u # t => line'[u] = line[u] /\ waiting'[u] = waiting[u]
    BY <1>2, <2>1 DEF Kinds
  <2>6. \A u \in Types : InLine(u)'
    BY <1>4, <2>1, <2>4, <2>5, Elsewhere, SameStop DEF Frame
  <2>7. Stopping'
    BY <1>2, <1>4, <2>1, StoppingKept
  <2>8. Kinds'
    BY <1>1, <1>2, <1>3, <1>4, <2>1, <2>2 DEF Kinds
  <2> QED BY <2>6, <2>7, <2>8 DEF Frame
<1> QED BY <1>6, <1>7

LEMMA CallbackFrame ==
  ASSUME Frame, NEW t \in Types, Callback(t) PROVE Frame'
<1>1. Kinds /\ InLine(t) /\ Stopping
  BY DEF Frame
<1>2. UNCHANGED <<running, driver, subscribed, cancelled, todo, stop, scan, stored, faults,
                  early, dropped, received, keys>>
  BY DEF Callback, CallbackLocks, CallbackFlushed, EnterBuffer, StartTimer, timers, buffers,
         stopping, settled
<1>3. CASE CallbackLocks(t)
  <2>1. PICK r \in waiting[t] : EnterBuffer(t, r, line[t])
    BY <1>3 DEF CallbackLocks
  <2>2. r \in Rows /\ waiting'[t] = {} /\ \A u \in Types : u # t => waiting'[u] = waiting[u]
    BY <1>1, <1>3 DEF CallbackLocks, Kinds
  <2>3. /\ Holder(t) = "cb" /\ job[t].at = "none" /\ line[t] # <<>> /\ Head(line[t]) = "cb"
        /\ line[t] \in Lines /\ IsInjective(line[t]) /\ ToSet(line[t]) = ToSet(line[t]) \cup {"cb"}
    <3>1. Holder(t) = "cb" /\ waiting[t] # {} /\ line[t] # <<>> /\ Head(line[t]) = "cb"
      BY <1>3 DEF CallbackLocks, Holder
    <3>2. line[t] \in Lines /\ IsInjective(line[t])
      BY <1>1 DEF Kinds, InLine
    <3>3. "cb" \in ToSet(line[t])
      BY <3>1, <3>2, HolderStands
    <3> QED BY <1>1, <3>1, <3>2, <3>3, HeadNone
  <2>4. /\ InLine(t)' /\ line' \in [Types -> Lines] /\ timer' \in [Types -> TimerPcs]
        /\ buffer' \in [Types -> Seq(Rows)] /\ job' \in [Types -> Jobs]
        /\ timerKeys' \in Seq(Types) /\ \A u \in Types : Len(buffer'[u]) < Threshold[u]
        /\ \A u \in Types : u # t => /\ line'[u] = line[u] /\ timer'[u] = timer[u]
                                     /\ job'[u] = job[u] /\ buffer'[u] = buffer[u]
        /\ timer'[t] = timer[t] \/ (timer[t] \in {"none", "done"} /\ timer'[t] = "new")
        /\ timerKeys' = timerKeys \/ timerKeys' = Append(timerKeys, t)
    BY <1>1, <1>2, <2>1, <2>2, <2>3, EnterInLine
  <2>5. \A u \in Types : InLine(u)'
    BY <1>2, <2>2, <2>4, Elsewhere, SameStop DEF Frame
  <2>6. Stopping'
    BY <1>1, <1>2, <2>4, StoppingKept
  <2>7. waiting' \in [Types -> SUBSET Rows]
    BY <1>1, <1>3 DEF CallbackLocks, Kinds
  <2>8. Kinds'
    BY <1>1, <1>2, <2>4, <2>7 DEF Kinds
  <2> QED BY <2>5, <2>6, <2>8 DEF Frame
<1>4. CASE CallbackFlushed(t)
  <2>1. /\ job[t].at = "end" /\ Holder(t) = "cb" /\ job' = [job EXCEPT ![t] = NoJob]
        /\ line' = [line EXCEPT ![t] = Tail(line[t])] /\ StartTimer(t)
        /\ UNCHANGED <<buffer, waiting>>
    BY <1>4 DEF CallbackFlushed, buffers
  <2>2. line[t] # <<>> /\ Head(line[t]) = "cb" /\ waiting[t] = {}
    BY <1>1, <2>1 DEF Holder, InLine, Flushing
  <2>3. /\ Tail(line[t]) \in Lines /\ IsInjective(Tail(line[t])) /\ "cb" \notin ToSet(Tail(line[t]))
        /\ \A x : x # "cb" => (x \in ToSet(Tail(line[t])) <=> x \in ToSet(line[t]))
        /\ Tail(line[t]) # <<>> => Head(Tail(line[t])) \in ToSet(Tail(line[t]))
    <3>1. line[t] \in Lines /\ IsInjective(line[t])
      BY <1>1 DEF Kinds, InLine
    <3>2. Tail(line[t]) \in Lines /\ IsInjective(Tail(line[t]))
          /\ ToSet(Tail(line[t])) = ToSet(line[t]) \ {"cb"}
      BY <2>2, <3>1, LineTail
    <3> QED BY <3>2, HolderStands
  <2>4. /\ timer' \in [Types -> TimerPcs] /\ \A u \in Types : u # t => timer'[u] = timer[u]
        /\ timer'[t] = timer[t] \/ (timer[t] \in {"none", "done"} /\ timer'[t] = "new")
        /\ timerKeys' = timerKeys \/ timerKeys' = Append(timerKeys, t)
    BY <1>1, <2>1 DEF StartTimer, Kinds, TimerPcs
  <2>5. timerKeys' \in Seq(Types)
    <3>1. Append(timerKeys, t) \in Seq(Types)
      BY <1>1, AppendProperties DEF Kinds
    <3> QED BY <1>1, <2>4, <3>1 DEF Kinds
  <2>6. /\ line'[t] = Tail(line[t]) /\ job'[t].at = "none" /\ waiting'[t] = {}
        /\ StopAt(t)' = StopAt(t) /\ StopAt(t) # "flushing"
        /\ timer[t] \notin {"flush", "lastFlush"}
    BY <1>1, <1>2, <2>1, <2>2, SameStop DEF Kinds, NoJob, InLine
  <2>7. timer'[t] \notin {"flush", "lastFlush"}
        /\ (timer'[t] \in {"lock", "flush", "lastLock", "lastFlush"}
              <=> timer[t] \in {"lock", "flush", "lastLock", "lastFlush"})
    BY <2>4, <2>6
  <2>8. ~Flushing(t)'
    BY <2>3, <2>6, <2>7 DEF Flushing, Holder
  <2>9. InLine(t)'
    BY <1>1, <2>3, <2>6, <2>7, <2>8 DEF InLine, Stands
  <2>10. \A u \in Types : u # t => line'[u] = line[u] /\ job'[u] = job[u]
    BY <1>1, <2>1 DEF Kinds
  <2>11. \A u \in Types : InLine(u)'
    BY <1>2, <2>1, <2>4, <2>9, <2>10, Elsewhere, SameStop DEF Frame
  <2>12. Stopping'
    BY <1>1, <1>2, <2>4, StoppingKept
  <2>13. Kinds'
    BY <1>1, <1>2, <2>1, <2>3, <2>4, <2>5, NoJobIsJob DEF Kinds
  <2> QED BY <2>11, <2>12, <2>13 DEF Frame
<1> QED BY <1>3, <1>4 DEF Callback

(* A job goes on: its holder keeps the lock.                               *)
LEMMA FlushFrame ==
  ASSUME Frame, NEW t \in Types, Flush(t), dropped' \in SUBSET received PROVE Frame'
<1> DEFINE j == job[t]
<1>1. Kinds /\ InLine(t) /\ Stopping /\ j \in Jobs
  BY DEF Frame, Kinds
<1>2. UNCHANGED <<running, driver, subscribed, cancelled, todo, stop, scan, early, received, keys,
                  buffer, waiting, timer, timerKeys, line>>
  BY DEF Flush, InsertAccepted, InsertFails, RetryWakes, timers, buffers, stopping, settled
<1>3. j.at \in {"tcp", "http", "sleep"} /\ j.rest # <<>>
  BY <1>1, JobFields DEF Flush, InsertAccepted, InsertFails, RetryWakes
<1>4. \E k \in Jobs : k.at # "none" /\ job' = [job EXCEPT ![t] = k]
  <2>1. CASE InsertAccepted(t)
    BY <1>1, <1>3, <2>1, PassedJob DEF InsertAccepted
  <2>2. CASE InsertFails(t)
    <3>1. CASE j.at = "tcp"
      <4>1. [j EXCEPT !.at = "http"] \in Jobs /\ [j EXCEPT !.at = "http"].at # "none"
        BY <1>1, <1>3, JobFields DEF Jobs
      <4> QED BY <2>2, <3>1, <4>1 DEF InsertFails
    <3>2. CASE j.at # "tcp"
      BY <1>1, <1>3, <2>2, <3>2, FailedJob DEF InsertFails
    <3> QED BY <3>1, <3>2
  <2>3. CASE RetryWakes(t)
    BY <1>1, <2>3, RetriedJob DEF RetryWakes
  <2> QED BY <2>1, <2>2, <2>3 DEF Flush
<1>5. PICK k \in Jobs : k.at # "none" /\ job' = [job EXCEPT ![t] = k]
  BY <1>4
<1>6. \A u \in Types : job'[u].at # "none" <=> job[u].at # "none"
  BY <1>1, <1>3, <1>5 DEF Kinds
<1>7. \A u \in Types : InLine(u)'
  BY <1>2, <1>6, Elsewhere, SameStop DEF Frame
<1>8. Stopping'
  BY <1>1, <1>2, StoppingKept
<1>9. stored' \in [Rows -> Nat] /\ faults' \in 0..MaxFaults
  <2>1. \A S : StoredWith(S) \in [Rows -> Nat]
    BY <1>1 DEF StoredWith, Kinds
  <2>2. faults + 1 \in 0..MaxFaults \/ ~(faults < MaxFaults)
    BY <1>1, SettingsAssumption DEF Kinds, SettingsAssumption
  <2> QED BY <1>1, <2>1, <2>2
          DEF Flush, InsertAccepted, InsertFails, RetryWakes, settled, Kinds
<1>10. Kinds'
  BY <1>1, <1>2, <1>5, <1>9 DEF Kinds
<1> QED BY <1>7, <1>8, <1>10 DEF Frame

(* The timer: steps that take no lock.                                     *)
LEMMA TimerIdleFrame ==
  ASSUME Frame, NEW t \in Types, TimerStarts(t) \/ NewTimerCancelled(t) PROVE Frame'
<1>1. Kinds /\ InLine(t) /\ Stopping
  BY DEF Frame
<1>2. /\ UNCHANGED <<running, driver, subscribed, todo, stop, scan, stored, faults, early,
                     dropped, received, keys, buffer, waiting, line, job, timerKeys>>
      /\ timer[t] = "new" /\ cancelled' \in SUBSET Types /\ cancelled' \subseteq cancelled
      /\ \/ timer' = [timer EXCEPT ![t] = LoopTop] /\ t \notin cancelled
         \/ timer' = [timer EXCEPT ![t] = "done"] /\ t \notin cancelled'
  BY <1>1 DEF TimerStarts, NewTimerCancelled, TimerAt, timers, buffers, stopping, settled, Kinds
<1>3. timer'[t] \in {"sleep", "done"} /\ timer' \in [Types -> TimerPcs]
      /\ (timer'[t] = "done" => t \notin cancelled')
      /\ \A u \in Types : u # t => timer'[u] = timer[u]
  BY <1>1, <1>2 DEF LoopTop, Kinds, TimerPcs
<1>4. InLine(t)'
  BY <1>1, <1>2, <1>3, SameStop DEF InLine, Stands, Holder, Flushing
<1>5. \A u \in Types : InLine(u)'
  BY <1>2, <1>3, <1>4, Elsewhere, SameStop DEF Frame
<1>6. Stopping'
  BY <1>1, <1>2, <1>3 DEF Stopping, Kinds
<1>7. Kinds'
  BY <1>1, <1>2, <1>3 DEF Kinds
<1> QED BY <1>5, <1>6, <1>7 DEF Frame

(* The timer at the head of its line.                                      *)
LEMMA TimerTakesFrame ==
  ASSUME Frame, NEW t \in Types, TimerFires(t) \/ TimerLocks(t) PROVE Frame'
<1>1. Kinds /\ InLine(t) /\ Stopping /\ line[t] \in Lines
  BY DEF Frame, Kinds
<1>2. UNCHANGED <<running, driver, subscribed, cancelled, todo, stop, scan, stored, faults,
                  early, dropped, received, keys, waiting>> /\ t \notin cancelled
  BY DEF TimerFires, TimerLocks, stopping, settled
<1>3. CASE TimerFires(t) /\ line[t] # <<>>
  <2>1. /\ line' = [line EXCEPT ![t] = Append(line[t], "timer")]
        /\ timer' = [timer EXCEPT ![t] = "lock"] /\ timer[t] = "sleep"
        /\ UNCHANGED <<timerKeys, buffer, job>>
    BY <1>3 DEF TimerFires, TimerAt
  <2>2. "timer" \notin ToSet(line[t])
    BY <1>1, <2>1 DEF InLine, Stands
  <2>3. /\ Append(line[t], "timer") \in Lines /\ IsInjective(Append(line[t], "timer"))
        /\ Append(line[t], "timer") # <<>>
        /\ ToSet(Append(line[t], "timer")) = ToSet(line[t]) \cup {"timer"}
        /\ Head(Append(line[t], "timer")) = Head(line[t])
    BY <1>1, <1>3, <2>2, LineAppend DEF Tasks, InLine
  <2>4. /\ line'[t] = Append(line[t], "timer") /\ timer'[t] = "lock"
        /\ StopAt(t)' = StopAt(t) /\ timer' \in [Types -> TimerPcs]
        /\ \A u \in Types : u # t => line'[u] = line[u] /\ timer'[u] = timer[u]
    BY <1>1, <1>2, <2>1, SameStop DEF Kinds, TimerPcs
  <2>5. Holder(t) # "timer"
    BY <1>1, <1>3, <2>2, HolderStands DEF Holder
  <2>6. InLine(t)'
    BY <1>1, <1>2, <1>3, <2>1, <2>3, <2>4, <2>5 DEF InLine, Stands, Holder, Flushing
  <2>7. \A u \in Types : InLine(u)'
    BY <1>2, <2>1, <2>4, <2>6, Elsewhere, SameStop DEF Frame
  <2>8. Stopping'
    BY <1>1, <1>2, <2>1, <2>4, StoppingKept
  <2>9. Kinds'
    BY <1>1, <1>2, <2>1, <2>3, <2>4 DEF Kinds
  <2> QED BY <2>7, <2>8, <2>9 DEF Frame
<1>4. CASE ~(TimerFires(t) /\ line[t] # <<>>)
  <2>1. PICK q \in Lines, last \in BOOLEAN :
          /\ TimerTakes(t, q, last) /\ q # <<>> /\ IsInjective(q) /\ Head(q) = "timer"
          /\ ToSet(q) = ToSet(line[t]) \cup {"timer"} /\ Holder(t) \in {"free", "timer"}
          /\ last => timer[t] = "lastLock"
    <3>1. CASE TimerFires(t)
      <4>1. TimerTakes(t, <<"timer">>, FALSE) /\ line[t] = <<>>
        BY <1>4, <3>1 DEF TimerFires
      <4>2. ToSet(line[t]) = {} /\ Holder(t) = "free"
        BY <1>1, <4>1, LineEmpty DEF Holder
      <4> QED BY <4>1, <4>2, LineSingle DEF Tasks
    <3>2. CASE TimerLocks(t)
      <4>1. /\ TimerTakes(t, line[t], timer[t] = "lastLock") /\ Holder(t) = "timer"
            /\ line[t] # <<>> /\ Head(line[t]) = "timer"
        BY <3>2 DEF TimerLocks, Holder
      <4>2. "timer" \in ToSet(line[t])
        BY <1>1, <4>1, HolderStands
      <4> QED BY <1>1, <4>1, <4>2 DEF InLine
    <3> QED BY <3>1, <3>2
  <2>2. /\ InLine(t)' /\ line' \in [Types -> Lines] /\ timer' \in [Types -> TimerPcs]
        /\ buffer' \in [Types -> Seq(Rows)] /\ job' \in [Types -> Jobs]
        /\ timerKeys' = timerKeys /\ \A u \in Types : Len(buffer'[u]) < Threshold[u]
        /\ \A u \in Types : u # t => /\ line'[u] = line[u] /\ timer'[u] = timer[u]
                                     /\ job'[u] = job[u] /\ buffer'[u] = buffer[u]
        /\ timer'[t] \in IF last THEN {"lastFlush", "done"} ELSE {"flush", "sleep", "done"}
    BY <1>1, <1>2, <2>1, TakeInLine
  <2>3. \A u \in Types : InLine(u)'
    BY <1>2, <2>2, Elsewhere, SameStop DEF Frame
  <2>4. Stopping'
    BY <1>1, <1>2, <2>1, <2>2 DEF Stopping, Kinds
  <2>5. Kinds'
    BY <1>1, <1>2, <2>2 DEF Kinds
  <2> QED BY <2>3, <2>4, <2>5 DEF Frame
<1> QED BY <1>3, <1>4

(* A timer that ends its flush has not been cancelled in it: while a flush *)
(* is about to end nobody else runs.                                       *)
LEMMA TimerFlushedFrame ==
  ASSUME Frame, Exclusive, NEW t \in Types, TimerFlushed(t) PROVE Frame'
<1>1. Kinds /\ InLine(t) /\ Stopping /\ line[t] \in Lines /\ IsInjective(line[t])
  BY DEF Frame, Kinds, InLine
<1>2. UNCHANGED <<running, driver, subscribed, cancelled, todo, stop, scan, stored, faults,
                  early, dropped, received, keys, waiting, buffer, timerKeys>>
  BY DEF TimerFlushed, TimerAt, stopping, settled, buffers
<1>3. /\ job[t].at = "end" /\ Holder(t) = "timer" /\ job' = [job EXCEPT ![t] = NoJob]
      /\ line' = [line EXCEPT ![t] = Tail(line[t])]
      /\ timer' = [timer EXCEPT ![t] = IF timer[t] = "lastFlush" THEN "done" ELSE LoopTop]
  BY DEF TimerFlushed, TimerAt
<1>4. line[t] # <<>> /\ Head(line[t]) = "timer" /\ timer[t] \in {"flush", "lastFlush"}
  BY <1>1, <1>3 DEF Holder, InLine, Flushing
<1>5. Tail(line[t]) \in Lines /\ IsInjective(Tail(line[t]))
      /\ ToSet(Tail(line[t])) = ToSet(line[t]) \ {"timer"}
      /\ (Tail(line[t]) # <<>> => Head(Tail(line[t])) \in ToSet(Tail(line[t])))
  BY <1>1, <1>4, LineTail, HolderStands
<1>6. /\ line'[t] = Tail(line[t]) /\ job'[t].at = "none" /\ StopAt(t)' = StopAt(t)
      /\ timer'[t] \in {"sleep", "done"} /\ timer' \in [Types -> TimerPcs]
      /\ \A u \in Types : u # t => /\ line'[u] = line[u] /\ timer'[u] = timer[u]
                                   /\ job'[u] = job[u]
  BY <1>1, <1>2, <1>3, SameStop DEF Kinds, TimerPcs, LoopTop, NoJob
<1>7. ~Flushing(t)'
  BY <1>1, <1>2, <1>4, <1>5, <1>6 DEF Flushing, Holder, InLine, Stands
<1>8. InLine(t)'
  BY <1>1, <1>2, <1>4, <1>5, <1>6, <1>7 DEF InLine, Stands, Holder
<1>9. \A u \in Types : InLine(u)'
  BY <1>2, <1>6, <1>8, Elsewhere, SameStop DEF Frame
<1>10. t \notin cancelled
  BY <1>1, <1>3, <1>4 DEF Stopping, Exclusive, Busy
<1>11. Stopping'
  BY <1>1, <1>2, <1>6, <1>10 DEF Stopping, Kinds
<1>12. Kinds'
  BY <1>1, <1>2, <1>3, <1>5, <1>6, NoJobIsJob DEF Kinds
<1> QED BY <1>9, <1>11, <1>12 DEF Frame

(* A cancelled timer leaves the line and joins it again.                   *)
LEMMA TimerCancelledFrame ==
  ASSUME Frame, NEW t \in Types, TimerCancelled(t) PROVE Frame'
<1> DEFINE q == Without("timer", line[t])
<1>1. Kinds /\ InLine(t) /\ Stopping /\ line[t] \in Lines /\ IsInjective(line[t])
  BY DEF Frame, Kinds, InLine
<1>2. /\ UNCHANGED <<running, driver, subscribed, todo, stop, scan, faults,
                     early, dropped, received, keys, waiting, timerKeys>>
      /\ t \in cancelled /\ cancelled' = cancelled \ {t} /\ cancelled' \in SUBSET Types
  BY <1>1 DEF TimerCancelled, TimerTakes, TimerAt, stopping, Kinds
<1>3. stop = "awaitTimer" /\ timerKeys[scan.at] = t /\ timer[t] \in {"sleep", "lock", "flush"}
      /\ cancelled' = {}
  BY <1>1, <1>2 DEF Stopping, TimerCancelled
<1>4. q \in Lines /\ IsInjective(q) /\ ToSet(q) = ToSet(line[t]) \ {"timer"}
      /\ (line[t] # <<>> /\ Head(line[t]) # "timer" => q # <<>> /\ Head(q) = Head(line[t]))
  BY <1>1, LineWithout DEF Tasks
<1>5. stored' \in [Rows -> Nat]
  BY <1>1 DEF TimerCancelled, StoredPerhaps, StoredWith, Kinds
<1>6. CASE q = <<>>
  <2>1. TimerTakes(t, <<"timer">>, TRUE)
    BY <1>6 DEF TimerCancelled
  <2>2. ToSet(<<"timer">>) = ToSet(line[t]) \cup {"timer"} /\ <<"timer">> \in Lines
        /\ <<"timer">> # <<>> /\ IsInjective(<<"timer">>) /\ Head(<<"timer">>) = "timer"
    BY <1>4, <1>6, LineEmpty, LineSingle DEF Tasks
  <2>3. Holder(t) \in {"free", "timer"}
    BY <1>4, <1>6 DEF Holder
  <2>4. /\ InLine(t)' /\ line' \in [Types -> Lines] /\ timer' \in [Types -> TimerPcs]
        /\ buffer' \in [Types -> Seq(Rows)] /\ job' \in [Types -> Jobs]
        /\ timerKeys' = timerKeys /\ \A u \in Types : Len(buffer'[u]) < Threshold[u]
        /\ \A u \in Types : u # t => /\ line'[u] = line[u] /\ timer'[u] = timer[u]
                                     /\ job'[u] = job[u] /\ buffer'[u] = buffer[u]
        /\ timer'[t] \in {"lastFlush", "done"}
    BY <1>1, <1>2, <2>1, <2>2, <2>3, TakeInLine
  <2>5. \A u \in Types : InLine(u)'
    BY <1>2, <2>4, Elsewhere, SameStop DEF Frame
  <2>6. Stopping'
    BY <1>1, <1>2, <1>3, <2>4 DEF Stopping, Kinds
  <2>7. Kinds'
    BY <1>1, <1>2, <1>5, <2>4 DEF Kinds
  <2> QED BY <2>5, <2>6, <2>7 DEF Frame
<1>7. CASE q # <<>>
  <2>1. /\ line' = [line EXCEPT ![t] = Append(q, "timer")]
        /\ timer' = [timer EXCEPT ![t] = "lastLock"] /\ buffer' = buffer
        /\ job' = IF timer[t] = "flush" THEN [job EXCEPT ![t] = NoJob] ELSE job
    BY <1>7 DEF TimerCancelled, TimerAt
  <2>2. /\ Append(q, "timer") \in Lines /\ IsInjective(Append(q, "timer"))
        /\ Append(q, "timer") # <<>>
        /\ ToSet(Append(q, "timer")) = ToSet(line[t]) \cup {"timer"}
        /\ Head(Append(q, "timer")) = Head(q)
    BY <1>4, <1>7, LineAppend DEF Tasks
  <2> HIDE DEF q
  <2>3. /\ line'[t] = Append(q, "timer") /\ timer'[t] = "lastLock"
        /\ StopAt(t)' = StopAt(t) /\ timer' \in [Types -> TimerPcs]
        /\ \A u \in Types : u # t => /\ line'[u] = line[u] /\ timer'[u] = timer[u]
                                     /\ job'[u] = job[u]
        /\ job'[t].at = IF timer[t] = "flush" THEN "none" ELSE job[t].at
        /\ job' \in [Types -> Jobs]
    BY <1>1, <1>2, <2>1, SameStop, NoJobIsJob DEF Kinds, TimerPcs, NoJob
  <2>4. ASSUME Holder(t) = "timer" PROVE InLine(t)'
    <3>1. /\ ~Stands("cb", t) \/ waiting[t] # {}
          /\ StopAt(t) # "flushing" /\ job'[t].at = "none" /\ Head(q) \in ToSet(line[t])
          /\ Head(q) # "timer"
      BY <1>1, <1>3, <1>4, <1>7, <2>3, <2>4, HolderStands DEF InLine, Flushing, q
    <3> QED BY <1>1, <1>2, <2>2, <2>3, <3>1 DEF InLine, Stands, Holder, Flushing
  <2>5. ASSUME Holder(t) # "timer" PROVE InLine(t)'
    <3>1. line[t] # <<>> /\ Head(line[t]) # "timer" /\ Head(q) = Head(line[t])
      <4>1. line[t] # <<>>
        BY <1>1, <1>4, <1>7, LineEmpty DEF q
      <4> QED BY <1>4, <2>5, <4>1 DEF Holder, q
    <3>2. timer[t] # "flush"
      BY <1>1, <2>5 DEF InLine
    <3>3. Holder(t)' = Holder(t) /\ Holder(t) = Head(line[t])
      BY <2>2, <2>3, <3>1 DEF Holder
    <3> QED BY <1>1, <1>2, <1>3, <2>2, <2>3, <2>5, <3>2, <3>3 DEF InLine, Stands, Flushing
  <2>6. \A u \in Types : InLine(u)'
    BY <1>2, <2>3, <2>4, <2>5, Elsewhere, SameStop DEF Frame
  <2>7. Stopping'
    BY <1>1, <1>2, <1>3, <2>3 DEF Stopping, Kinds
  <2>8. Kinds'
    BY <1>1, <1>2, <1>5, <2>1, <2>2, <2>3 DEF Kinds
  <2> QED BY <2>6, <2>7, <2>8 DEF Frame
<1> QED BY <1>6, <1>7

(* start() and stop().                                                     *)
LEMMA StopTakesFrame ==
  ASSUME Frame, NEW t \in Types, todo # <<>>, t = Head(todo), NEW q \in Lines,
         q # <<>>, IsInjective(q), Head(q) = "stop", ToSet(q) = ToSet(line[t]) \cup {"stop"},
         Holder(t) \in {"free", "stop"}, stop \in {"flush", "lock"}, StopTakes(t, q),
         UNCHANGED <<driver, subscribed, received, keys, waiting, timers, running, scan,
                     early, settled>>
  PROVE  Frame'
<1>1. Kinds /\ InLine(t) /\ Stopping /\ UNCHANGED <<timer, timerKeys, cancelled>>
  BY DEF Frame, timers
<1>2. /\ InLine(t)' /\ line' \in [Types -> Lines]
      /\ buffer' \in [Types -> Seq(Rows)] /\ job' \in [Types -> Jobs]
      /\ todo' \in Seq(Types) /\ \A u \in Types : Len(buffer'[u]) < Threshold[u]
      /\ \A u \in Types : u # t => /\ line'[u] = line[u] /\ job'[u] = job[u]
                                   /\ buffer'[u] = buffer[u] /\ StopAt(u)' = StopAt(u)
      /\ stop' = "flush" \/ (stop' = "flushing" /\ todo' = todo)
  BY <1>1, StopInLine
<1>3. \A u \in Types : InLine(u)'
  BY <1>1, <1>2, Elsewhere DEF Frame
<1>4. Stopping'
  BY <1>1, <1>2 DEF Stopping
<1>5. Kinds'
  BY <1>1, <1>2 DEF Kinds, StopPcs, settled
<1> QED BY <1>3, <1>4, <1>5 DEF Frame

LEMMA StopQueuesFrame ==
  ASSUME Frame, NEW t \in Types, todo # <<>>, t = Head(todo), line[t] # <<>>,
         stop = "flush", StopQueues(t),
         UNCHANGED <<driver, subscribed, received, keys, waiting, timers, running, scan,
                     early, settled>>
  PROVE  Frame'
<1>1. Kinds /\ Stopping /\ InLine(t) /\ line[t] \in Lines /\ IsInjective(line[t])
  BY DEF Frame, Kinds, InLine
<1>2. /\ line' = [line EXCEPT ![t] = Append(line[t], "stop")]
      /\ stop' = "lock" /\ todo' = todo
      /\ UNCHANGED <<buffer, job, timer, timerKeys, cancelled>>
  BY DEF StopQueues, timers
<1>3. "stop" \notin ToSet(line[t])
  BY <1>1 DEF InLine, Stands, StopAt
<1>4. /\ Append(line[t], "stop") \in Lines /\ IsInjective(Append(line[t], "stop"))
      /\ Append(line[t], "stop") # <<>>
      /\ ToSet(Append(line[t], "stop")) = ToSet(line[t]) \cup {"stop"}
      /\ Head(Append(line[t], "stop")) = Head(line[t])
  BY <1>1, <1>3, LineAppend DEF Tasks
<1>5. /\ StopAt(t) = "away" /\ StopAt(t)' = "lock"
      /\ \A u \in Types : u # t => StopAt(u)' = StopAt(u)
  BY <1>2 DEF StopAt
<1>6. /\ line'[t] = Append(line[t], "stop") /\ job'[t] = job[t] /\ timer'[t] = timer[t]
      /\ waiting'[t] = waiting[t] /\ \A u \in Types : u # t => line'[u] = line[u]
  BY <1>1, <1>2 DEF Kinds
<1>7. Head(line[t]) # "stop"
  BY <1>1, <1>3, HolderStands
<1>8. InLine(t)'
  BY <1>1, <1>4, <1>5, <1>6, <1>7 DEF InLine, Stands, Holder, Flushing
<1>9. \A u \in Types : InLine(u)'
  BY <1>2, <1>5, <1>6, <1>8, Elsewhere DEF Frame
<1>10. Stopping'
  BY <1>1, <1>2 DEF Stopping
<1>11. Kinds'
  BY <1>1, <1>2, <1>4 DEF Kinds, StopPcs, settled
<1> QED BY <1>9, <1>10, <1>11 DEF Frame

LEMMA StopFlushesFrame ==
  ASSUME Frame, StopFlushes \/ StopLocks PROVE Frame'
<1> DEFINE t == Head(todo)
<1>1. Kinds /\ Stopping /\ todo # <<>>
  BY DEF Frame, StopFlushes, StopLocks, Stopping
<1>2. t \in Types
  BY <1>1, HeadTailProperties DEF Kinds
<1>3. InLine(t) /\ line[t] \in Lines /\ IsInjective(line[t])
  BY <1>1, <1>2 DEF Frame, Kinds, InLine
<1>4. UNCHANGED <<driver, subscribed, received, keys, waiting, timers, running, scan,
                  early, settled>>
  BY DEF StopFlushes, StopLocks
<1>5. CASE StopFlushes /\ line[t] = <<>>
  <2>1. StopTakes(t, <<"stop">>) /\ stop = "flush"
    BY <1>5 DEF StopFlushes
  <2>2. ToSet(<<"stop">>) = ToSet(line[t]) \cup {"stop"} /\ Holder(t) = "free"
    BY <1>3, <1>5, LineEmpty, LineSingle DEF Holder, Tasks
  <2>3. <<"stop">> \in Lines /\ <<"stop">> # <<>> /\ IsInjective(<<"stop">>) /\ Head(<<"stop">>) = "stop"
    BY LineSingle DEF Tasks
  <2> HIDE DEF t
  <2> QED BY <1>1, <1>2, <1>4, <2>1, <2>2, <2>3, StopTakesFrame DEF t
<1>6. CASE StopFlushes /\ line[t] # <<>>
  <2>1. StopQueues(t) /\ stop = "flush"
    BY <1>6 DEF StopFlushes
  <2> HIDE DEF t
  <2> QED BY <1>1, <1>2, <1>4, <1>6, <2>1, StopQueuesFrame DEF t
<1>7. CASE StopLocks
  <2>1. /\ StopTakes(t, line[t]) /\ stop = "lock" /\ Holder(t) = "stop" /\ line[t] # <<>>
        /\ Head(line[t]) = "stop"
    BY <1>7 DEF StopLocks, Holder
  <2>2. "stop" \in ToSet(line[t])
    BY <1>3, <2>1, HolderStands
  <2>3. ToSet(line[t]) = ToSet(line[t]) \cup {"stop"}
    BY <2>2
  <2> HIDE DEF t
  <2> QED BY <1>1, <1>2, <1>3, <1>4, <2>1, <2>3, StopTakesFrame DEF t
<1> QED BY <1>5, <1>6, <1>7

LEMMA StopFlushedFrame ==
  ASSUME Frame, NEW t \in Types, StopFlushed(t) PROVE Frame'
<1>1. Kinds /\ InLine(t) /\ Stopping /\ line[t] \in Lines /\ IsInjective(line[t])
  BY DEF Frame, Kinds, InLine
<1>2. UNCHANGED <<driver, subscribed, received, buffer, keys, waiting, timer, timerKeys, cancelled,
                  running, scan, early, stored, faults, dropped>>
  BY DEF StopFlushed, buffers, timers, settled
<1>3. /\ job[t].at = "end" /\ Holder(t) = "stop" /\ job' = [job EXCEPT ![t] = NoJob]
      /\ line' = [line EXCEPT ![t] = Tail(line[t])] /\ stop' = "flush" /\ todo' = Tail(todo)
  BY DEF StopFlushed
<1>4. line[t] # <<>> /\ Head(line[t]) = "stop" /\ StopAt(t) = "flushing"
  BY <1>1, <1>3 DEF Holder, InLine, Flushing
<1>5. stop = "flushing" /\ t = Head(todo) /\ todo # <<>> /\ Tail(todo) \in Seq(Types)
  BY <1>1, <1>4, HeadTailProperties DEF StopAt, Stopping, Kinds
<1>6. Tail(line[t]) \in Lines /\ IsInjective(Tail(line[t]))
      /\ ToSet(Tail(line[t])) = ToSet(line[t]) \ {"stop"}
      /\ (Tail(line[t]) # <<>> => Head(Tail(line[t])) \in ToSet(Tail(line[t])))
  BY <1>1, <1>4, LineTail, HolderStands
<1>7. /\ line'[t] = Tail(line[t]) /\ job'[t].at = "none"
      /\ \A u \in Types : u # t => line'[u] = line[u] /\ job'[u] = job[u]
  BY <1>1, <1>3 DEF Kinds, NoJob
<1>8. \A u \in Types : StopAt(u)' = "away" /\ (u # t => StopAt(u) = "away")
  BY <1>3, <1>5 DEF StopAt
<1>9. ~Flushing(t)'
  BY <1>1, <1>2, <1>4, <1>6, <1>7, <1>8 DEF Flushing, Holder, InLine, Stands
<1>10. InLine(t)'
  BY <1>1, <1>2, <1>4, <1>6, <1>7, <1>8, <1>9 DEF InLine, Stands, Holder
<1>11. \A u \in Types : InLine(u)'
  BY <1>2, <1>7, <1>8, <1>10, Elsewhere DEF Frame
<1>12. Stopping'
  BY <1>1, <1>2, <1>3, <1>5 DEF Stopping
<1>13. Kinds'
  BY <1>1, <1>2, <1>3, <1>5, <1>6, NoJobIsJob DEF Kinds, StopPcs
<1> QED BY <1>11, <1>12, <1>13 DEF Frame

(* Steps that concern neither locks nor buffers.                           *)
LEMMA StartStopFrame ==
  ASSUME Frame, Started \/ StopBegins \/ StopTurnsToTimers \/ StopCancels \/ StopResumes
                \/ StopGoesOn \/ StopCloses
  PROVE  Frame'
<1>1. Kinds /\ Stopping
  BY DEF Frame
<1>2. /\ UNCHANGED <<driver, subscribed, received, line, job, buffer, keys, waiting, timer,
                     timerKeys, stored, faults, dropped>>
      /\ stop \notin {"lock", "flushing"} /\ stop' \notin {"lock", "flushing"}
  BY DEF Started, StopBegins, StopTurnsToTimers, StopCancels, StopResumes, StopGoesOn,
         StopCloses, buffers, timers, settled
<1>3. \A u \in Types : InLine(u)'
  <2>1. \A u \in Types : StopAt(u)' = StopAt(u)
    BY <1>2 DEF StopAt
  <2> QED BY <1>2, <2>1, Elsewhere DEF Frame
<1>4. /\ running' \in BOOLEAN /\ stop' \in StopPcs /\ todo' \in Seq(Types)
      /\ early' \in SUBSET received
  BY <1>1 DEF Started, StopBegins, StopTurnsToTimers, StopCancels, StopResumes, StopGoesOn,
              StopCloses, Kinds, StopPcs
<1>5. CASE Started \/ StopBegins
  <2>1. UNCHANGED <<cancelled, scan>> /\ stop' # "awaitTimer" /\ stop # "awaitTimer"
    BY <1>5 DEF Started, StopBegins, timers
  <2>2. Stopping'
    BY <1>1, <1>2, <2>1 DEF Stopping
  <2> QED BY <1>1, <1>2, <1>3, <1>4, <2>1, <2>2 DEF Frame, Kinds
<1>6. CASE StopTurnsToTimers \/ StopResumes
  <2>1. /\ cancelled' = cancelled /\ stop' = "cancel" /\ scan' \in [at : Nat \ {0}, size : Nat]
    <3>1. Len(timerKeys) \in Nat /\ scan.at + 1 \in Nat \ {0}
      BY <1>1, LenProperties DEF Kinds
    <3>2. StopTurnsToTimers => scan' = [at |-> 1, size |-> Len(timerKeys)]
      BY DEF StopTurnsToTimers
    <3>3. StopResumes => scan' = [scan EXCEPT !.at = scan.at + 1]
      BY DEF StopResumes
    <3>4. [at |-> 1, size |-> Len(timerKeys)] \in [at : Nat \ {0}, size : Nat]
      BY <3>1
    <3>5. [scan EXCEPT !.at = scan.at + 1] \in [at : Nat \ {0}, size : Nat]
      BY <1>1, <3>1 DEF Kinds
    <3> QED BY <1>6, <3>2, <3>3, <3>4, <3>5 DEF StopTurnsToTimers, StopResumes, timers
  <2>2. cancelled = {} /\ \A t \in Types : timer[t] \notin {"lastLock", "lastFlush"}
    <3>1. CASE StopTurnsToTimers
      BY <1>1, <3>1 DEF StopTurnsToTimers, Stopping
    <3>2. CASE StopResumes
      BY <1>1, <3>2 DEF StopResumes, Stopping
    <3> QED BY <1>6, <3>1, <3>2
  <2>3. Stopping'
    BY <1>2, <2>1, <2>2 DEF Stopping
  <2> QED BY <1>1, <1>2, <1>3, <1>4, <2>1, <2>3 DEF Frame, Kinds
<1>7. CASE StopCancels /\ stop' # "awaitTimer"
  <2>1. UNCHANGED <<cancelled, scan>> /\ stop # "awaitTimer"
    BY <1>7 DEF StopCancels
  <2>2. Stopping'
    BY <1>1, <1>2, <1>7, <2>1 DEF Stopping
  <2> QED BY <1>1, <1>2, <1>3, <1>4, <2>1, <2>2 DEF Frame, Kinds
<1>8. CASE StopCancels /\ stop' = "awaitTimer"
  <2>1. PICK i \in Left : cancelled' = cancelled \cup {timerKeys[i]} /\ scan' = [scan EXCEPT !.at = i]
    BY <1>8 DEF StopCancels
  <2>2. i \in 1..Len(timerKeys) /\ Alive(timerKeys[i])
    <3>1. scan.at \in Nat \ {0} /\ Len(timerKeys) \in Nat
      BY <1>1, LenProperties DEF Kinds
    <3>2. i \in scan.at..Len(timerKeys) /\ Alive(timerKeys[i])
      BY <2>1 DEF Left
    <3> QED BY <3>1, <3>2
  <2>3. timerKeys[i] \in Types
    BY <1>1, <2>2, ElementOfSeq DEF Kinds
  <2>4. cancelled = {} /\ \A t \in Types : timer[t] \notin {"lastLock", "lastFlush"}
    BY <1>1, <1>8 DEF StopCancels, Stopping
  <2>5. timer[timerKeys[i]] \in {"new", "sleep", "lock", "flush"}
    BY <1>1, <2>2, <2>3, <2>4 DEF Alive, Kinds, TimerPcs
  <2>6. scan' \in [at : Nat \ {0}, size : Nat] /\ scan'.at = i
    <3>1. i \in Nat \ {0}
      BY <1>1, <2>2, LenProperties DEF Kinds
    <3>2. scan \in [at : Nat \ {0}, size : Nat]
      BY <1>1 DEF Kinds
    <3> QED BY <2>1, <3>1, <3>2
  <2>7. Stopping'
    BY <1>2, <1>8, <2>1, <2>2, <2>4, <2>5, <2>6 DEF Stopping
  <2>8. cancelled' \in SUBSET Types
    BY <2>1, <2>3, <2>4
  <2> QED BY <1>1, <1>2, <1>3, <1>4, <2>6, <2>7, <2>8 DEF Frame, Kinds
<1>9. CASE StopGoesOn \/ StopCloses
  <2>1. UNCHANGED <<cancelled, scan>> /\ stop' # "awaitTimer" /\ stop # "awaitTimer"
    BY <1>9 DEF StopGoesOn, StopCloses, timers
  <2>2. Stopping'
    BY <1>1, <1>2, <2>1 DEF Stopping
  <2> QED BY <1>1, <1>2, <1>3, <1>4, <2>1, <2>2 DEF Frame, Kinds
<1> QED BY <1>5, <1>6, <1>7, <1>8, <1>9

LEMMA UnsubscribeFrame ==
  ASSUME Frame, NEW t \in Types, Unsubscribe(t) PROVE Frame'
<1> DEFINE q == Without("cb", line[t])
<1>1. Kinds /\ InLine(t) /\ Stopping /\ line[t] \in Lines /\ IsInjective(line[t])
  BY DEF Frame, Kinds, InLine
<1>2. /\ UNCHANGED <<driver, received, buffer, keys, timer, timerKeys, cancelled, running, todo,
                     scan, early, faults, dropped>>
      /\ stop = "unsub" /\ stop' \in {"unsub", "yield"} /\ subscribed' = subscribed \ {t}
      /\ waiting' = [waiting EXCEPT ![t] = {}] /\ line' = [line EXCEPT ![t] = q]
  BY DEF Unsubscribe, timers
<1>3. q \in Lines /\ IsInjective(q) /\ ToSet(q) = ToSet(line[t]) \ {"cb"}
      /\ (line[t] # <<>> /\ Head(line[t]) # "cb" => q # <<>> /\ Head(q) = Head(line[t]))
      /\ (q # <<>> => Head(q) \in ToSet(q))
  BY <1>1, LineWithout, HolderStands DEF Tasks
<1>4. \A u \in Types : StopAt(u) = "away" /\ StopAt(u)' = "away"
  BY <1>2 DEF StopAt
<1>5. stored' \in [Rows -> Nat]
  BY <1>1 DEF Unsubscribe, StoredPerhaps, StoredWith, Kinds
<1>6. job' = IF Holder(t) = "cb" /\ waiting[t] = {} THEN [job EXCEPT ![t] = NoJob] ELSE job
  BY DEF Unsubscribe
<1> HIDE DEF q
<1>7. /\ line'[t] = q /\ waiting'[t] = {} /\ timer'[t] = timer[t]
      /\ job'[t].at = IF Holder(t) = "cb" /\ waiting[t] = {} THEN "none" ELSE job[t].at
      /\ \A u \in Types : u # t => /\ line'[u] = line[u] /\ waiting'[u] = waiting[u]
                                   /\ job'[u] = job[u]
      /\ job' \in [Types -> Jobs]
  BY <1>1, <1>2, <1>6, NoJobIsJob DEF Kinds, NoJob
<1>8. InLine(t)'
  <2>1. CASE Holder(t) = "cb"
    <3>1. job'[t].at = "none" /\ timer[t] \notin {"flush", "lastFlush"}
      BY <1>1, <1>7, <2>1 DEF InLine, Flushing
    <3>2. ~Flushing(t)'
      BY <1>3, <1>4, <1>7, <3>1 DEF Flushing, Holder
    <3> QED BY <1>1, <1>3, <1>4, <1>7, <3>1, <3>2 DEF InLine, Stands
  <2>2. CASE Holder(t) # "cb"
    <3>1. job'[t].at = job[t].at
      BY <1>7, <2>2
    <3>2. Holder(t)' = Holder(t)
      BY <1>1, <1>3, <1>7, <2>2, LineEmpty DEF Holder
    <3>3. Flushing(t)' <=> Flushing(t)
      BY <1>4, <1>7, <2>2, <3>2 DEF Flushing
    <3> QED BY <1>1, <1>3, <1>4, <1>7, <3>1, <3>2, <3>3 DEF InLine, Stands
  <2> QED BY <2>1, <2>2
<1>9. \A u \in Types : InLine(u)'
  BY <1>2, <1>4, <1>7, <1>8, Elsewhere DEF Frame
<1>10. Stopping'
  BY <1>1, <1>2 DEF Stopping
<1>11. Kinds'
  BY <1>1, <1>2, <1>3, <1>5, <1>7 DEF Kinds, StopPcs
<1> QED BY <1>9, <1>10, <1>11 DEF Frame

-------------------------------------------------------------------------------
(* One task runs at a time.                                                *)

(* No task runs but one: the two ways to see it after a step.              *)
LEMMA NoneBusy ==
  ASSUME \A u \in Types : ~Busy(u)' PROVE Exclusive'
BY DEF Exclusive

LEMMA OneBusy ==
  ASSUME NEW t \in Types, \A u \in Types : u # t => ~Busy(u) /\ job'[u] = job[u],
         Busy(t)' => /\ stop' \notin {"flush", "cancel", "unsub", "closed"}
                     /\ ~(t \in cancelled' /\ timer'[t] = "flush"),
         cancelled' \in SUBSET Types
  PROVE  Exclusive'
<1>1. \A u \in Types : u # t => ~Busy(u)'
  BY DEF Busy
<1> QED BY <1>1 DEF Exclusive

LEMMA FreeNoneBusy == ASSUME Free PROVE \A u \in Types : ~Busy(u)
BY DEF Free, Busy

LEMMA ReceiveExclusive ==
  ASSUME Frame, Exclusive, NEW r \in Rows, Receive(r) PROVE Exclusive'
<1> DEFINE t == TypeOf[r]
<1>1. t \in Types /\ Kinds /\ InLine(t)
  BY RowsAssumption DEF RowsAssumption, Frame
<1>2. Free /\ UNCHANGED <<stop, cancelled>>
  BY DEF Receive, EnterBuffer, StartTimer, timers, stopping
<1>3. \A u \in Types : u # t => job'[u] = job[u]
  BY <1>1 DEF Receive, EnterBuffer, Kinds
<1>4. timer'[t] = "flush" => timer[t] = "flush" /\ line[t] # <<>> /\ job'[t] = job[t]
  <2>1. timer'[t] = "flush" => timer[t] = "flush"
    BY <1>1 DEF Receive, EnterBuffer, StartTimer, timers, Kinds
  <2>2. timer[t] = "flush" => line[t] # <<>>
    BY <1>1 DEF InLine, Holder
  <2>3. line[t] # <<>> => job' = job
    BY DEF Receive
  <2> QED BY <2>1, <2>2, <2>3
<1> HIDE DEF t
<1>5. Busy(t)' => ~(t \in cancelled' /\ timer'[t] = "flush")
  BY <1>1, <1>2, <1>4, FreeNoneBusy DEF Busy
<1> QED BY <1>1, <1>2, <1>3, <1>5, OneBusy, FreeNoneBusy DEF Kinds, Free

LEMMA CallbackExclusive ==
  ASSUME Frame, Exclusive, NEW t \in Types, Callback(t) PROVE Exclusive'
<1>1. Kinds /\ InLine(t)
  BY DEF Frame
<1>2. CASE CallbackLocks(t)
  <2>1. Free /\ UNCHANGED <<stop, cancelled>> /\ Holder(t) = "cb"
    BY <1>2 DEF CallbackLocks, EnterBuffer, StartTimer, timers, stopping
  <2>2. \A u \in Types : u # t => job'[u] = job[u]
    BY <1>1, <1>2 DEF CallbackLocks, EnterBuffer, Kinds
  <2>3. timer'[t] # "flush"
    <3>1. timer[t] # "flush"
      BY <1>1, <2>1 DEF InLine
    <3> QED BY <1>1, <1>2, <3>1 DEF CallbackLocks, EnterBuffer, StartTimer, timers, Kinds
  <2> QED BY <1>1, <2>1, <2>2, <2>3, OneBusy, FreeNoneBusy DEF Kinds, Free
<1>3. CASE CallbackFlushed(t)
  BY <1>1, <1>3, NoneBusy DEF CallbackFlushed, Exclusive, Busy, Kinds, NoJob
<1> QED BY <1>2, <1>3 DEF Callback

LEMMA FlushExclusive ==
  ASSUME Frame, Exclusive, NEW t \in Types, Flush(t) PROVE Exclusive'
<1>1. Kinds /\ InLine(t)
  BY DEF Frame
<1>2. UNCHANGED <<stop, cancelled, timer>> /\ JobRuns(t)
  BY DEF Flush, InsertAccepted, InsertFails, RetryWakes, timers, stopping
<1>3. \A u \in Types : u # t => job'[u] = job[u]
  BY <1>1 DEF Flush, InsertAccepted, InsertFails, RetryWakes, Kinds
<1>4. CASE job[t].at = "tcp"
  <2>1. \A u \in Types : u # t => ~Busy(u)
    BY <1>4 DEF Exclusive, Busy
  <2>2. /\ stop' \notin {"flush", "cancel", "unsub", "closed"}
        /\ ~(t \in cancelled' /\ timer'[t] = "flush")
    BY <1>2, <1>4 DEF Exclusive, Busy
  <2> QED BY <1>1, <1>2, <1>3, <2>1, <2>2, OneBusy DEF Kinds
<1>5. CASE Free /\ ~(t \in cancelled /\ Holder(t) = "timer")
  <2>1. /\ stop' \notin {"flush", "cancel", "unsub", "closed"}
        /\ ~(t \in cancelled' /\ timer'[t] = "flush")
    BY <1>1, <1>2, <1>5 DEF Free, InLine
  <2> QED BY <1>1, <1>2, <1>3, <1>5, <2>1, OneBusy, FreeNoneBusy DEF Kinds
<1> QED BY <1>2, <1>4, <1>5 DEF JobRuns

LEMMA TimerExclusive ==
  ASSUME Frame, Exclusive, NEW t \in Types, Timer(t) PROVE Exclusive'
<1>1. Kinds /\ stop' = stop /\ cancelled' \in SUBSET cancelled
  BY DEF Frame, Timer, TimerStarts, TimerFires, TimerLocks, TimerFlushed, TimerCancelled,
         NewTimerCancelled, stopping, Kinds
<1>2. CASE TimerFlushed(t)
  BY <1>1, <1>2, NoneBusy DEF TimerFlushed, Exclusive, Busy, Kinds, NoJob
<1>3. CASE ~TimerFlushed(t)
  <2>1. Free
    BY <1>3 DEF Timer, TimerStarts, TimerFires, TimerLocks, TimerCancelled, NewTimerCancelled
  <2>2. \A u \in Types : u # t => job'[u] = job[u]
    BY <1>1, <1>3 DEF Timer, TimerStarts, TimerFires, TimerLocks, TimerCancelled,
                      NewTimerCancelled, TimerTakes, Kinds
  <2>3. t \notin cancelled'
    BY <1>3 DEF Timer, TimerStarts, TimerFires, TimerLocks, TimerCancelled, NewTimerCancelled
  <2>4. cancelled' \in SUBSET Types
    BY <1>1 DEF Kinds
  <2> QED BY <1>1, <2>1, <2>2, <2>3, <2>4, OneBusy, FreeNoneBusy DEF Free
<1> QED BY <1>2, <1>3

LEMMA StopExclusive ==
  ASSUME Frame, Exclusive, Started \/ StopBegins \/ Stop PROVE Exclusive'
<1>1. Kinds /\ Stopping
  BY DEF Frame
<1>2. CASE StopFlushes \/ StopLocks
  <2>1. PICK t \in Types : /\ t = Head(todo) /\ todo # <<>>
                           /\ (\E q : StopTakes(t, q)) \/ StopQueues(t)
    <3>1. todo # <<>>
      BY <1>1, <1>2 DEF StopFlushes, StopLocks, Stopping
    <3>2. Head(todo) \in Types
      BY <1>1, <3>1, HeadTailProperties DEF Kinds
    <3> QED BY <1>2, <3>1, <3>2 DEF StopFlushes, StopLocks
  <2>2. stop \in {"flush", "lock"} /\ cancelled' = cancelled /\ \A u \in Types : ~Busy(u)
    BY <1>2, FreeNoneBusy DEF StopFlushes, StopLocks, Exclusive, timers
  <2>3. cancelled = {}
    BY <1>1, <2>2 DEF Stopping
  <2>4. CASE job' = job
    BY <2>2, <2>4, NoneBusy DEF Busy
  <2>5. CASE job' # job
    <3>1. stop' = "flushing" /\ \A u \in Types : u # t => job'[u] = job[u]
      BY <1>1, <2>1, <2>5 DEF StopTakes, StopQueues, Kinds
    <3> QED BY <2>2, <2>3, <3>1, OneBusy
  <2> QED BY <2>4, <2>5
<1>3. CASE \E t \in Types : StopFlushed(t)
  BY <1>1, <1>3, NoneBusy DEF StopFlushed, Exclusive, Busy, Kinds, NoJob
<1>4. CASE \E t \in Types : Unsubscribe(t)
  <2>1. PICK t \in Types : Unsubscribe(t)
    BY <1>4
  <2>2. \A u \in Types : ~Busy(u) /\ (job'[u] = job[u] \/ job'[u] = NoJob)
    BY <1>1, <2>1 DEF Unsubscribe, Exclusive, Kinds
  <2> QED BY <2>2, NoneBusy DEF Busy, NoJob
<1>5. CASE Started \/ StopBegins \/ StopTurnsToTimers \/ StopCancels \/ StopResumes
           \/ StopGoesOn \/ StopCloses
  <2>1. job' = job /\ \A u \in Types : ~Busy(u)
    BY <1>5, FreeNoneBusy DEF Started, StopBegins, StopTurnsToTimers, StopCancels, StopResumes,
                              StopGoesOn, StopCloses, Exclusive
  <2> QED BY <2>1, NoneBusy DEF Busy
<1> QED BY <1>2, <1>3, <1>4, <1>5 DEF Stop

-------------------------------------------------------------------------------
(* What a step does to the rows, whoever takes it.                         *)

Orderly == stop \in {"off", "flush", "lock", "flushing"}

Idle == UNCHANGED <<buffer, job, waiting, stored, faults, dropped, received>>

(* A row that comes in, or waited for the lock, goes to the buffer, and    *)
(* with a full buffer into a flush.                                        *)
Arrives(t, r) ==
  \/ /\ TypeOf[r] = t /\ r \notin received /\ received' = received \cup {r}
     /\ waiting[t] = {} /\ waiting' = waiting
  \/ /\ waiting[t] = {r} /\ waiting' = [waiting EXCEPT ![t] = {}] /\ received' = received
Enters(t, r) ==
  /\ Arrives(t, r) /\ job[t].rest = <<>> /\ UNCHANGED <<stored, faults, dropped>>
  /\ \/ buffer' = [buffer EXCEPT ![t] = Append(buffer[t], r)] /\ job' = job
     \/ /\ buffer' = [buffer EXCEPT ![t] = <<>>]
        /\ job' = [job EXCEPT ![t] = FlushOf(Append(buffer[t], r), 0)]

Waits(t, r) ==
  /\ TypeOf[r] = t /\ r \notin received /\ received' = received \cup {r}
  /\ waiting[t] = {} /\ waiting' = [waiting EXCEPT ![t] = {r}]
  /\ UNCHANGED <<buffer, job, stored, faults, dropped>>

(* A flush ends or is cancelled, and perhaps the next one begins.          *)
Takes(t) ==
  /\ \/ buffer' = buffer /\ job' = [job EXCEPT ![t] = NoJob]
     \/ /\ buffer' = [buffer EXCEPT ![t] = <<>>]
        /\ job' = [job EXCEPT ![t] = FlushOf(buffer[t], 0)]
  /\ stored' \in StoredPerhaps(job[t])
  /\ Orderly => job[t].rest = <<>>
  /\ UNCHANGED <<waiting, received, faults, dropped>>

(* The callback of a type is cancelled.                                    *)
Quits(t) ==
  /\ stop = "unsub" /\ waiting' = [waiting EXCEPT ![t] = {}]
  /\ \/ job' = job /\ stored' = stored
     \/ job' = [job EXCEPT ![t] = NoJob] /\ stored' \in StoredPerhaps(job[t])
  /\ UNCHANGED <<buffer, received, faults, dropped>>

(* A flush goes on: a portion is tried in vain, given up, or stored.       *)
Costs(j) ==
  \/ UNCHANGED <<stored, faults>>
  \/ faults' = faults + 1 /\ stored' \in {stored, StoredWith(Portion(j))}
Advances(t) ==
  /\ job[t].rest # <<>> /\ UNCHANGED <<buffer, waiting, received>>
  /\ \E k \in Jobs :
       /\ job' = [job EXCEPT ![t] = k]
       /\ \/ k.rest = job[t].rest /\ Costs(job[t]) /\ dropped' = dropped
          \/ /\ k.rest = Passed(job[t]).rest /\ Costs(job[t])
             /\ dropped' = dropped \cup Portion(job[t])
          \/ /\ k.rest = Passed(job[t]).rest /\ UNCHANGED <<faults, dropped>>
             /\ stored' = StoredWith(Portion(job[t]))

Handles(t) ==
  \/ \E r \in Rows : Enters(t, r) \/ Waits(t, r)
  \/ Takes(t) \/ Quits(t)
Moves(t) == Handles(t) \/ Advances(t)

(* A job without rows stores none, even if it is cancelled.                *)
LEMMA NoRest ==
  ASSUME Kinds, NEW t \in Types, job[t].at \in {"none", "end"}
  PROVE  job[t].rest = <<>> /\ stored \in StoredPerhaps(job[t])
BY JobFields DEF Kinds, StoredPerhaps

(* Which of these each action does.                                        *)
LEMMA ReceiveMoves ==
  ASSUME Frame, NEW r \in Rows, Receive(r) PROVE Handles(TypeOf[r])
<1> DEFINE t == TypeOf[r]
<1>1. t \in Types /\ Kinds /\ InLine(t)
  BY RowsAssumption DEF RowsAssumption, Frame
<1>2. /\ r \notin received /\ received' = received \cup {r} /\ waiting[t] = {}
      /\ UNCHANGED <<stored, faults, dropped>>
  BY DEF Receive, CallbackBusy, settled
<1> HIDE DEF t
<1>3. CASE line[t] = <<>>
  <2>1. EnterBuffer(t, r, <<"cb">>) /\ waiting' = waiting
    BY <1>3 DEF Receive, t
  <2>2. job[t].rest = <<>>
    BY <1>1, <1>3, HeadNone, NoRest DEF Holder
  <2>3. Enters(t, r)
    BY <1>2, <2>1, <2>2 DEF Enters, Arrives, EnterBuffer, Emptied, t
  <2> QED BY <2>3 DEF Handles, t
<1>4. CASE line[t] # <<>>
  <2>1. Waits(t, r)
    BY <1>2, <1>4 DEF Receive, Waits, t
  <2> QED BY <2>1 DEF Handles, t
<1> QED BY <1>3, <1>4

LEMMA CallbackMoves ==
  ASSUME Frame, NEW t \in Types, Callback(t) PROVE Handles(t)
<1>1. Kinds /\ InLine(t)
  BY DEF Frame
<1>2. CASE CallbackLocks(t)
  <2>1. PICK r \in waiting[t] : EnterBuffer(t, r, line[t])
    BY <1>2 DEF CallbackLocks
  <2>2. r \in Rows /\ waiting[t] = {r}
    BY <1>1, <2>1 DEF Kinds, InLine
  <2>3. job[t].rest = <<>>
    BY <1>1, <1>2, HeadNone, NoRest DEF CallbackLocks
  <2>4. Enters(t, r)
    BY <1>2, <2>1, <2>2, <2>3
       DEF Enters, Arrives, EnterBuffer, Emptied, CallbackLocks, settled
  <2> QED BY <2>2, <2>4 DEF Handles
<1>3. CASE CallbackFlushed(t)
  <2>1. job[t].rest = <<>> /\ stored \in StoredPerhaps(job[t])
    BY <1>1, <1>3, NoRest DEF CallbackFlushed
  <2> QED BY <1>3, <2>1 DEF CallbackFlushed, Takes, Handles, buffers, settled
<1> QED BY <1>2, <1>3 DEF Callback

LEMMA TimerMoves ==
  ASSUME Frame, NEW t \in Types, Timer(t) PROVE Idle \/ Handles(t)
<1>1. Kinds /\ InLine(t) /\ Stopping /\ UNCHANGED <<waiting, received, faults, dropped>>
  BY DEF Frame, Timer, TimerStarts, TimerFires, TimerLocks, TimerFlushed, TimerCancelled,
         NewTimerCancelled, buffers, settled
<1>2. CASE TimerStarts(t) \/ NewTimerCancelled(t)
  BY <1>2 DEF TimerStarts, NewTimerCancelled, Idle, buffers, settled
<1>3. CASE TimerFires(t) \/ TimerLocks(t)
  <2>1. stored' = stored
    BY <1>3 DEF TimerFires, TimerLocks, settled
  <2>2. CASE \E q, last : TimerTakes(t, q, last) /\ Holder(t) \in {"free", "timer"}
                          /\ timer[t] \notin {"flush", "lastFlush"}
    <3>1. job[t].rest = <<>> /\ stored' \in StoredPerhaps(job[t])
      BY <1>1, <2>1, <2>2, HeadNone, NoRest
    <3> QED BY <1>1, <2>2, <3>1 DEF TimerTakes, Takes, Handles, Emptied
  <2>3. CASE UNCHANGED <<buffer, job>>
    BY <1>1, <2>1, <2>3 DEF Idle
  <2> QED BY <1>3, <2>2, <2>3 DEF TimerFires, TimerLocks, Holder
<1>4. CASE TimerFlushed(t)
  <2>1. job[t].rest = <<>> /\ stored \in StoredPerhaps(job[t])
    BY <1>1, <1>4, NoRest DEF TimerFlushed
  <2> QED BY <1>1, <1>4, <2>1 DEF TimerFlushed, Takes, Handles, buffers, settled
<1>5. CASE TimerCancelled(t)
  <2>1. ~Orderly
    BY <1>1, <1>5 DEF TimerCancelled, Stopping, Orderly
  <2>2. stored' \in StoredPerhaps(job[t]) /\ (timer[t] # "flush" => stored' = stored)
    BY <1>5 DEF TimerCancelled, StoredPerhaps
  <2>3. CASE \E q : TimerTakes(t, q, TRUE)
    BY <1>1, <2>1, <2>2, <2>3 DEF TimerTakes, Takes, Handles, Emptied
  <2>4. CASE buffer' = buffer /\ job' = IF timer[t] = "flush" THEN [job EXCEPT ![t] = NoJob] ELSE job
    BY <1>1, <2>1, <2>2, <2>4 DEF Takes, Handles, Idle
  <2> QED BY <1>5, <2>3, <2>4 DEF TimerCancelled
<1> QED BY <1>2, <1>3, <1>4, <1>5 DEF Timer

LEMMA StopMoves ==
  ASSUME Frame, Started \/ StopBegins \/ Stop
  PROVE  Idle \/ \E t \in Types : Handles(t)
<1>1. Kinds /\ Stopping
  BY DEF Frame
<1>2. CASE StopFlushes \/ StopLocks
  <2>1. todo # <<>> /\ UNCHANGED <<waiting, received, stored, faults, dropped>>
    BY <1>1, <1>2 DEF StopFlushes, StopLocks, Stopping, settled
  <2>2. Head(todo) \in Types
    BY <1>1, <2>1, HeadTailProperties DEF Kinds
  <2>3. PICK t \in Types : /\ \/ (\E q : StopTakes(t, q)) /\ Holder(t) \in {"free", "stop"}
                              \/ StopQueues(t)
                           /\ t = Head(todo)
    BY <1>2, <2>2 DEF StopFlushes, StopLocks, Holder
  <2>4. stop # "flushing"
    BY <1>2 DEF StopFlushes, StopLocks
  <2>5. CASE UNCHANGED <<buffer, job>>
    BY <2>1, <2>5 DEF Idle
  <2>6. CASE ~UNCHANGED <<buffer, job>>
    <3>1. /\ Holder(t) \in {"free", "stop"} /\ buffer' = Emptied(t)
          /\ job' = [job EXCEPT ![t] = FlushOf(buffer[t], 0)]
      BY <2>3, <2>6 DEF StopTakes, StopQueues
    <3>2. InLine(t) /\ StopAt(t) # "flushing"
      BY <2>4 DEF Frame, StopAt
    <3>3. job[t].rest = <<>> /\ stored \in StoredPerhaps(job[t])
      BY <1>1, <3>1, <3>2, HeadNone, NoRest
    <3> QED BY <2>1, <3>1, <3>3 DEF Takes, Handles, Emptied
  <2> QED BY <2>5, <2>6
<1>3. CASE \E t \in Types : StopFlushed(t)
  <2>1. PICK t \in Types : StopFlushed(t)
    BY <1>3
  <2>2. job[t].rest = <<>> /\ stored \in StoredPerhaps(job[t])
    BY <1>1, <2>1, NoRest DEF StopFlushed
  <2> QED BY <2>1, <2>2 DEF StopFlushed, Takes, Handles, buffers, settled
<1>4. CASE \E t \in Types : Unsubscribe(t)
  BY <1>4 DEF Unsubscribe, Quits, Handles
<1>5. CASE Started \/ StopBegins \/ StopTurnsToTimers \/ StopCancels \/ StopResumes
           \/ StopGoesOn \/ StopCloses
  BY <1>5 DEF Started, StopBegins, StopTurnsToTimers, StopCancels, StopResumes,
              StopGoesOn, StopCloses, Idle, buffers, settled
<1> QED BY <1>2, <1>3, <1>4, <1>5 DEF Stop

(* A flush goes on.                                                        *)
LEMMA FlushMoves ==
  ASSUME Kinds, NEW t \in Types, Flush(t) PROVE Moves(t)
<1> DEFINE j == job[t]
<1>1. j \in Jobs /\ UNCHANGED <<buffer, waiting, received>>
  BY DEF Kinds, Flush, InsertAccepted, InsertFails, RetryWakes, buffers
<1>2. j.at \in {"tcp", "http", "sleep"} /\ j.rest # <<>>
  BY <1>1, JobFields DEF Flush, InsertAccepted, InsertFails, RetryWakes
<1>3. CASE InsertAccepted(t)
  <2>1. Passed(j) \in Jobs
    BY <1>1, <1>2, PassedJob
  <2> QED BY <1>1, <1>2, <1>3, <2>1 DEF InsertAccepted, Advances, Moves
<1>4. CASE InsertFails(t)
  <2>1. Costs(j)
    BY <1>4 DEF InsertFails, Costs
  <2>2. CASE j.at = "tcp"
    <3>1. [j EXCEPT !.at = "http"] \in Jobs /\ [j EXCEPT !.at = "http"].rest = j.rest
      BY <1>1, <1>2, <2>2, JobFields DEF Jobs
    <3>2. job' = [job EXCEPT ![t] = [j EXCEPT !.at = "http"]] /\ dropped' = dropped
      BY <1>4, <2>2 DEF InsertFails, GivenUp
    <3> QED BY <1>1, <1>2, <2>1, <3>1, <3>2 DEF Advances, Moves
  <2>3. CASE j.at = "http"
    <3>1. /\ job' = [job EXCEPT ![t] = Failed(j)]
          /\ dropped' = dropped \cup IF Failed(j).rest # j.rest THEN Portion(j) ELSE {}
      BY <1>4, <2>3 DEF InsertFails, GivenUp
    <3>2. Failed(j) \in Jobs /\ (Failed(j).rest = j.rest \/ Failed(j) = Passed(j))
      BY <1>1, <1>2, FailedJob
    <3> QED BY <1>1, <1>2, <2>1, <3>1, <3>2 DEF Advances, Moves
  <2> QED BY <1>4, <2>2, <2>3 DEF InsertFails
<1>5. CASE RetryWakes(t)
  <2>1. job' = [job EXCEPT ![t] = [FlushOf(j.rest, j.single) EXCEPT !.try = j.try + 1]]
        /\ Costs(j) /\ dropped' = dropped
    BY <1>5 DEF RetryWakes, Costs, settled
  <2>2. [FlushOf(j.rest, j.single) EXCEPT !.try = j.try + 1].rest = j.rest
    BY DEF FlushOf
  <2>3. [FlushOf(j.rest, j.single) EXCEPT !.try = j.try + 1] \in Jobs
    BY <1>1, <1>5, RetriedJob DEF RetryWakes
  <2> QED BY <1>1, <1>2, <2>1, <2>2, <2>3 DEF Advances, Moves
<1> QED BY <1>3, <1>4, <1>5 DEF Flush

-------------------------------------------------------------------------------
(* A row is in one place, and in a place of its type.                      *)

Held(s, t) == \A r \in Rows : Contains(s, r) => r \in received /\ TypeOf[r] = t

Sorted(t) ==
  /\ \A r \in waiting[t] : r \in received /\ TypeOf[r] = t
  /\ Held(buffer[t], t) /\ Held(job[t].rest, t)
  /\ IsInjective(buffer[t]) /\ IsInjective(job[t].rest)
  /\ \A r \in Rows :
       /\ ~(Contains(buffer[t], r) /\ Contains(job[t].rest, r))
       /\ r \in waiting[t] => ~Contains(buffer[t], r) /\ ~Contains(job[t].rest, r)

LEMMA SortedElsewhere ==
  ASSUME NEW u \in Types, Sorted(u), received \subseteq received',
         waiting'[u] = waiting[u], buffer'[u] = buffer[u], job'[u] = job[u]
  PROVE  Sorted(u)'
BY DEF Sorted, Held

(* A move leaves the other types alone.                                    *)
LEMMA MovesElsewhere ==
  ASSUME Kinds, NEW t \in Types, Moves(t)
  PROVE  /\ received \subseteq received'
         /\ \A u \in Types : u # t => /\ waiting'[u] = waiting[u]
                                     /\ buffer'[u] = buffer[u] /\ job'[u] = job[u]
BY DEF Moves, Handles, Enters, Arrives, Waits, Takes, Quits, Advances, Kinds

(* The row that enters a buffer is not there yet.                          *)
LEMMA EntersFresh ==
  ASSUME Kinds, NEW t \in Types, Sorted(t), NEW r \in Rows, Enters(t, r)
  PROVE  /\ ~Contains(buffer[t], r) /\ TypeOf[r] = t /\ r \in received'
         /\ waiting'[t] = {} /\ received' \subseteq received \cup {r}
         /\ buffer[t] \in Seq(Rows) /\ Append(buffer[t], r) \in Seq(Rows)
         /\ IsInjective(Append(buffer[t], r))
         /\ \A x : Contains(Append(buffer[t], r), x) <=> Contains(buffer[t], x) \/ x = r
         /\ job[t].rest = <<>> /\ UNCHANGED <<stored, faults, dropped>>
         /\ \/ buffer'[t] = Append(buffer[t], r) /\ job'[t].rest = <<>>
            \/ buffer'[t] = <<>> /\ job'[t].rest = Append(buffer[t], r)
<1>1. ~Contains(buffer[t], r) /\ TypeOf[r] = t /\ r \in received'
      /\ waiting'[t] = {} /\ received' \subseteq received \cup {r}
  BY DEF Enters, Arrives, Sorted, Held, Kinds
<1>2. buffer[t] \in Seq(Rows)
  BY DEF Kinds
<1>3. Append(buffer[t], r) \in Seq(Rows)
  BY <1>2, AppendProperties
<1>4. IsInjective(Append(buffer[t], r))
  BY <1>1, <1>2, InjectiveAppend DEF Sorted
<1>5. \A x : Contains(Append(buffer[t], r), x) <=> Contains(buffer[t], x) \/ x = r
  BY <1>2, ContainsAppend
<1>6. FlushOf(Append(buffer[t], r), 0).rest = Append(buffer[t], r)
  BY DEF FlushOf
<1>7. \/ buffer'[t] = Append(buffer[t], r) /\ job'[t].rest = <<>>
      \/ buffer'[t] = <<>> /\ job'[t].rest = Append(buffer[t], r)
  BY <1>6 DEF Enters, Kinds
<1> QED BY <1>1, <1>2, <1>3, <1>4, <1>5, <1>7 DEF Enters

LEMMA TakesRest ==
  ASSUME Kinds, NEW t \in Types, Takes(t)
  PROVE  \/ buffer'[t] = buffer[t] /\ job'[t].rest = <<>>
         \/ buffer'[t] = <<>> /\ job'[t].rest = buffer[t]
<1>1. FlushOf(buffer[t], 0).rest = buffer[t]
  BY DEF FlushOf
<1> QED BY <1>1 DEF Takes, Kinds, NoJob

(* The rest of a flush that goes on, and the portion it has dealt with.    *)
LEMMA AdvancesRest ==
  ASSUME Kinds, NEW t \in Types, Advances(t)
  PROVE  /\ \A r : Contains(job'[t].rest, r) => Contains(job[t].rest, r)
         /\ IsInjective(job[t].rest) => IsInjective(job'[t].rest)
         /\ \A r \in Portion(job[t]) : Contains(job[t].rest, r)
         /\ \/ job'[t].rest = job[t].rest
            \/ /\ \A r \in Portion(job[t]) :
                    (stored'[r] = stored[r] + 1 /\ faults' = faults) \/ r \in dropped'
               /\ \A r : Contains(job[t].rest, r) =>
                           r \in Portion(job[t]) \/ Contains(job'[t].rest, r)
               /\ IsInjective(job[t].rest) =>
                    \A r \in Portion(job[t]) : ~Contains(job'[t].rest, r)
<1>1. job[t] \in Jobs /\ job[t].rest # <<>> /\ Portion(job[t]) \subseteq Rows
  BY CutBounds DEF Kinds, Advances
<1> DEFINE rest == SubSeq(job[t].rest, Cut(job[t]) + 1, Len(job[t].rest))
<1>2. /\ \A r : Contains(rest, r) => Contains(job[t].rest, r)
      /\ \A r : Contains(job[t].rest, r) => r \in Portion(job[t]) \/ Contains(rest, r)
      /\ \A r \in Portion(job[t]) : Contains(job[t].rest, r)
      /\ IsInjective(job[t].rest) =>
           IsInjective(rest) /\ \A r \in Portion(job[t]) : ~Contains(rest, r)
  BY <1>1, RestAfter
<1>3. Passed(job[t]).rest = rest
  BY <1>1, PassedJob
<1> HIDE DEF rest
<1>4. CASE job'[t].rest = job[t].rest
  BY <1>2, <1>4
<1>5. CASE job'[t].rest # job[t].rest
  <2>1. job'[t].rest = rest
    BY <1>3, <1>5 DEF Advances, Kinds
  <2>2. (stored' = StoredWith(Portion(job[t])) /\ faults' = faults)
        \/ dropped' = dropped \cup Portion(job[t])
    BY <1>5 DEF Advances, Kinds
  <2>3. \A r \in Portion(job[t]) :
          (stored'[r] = stored[r] + 1 /\ faults' = faults) \/ r \in dropped'
    BY <1>1, <2>2 DEF StoredWith
  <2> QED BY <1>2, <2>1, <2>3
<1> QED BY <1>4, <1>5

LEMMA SortedKept ==
  ASSUME Kinds, \A u \in Types : Sorted(u), NEW t \in Types, Moves(t)
  PROVE  \A u \in Types : Sorted(u)'
<1>1. /\ received \subseteq received'
      /\ \A u \in Types : u # t => /\ waiting'[u] = waiting[u]
                                   /\ buffer'[u] = buffer[u] /\ job'[u] = job[u]
  BY MovesElsewhere
<1>2. Sorted(t) /\ \A u \in Types : u # t => Sorted(u)'
  BY <1>1, SortedElsewhere
<1>3. CASE \E r \in Rows : Enters(t, r)
  <2>1. PICK r \in Rows : Enters(t, r)
    BY <1>3
  <2> DEFINE rows == Append(buffer[t], r)
  <2>2. /\ TypeOf[r] = t /\ r \in received' /\ waiting'[t] = {} /\ IsInjective(rows)
        /\ \A x : Contains(rows, x) <=> Contains(buffer[t], x) \/ x = r
        /\ \/ buffer'[t] = rows /\ job'[t].rest = <<>>
           \/ buffer'[t] = <<>> /\ job'[t].rest = rows
    BY <1>2, <2>1, EntersFresh
  <2> HIDE DEF rows
  <2>3. \A x \in Rows : Contains(rows, x) => x \in received' /\ TypeOf[x] = t
    BY <1>1, <1>2, <2>2 DEF Sorted, Held
  <2>4. Sorted(t)'
    <3>1. CASE buffer'[t] = rows /\ job'[t].rest = <<>>
      BY <2>2, <2>3, <3>1, ContainsEmpty, InjectiveEmpty DEF Sorted, Held
    <3>2. CASE buffer'[t] = <<>> /\ job'[t].rest = rows
      BY <2>2, <2>3, <3>2, ContainsEmpty, InjectiveEmpty DEF Sorted, Held
    <3> QED BY <2>2, <3>1, <3>2
  <2> QED BY <1>2, <2>4
<1>4. CASE \E r \in Rows : Waits(t, r)
  BY <1>1, <1>2, <1>4 DEF Sorted, Held, Waits, Kinds
<1>5. CASE Takes(t)
  <2>1. waiting' = waiting
    BY <1>5 DEF Takes
  <2> QED BY <1>1, <1>2, <1>5, <2>1, TakesRest, ContainsEmpty, InjectiveEmpty DEF Sorted, Held
<1>6. CASE Quits(t)
  <2>1. waiting'[t] = {} /\ buffer' = buffer /\ (job'[t] = job[t] \/ job'[t].rest = <<>>)
    BY <1>6 DEF Quits, Kinds, NoJob
  <2> QED BY <1>1, <1>2, <2>1, ContainsEmpty, InjectiveEmpty DEF Sorted, Held
<1>7. CASE Advances(t)
  <2>1. UNCHANGED <<buffer, waiting, received>>
    BY <1>7 DEF Advances
  <2> QED BY <1>2, <1>7, <2>1, AdvancesRest DEF Sorted, Held
<1> QED BY <1>3, <1>4, <1>5, <1>6, <1>7 DEF Moves, Handles

(* Only rows that came in are given up.                                    *)
LEMMA FlushDrops ==
  ASSUME Kinds, NEW t \in Types, Sorted(t), Flush(t)
  PROVE  dropped' \in SUBSET received
<1>1. job[t] \in Jobs /\ dropped \in SUBSET received
  BY DEF Kinds
<1>2. job[t].at \in {"tcp", "http", "sleep"} /\ job[t].rest # <<>>
  BY <1>1, JobFields DEF Flush, InsertAccepted, InsertFails, RetryWakes
<1>3. dropped' \subseteq dropped \cup Portion(job[t])
  BY DEF Flush, InsertAccepted, InsertFails, RetryWakes, GivenUp, settled
<1>4. Portion(job[t]) \subseteq Rows /\ \A r \in Portion(job[t]) : Contains(job[t].rest, r)
  BY <1>1, <1>2, CutBounds, RestAfter
<1> QED BY <1>1, <1>3, <1>4 DEF Sorted, Held

-------------------------------------------------------------------------------
(* The first part of the invariant: locks, timers and places.              *)

Base == Frame /\ Exclusive /\ \A t \in Types : Sorted(t)

LEMMA InitBase == ASSUME Init PROVE Base
<1>1. Kinds
  <2>1. Len(<<>>) = 0 /\ <<>> \in Lines
    BY DEF Lines
  <2>2. \A t \in Types : 0 < Threshold[t]
    BY SettingsAssumption DEF SettingsAssumption
  <2>3. /\ buffer \in [Types -> Seq(Rows)] /\ \A t \in Types : Len(buffer[t]) < Threshold[t]
        /\ line \in [Types -> Lines] /\ waiting \in [Types -> SUBSET Rows]
        /\ timer \in [Types -> TimerPcs] /\ job \in [Types -> Jobs]
    BY <2>1, <2>2, NoJobIsJob DEF Init, TimerPcs
  <2>4. driver \in BOOLEAN /\ faults \in 0..MaxFaults
    BY SettingsAssumption DEF Init, SettingsAssumption
  <2>5. stop \in StopPcs /\ scan \in [at : Nat \ {0}, size : Nat] /\ stored \in [Rows -> Nat]
    BY DEF Init, StopPcs
  <2>6. keys \in Seq(Types) /\ timerKeys \in Seq(Types) /\ todo \in Seq(Types)
    BY DEF Init
  <2>7. /\ running \in BOOLEAN /\ subscribed \in SUBSET Types /\ cancelled \in SUBSET Types
        /\ received \in SUBSET Rows /\ early \in SUBSET received /\ dropped \in SUBSET received
    BY DEF Init
  <2> QED BY <2>3, <2>4, <2>5, <2>6, <2>7 DEF Kinds
<1>2. \A t \in Types : InLine(t)
  <2>1. ToSet(<<>>) = {}
    BY DEF ToSet
  <2> QED BY <2>1, InjectiveEmpty
          DEF Init, InLine, Stands, Holder, Flushing, StopAt, NoJob
<1>3. Stopping
  BY DEF Init, Stopping
<1>4. Exclusive
  BY DEF Init, Exclusive, Busy, NoJob
<1>5. \A t \in Types : Sorted(t)
  BY ContainsEmpty, InjectiveEmpty DEF Init, Sorted, Held, NoJob
<1> QED BY <1>1, <1>2, <1>3, <1>4, <1>5 DEF Base, Frame

(* Every step keeps the tasks in line and one of them running.             *)
LEMMA NextFrame == ASSUME Base, Next PROVE Frame' /\ Exclusive'
<1>1. Frame /\ Kinds /\ Exclusive /\ \A t \in Types : Sorted(t)
  BY DEF Base, Frame
<1>2. CASE \E r \in Rows : Receive(r)
  BY <1>1, <1>2, ReceiveFrame, ReceiveExclusive
<1>3. CASE \E t \in Types : Flush(t)
  BY <1>1, <1>3, FlushDrops, FlushFrame, FlushExclusive
<1>4. CASE \E t \in Types : Callback(t)
  BY <1>1, <1>4, CallbackFrame, CallbackExclusive
<1>5. CASE \E t \in Types : Timer(t)
  BY <1>1, <1>5, TimerIdleFrame, TimerTakesFrame, TimerFlushedFrame, TimerCancelledFrame,
     TimerExclusive DEF Timer
<1>6. CASE Started \/ StopBegins \/ Stop
  BY <1>1, <1>6, StartStopFrame, StopFlushesFrame, StopFlushedFrame, UnsubscribeFrame,
     StopExclusive DEF Stop
<1> QED BY <1>2, <1>3, <1>4, <1>5, <1>6 DEF Next

(* Every step does one of the moves, or nothing to the rows.               *)
LEMMA NextMoves == ASSUME Base, Next PROVE Idle \/ \E t \in Types : Moves(t)
<1>1. Frame /\ Kinds
  BY DEF Base, Frame
<1>2. \A r \in Rows : TypeOf[r] \in Types
  BY RowsAssumption DEF RowsAssumption
<1> QED BY <1>1, <1>2, ReceiveMoves, FlushMoves, CallbackMoves, TimerMoves, StopMoves
        DEF Next, Moves

LEMMA NextBase == ASSUME Base, [Next]_vars PROVE Base'
<1>1. CASE UNCHANGED vars
  BY <1>1 DEF Base, Frame, Kinds, InLine, Stopping, Exclusive, Sorted, Held, Busy, Stands,
              Holder, Flushing, StopAt, vars, buffers, timers, stopping, settled
<1>2. CASE Next
  <2>1. Frame' /\ Exclusive'
    BY <1>2, NextFrame
  <2>2. \A t \in Types : Sorted(t)'
    <3>1. CASE Idle
      BY <3>1 DEF Idle, Base, Sorted, Held
    <3>2. CASE \E t \in Types : Moves(t)
      BY <3>2, SortedKept DEF Base, Frame
    <3> QED BY <1>2, <3>1, <3>2, NextMoves
  <2> QED BY <2>1, <2>2 DEF Base
<1> QED BY <1>1, <1>2

(* Every variable has its type, a buffer at rest is below its threshold,   *)
(* and no task stands twice in the line of a lock: the callback, the timer *)
(* and stop() of services/hot-storage-service/main.py share a buffer under *)
(* one asyncio.Lock.                                                       *)
THEOREM TypeCorrect == Spec => []TypeOK
<1>1. ASSUME Base PROVE TypeOK
  <2>1. Kinds /\ \A t \in Types : InLine(t)
    BY <1>1 DEF Base, Frame
  <2>2. ASSUME NEW t \in Types
        PROVE  /\ ToSet(line[t]) \subseteq {"cb", "timer", "stop"} /\ IsInjective(line[t])
               /\ job[t].at \in {"none", "tcp", "http", "sleep", "end"}
               /\ job[t].try \in 0..MaxRetries /\ job[t].single \in 0..Len(job[t].rest)
    <3>1. line[t] \in Seq(Tasks) /\ job[t] \in Jobs
      BY <2>1 DEF Kinds, Lines
    <3>2. ToSet(line[t]) \subseteq Tasks
      BY <3>1, LenProperties, ElementOfSeq DEF ToSet
    <3> QED BY <2>1, <3>1, <3>2, JobFields DEF InLine, Tasks
  <2> QED BY <2>1, <2>2 DEF TypeOK, Kinds
<1> QED BY <1>1, InitBase, NextBase, PTL DEF Spec

-------------------------------------------------------------------------------
(* Copies.                                                                 *)

Paid ==
  \A r \in Rows : stored[r] <= IF r \notin received THEN 0
                               ELSE IF InHand(r) THEN faults ELSE 1 + faults

(* A row in a place of a type is of that type and has come in.             *)
LEMMA Owned ==
  ASSUME Base, NEW t \in Types, NEW r \in Rows
  PROVE  /\ r \in waiting[t] \/ Contains(buffer[t], r) \/ Contains(job[t].rest, r)
              => r \in received /\ TypeOf[r] = t /\ InHand(r)
         /\ InHand(r) => r \in received
<1>1. \A u \in Types : Sorted(u)
  BY DEF Base
<1>2. TypeOf[r] \in Types
  BY RowsAssumption DEF RowsAssumption
<1> QED BY <1>1, <1>2 DEF Sorted, Held, InHand

(* Rows of other types are left alone.                                     *)
LEMMA OtherTypes ==
  ASSUME Base, NEW t \in Types, Moves(t), NEW r \in Rows, TypeOf[r] # t
  PROVE  InHand(r)' <=> InHand(r)
<1>1. TypeOf[r] \in Types /\ Kinds
  BY RowsAssumption DEF RowsAssumption, Base, Frame
<1> QED BY <1>1, MovesElsewhere DEF InHand

(* Before a row is in hand it is not received; a move brings it in hand,   *)
(* and never brings it back.                                               *)
LEMMA HandAfter ==
  ASSUME Base, NEW t \in Types, Moves(t), NEW r \in Rows
  PROVE  /\ r \in received /\ InHand(r)' => InHand(r)
         /\ r \in received' \ received => InHand(r)'
         /\ r \in received => r \in received'
<1>1. Kinds /\ Sorted(t) /\ received \subseteq received'
  BY MovesElsewhere DEF Base, Frame
<1>2. ASSUME NEW x \in Rows, Enters(t, x)
      PROVE  /\ r \in received /\ InHand(r)' => InHand(r)
             /\ r \in received' \ received => InHand(r)'
  <2>1. /\ TypeOf[x] = t /\ received' \subseteq received \cup {x} /\ waiting'[t] = {}
        /\ \A y : Contains(Append(buffer[t], x), y) <=> Contains(buffer[t], y) \/ y = x
        /\ \/ buffer'[t] = Append(buffer[t], x) /\ job'[t].rest = <<>>
           \/ buffer'[t] = <<>> /\ job'[t].rest = Append(buffer[t], x)
    BY <1>1, <1>2, EntersFresh
  <2>2. x \notin received \/ x \in waiting[t]
    BY <1>2 DEF Enters, Arrives
  <2>3. CASE TypeOf[r] # t
    BY <2>1, <2>3, OtherTypes
  <2>4. CASE TypeOf[r] = t
    BY <2>1, <2>2, <2>4, ContainsEmpty DEF InHand
  <2> QED BY <2>3, <2>4
<1>3. ASSUME NEW x \in Rows, Waits(t, x)
      PROVE  /\ r \in received /\ InHand(r)' => InHand(r)
             /\ r \in received' \ received => InHand(r)'
  <2>1. /\ TypeOf[x] = t /\ x \notin received /\ received' = received \cup {x}
        /\ waiting'[t] = {x} /\ UNCHANGED <<buffer, job>>
    BY <1>1, <1>3 DEF Waits, Kinds
  <2>2. CASE TypeOf[r] # t
    BY <2>1, <2>2, OtherTypes
  <2>3. CASE TypeOf[r] = t
    BY <2>1, <2>3 DEF InHand
  <2> QED BY <2>2, <2>3
<1>4. ASSUME Takes(t) \/ Quits(t) \/ Advances(t), InHand(r)' PROVE InHand(r)
  <2>1. CASE TypeOf[r] # t
    BY <1>4, <2>1, OtherTypes
  <2>2. CASE TypeOf[r] = t
    <3>1. /\ Contains(job'[t].rest, r) => Contains(job[t].rest, r) \/ Contains(buffer[t], r)
          /\ Contains(buffer'[t], r) => Contains(buffer[t], r)
          /\ waiting'[t] \subseteq waiting[t]
      <4>1. CASE Takes(t)
        BY <1>1, <4>1, TakesRest, ContainsEmpty DEF Takes
      <4>2. CASE Quits(t)
        BY <1>1, <4>2, ContainsEmpty DEF Quits, Kinds, NoJob
      <4>3. CASE Advances(t)
        BY <1>1, <4>3, AdvancesRest DEF Advances
      <4> QED BY <1>4, <4>1, <4>2, <4>3
    <3> QED BY <1>4, <2>2, <3>1 DEF InHand
  <2> QED BY <2>1, <2>2
<1>5. Takes(t) \/ Quits(t) \/ Advances(t) => received' = received
  BY DEF Takes, Quits, Advances
<1> QED BY <1>1, <1>2, <1>3, <1>4, <1>5 DEF Moves, Handles

(* A copy is made of a row in the rest of a flush; it costs a fault, or    *)
(* the row is not in hand any more.                                        *)
LEMMA StoredAfter ==
  ASSUME Base, NEW t \in Types, Moves(t), NEW r \in Rows
  PROVE  /\ faults' \in Nat /\ faults <= faults' /\ dropped \subseteq dropped'
         /\ \/ stored'[r] = stored[r]
            \/ /\ stored'[r] = stored[r] + 1 /\ Contains(job[t].rest, r)
               /\ faults' = faults + 1 \/ ~InHand(r)'
<1>1. Kinds /\ Sorted(t) /\ job[t] \in Jobs /\ faults \in Nat
  BY SettingsAssumption DEF Base, Frame, Kinds, SettingsAssumption
<1>2. faults' \in Nat /\ faults <= faults' /\ dropped \subseteq dropped'
  BY <1>1 DEF Moves, Handles, Enters, Waits, Takes, Quits, Advances, Costs
<1>3. ASSUME job[t].rest # <<>>, NEW x \in Portion(job[t])
      PROVE  Contains(job[t].rest, x) /\ x \in Rows
  BY <1>1, <1>3, RestAfter, CutBounds
<1>4. \A S \in SUBSET Rows : StoredWith(S)[r] = IF r \in S THEN stored[r] + 1 ELSE stored[r]
  BY DEF StoredWith
<1>5. CASE \E x \in Rows : Enters(t, x) \/ Waits(t, x)
  BY <1>2, <1>5 DEF Enters, Waits
<1>6. CASE (Takes(t) \/ Quits(t)) /\ stored' # stored
  <2>1. /\ stored' = StoredWith(Portion(job[t])) /\ job[t].rest # <<>>
        /\ job'[t].rest \in {<<>>, buffer[t]} /\ buffer'[t] \in {<<>>, buffer[t]}
        /\ waiting'[t] \in {{}, waiting[t]}
    <3>1. stored' = StoredWith(Portion(job[t])) /\ job[t].rest # <<>>
      BY <1>1, <1>6, JobFields DEF Takes, Quits, StoredPerhaps
    <3>2. CASE Takes(t)
      BY <1>1, <3>1, <3>2, TakesRest DEF Takes
    <3>3. CASE Quits(t)
      BY <1>1, <1>6, <3>1, <3>3 DEF Quits, Kinds, NoJob
    <3> QED BY <1>6, <3>2, <3>3
  <2>2. CASE r \in Portion(job[t])
    <3>1. Contains(job[t].rest, r) /\ TypeOf[r] = t
      BY <1>1, <1>3, <2>1, <2>2 DEF Sorted, Held
    <3>2. ~InHand(r)'
      BY <1>1, <2>1, <3>1, ContainsEmpty DEF Sorted, InHand
    <3> QED BY <1>2, <1>3, <1>4, <2>1, <2>2, <3>1, <3>2
  <2>3. CASE r \notin Portion(job[t])
    BY <1>2, <1>3, <1>4, <2>1, <2>3
  <2> QED BY <2>2, <2>3
<1>7. CASE Advances(t)
  <2>1. job[t].rest # <<>> /\ Portion(job[t]) \subseteq Rows
    BY <1>1, <1>7, CutBounds DEF Advances
  <2>2. CASE stored' = StoredWith(Portion(job[t])) /\ r \in Portion(job[t])
    <3>1. stored'[r] = stored[r] + 1 /\ Contains(job[t].rest, r) /\ TypeOf[r] = t
      BY <1>1, <1>3, <1>4, <2>1, <2>2 DEF Sorted, Held
    <3>2. CASE faults' = faults + 1
      BY <1>2, <3>1, <3>2
    <3>3. CASE faults' # faults + 1
      <4>1. job'[t].rest = Passed(job[t]).rest /\ UNCHANGED <<buffer, waiting>>
        <5>1. stored' # stored
          BY <1>1, <3>1 DEF Kinds
        <5> QED BY <1>1, <1>7, <3>3, <5>1 DEF Advances, Costs, Kinds
      <4>2. job'[t].rest # job[t].rest
        BY <1>1, <2>1, <4>1, PassedJob
      <4>3. ~Contains(job'[t].rest, r)
        BY <1>1, <1>7, <2>2, <4>2, AdvancesRest DEF Sorted
      <4>4. ~InHand(r)'
        BY <1>1, <3>1, <4>1, <4>3 DEF InHand, Sorted
      <4> QED BY <1>2, <3>1, <4>4
    <3> QED BY <3>2, <3>3
  <2>3. CASE stored' = stored \/ r \notin Portion(job[t])
    <3>1. stored'[r] = stored[r]
      BY <1>4, <1>7, <2>1, <2>3 DEF Advances, Costs
    <3> QED BY <1>2, <3>1
  <2> QED BY <1>7, <2>2, <2>3 DEF Advances, Costs
<1> QED BY <1>2, <1>5, <1>6, <1>7 DEF Moves, Handles

(* Copies: every step keeps the account.                                   *)
LEMMA PaidKept == ASSUME Base, Paid, [Next]_vars PROVE Paid'
<1>1. CASE UNCHANGED vars
  BY <1>1 DEF Paid, InHand, vars, buffers, settled
<1>2. CASE Idle
  BY <1>2 DEF Paid, InHand, Idle
<1>3. ASSUME NEW t \in Types, Moves(t), NEW r \in Rows
      PROVE  stored'[r] <= IF r \notin received' THEN 0
                           ELSE IF InHand(r)' THEN faults' ELSE 1 + faults'
  <2>1. stored[r] \in Nat /\ faults \in Nat
    BY SettingsAssumption DEF Base, Frame, Kinds, SettingsAssumption
  <2>2. stored[r] <= IF r \notin received THEN 0 ELSE IF InHand(r) THEN faults ELSE 1 + faults
    BY DEF Paid
  <2>3. /\ faults' \in Nat /\ faults <= faults'
        /\ \/ stored'[r] = stored[r]
           \/ /\ stored'[r] = stored[r] + 1 /\ InHand(r) /\ r \in received
              /\ faults' = faults + 1 \/ ~InHand(r)'
    BY <1>3, StoredAfter, Owned
  <2>4. /\ r \in received /\ InHand(r)' => InHand(r)
        /\ r \in received => r \in received'
    BY <1>3, HandAfter
  <2> QED BY <2>1, <2>2, <2>3, <2>4
<1> QED BY <1>1, <1>2, <1>3, NextMoves DEF Paid

(* A row is stored once more than there were inserts that failed although  *)
(* the server had the row, at most: _flush_batch_buffer, its fallback from *)
(* TCP to HTTP and its retries repeat no insert that succeeded.            *)
THEOREM CopiesArePaidFor == Spec => []CopiesPaidFor
<1>1. Init => Paid
  BY DEF Init, Paid
<1>2. ASSUME Base, Paid PROVE CopiesPaidFor
  <2>1. faults \in Nat /\ \A r \in Rows : stored[r] \in Nat
    BY <1>2, SettingsAssumption DEF Base, Frame, Kinds, SettingsAssumption
  <2> QED BY <1>2, <2>1 DEF CopiesPaidFor, Paid
<1> QED BY <1>1, <1>2, InitBase, NextBase, PaidKept, PTL DEF Spec
-------------------------------------------------------------------------------
(* No row is forgotten.                                                    *)

(* A row that is settled stays settled.                                    *)
LEMMA SettledKept ==
  ASSUME Base, [Next]_vars, NEW r \in Rows, Settled(r) PROVE Settled(r)'
<1>1. stored[r] \in Nat
  BY DEF Base, Frame, Kinds
<1>2. CASE UNCHANGED vars \/ Idle
  BY <1>2 DEF Settled, Idle, vars, settled
<1>3. CASE \E t \in Types : Moves(t)
  BY <1>1, <1>3, StoredAfter DEF Settled
<1> QED BY <1>2, <1>3, NextMoves

(* stop() does not come back from its second half.                         *)
LEMMA StopNeverBack == ASSUME Base, [Next]_vars, Orderly' PROVE Orderly
<1>1. Kinds /\ \A t \in Types : InLine(t)
  BY DEF Base, Frame
<1>2. CASE stop' = stop
  BY <1>2 DEF Orderly
<1>3. CASE \E t \in Types : StopFlushed(t)
  BY <1>1, <1>3 DEF StopFlushed, InLine, Flushing, StopAt, Orderly
<1>4. CASE Started \/ StopBegins \/ StopFlushes \/ StopLocks \/ StopTurnsToTimers \/ StopCancels
           \/ StopResumes \/ StopGoesOn \/ StopCloses \/ \E t \in Types : Unsubscribe(t)
  BY <1>4 DEF Started, StopBegins, StopFlushes, StopLocks, StopTurnsToTimers, StopCancels,
              StopResumes, StopGoesOn, StopCloses, Unsubscribe, Orderly
<1>5. CASE \E t \in Types : Flush(t) \/ Callback(t) \/ Timer(t)
  <2>1. stop' = stop
    BY <1>5 DEF Flush, InsertAccepted, InsertFails, RetryWakes, Callback, CallbackLocks,
                CallbackFlushed, Timer, TimerStarts, TimerFires, TimerLocks, TimerFlushed,
                TimerCancelled, NewTimerCancelled, stopping
  <2> QED BY <1>2, <2>1
<1>6. CASE \E r \in Rows : Receive(r)
  BY <1>2, <1>6 DEF Receive, stopping
<1>7. CASE UNCHANGED vars
  BY <1>2, <1>7 DEF vars, stopping
<1> QED BY <1>3, <1>4, <1>5, <1>6, <1>7 DEF Next, Stop

(* While stop() has not turned to the timers, a row that leaves the hands  *)
(* of the service is settled.                                              *)
LEMMA HandKept ==
  ASSUME Base, Orderly, NEW t \in Types, Moves(t), NEW r \in Rows, InHand(r)
  PROVE  InHand(r)' \/ Settled(r)'
<1>1. Kinds /\ Sorted(t)
  BY DEF Base, Frame
<1>2. CASE TypeOf[r] # t
  BY <1>2, OtherTypes
<1>3. CASE TypeOf[r] = t /\ \E x \in Rows : Enters(t, x)
  <2>1. PICK x \in Rows : Enters(t, x)
    BY <1>3
  <2>2. /\ \A y : Contains(Append(buffer[t], x), y) <=> Contains(buffer[t], y) \/ y = x
        /\ \/ buffer'[t] = Append(buffer[t], x) /\ job'[t].rest = <<>>
           \/ buffer'[t] = <<>> /\ job'[t].rest = Append(buffer[t], x)
        /\ job[t].rest = <<>>
    BY <1>1, <2>1, EntersFresh
  <2>3. r \in waiting[t] => r = x
    BY <2>1 DEF Enters, Arrives
  <2> QED BY <1>3, <2>2, <2>3, ContainsEmpty DEF InHand
<1>4. CASE TypeOf[r] = t /\ \E x \in Rows : Waits(t, x)
  BY <1>1, <1>4 DEF Waits, InHand, Kinds
<1>5. CASE TypeOf[r] = t /\ Takes(t)
  <2>1. job[t].rest = <<>> /\ waiting' = waiting
    BY <1>5 DEF Takes
  <2> QED BY <1>1, <1>5, <2>1, TakesRest, ContainsEmpty DEF InHand
<1>6. CASE Quits(t)
  BY <1>6 DEF Quits, Orderly
<1>7. CASE TypeOf[r] = t /\ Advances(t)
  <2>1. UNCHANGED <<buffer, waiting>> /\ stored[r] \in Nat
    BY <1>1, <1>7 DEF Advances, Kinds
  <2>2. CASE Contains(job[t].rest, r) /\ ~Contains(job'[t].rest, r)
    <3>1. stored'[r] = stored[r] + 1 \/ r \in dropped'
      BY <1>1, <1>7, <2>2, AdvancesRest
    <3> QED BY <2>1, <3>1 DEF Settled
  <2> QED BY <1>7, <2>1, <2>2 DEF InHand
<1> QED BY <1>2, <1>3, <1>4, <1>5, <1>6, <1>7 DEF Moves, Handles

LEMMA NoRowForgottenKept == ASSUME Base, NoRowForgotten, [Next]_vars PROVE NoRowForgotten'
<1> SUFFICES ASSUME Orderly', NEW r \in received' PROVE InHand(r)' \/ Settled(r)'
  BY DEF NoRowForgotten, Orderly
<1>1. Orderly /\ r \in Rows
  BY StopNeverBack, NextBase DEF Base, Frame, Kinds
<1>2. r \in received => InHand(r) \/ Settled(r)
  BY <1>1 DEF NoRowForgotten, Orderly
<1>3. CASE UNCHANGED vars \/ Idle
  BY <1>2, <1>3 DEF InHand, Settled, Idle, vars, buffers, settled
<1>4. CASE \E t \in Types : Moves(t)
  <2>1. r \in received \/ InHand(r)'
    BY <1>1, <1>4, HandAfter
  <2> QED BY <1>1, <1>2, <1>4, <2>1, HandKept, SettledKept
<1> QED BY <1>3, <1>4, NextMoves

(* Until stop() cancels its first timer, a row that reached the callback   *)
(* _store_to_batch_buffer is on its way, stored, or given up after all the *)
(* retries.                                                                *)
THEOREM NoneForgotten == Spec => []NoRowForgotten
<1>1. Init => NoRowForgotten
  BY DEF Init, NoRowForgotten
<1> QED BY <1>1, InitBase, NextBase, NoRowForgottenKept, PTL DEF Spec
-------------------------------------------------------------------------------
(* Attempts.                                                               *)

Drives == IF driver THEN 2 ELSE 1
Spent(j) == (IF j.at = "sleep" THEN j.try + 1 ELSE j.try) * Drives
            + IF j.at = "http" THEN Drives - 1 ELSE 0

Tried(j) ==
  /\ j.at = "tcp" => driver
  /\ j.single > 0 => j.rest[1] \in Rejected \/ faults >= Spent(j)
Attempted == \A t \in Types : Tried(job[t])

LEMMA FreshTried ==
  ASSUME Kinds, driver' = driver, faults' \in Nat, NEW k,
         k = NoJob \/ \E rest, single : k = FlushOf(rest, single)
  PROVE  Tried(k)'
<1>1. CASE k = NoJob
  BY <1>1 DEF Tried, NoJob
<1>2. CASE \E rest, single : k = FlushOf(rest, single)
  <2>1. /\ k.at \in {"tcp", "http", "end"} /\ k.try = 0
        /\ k.at = "tcp" => driver
        /\ k.at = "http" => ~driver
    BY <1>2 DEF FlushOf
  <2>2. Spent(k)' = 0
    BY <2>1 DEF Spent, Drives
  <2> QED BY <2>1, <2>2 DEF Tried
<1> QED BY <1>1, <1>2

(* The driver does not change.                                             *)
LEMMA SameDriver == ASSUME Next PROVE driver' = driver
BY DEF Next, Receive, Flush, InsertAccepted, InsertFails, RetryWakes, Callback, CallbackLocks,
       CallbackFlushed, Timer, TimerStarts, TimerFires, TimerLocks, TimerFlushed,
       TimerCancelled, NewTimerCancelled, Started, StopBegins, Stop, StopFlushes, StopLocks,
       StopFlushed, StopTurnsToTimers, StopCancels, StopResumes, Unsubscribe, StopGoesOn,
       StopCloses

(* More faults do no harm to the account of a job.                         *)
LEMMA TriedLater ==
  ASSUME Kinds, NEW j \in Jobs, Tried(j), driver' = driver, faults' \in Nat, faults <= faults'
  PROVE  Tried(j)'
<1>1. Spent(j)' = Spent(j)
  BY DEF Spent, Drives
<1>2. Spent(j) \in Nat
  <2>1. j.try \in Nat
    BY JobFields
  <2>2. CASE driver
    BY <2>1, <2>2 DEF Spent, Drives
  <2>3. CASE ~driver
    BY <2>1, <2>3 DEF Spent, Drives
  <2> QED BY <2>2, <2>3
<1>3. faults \in Nat
  BY SettingsAssumption DEF Kinds, SettingsAssumption
<1>4. faults >= Spent(j) => faults' >= Spent(j)
  BY <1>2, <1>3
<1> QED BY <1>1, <1>4 DEF Tried

(* A job with its single row: the row, and the arithmetic of one attempt.  *)
LEMMA SingleRow ==
  ASSUME NEW j \in Jobs, j.single > 0
  PROVE  j.rest # <<>> /\ Portion(j) = {j.rest[1]}
<1>1. j.rest # <<>>
  BY JobFields, EmptySeq
<1>2. Cut(j) = 1
  BY <1>1, CutBounds
<1> QED BY <1>1, <1>2 DEF Portion

LEMMA AttemptFails ==
  ASSUME Kinds, NEW j \in Jobs, Tried(j), j.at \in {"tcp", "http"}, j.single > 0, driver' = driver,
         IF Accepts(Portion(j)) THEN faults' = faults + 1 ELSE faults' = faults
  PROVE  /\ j.at = "tcp" => Tried([j EXCEPT !.at = "http"])'
         /\ j.at = "http" /\ j.try < MaxRetries => Tried([j EXCEPT !.at = "sleep"])'
         /\ j.at = "http" /\ ~(j.try < MaxRetries) =>
              \A r \in Portion(j) \ Rejected : faults' >= AttemptFaults'
<1>1. Portion(j) = {j.rest[1]} /\ j.rest # <<>>
  BY SingleRow
<1>2. j.try \in Nat /\ j.try <= MaxRetries /\ MaxRetries \in Nat /\ faults \in Nat
  BY JobFields, SettingsAssumption DEF Kinds, SettingsAssumption
<1> DEFINE h == [j EXCEPT !.at = "http"]
           w == [j EXCEPT !.at = "sleep"]
<1>3. /\ h.at = "http" /\ h.try = j.try /\ h.single = j.single /\ h.rest = j.rest
      /\ w.at = "sleep" /\ w.try = j.try /\ w.single = j.single /\ w.rest = j.rest
  BY DEF Jobs
<1> HIDE DEF h, w
<1>4. CASE j.rest[1] \in Rejected
  BY <1>1, <1>3, <1>4 DEF Tried
<1>5. CASE j.rest[1] \notin Rejected
  <2>1. faults >= Spent(j) /\ faults' = faults + 1
    BY <1>1, <1>5 DEF Tried, Accepts
  <2>2. CASE driver
    <3>1. j.at = "tcp" => Spent(j) = j.try * 2 /\ Spent(h)' = j.try * 2 + 1
      BY <1>2, <1>3, <2>2 DEF Spent, Drives
    <3>2. j.at = "http" => Spent(j) = j.try * 2 + 1 /\ Spent(w)' = (j.try + 1) * 2
      BY <1>2, <1>3, <2>2 DEF Spent, Drives
    <3>3. AttemptFaults' = (MaxRetries + 1) * 2
      BY <2>2 DEF AttemptFaults
    <3>4. j.at = "tcp" => faults' >= Spent(h)'
      BY <1>2, <2>1, <3>1
    <3>5. j.at = "http" => faults' >= Spent(w)'
      BY <1>2, <2>1, <3>2
    <3>6. j.at = "http" /\ ~(j.try < MaxRetries) => faults' >= AttemptFaults'
      BY <1>2, <2>1, <3>2, <3>3
    <3> QED BY <1>3, <3>4, <3>5, <3>6 DEF Tried, h, w
  <2>3. CASE ~driver
    <3>1. j.at = "http"
      BY <2>3 DEF Tried
    <3>2. Spent(j) = j.try /\ Spent(w)' = j.try + 1
      BY <1>2, <1>3, <2>3, <3>1 DEF Spent, Drives
    <3>3. AttemptFaults' = MaxRetries + 1
      BY <1>2, <2>3 DEF AttemptFaults
    <3>4. faults' >= Spent(w)' /\ (~(j.try < MaxRetries) => faults' >= AttemptFaults')
      BY <1>2, <2>1, <3>2, <3>3
    <3> QED BY <1>3, <3>1, <3>4 DEF Tried, h, w
  <2> QED BY <2>2, <2>3
<1> QED BY <1>4, <1>5

(* One step of a flush.                                                    *)
LEMMA FlushTried ==
  ASSUME Base, Attempted, BadRowCostsOnlyItself, NEW t \in Types, Flush(t),
         driver' = driver, faults' \in Nat, faults <= faults'
  PROVE  Attempted' /\ BadRowCostsOnlyItself'
<1>0. PICK j \in Jobs : j = job[t]
  BY DEF Base, Frame, Kinds
<1>1. Kinds /\ Kinds' /\ j = job[t] /\ Tried(j)
  BY <1>0, NextBase DEF Base, Frame, Attempted, Next
<1>2. j.at \in {"tcp", "http", "sleep"} /\ j.rest # <<>> /\ MaxRetries \in Nat
  BY <1>1, JobFields, SettingsAssumption
     DEF Flush, InsertAccepted, InsertFails, RetryWakes, SettingsAssumption
<1>3. \A u \in Types : u # t => job'[u] = job[u]
  BY <1>1 DEF Flush, InsertAccepted, InsertFails, RetryWakes, Kinds
<1>4. \A u \in Types : u # t => Tried(job[u])'
  BY <1>1, <1>3, TriedLater DEF Attempted, Kinds
<1>5. faults >= AttemptFaults => faults' >= AttemptFaults'
  <2>1. AttemptFaults' = AttemptFaults /\ AttemptFaults \in Nat
    BY <1>2 DEF AttemptFaults
  <2>2. faults \in Nat
    BY <1>1, SettingsAssumption DEF Kinds, SettingsAssumption
  <2> QED BY <2>1, <2>2
<1>6. CASE InsertAccepted(t)
  <2>1. job'[t] = Passed(j)
    BY <1>1, <1>6 DEF InsertAccepted, Kinds
  <2>2. Tried(job[t])'
    BY <1>1, <2>1, FreshTried DEF Passed
  <2> QED BY <1>4, <1>5, <1>6, <2>2 DEF InsertAccepted, Attempted, BadRowCostsOnlyItself
<1>7. CASE RetryWakes(t)
  <2>1. job'[t] = [FlushOf(j.rest, j.single) EXCEPT !.try = j.try + 1] /\ j.at = "sleep"
        /\ UNCHANGED <<faults, dropped>>
    BY <1>1, <1>7 DEF RetryWakes, Kinds, settled
  <2>2. /\ job'[t].at = IF driver THEN "tcp" ELSE "http"
        /\ job'[t].try = j.try + 1 /\ job'[t].single = j.single /\ job'[t].rest = j.rest
    BY <1>2, <2>1 DEF FlushOf
  <2>3. j.try \in Nat
    BY <1>1, JobFields
  <2>4. Spent(job[t])' = Spent(j)
    BY <2>1, <2>2, <2>3 DEF Spent, Drives
  <2>5. Tried(job[t])'
    BY <1>1, <2>1, <2>2, <2>4 DEF Tried
  <2> QED BY <1>4, <1>5, <2>1, <2>5 DEF Attempted, BadRowCostsOnlyItself
<1>8. CASE InsertFails(t)
  <2>1. /\ job'[t] = IF j.at = "tcp" THEN [j EXCEPT !.at = "http"] ELSE Failed(j)
        /\ dropped' = dropped \cup GivenUp(j) /\ j.at \in {"tcp", "http"}
        /\ IF Accepts(Portion(j)) THEN faults' = faults + 1 ELSE faults' = faults
    BY <1>1, <1>8 DEF InsertFails, Kinds
  <2>2. CASE j.single = 0
    <3>1. Failed(j) = FlushOf(j.rest, Cut(j)) /\ GivenUp(j) = {}
      BY <2>2 DEF Failed, GivenUp, FlushOf
    <3>2. CASE j.at = "tcp"
      <4>1. job'[t].at = "http" /\ job'[t].single = 0
        BY <1>1, <2>1, <2>2, <3>2 DEF Jobs
      <4>2. Tried(job[t])'
        BY <4>1 DEF Tried
      <4> QED BY <1>4, <1>5, <2>1, <3>1, <4>2 DEF Attempted, BadRowCostsOnlyItself
    <3>3. CASE j.at = "http"
      <4>1. Tried(job[t])'
        BY <1>1, <2>1, <3>1, <3>3, FreshTried
      <4> QED BY <1>4, <1>5, <2>1, <3>1, <4>1 DEF Attempted, BadRowCostsOnlyItself
    <3> QED BY <2>1, <3>2, <3>3
  <2>3. CASE j.single > 0
    <3>1. /\ j.at = "tcp" => Tried([j EXCEPT !.at = "http"])'
          /\ j.at = "http" /\ j.try < MaxRetries => Tried([j EXCEPT !.at = "sleep"])'
          /\ j.at = "http" /\ ~(j.try < MaxRetries) =>
               \A r \in Portion(j) \ Rejected : faults' >= AttemptFaults'
      BY <1>1, <2>1, <2>3, AttemptFails
    <3>2. CASE j.at = "tcp"
      <4>1. GivenUp(j) = {}
        BY <3>2 DEF GivenUp
      <4> QED BY <1>4, <1>5, <2>1, <3>1, <3>2, <4>1 DEF Tried, Attempted, BadRowCostsOnlyItself
    <3>3. CASE j.at = "http" /\ j.try < MaxRetries
      <4>1. Failed(j) = [j EXCEPT !.at = "sleep"] /\ Failed(j).rest = j.rest
        BY <1>1, <2>3, <3>3 DEF Failed, Jobs
      <4>2. GivenUp(j) = {}
        BY <4>1 DEF GivenUp
      <4> QED BY <1>4, <1>5, <2>1, <3>1, <3>3, <4>1, <4>2
              DEF Tried, Attempted, BadRowCostsOnlyItself
    <3>4. CASE j.at = "http" /\ ~(j.try < MaxRetries)
      <4>1. Failed(j) = Passed(j)
        BY <1>1, <2>3, <3>4 DEF Failed, Jobs
      <4>2. Tried(job[t])'
        BY <1>1, <2>1, <3>4, <4>1, FreshTried DEF Passed
      <4>3. GivenUp(j) \subseteq Portion(j)
        BY DEF GivenUp
      <4> QED BY <1>4, <1>5, <2>1, <3>1, <3>4, <4>2, <4>3 DEF Attempted, BadRowCostsOnlyItself
    <3> QED BY <2>1, <3>2, <3>3, <3>4
  <2> QED BY <1>1, <2>2, <2>3, JobFields
<1> QED BY <1>6, <1>7, <1>8 DEF Flush
LEMMA AttemptsKept ==
  ASSUME Base, Attempted, BadRowCostsOnlyItself, [Next]_vars
  PROVE  Attempted' /\ BadRowCostsOnlyItself'
<1>1. Kinds /\ Kinds'
  BY NextBase DEF Base, Frame
<1>2. faults' \in Nat /\ faults \in Nat
  BY <1>1, SettingsAssumption DEF Kinds, SettingsAssumption
<1>3. CASE UNCHANGED vars
  BY <1>3 DEF Attempted, Tried, Spent, Drives, BadRowCostsOnlyItself, AttemptFaults, vars, settled
<1>4. CASE \E t \in Types : Flush(t)
  <2>1. PICK t \in Types : Flush(t)
    BY <1>4
  <2>2. driver' = driver
    BY <2>1, SameDriver DEF Next
  <2>3. faults <= faults'
    BY <1>1, <1>2, <2>1 DEF Flush, InsertAccepted, InsertFails, RetryWakes, settled
  <2> QED BY <1>2, <2>1, <2>2, <2>3, FlushTried
<1>5. ASSUME Next, Idle \/ \E t \in Types : Handles(t)
      PROVE Attempted' /\ BadRowCostsOnlyItself'
  <2>1. driver' = driver /\ UNCHANGED <<faults, dropped>>
    BY <1>5, SameDriver DEF Idle, Handles, Enters, Waits, Takes, Quits
  <2>2. BadRowCostsOnlyItself'
    BY <2>1 DEF BadRowCostsOnlyItself, AttemptFaults
  <2>3. ASSUME NEW u \in Types PROVE Tried(job[u])'
    <3>1. CASE job'[u] = job[u]
      <4>1. job[u] \in Jobs /\ Tried(job[u])
        BY <1>1 DEF Kinds, Attempted
      <4> QED BY <1>1, <1>2, <2>1, <3>1, <4>1, TriedLater
    <3>2. CASE job'[u] = NoJob \/ \E rest, single : job'[u] = FlushOf(rest, single)
      BY <1>1, <1>2, <2>1, <3>2, FreshTried
    <3>3. CASE Idle
      BY <3>1, <3>3 DEF Idle
    <3>4. CASE \E t \in Types : Handles(t)
      <4>1. PICK t \in Types : Handles(t)
        BY <3>4
      <4>2. \/ job' = job \/ job' = [job EXCEPT ![t] = NoJob]
            \/ \E rest : job' = [job EXCEPT ![t] = FlushOf(rest, 0)]
        BY <4>1 DEF Handles, Enters, Waits, Takes, Quits
      <4>3. job \in [Types -> Jobs]
        BY <1>1 DEF Kinds
      <4> QED BY <3>1, <3>2, <4>2, <4>3
    <3> QED BY <1>5, <3>3, <3>4
  <2> QED BY <2>2, <2>3 DEF Attempted
<1>6. Frame /\ \A r \in Rows : TypeOf[r] \in Types
  BY RowsAssumption DEF RowsAssumption, Base
<1> QED BY <1>3, <1>4, <1>5, <1>6, ReceiveMoves, CallbackMoves, TimerMoves, StopMoves DEF Next

(* A row is given up only if the server refuses it, or every attempt at    *)
(* it, over every transport, went wrong: the row-by-row fallback of        *)
(* _flush_batch_buffer lets a bad row cost nothing but itself.             *)
THEOREM OnlyBadRowsAreGivenUp == Spec => []BadRowCostsOnlyItself
<1>1. Init => Attempted /\ BadRowCostsOnlyItself
  BY DEF Init, Attempted, Tried, NoJob, BadRowCostsOnlyItself
<1> QED BY <1>1, InitBase, NextBase, AttemptsKept, PTL DEF Spec
-------------------------------------------------------------------------------
(* The rows that were there when stop() began.                             *)

Before(q, x, y) == \E i, k \in 1..Len(q) : i < k /\ q[i] = x /\ q[k] = y

(* Who stands before whom in a line.                                       *)
LEMMA BeforeEmpty == \A x, y : ~Before(<<>>, x, y)
BY DEF Before

LEMMA BeforeStands ==
  ASSUME NEW q \in Lines, NEW x, NEW y, Before(q, x, y) PROVE x \in ToSet(q)
BY LenProperties DEF Before, ToSet, Lines

LEMMA BeforeHead ==
  ASSUME NEW q \in Lines, NEW y \in ToSet(q), y # Head(q) PROVE Before(q, Head(q), y)
<1>1. DOMAIN q = 1..Len(q) /\ Len(q) \in Nat
  BY LenProperties DEF Lines
<1>2. PICK k \in 1..Len(q) : q[k] = y
  BY <1>1 DEF ToSet
<1>3. k # 1 /\ 1 \in 1..Len(q) /\ 1 < k
  BY <1>1, <1>2
<1> QED BY <1>2, <1>3 DEF Before

LEMMA BeforeAppend ==
  ASSUME NEW q \in Lines, NEW e \in Tasks, NEW x, NEW y, y # e, Before(Append(q, e), x, y)
  PROVE  Before(q, x, y)
<1>1. /\ Len(Append(q, e)) = Len(q) + 1 /\ Append(q, e)[Len(q) + 1] = e /\ Len(q) \in Nat
      /\ \A i \in 1..Len(q) : Append(q, e)[i] = q[i]
  BY AppendProperties, LenProperties DEF Lines
<1>2. PICK i, k \in 1..Len(q) + 1 : i < k /\ Append(q, e)[i] = x /\ Append(q, e)[k] = y
  BY <1>1 DEF Before
<1>3. k # Len(q) + 1
  BY <1>1, <1>2
<1>4. i \in 1..Len(q) /\ k \in 1..Len(q) /\ q[i] = x /\ q[k] = y
  BY <1>1, <1>2, <1>3
<1> QED BY <1>2, <1>4 DEF Before

LEMMA BeforeTail ==
  ASSUME NEW q \in Lines, q # <<>>, NEW x, NEW y, Before(Tail(q), x, y)
  PROVE  Before(q, x, y)
<1>1. /\ Len(Tail(q)) = Len(q) - 1 /\ Len(q) \in Nat
      /\ \A i \in 1..Len(Tail(q)) : Tail(q)[i] = q[i + 1]
  BY HeadTailProperties, LenProperties DEF Lines
<1>2. PICK i, k \in 1..Len(Tail(q)) : i < k /\ Tail(q)[i] = x /\ Tail(q)[k] = y
  BY DEF Before
<1>3. /\ i + 1 \in 1..Len(q) /\ k + 1 \in 1..Len(q) /\ i + 1 < k + 1
      /\ q[i + 1] = x /\ q[k + 1] = y
  BY <1>1, <1>2
<1> QED BY <1>3 DEF Before

LEMMA BeforeWithout ==
  ASSUME NEW q \in Lines, NEW e \in Tasks, NEW x, NEW y, Before(Without(e, q), x, y)
  PROVE  Before(q, x, y)
<1>1. CASE ~Contains(q, e)
  BY <1>1 DEF Without
<1>2. CASE Contains(q, e)
  <2>1. PICK c \in 1..Len(q) :
          /\ Len(Without(e, q)) = Len(q) - 1
          /\ \A i \in 1..Len(q) - 1 : Without(e, q)[i] = IF i < c THEN q[i] ELSE q[i + 1]
    BY <1>2, WithoutOne
  <2>2. PICK i, k \in 1..Len(q) - 1 : /\ i < k
                                      /\ Without(e, q)[i] = x /\ Without(e, q)[k] = y
    BY <2>1 DEF Before
  <2>3. Len(q) \in Nat
    BY LenProperties DEF Lines
  <2>4. PICK a, b \in 1..Len(q) : a < b /\ q[a] = x /\ q[b] = y
    <3>1. CASE k < c
      BY <2>1, <2>2, <2>3, <3>1
    <3>2. CASE i < c /\ ~(k < c)
      <4>1. k + 1 \in 1..Len(q) /\ i < k + 1 /\ q[k + 1] = y /\ q[i] = x /\ i \in 1..Len(q)
        BY <2>1, <2>2, <2>3, <3>2
      <4> QED BY <4>1
    <3>3. CASE ~(i < c)
      <4>1. /\ k + 1 \in 1..Len(q) /\ i + 1 \in 1..Len(q) /\ i + 1 < k + 1
            /\ q[k + 1] = y /\ q[i + 1] = x
        BY <2>1, <2>2, <2>3, <3>3
      <4> QED BY <4>1
    <3> QED BY <2>1, <2>2, <2>3, <3>1, <3>2, <3>3
  <2> QED BY <2>4 DEF Before
<1> QED BY <1>1, <1>2

KeysKnown == \A r \in received : Contains(keys, TypeOf[r])
EarlyLeft ==
  stop \in {"flush", "lock", "flushing"} =>
    \A r \in early : Settled(r) \/ Contains(todo, TypeOf[r])
EarlyOut ==
  stop = "flushing" =>
    \A r \in early : r \notin waiting[Head(todo)] /\ ~Contains(buffer[Head(todo)], r)
EarlyFirst ==
  \A t \in Types : StopAt(t) = "lock" /\ Before(line[t], "stop", "cb") =>
    waiting[t] \cap early = {}
Early == KeysKnown /\ EarlyLeft /\ EarlyOut /\ EarlyFirst /\ StopSettlesEarlyRows

(* The two halves of stop().                                               *)
LEMMA OrderlyOrNot ==
  ASSUME Kinds
  PROVE  ~Orderly <=> stop \in {"cancel", "awaitTimer", "unsub", "yield", "closed", "failed"}
BY DEF Kinds, StopPcs, Orderly

(* Every row that came in has its type among the keys.                     *)
LEMMA KeysKept == ASSUME Base, KeysKnown, [Next]_vars PROVE KeysKnown'
<1>1. Kinds /\ \A r \in Rows : TypeOf[r] \in Types
  BY RowsAssumption DEF RowsAssumption, Base, Frame
<1>2. CASE UNCHANGED <<received, keys>>
  BY <1>2 DEF KeysKnown
<1>3. ASSUME NEW r \in Rows, Receive(r) PROVE KeysKnown'
  <2>1. /\ received' = received \cup {r}
        /\ keys' = IF Contains(keys, TypeOf[r]) THEN keys ELSE Append(keys, TypeOf[r])
    BY <1>3 DEF Receive
  <2>2. keys \in Seq(Types) /\ TypeOf[r] \in Types
    BY <1>1 DEF Kinds
  <2>3. \A u : Contains(Append(keys, TypeOf[r]), u) <=> Contains(keys, u) \/ u = TypeOf[r]
    BY <2>2, ContainsAppend
  <2> QED BY <2>1, <2>3 DEF KeysKnown
<1>4. ASSUME Next, ~\E r \in Rows : Receive(r) PROVE UNCHANGED <<received, keys>>
  BY <1>4 DEF Next, Flush, InsertAccepted, InsertFails, RetryWakes, Callback, CallbackLocks,
       CallbackFlushed, Timer, TimerStarts, TimerFires, TimerLocks, TimerFlushed,
       TimerCancelled, NewTimerCancelled, Started, StopBegins, Stop, StopFlushes, StopLocks,
       StopFlushed, StopTurnsToTimers, StopCancels, StopResumes, Unsubscribe, StopGoesOn,
       StopCloses, buffers
<1>5. UNCHANGED vars => UNCHANGED <<received, keys>>
  BY DEF vars, buffers
<1> QED BY <1>2, <1>3, <1>4, <1>5

(* A row that is neither waiting nor in the buffer does not come back.     *)
LEMMA StaysOut ==
  ASSUME Base, Idle \/ \E t \in Types : Moves(t), NEW u \in Types, NEW r \in received,
         r \notin waiting[u], ~Contains(buffer[u], r)
  PROVE  r \notin waiting'[u] /\ ~Contains(buffer'[u], r)
<1>1. CASE Idle
  BY <1>1 DEF Idle
<1>2. ASSUME NEW t \in Types, Moves(t), u # t
      PROVE r \notin waiting'[u] /\ ~Contains(buffer'[u], r)
  BY <1>2, MovesElsewhere DEF Base, Frame
<1>3. ASSUME Moves(u) PROVE r \notin waiting'[u] /\ ~Contains(buffer'[u], r)
  <2>1. Kinds /\ Sorted(u)
    BY DEF Base, Frame
  <2>2. CASE \E x \in Rows : Enters(u, x)
    <3>1. PICK x \in Rows : Enters(u, x)
      BY <2>2
    <3>2. x # r
      BY <3>1 DEF Enters, Arrives
    <3>3. /\ waiting'[u] = {} /\ buffer'[u] \in {<<>>, Append(buffer[u], x)}
          /\ \A y : Contains(Append(buffer[u], x), y) <=> Contains(buffer[u], y) \/ y = x
      BY <2>1, <3>1, EntersFresh
    <3> QED BY <3>2, <3>3, ContainsEmpty
  <2>3. CASE \E x \in Rows : Waits(u, x)
    BY <2>1, <2>3 DEF Waits, Kinds
  <2>4. CASE Takes(u)
    BY <2>1, <2>4, TakesRest, ContainsEmpty DEF Takes
  <2>5. CASE Quits(u)
    BY <2>1, <2>5 DEF Quits, Kinds
  <2>6. CASE Advances(u)
    BY <2>6 DEF Advances
  <2> QED BY <1>3, <2>2, <2>3, <2>4, <2>5, <2>6 DEF Moves, Handles
<1> QED BY <1>1, <1>2, <1>3

(* The line where stop() waits.                                            *)
LEMMA ReceiveOrder ==
  ASSUME Base, EarlyFirst, NEW r \in Rows, Receive(r) PROVE EarlyFirst'
<1> DEFINE t == TypeOf[r]
<1>1. Kinds /\ t \in Types /\ InLine(t)
  BY RowsAssumption DEF RowsAssumption, Base, Frame
<1>2. UNCHANGED <<stop, todo, early>> /\ waiting[t] = {} /\ r \notin early
  BY <1>1 DEF Receive, CallbackBusy, stopping, Kinds
<1> HIDE DEF t
<1>3. \A u \in Types : u # t => line'[u] = line[u] /\ waiting'[u] = waiting[u]
  BY <1>1 DEF Receive, EnterBuffer, Kinds, t
<1>4. waiting'[t] \in {{}, {r}}
  BY <1>1, <1>2 DEF Receive, Kinds, t
<1>5. \A u \in Types : StopAt(u)' = StopAt(u)
  BY <1>2, SameStop
<1> QED BY <1>1, <1>2, <1>3, <1>4, <1>5 DEF EarlyFirst

(* Joining behind, and leaving, a line changes no order in it.             *)
LEMMA OrderKept ==
  ASSUME Base, EarlyFirst, UNCHANGED <<stop, todo, early>>,
         \A u \in Types : \/ line'[u] = line[u] /\ waiting'[u] = waiting[u]
                          \/ waiting'[u] = {}
                          \/ waiting'[u] = waiting[u] /\
                             (Before(line'[u], "stop", "cb") => Before(line[u], "stop", "cb"))
  PROVE  EarlyFirst'
BY SameStop DEF EarlyFirst

LEMMA CallbackOrder ==
  ASSUME Base, EarlyFirst, NEW t \in Types, Callback(t) PROVE EarlyFirst'
<1>1. Kinds /\ InLine(t)
  BY DEF Base, Frame
<1>2. UNCHANGED <<stop, todo, early>>
  BY DEF Callback, CallbackLocks, CallbackFlushed, stopping
<1>3. \A u \in Types : u # t => line'[u] = line[u] /\ waiting'[u] = waiting[u]
  BY <1>1 DEF Callback, CallbackLocks, CallbackFlushed, EnterBuffer, Kinds, buffers
<1>4. waiting'[t] = {}
  <2>1. CASE CallbackLocks(t)
    BY <1>1, <2>1 DEF CallbackLocks, Kinds
  <2>2. CASE CallbackFlushed(t)
    BY <1>1, <2>2 DEF CallbackFlushed, InLine, Flushing, buffers
  <2> QED BY <2>1, <2>2 DEF Callback
<1> QED BY <1>2, <1>3, <1>4, OrderKept

LEMMA TimerOrder ==
  ASSUME Base, EarlyFirst, NEW t \in Types, Timer(t) PROVE EarlyFirst'
<1>1. Kinds /\ InLine(t) /\ line[t] \in Lines
  BY DEF Base, Frame, Kinds
<1>2. UNCHANGED <<stop, todo, early, waiting>>
  BY DEF Timer, TimerStarts, TimerFires, TimerLocks, TimerFlushed, TimerCancelled,
         NewTimerCancelled, stopping, buffers
<1>3. \A u \in Types : u # t => line'[u] = line[u]
  BY <1>1 DEF Timer, TimerStarts, TimerFires, TimerLocks, TimerFlushed, TimerCancelled,
         NewTimerCancelled, TimerTakes, Kinds
<1>4. \/ line'[t] = line[t]
      \/ line'[t] = Tail(line[t]) /\ line[t] # <<>>
      \/ line'[t] = Append(line[t], "timer")
      \/ line'[t] = Append(Without("timer", line[t]), "timer")
      \/ line'[t] \in {<<"timer">>, Tail(<<"timer">>)}
  <2>1. CASE TimerStarts(t) \/ NewTimerCancelled(t)
    BY <2>1 DEF TimerStarts, NewTimerCancelled
  <2>2. CASE TimerFires(t)
    BY <1>1, <2>2 DEF TimerFires, TimerTakes, Kinds
  <2>3. CASE TimerLocks(t)
    BY <1>1, <2>3 DEF TimerLocks, TimerTakes, Kinds, Holder
  <2>4. CASE TimerFlushed(t)
    BY <1>1, <2>4 DEF TimerFlushed, Kinds, Holder
  <2>5. CASE TimerCancelled(t)
    BY <1>1, <2>5 DEF TimerCancelled, TimerTakes, Kinds
  <2> QED BY <2>1, <2>2, <2>3, <2>4, <2>5 DEF Timer
<1>5. Before(line'[t], "stop", "cb") => Before(line[t], "stop", "cb")
  <2>1. "timer" \in Tasks /\ "cb" # "timer" /\ Without("timer", line[t]) \in Lines
    BY <1>1, LineWithout DEF Tasks, InLine
  <2>2. ~Before(<<"timer">>, "stop", "cb") /\ ~Before(Tail(<<"timer">>), "stop", "cb")
    <3>1. <<"timer">> \in Lines /\ Tail(<<"timer">>) \in Lines
      BY LineSingle, LineTail DEF Tasks
    <3>2. "stop" \notin ToSet(<<"timer">>) /\ "stop" \notin ToSet(Tail(<<"timer">>))
      BY LineSingle, LineTail DEF Tasks
    <3> QED BY <3>1, <3>2, BeforeStands
  <2>3. line[t] # <<>> /\ Before(Tail(line[t]), "stop", "cb") => Before(line[t], "stop", "cb")
    BY <1>1, BeforeTail
  <2>4. Before(Append(line[t], "timer"), "stop", "cb") => Before(line[t], "stop", "cb")
    BY <1>1, <2>1, BeforeAppend
  <2>5. Before(Append(Without("timer", line[t]), "timer"), "stop", "cb") =>
          Before(line[t], "stop", "cb")
    BY <1>1, <2>1, BeforeAppend, BeforeWithout
  <2> QED BY <1>4, <2>2, <2>3, <2>4, <2>5
<1> QED BY <1>2, <1>3, <1>5, OrderKept

LEMMA FlushOrder ==
  ASSUME Base, EarlyFirst, NEW t \in Types, Flush(t) PROVE EarlyFirst'
BY OrderKept DEF Flush, InsertAccepted, InsertFails, RetryWakes, stopping, buffers

LEMMA StopOrder ==
  ASSUME Base, EarlyFirst, Started \/ StopBegins \/ Stop PROVE EarlyFirst'
<1>1. Kinds /\ Stopping
  BY DEF Base, Frame
<1>2. CASE stop' # "lock"
  BY <1>2 DEF EarlyFirst, StopAt
<1>3. CASE stop' = "lock"
  <2>1. /\ stop = "flush" /\ todo # <<>> /\ todo' = todo /\ UNCHANGED <<early, waiting>>
        /\ line' = [line EXCEPT ![Head(todo)] = Append(line[Head(todo)], "stop")]
    BY <1>3 DEF Started, StopBegins, Stop, StopFlushes, StopLocks, StopFlushed, StopQueues,
       StopTakes, StopTurnsToTimers, StopCancels, StopResumes, Unsubscribe, StopGoesOn, StopCloses
  <2>2. PICK t \in Types : t = Head(todo)
    BY <1>1, <2>1, HeadTailProperties DEF Kinds
  <2>3. InLine(t) /\ line[t] \in Lines /\ line'[t] = Append(line[t], "stop")
    BY <1>1, <2>1, <2>2 DEF Base, Frame, Kinds
  <2>4. "stop" \notin ToSet(line[t])
    BY <2>1, <2>3 DEF InLine, Stands, StopAt
  <2>5. ~Before(line'[t], "stop", "cb")
    BY <2>3, <2>4, BeforeAppend, BeforeStands DEF Tasks
  <2>6. \A u \in Types : StopAt(u)' = "lock" => u = t
    BY <2>1, <2>2 DEF StopAt
  <2> QED BY <2>5, <2>6 DEF EarlyFirst
<1> QED BY <1>2, <1>3

(* When the lock is stop()'s, no row from before waits for it.             *)
LEMMA NoneWaits ==
  ASSUME Base, EarlyFirst, NEW t \in Types, NEW r \in early, stop \in {"flush", "lock"},
         Holder(t) = "free" \/ (Holder(t) = "stop" /\ StopAt(t) = "lock")
  PROVE  r \notin waiting[t]
<1>1. InLine(t) /\ line[t] \in Lines
  BY DEF Base, Frame, Kinds
<1> SUFFICES ASSUME r \in waiting[t] PROVE FALSE
  OBVIOUS
<1>2. "cb" \in ToSet(line[t])
  BY <1>1 DEF InLine, Stands
<1>3. line[t] # <<>>
  BY <1>2 DEF ToSet
<1>4. Head(line[t]) = "stop" /\ StopAt(t) = "lock"
  BY <1>1, <1>3, HeadTailProperties DEF Holder, Lines, Tasks
<1>5. Before(line[t], "stop", "cb")
  BY <1>1, <1>2, <1>4, BeforeHead
<1> QED BY <1>4, <1>5 DEF EarlyFirst

(* An early row of a type that is nowhere is settled.                      *)
LEMMA NowhereSettled ==
  ASSUME Base, NoRowForgotten, Orderly, NEW t \in Types, NEW r \in early, TypeOf[r] = t,
         r \notin waiting[t], ~Contains(buffer[t], r), job[t].at \in {"none", "end"}
  PROVE  Settled(r)
<1>1. Kinds
  BY DEF Base, Frame
<1>2. job[t].rest = <<>> /\ r \in received
  BY <1>1, NoRest DEF Kinds
<1> QED BY <1>2, ContainsEmpty DEF NoRowForgotten, Orderly, InHand

(* stop() takes a buffer, or finds it empty, or waits for its lock.        *)
LEMMA StopTakesEarly ==
  ASSUME Base, Early, NoRowForgotten, StopFlushes \/ StopLocks
  PROVE  EarlyLeft' /\ EarlyOut' /\ StopSettlesEarlyRows'
<1>1. Kinds /\ Stopping /\ todo # <<>> /\ stop \in {"flush", "lock"}
  BY DEF Base, Frame, StopFlushes, StopLocks, Stopping
<1>2. PICK t \in Types : t = Head(todo)
  BY <1>1, HeadTailProperties DEF Kinds
<1>3. UNCHANGED <<early, waiting, stored, dropped>> /\ stop' \in {"flush", "lock", "flushing"}
  BY DEF StopFlushes, StopLocks, StopTakes, StopQueues, settled
<1>4. \A r \in early : Settled(r) \/ Contains(todo, TypeOf[r])
  BY <1>1 DEF Early, EarlyLeft
<1>5. \A r \in early : Settled(r)' <=> Settled(r)
  BY <1>3 DEF Settled
<1>6. CASE todo' = todo /\ stop' = "lock"
  BY <1>3, <1>4, <1>5, <1>6 DEF EarlyLeft, EarlyOut, StopSettlesEarlyRows
<1>7. CASE (\E q : StopTakes(t, q)) /\ (Holder(t) = "free" \/ (Holder(t) = "stop" /\ stop = "lock"))
  <2>1. \A r \in early : r \notin waiting[t]
    <3>1. Holder(t) = "free" \/ (Holder(t) = "stop" /\ StopAt(t) = "lock")
      BY <1>2, <1>7 DEF StopAt
    <3> QED BY <1>1, <3>1, NoneWaits DEF Early
  <2>2. CASE buffer[t] = <<>>
    <3>1. stop' = "flush" /\ todo' = Tail(todo)
      BY <1>7, <2>2 DEF StopTakes
    <3>2. job[t].at = "none"
      BY <1>1, <1>7, HeadNone DEF Base, Frame, StopAt
    <3>3. ASSUME NEW r \in early PROVE Settled(r) \/ Contains(Tail(todo), TypeOf[r])
      <4>1. CASE TypeOf[r] = t
        BY <1>1, <2>1, <2>2, <3>2, <4>1, NowhereSettled, ContainsEmpty DEF Orderly
      <4>2. CASE TypeOf[r] # t
        BY <1>1, <1>2, <1>4, <4>2, ContainsTail DEF Kinds
      <4> QED BY <4>1, <4>2
    <3> QED BY <1>3, <1>5, <3>1, <3>3 DEF EarlyLeft, EarlyOut, StopSettlesEarlyRows
  <2>3. CASE buffer[t] # <<>>
    <3>1. stop' = "flushing" /\ todo' = todo /\ buffer'[t] = <<>>
      BY <1>1, <1>7, <2>3 DEF StopTakes, Emptied, Kinds
    <3> QED BY <1>2, <1>3, <1>4, <1>5, <2>1, <3>1, ContainsEmpty
            DEF EarlyLeft, EarlyOut, StopSettlesEarlyRows
  <2> QED BY <2>2, <2>3
<1> QED BY <1>2, <1>6, <1>7 DEF StopFlushes, StopLocks, StopQueues, Holder

(* stop() has flushed a buffer.                                            *)
LEMMA StopFlushedEarly ==
  ASSUME Base, Early, NoRowForgotten, NEW t \in Types, StopFlushed(t)
  PROVE  EarlyLeft' /\ EarlyOut' /\ StopSettlesEarlyRows'
<1>1. Kinds /\ Stopping /\ InLine(t)
  BY DEF Base, Frame
<1>2. /\ job[t].at = "end" /\ stop' = "flush" /\ todo' = Tail(todo)
      /\ UNCHANGED <<early, stored, dropped>>
  BY DEF StopFlushed, settled
<1>3. stop = "flushing" /\ t = Head(todo) /\ todo # <<>>
  BY <1>1, <1>2 DEF StopFlushed, InLine, Flushing, StopAt, Stopping
<1>4. \A r \in early : r \notin waiting[t] /\ ~Contains(buffer[t], r)
  BY <1>3 DEF Early, EarlyOut
<1>5. ASSUME NEW r \in early PROVE Settled(r) \/ Contains(Tail(todo), TypeOf[r])
  <2>1. CASE TypeOf[r] = t
    BY <1>2, <1>3, <1>4, <2>1, NowhereSettled DEF Orderly
  <2>2. CASE TypeOf[r] # t
    <3>1. Settled(r) \/ Contains(todo, TypeOf[r])
      BY <1>3 DEF Early, EarlyLeft
    <3> QED BY <1>1, <1>3, <2>2, <3>1, ContainsTail DEF Kinds
  <2> QED BY <2>1, <2>2
<1>6. \A r \in early : Settled(r)' <=> Settled(r)
  BY <1>2 DEF Settled
<1> QED BY <1>2, <1>5, <1>6 DEF EarlyLeft, EarlyOut, StopSettlesEarlyRows

(* The other steps of stop().                                              *)
LEMMA StopOnEarly ==
  ASSUME Base, Early,
         StopBegins \/ StopTurnsToTimers \/ StopCancels \/ StopResumes \/ StopGoesOn
         \/ StopCloses \/ \E t \in Types : Unsubscribe(t)
  PROVE  EarlyLeft' /\ EarlyOut' /\ StopSettlesEarlyRows'
<1>1. Kinds
  BY DEF Base, Frame
<1>2. CASE StopBegins
  BY <1>2 DEF StopBegins, Early, KeysKnown, EarlyLeft, EarlyOut, StopSettlesEarlyRows
<1>3. CASE StopTurnsToTimers
  <2>1. \A r \in early : Settled(r)
    BY <1>3, ContainsEmpty DEF StopTurnsToTimers, Early, EarlyLeft
  <2> QED BY <1>3, <2>1 DEF StopTurnsToTimers, EarlyLeft, EarlyOut, StopSettlesEarlyRows,
                            Settled, settled
<1>4. CASE ~StopBegins /\ ~StopTurnsToTimers
  <2>1. /\ stop \in {"cancel", "awaitTimer", "unsub", "yield"} /\ early' = early
        /\ stop' \in {"cancel", "awaitTimer", "unsub", "yield", "closed", "failed"}
    BY <1>4 DEF StopCancels, StopResumes, StopGoesOn, StopCloses, Unsubscribe
  <2>2. \A r \in early : r \in Rows /\ Settled(r)
    BY <1>1, <2>1 DEF Early, StopSettlesEarlyRows, Kinds
  <2>3. Next
    BY <1>4 DEF Next, Stop
  <2>4. \A r \in early : Settled(r)'
    BY <2>2, <2>3, SettledKept
  <2> QED BY <2>1, <2>4 DEF EarlyLeft, EarlyOut, StopSettlesEarlyRows
<1> QED BY <1>2, <1>3, <1>4

(* Steps of the other tasks.                                               *)
LEMMA OthersEarly ==
  ASSUME Base, Early, [Next]_vars, UNCHANGED <<stop, todo, early>>,
         UNCHANGED vars \/ Idle \/ \E t \in Types : Moves(t)
  PROVE  EarlyLeft' /\ EarlyOut' /\ StopSettlesEarlyRows'
<1>1. Kinds /\ Stopping
  BY DEF Base, Frame
<1>2. \A r \in early : r \in Rows /\ r \in received /\ (Settled(r) => Settled(r)')
  BY <1>1, SettledKept DEF Kinds
<1>3. EarlyOut'
  <2>1. CASE stop = "flushing"
    <3>1. PICK u \in Types : u = Head(todo)
      BY <1>1, <2>1, HeadTailProperties DEF Kinds, Stopping
    <3>2. \A r \in early : r \notin waiting[u] /\ ~Contains(buffer[u], r)
      BY <2>1, <3>1 DEF Early, EarlyOut
    <3>3. Idle \/ \E t \in Types : Moves(t)
      BY DEF Idle, vars, buffers, settled
    <3>4. \A r \in early : r \notin waiting'[u] /\ ~Contains(buffer'[u], r)
      BY <1>2, <3>2, <3>3, StaysOut
    <3> QED BY <3>1, <3>4 DEF EarlyOut
  <2>2. CASE stop # "flushing"
    BY <2>2 DEF EarlyOut
  <2> QED BY <2>1, <2>2
<1> QED BY <1>2, <1>3 DEF Early, EarlyLeft, StopSettlesEarlyRows

LEMMA EarlyKept == ASSUME Base, Early, NoRowForgotten, [Next]_vars PROVE Early'
<1>1. KeysKnown'
  BY KeysKept DEF Early
<1>2. EarlyFirst'
  <2>1. UNCHANGED vars => EarlyFirst'
    BY DEF Early, EarlyFirst, StopAt, vars, buffers, stopping
  <2> QED BY <2>1, ReceiveOrder, FlushOrder, CallbackOrder, TimerOrder, StopOrder DEF Early, Next
<1>3. EarlyLeft' /\ EarlyOut' /\ StopSettlesEarlyRows'
  <2>1. CASE StopFlushes \/ StopLocks
    BY <2>1, StopTakesEarly
  <2>2. CASE \E t \in Types : StopFlushed(t)
    BY <2>2, StopFlushedEarly
  <2>3. CASE StopBegins \/ StopTurnsToTimers \/ StopCancels \/ StopResumes \/ StopGoesOn
             \/ StopCloses \/ \E t \in Types : Unsubscribe(t)
    BY <2>3, StopOnEarly
  <2>4. CASE Started \/ UNCHANGED vars \/ (\E r \in Rows : Receive(r))
             \/ (\E t \in Types : Flush(t) \/ Callback(t) \/ Timer(t))
    <3>1. UNCHANGED <<stop, todo, early>>
      BY <2>4 DEF Started, vars, Receive, Flush, InsertAccepted, InsertFails, RetryWakes, Callback,
         CallbackLocks, CallbackFlushed, Timer, TimerStarts, TimerFires, TimerLocks, TimerFlushed,
         TimerCancelled, NewTimerCancelled, stopping
    <3> QED BY <3>1, NextMoves, OthersEarly
  <2> QED BY <2>1, <2>2, <2>3, <2>4 DEF Next, Stop
<1> QED BY <1>1, <1>2, <1>3 DEF Early

(* Every row that had reached the callback when stop() began is stored or  *)
(* given up by the time stop() turns to the timers.                        *)
THEOREM StopSettles == Spec => []StopSettlesEarlyRows
<1>1. Init => Early /\ NoRowForgotten
  BY DEF Init, Early, KeysKnown, EarlyLeft, EarlyOut, EarlyFirst, StopAt, StopSettlesEarlyRows,
         NoRowForgotten
<1>2. Early => StopSettlesEarlyRows
  BY DEF Early
<1> QED BY <1>1, <1>2, InitBase, NextBase, NoRowForgottenKept, EarlyKept, PTL DEF Spec
===============================================================================
