--------------------------- MODULE CollectorLifeProofs ---------------------------
(***************************************************************************)
(* CollectorLife for any plan of groups, exchanges and managers, and any   *)
(* time-outs and durations.  The invariant says which exchanges are        *)
(* starting, at each place of main(); what is recorded and counted of      *)
(* those that are not; and how the times at which managers and exchanges   *)
(* were begun and waited for relate: an exchange that is cut off has had a *)
(* manager that took time before one that took longer than its wait; and a *)
(* manager that was cut took its wait or longer.                           *)
(***************************************************************************)
EXTENDS CollectorLife, SequenceTheorems, FiniteSetTheorems, TLAPS

Mains == {"configure", "await", "pause", "run", "stop", "hung", "close", "sleep", "exit"}
Size(e) == Plan[e[1]][e[2]]
Before(e, f) == e[1] < f[1] \/ (e[1] = f[1] /\ e[2] < f[2])

(* main() has waited for the exchange.                                     *)
Turned(e) == main = "await" => Before(e, current)

Kinds ==
  /\ auto \in BOOLEAN /\ stopEvent \in BOOLEAN /\ requested \in BOOLEAN /\ asked \in BOOLEAN
  /\ main \in Mains /\ current \in Exchanges
  /\ clock \in Nat /\ began \in Nat /\ began <= clock /\ clock <= began + ExchangeWait
  /\ launch \in [Exchanges -> {"none", "starting", "done", "cut"}]
  /\ awaited \in [Exchanges -> Nat] /\ since \in [Exchanges -> Nat]
  /\ \A e \in Exchanges : awaited[e] \in 1..Size(e) /\ since[e] <= clock
  /\ task \in [Managers -> {"none", "starting", "up", "failed", "cut"}]
  /\ due \in [Managers -> Nat] /\ took \in [Managers -> Nat]
  /\ recorded \subseteq Managers /\ results \subseteq Managers /\ left \subseteq Managers
  /\ restarts \in 0..MaxRestarts

(* The exchanges follow each other.                                        *)
Turns ==
  /\ main = "await" => \A e \in Exchanges :
       IF Before(e, current) THEN launch[e] \in {"done", "cut"}
       ELSE IF e[1] = current[1] THEN launch[e] \in {"starting", "done"} ELSE launch[e] = "none"
  /\ main = "pause" =>
       current[1] < Len(Plan) /\ \A e \in Exchanges : launch[e] = "none" <=> e[1] > current[1]
  /\ main = "run" => \A e \in Exchanges : launch[e] # "none"
  /\ main \in {"configure", "sleep", "exit"} => \A e \in Exchanges : launch[e] = "none"
  /\ main # "await" => \A e \in Exchanges : launch[e] # "starting"

Untouched ==
  \A e \in Exchanges : launch[e] = "none" =>
    \A m \in ManagersOf(e) : task[m] = "none" /\ m \notin recorded /\ m \notin left

(* What main() has seen of the managers that are recorded.                 *)
Counted ==
  /\ main \in {"await", "pause"} => \A e \in Exchanges :
       Turned(e) /\ launch[e] = "done" => recorded \cap ManagersOf(e) \subseteq results
  /\ main = "stop" /\ ~stopEvent => \A e \in Exchanges :
       launch[e] # "cut" => recorded \cap ManagersOf(e) = {}

(* The manager has had its turn in its exchange.                           *)
Past(m) ==
  \/ launch[m[1]] = "done"
  \/ launch[m[1]] # "none" /\ m[2] < awaited[m[1]]
  \/ launch[m[1]] = "cut" /\ m[2] = awaited[m[1]]
Taken ==
  main \in {"await", "pause", "run"} =>
    \A m \in Managers : Past(m) => task[m] # "starting" /\ (task[m] = "up" => m \in recorded)

CutIsHeld == \A e \in Exchanges : launch[e] = "cut" => Held(e)

(* Time passes only when nothing else can happen.                          *)
LaunchedAt(e) == due[<<e, 1>>] - took[<<e, 1>>]
InTime(e) ==
  /\ LaunchedAt(e) <= began /\ LaunchedAt(e) <= since[e]
  /\ \A m \in ManagersOf(e) : due[m] = LaunchedAt(e) + took[m]
  /\ task[Awaited(e)] = "starting" => clock <= since[e] + ManagerWait
  /\ clock > LaunchedAt(e) => \E m \in ManagersOf(e) : m[2] <= awaited[e] /\ took[m] > 0
  /\ since[e] > LaunchedAt(e) => \E m \in ManagersOf(e) : m[2] < awaited[e] /\ took[m] > 0
Times ==
  /\ main \in {"await", "pause"} => \A m \in Managers : task[m] = "starting" => clock <= due[m]
  /\ \A e \in Exchanges : launch[e] = "starting" => InTime(e)

(* The managers that left tasks behind failed, or took too long.           *)
LeftIsLate ==
  main \in {"await", "pause", "run"} =>
    \A m \in left : task[m] = "failed" \/ (task[m] = "cut" /\ took[m] >= ManagerWait)

IInv == Kinds /\ Turns /\ Untouched /\ Counted /\ Taken /\ CutIsHeld /\ Times /\ LeftIsLate

-------------------------------------------------------------------------------
(* The plan.                                                               *)

LEMMA Settings ==
  /\ ManagerWait \in Nat /\ ExchangeWait \in Nat /\ MaxRestarts \in Nat
  /\ 0 < ManagerWait /\ ManagerWait < ExchangeWait
  /\ Durations \subseteq Nat /\ Autos \subseteq BOOLEAN
BY SettingsAssumption

LEMMA Groups ==
  /\ Len(Plan) \in Nat /\ Len(Plan) >= 1 /\ DOMAIN Plan = 1..Len(Plan)
  /\ \A g \in 1..Len(Plan) :
       /\ Len(Plan[g]) \in Nat /\ Len(Plan[g]) >= 1 /\ DOMAIN Plan[g] = 1..Len(Plan[g])
       /\ \A k \in 1..Len(Plan[g]) : Plan[g][k] \in Nat \ {0}
<1> DEFINE G == Seq(Nat \ {0}) \ {<<>>}
<1>1. Plan \in Seq(G) /\ Plan # <<>>
  BY SettingsAssumption
<1> HIDE DEF G
<1>2. Len(Plan) \in Nat /\ Len(Plan) >= 1 /\ DOMAIN Plan = 1..Len(Plan)
  BY <1>1, LenProperties, EmptySeq
<1>3. ASSUME NEW g \in 1..Len(Plan)
      PROVE  /\ Len(Plan[g]) \in Nat /\ Len(Plan[g]) >= 1 /\ DOMAIN Plan[g] = 1..Len(Plan[g])
             /\ \A k \in 1..Len(Plan[g]) : Plan[g][k] \in Nat \ {0}
  <2>1. Plan[g] \in G
    BY <1>1, ElementOfSeq
  <2> DEFINE q == Plan[g]
  <2>2. q \in Seq(Nat \ {0}) /\ q # <<>>
    BY <2>1 DEF G
  <2> HIDE DEF q
  <2>3. /\ Len(q) \in Nat /\ Len(q) >= 1 /\ DOMAIN q = 1..Len(q)
        /\ \A k \in 1..Len(q) : q[k] \in Nat \ {0}
    BY <2>2, LenProperties, EmptySeq, ElementOfSeq
  <2> QED BY <2>3 DEF q
<1> QED BY <1>2, <1>3

LEMMA ExchangesAre ==
  /\ \A e \in Exchanges :
       /\ e[1] \in 1..Len(Plan) /\ e[2] \in 1..Len(Plan[e[1]]) /\ e = <<e[1], e[2]>>
       /\ e[1] \in Nat /\ e[2] \in Nat /\ Size(e) \in Nat \ {0}
  /\ \A g \in 1..Len(Plan) : \A k \in 1..Len(Plan[g]) : <<g, k>> \in Exchanges
  /\ \A g \in 1..Len(Plan) : <<g, 1>> \in Exchanges
<1>1. ASSUME NEW e \in Exchanges
      PROVE  /\ e[1] \in 1..Len(Plan) /\ e[2] \in 1..Len(Plan[e[1]]) /\ e = <<e[1], e[2]>>
             /\ e[1] \in Nat /\ e[2] \in Nat /\ Size(e) \in Nat \ {0}
  <2>1. PICK g \in DOMAIN Plan : e \in {<<g, k>> : k \in DOMAIN Plan[g]}
    BY DEF Exchanges
  <2>2. PICK k \in DOMAIN Plan[g] : e = <<g, k>>
    BY <2>1
  <2>3. e[1] = g /\ e[2] = k
    BY <2>2
  <2> QED BY <2>2, <2>3, Groups DEF Size
<1>2. ASSUME NEW g \in 1..Len(Plan), NEW k \in 1..Len(Plan[g]) PROVE <<g, k>> \in Exchanges
  BY Groups DEF Exchanges
<1>3. ASSUME NEW g \in 1..Len(Plan) PROVE 1 \in 1..Len(Plan[g])
  BY Groups
<1> QED BY <1>1, <1>2, <1>3

LEMMA ManagersAre ==
  /\ \A e \in Exchanges : \A m : m \in ManagersOf(e) <=> m \in Managers /\ m[1] = e
  /\ \A m \in Managers : m[1] \in Exchanges /\ m[2] \in 1..Size(m[1]) /\ m = <<m[1], m[2]>>
                         /\ m[2] \in Nat
  /\ \A e \in Exchanges : \A i \in 1..Size(e) : <<e, i>> \in ManagersOf(e)
<1>1. ASSUME NEW e \in Exchanges, NEW m \in ManagersOf(e)
      PROVE  m \in Managers /\ m[1] = e /\ m[2] \in 1..Size(e) /\ m = <<m[1], m[2]>> /\ m[2] \in Nat
  <2>1. PICK i \in 1..Size(e) : m = <<e, i>>
    BY DEF ManagersOf, Size
  <2>2. m[1] = e /\ m[2] = i /\ i \in Nat
    BY <2>1, ExchangesAre
  <2> QED BY <2>1, <2>2 DEF Managers
<1>2. \A m \in Managers : \E e \in Exchanges : m \in ManagersOf(e)
  BY DEF Managers
<1>3. \A e \in Exchanges : \A i \in 1..Size(e) : <<e, i>> \in ManagersOf(e)
  BY DEF ManagersOf, Size
<1> QED BY <1>1, <1>2, <1>3

LEMMA HowMany == ASSUME NEW e \in Exchanges PROVE Cardinality(ManagersOf(e)) = Size(e)
<1> DEFINE f == [i \in 1..Size(e) |-> <<e, i>>]
<1>1. Size(e) \in Nat /\ Size(e) >= 1
  BY ExchangesAre
<1>2. f \in Bijection(1..Size(e), ManagersOf(e))
  <2>1. f \in [1..Size(e) -> ManagersOf(e)]
    BY DEF ManagersOf, Size
  <2>2. \A i, j \in 1..Size(e) : f[i] = f[j] => i = j
    OBVIOUS
  <2>3. \A m \in ManagersOf(e) : \E i \in 1..Size(e) : f[i] = m
    BY DEF ManagersOf, Size
  <2> HIDE DEF f
  <2> QED BY <2>1, <2>2, <2>3 DEF Bijection, Injection, Surjection, IsInjective
<1> HIDE DEF f
<1>3. IsFiniteSet(1..Size(e)) /\ Cardinality(1..Size(e)) = Size(e)
  BY <1>1, FS_Interval
<1>4. Cardinality(ManagersOf(e)) = Cardinality(1..Size(e))
  BY <1>2, <1>3, FS_Bijection DEF ExistsBijection
<1> QED BY <1>3, <1>4

LEMMA AwaitedIs ==
  ASSUME Kinds, NEW e \in Exchanges
  PROVE  /\ Awaited(e) \in ManagersOf(e) /\ Awaited(e) \in Managers
         /\ Awaited(e)[1] = e /\ Awaited(e)[2] = awaited[e] /\ awaited[e] \in Nat
         /\ \A m \in Managers : m = Awaited(e) <=> m[1] = e /\ m[2] = awaited[e]
<1>1. awaited[e] \in 1..Size(e) /\ awaited[e] \in Nat
  BY DEF Kinds
<1>2. Awaited(e)[1] = e /\ Awaited(e)[2] = awaited[e] /\ Awaited(e) = <<e, awaited[e]>>
  BY DEF Awaited
<1>3. \A m \in Managers : m = <<m[1], m[2]>>
  BY ManagersAre
<1>4. <<e, awaited[e]>> \in ManagersOf(e)
  BY <1>1, ManagersAre
<1> QED BY <1>1, <1>2, <1>3, <1>4, ManagersAre

LEMMA LaunchedIs == ASSUME Kinds, NEW e \in Exchanges PROVE LaunchedAt(e) \in Int
<1>1. <<e, 1>> \in Managers
  BY ExchangesAre, ManagersAre
<1> QED BY <1>1 DEF LaunchedAt, Kinds

-------------------------------------------------------------------------------
(* The beginning of main(), the first time and again.                      *)

Switches ==
  /\ auto \in BOOLEAN /\ stopEvent \in BOOLEAN /\ requested \in BOOLEAN /\ asked \in BOOLEAN
  /\ restarts \in 0..MaxRestarts /\ main \in {"configure", "sleep", "exit"}
Blank ==
  /\ clock = 0 /\ began = 0 /\ current = <<1, 1>>
  /\ launch = [e \in Exchanges |-> "none"]
  /\ awaited = [e \in Exchanges |-> 1] /\ since = [e \in Exchanges |-> 0]
  /\ task = [m \in Managers |-> "none"] /\ due = [m \in Managers |-> 0]
  /\ took = [m \in Managers |-> 0]
  /\ recorded = {} /\ results = {} /\ left = {}

LEMMA BlankIs == Switches /\ Blank => IInv
<1> SUFFICES ASSUME Switches, Blank PROVE IInv
  OBVIOUS
<1>1. <<1, 1>> \in Exchanges
  <2>1. 1 \in 1..Len(Plan)
    BY Groups
  <2> QED BY <2>1, ExchangesAre
<1>2. \A e \in Exchanges : 1 \in 1..Size(e)
  BY ExchangesAre
<1>3. Kinds
  BY <1>1, <1>2, Settings DEF Switches, Blank, Kinds, Mains
<1>4. \A e \in Exchanges : launch[e] = "none"
  BY DEF Blank
<1>5. \A e \in Exchanges : \A m \in ManagersOf(e) : task[m] = "none" /\ m \notin recorded /\ m \notin left
  BY ManagersAre DEF Blank
<1>6. main \in {"configure", "sleep", "exit"}
  BY DEF Switches
<1> QED BY <1>3, <1>4, <1>5, <1>6 DEF IInv, Turns, Untouched, Counted, Taken, CutIsHeld, Times,
                                 LeftIsLate

LEMMA InitIInv == Init => IInv
<1> SUFFICES ASSUME Init PROVE IInv
  OBVIOUS
<1>1. Switches /\ Blank
  <2>1. auto \in BOOLEAN
    BY Settings DEF Init
  <2>2. restarts \in 0..MaxRestarts
    BY Settings DEF Init
  <2> QED BY <2>1, <2>2 DEF Init, Switches, Blank
<1> QED BY <1>1, BlankIs

LEMMA LoopEndsStep == ASSUME IInv, LoopEnds PROVE IInv'
<1>1. Switches' /\ Blank'
  BY DEF IInv, Kinds, LoopEnds, Switches, Blank
<1>2. Switches' /\ Blank' => IInv'
  BY BlankIs, PTL
<1> QED BY <1>1, <1>2

-------------------------------------------------------------------------------
(* Steps that leave the launcher alone.                                    *)

LEMMA ControlSteps ==
  ASSUME IInv, UNCHANGED launcher,
         ConfigurationFails \/ StopBegins \/ StartOver \/ Signal \/ RestartNeeded
  PROVE  IInv'
<1>1. /\ current' = current /\ clock' = clock /\ began' = began /\ launch' = launch
      /\ awaited' = awaited /\ since' = since /\ task' = task /\ due' = due
      /\ recorded' = recorded /\ results' = results /\ took' = took /\ left' = left
  BY DEF launcher
<1>2. \/ main' = main
      \/ main = "configure" /\ main' = "stop"
      \/ main = "run" /\ main' = "stop" /\ stopEvent'
      \/ main = "sleep" /\ main' = "configure"
  BY DEF ConfigurationFails, StopBegins, StopSeen, StartOver, Signal, RestartNeeded, control
<1>3. stopEvent => stopEvent'
  BY DEF ConfigurationFails, StopBegins, StartOver, Signal, RestartNeeded, control, IInv, Kinds
<1>4. Kinds'
  <2>1. /\ auto' \in BOOLEAN /\ stopEvent' \in BOOLEAN /\ requested' \in BOOLEAN /\ asked' \in BOOLEAN
    BY DEF ConfigurationFails, StopBegins, StartOver, Signal, RestartNeeded, control, Alive, IInv, Kinds
  <2>2. restarts' \in 0..MaxRestarts
    <3>1. restarts \in 0..MaxRestarts /\ MaxRestarts \in Nat
      BY Settings DEF IInv, Kinds
    <3>2. restarts' = restarts \/ (restarts < MaxRestarts /\ restarts' = restarts + 1)
      BY DEF ConfigurationFails, StopBegins, StartOver, Signal, RestartNeeded, control
    <3> QED BY <3>1, <3>2
  <2>3. main' \in Mains
    BY <1>2 DEF IInv, Kinds, Mains
  <2> QED BY <1>1, <2>1, <2>2, <2>3 DEF IInv, Kinds
<1>5. Turns'
  BY <1>1, <1>2 DEF IInv, Turns, Before
<1>6. Untouched' /\ CutIsHeld'
  BY <1>1 DEF IInv, Untouched, CutIsHeld, Held
<1>7. Counted'
  <2>1. main' \in {"await", "pause"} => main' = main
    BY <1>2
  <2>2. ASSUME main' = "stop", ~stopEvent', NEW e \in Exchanges, launch[e] # "cut"
        PROVE  recorded \cap ManagersOf(e) = {}
    <3>1. CASE main' = main
      BY <1>3, <2>2, <3>1 DEF IInv, Counted
    <3>2. CASE main = "configure"
      BY <3>2 DEF IInv, Turns, Untouched
    <3> QED BY <1>2, <2>2, <3>1, <3>2
  <2> QED BY <1>1, <2>1, <2>2 DEF IInv, Counted, Turned, Before
<1>8. Taken'
  <2>1. main' \in {"await", "pause", "run"} => main' = main
    BY <1>2
  <2> QED BY <1>1, <2>1 DEF IInv, Taken, Past
<1>9. Times'
  <2>1. main' \in {"await", "pause"} => main' = main
    BY <1>2
  <2> QED BY <1>1, <2>1 DEF IInv, Times, InTime, LaunchedAt, Awaited
<1>10. LeftIsLate'
  <2>1. main' \in {"await", "pause", "run"} => main' = main
    BY <1>2
  <2> QED BY <1>1, <2>1 DEF IInv, LeftIsLate
<1> QED BY <1>4, <1>5, <1>6, <1>7, <1>8, <1>9, <1>10 DEF IInv

(* From here on nothing is asked of the managers.                          *)
LEMMA StopSteps == ASSUME IInv, ManagersStop \/ StopHangs PROVE IInv'
<1>1. /\ main = "stop" /\ main' \in {"close", "hung"} /\ recorded' \subseteq recorded
      /\ UNCHANGED <<auto, current, clock, began, launch, awaited, since, due, results, took, left,
                     stopEvent, requested, restarts, asked>>
      /\ \E s \in SUBSET recorded :
           task' = [m \in Managers |-> IF m \in s THEN "none" ELSE task[m]]
  BY DEF ManagersStop, StopHangs, Stopped, control
<1>2. \A e \in Exchanges : launch[e] # "starting"
  BY <1>1 DEF IInv, Turns
<1>3. task' \in [Managers -> {"none", "starting", "up", "failed", "cut"}]
  BY <1>1 DEF IInv, Kinds
<1>4. Kinds'
  BY <1>1, <1>3 DEF IInv, Kinds, Mains
<1>5. Turns'
  BY <1>1, <1>2 DEF Turns
<1>6. Untouched' /\ CutIsHeld'
  <2>1. \A e \in Exchanges : \A m \in ManagersOf(e) : m \in Managers
    BY ManagersAre
  <2> QED BY <1>1, <2>1 DEF IInv, Untouched, CutIsHeld, Held
<1>7. Counted' /\ Taken' /\ Times' /\ LeftIsLate'
  BY <1>1, <1>2 DEF Counted, Taken, Times, LeftIsLate
<1> QED BY <1>4, <1>5, <1>6, <1>7 DEF IInv

-------------------------------------------------------------------------------
(* The managers.                                                           *)

LEMMA StartEndsStep == ASSUME IInv, NEW n \in Managers, StartEnds(n) PROVE IInv'
<1>1. PICK outcome \in {"up", "failed"} :
        /\ task' = [task EXCEPT ![n] = outcome]
        /\ left' = left \/ (outcome = "failed" /\ left' = left \cup {n})
  BY DEF StartEnds, NotStarted
<1>2. task[n] = "starting"
  BY DEF StartEnds, Due
<1>3. UNCHANGED <<auto, main, current, clock, began, launch, awaited, since, due, recorded,
                 results, took, stopEvent, requested, restarts, asked>>
  BY DEF StartEnds, control
<1>4. task \in [Managers -> {"none", "starting", "up", "failed", "cut"}]
  BY DEF IInv, Kinds
<1>5. task' \in [Managers -> {"none", "starting", "up", "failed", "cut"}]
      /\ \A m \in Managers : (task'[m] = task[m] \/ m = n) /\ (task'[m] = "starting" => task[m] = "starting")
  BY <1>1, <1>4
<1>6. Kinds'
  BY <1>1, <1>3, <1>5 DEF IInv, Kinds
<1>7. Turns' /\ Counted' /\ CutIsHeld'
  BY <1>3 DEF IInv, Turns, Counted, CutIsHeld, Held, Before, Turned
<1>8. Untouched'
  <2>1. \A e \in Exchanges : \A m \in ManagersOf(e) : m \in Managers
    BY ManagersAre
  <2> QED BY <1>1, <1>2, <1>3, <1>5, <2>1 DEF IInv, Untouched
<1>9. Taken'
  BY <1>2, <1>3, <1>5 DEF IInv, Taken, Past
<1>10. Times'
  <2>1. main' \in {"await", "pause"} => \A m \in Managers : task'[m] = "starting" => clock' <= due'[m]
    BY <1>3, <1>5 DEF IInv, Times
  <2>2. ASSUME NEW e \in Exchanges, launch[e] = "starting" PROVE InTime(e)'
    <3>1. Awaited(e) \in Managers /\ Awaited(e)' = Awaited(e)
      BY <1>3, AwaitedIs DEF IInv, Awaited
    <3>2. InTime(e)
      BY <2>2 DEF IInv, Times
    <3>3. task'[Awaited(e)] = "starting" => clock <= since[e] + ManagerWait
      BY <1>5, <3>1, <3>2 DEF InTime
    <3> QED BY <1>3, <3>1, <3>2, <3>3 DEF InTime, LaunchedAt
  <2> QED BY <1>3, <2>1, <2>2 DEF Times
<1>11. LeftIsLate'
  <2>1. left \subseteq Managers
    BY DEF IInv, Kinds
  <2>2. task'[n] = outcome
    BY <1>1, <1>4
  <2>3. ASSUME main \in {"await", "pause", "run"}, NEW m \in left'
        PROVE  task'[m] = "failed" \/ (task'[m] = "cut" /\ took[m] >= ManagerWait)
    <3>1. CASE m \in left
      <4>1. m \in Managers /\ (task[m] = "failed" \/ (task[m] = "cut" /\ took[m] >= ManagerWait))
        BY <2>1, <2>3, <3>1 DEF IInv, LeftIsLate
      <4>2. m # n
        BY <1>2, <4>1
      <4> QED BY <1>5, <4>1, <4>2
    <3>2. CASE m \notin left
      BY <1>1, <2>2, <2>3, <3>2
    <3> QED BY <3>1, <3>2
  <2> QED BY <1>3, <2>3 DEF LeftIsLate
<1> QED BY <1>6, <1>7, <1>8, <1>9, <1>10, <1>11 DEF IInv

(* A manager at whose turn startup_timeout has passed took that long.      *)
LEMMA OverdueIsLate ==
  ASSUME IInv, NEW e \in Exchanges, launch[e] = "starting", task[Awaited(e)] = "starting",
         clock - since[e] >= ManagerWait
  PROVE  took[Awaited(e)] >= ManagerWait
<1> DEFINE n == Awaited(e)
<1>1. n \in ManagersOf(e) /\ n \in Managers
  BY AwaitedIs DEF IInv
<1>2. main = "await"
  BY DEF IInv, Turns
<1>3. clock <= due[n] /\ InTime(e)
  BY <1>1, <1>2 DEF IInv, Times
<1>4. due[n] = LaunchedAt(e) + took[n] /\ LaunchedAt(e) <= since[e]
  BY <1>1, <1>3 DEF InTime
<1>5. /\ clock \in Nat /\ since[e] \in Nat /\ due[n] \in Nat /\ took[n] \in Nat
      /\ LaunchedAt(e) \in Int
  <2>1. <<e, 1>> \in Managers
    BY ExchangesAre, ManagersAre
  <2> QED BY <1>1, <2>1 DEF LaunchedAt, IInv, Kinds
<1> HIDE DEF n
<1>6. took[n] >= ManagerWait
  BY <1>3, <1>4, <1>5, Settings DEF n
<1> QED BY <1>6 DEF n

(* A start is cut, and the rest of what has been left stays as it is.      *)
LEMMA CutKeepsLate ==
  ASSUME IInv, main = "await", NEW n \in Managers, task[n] = "starting", took[n] >= ManagerWait,
         NotStarted(n, "cut"), UNCHANGED took
  PROVE  LeftIsLate' /\ left' \subseteq left \cup {n}
<1>1. /\ task' = [task EXCEPT ![n] = "cut"] /\ left' \in {left, left \cup {n}} /\ took' = took
  BY DEF NotStarted
<1>2. task \in [Managers -> {"none", "starting", "up", "failed", "cut"}] /\ left \subseteq Managers
  BY DEF IInv, Kinds
<1>3. ASSUME NEW m \in left'
      PROVE  task'[m] = "failed" \/ (task'[m] = "cut" /\ took'[m] >= ManagerWait)
  <2>1. CASE m = n
    BY <1>1, <1>2, <2>1
  <2>2. CASE m # n
    <3>1. m \in left /\ m \in Managers
      BY <1>1, <1>2, <1>3, <2>2
    <3>2. task'[m] = task[m]
      BY <1>1, <1>2, <2>2, <3>1
    <3> QED BY <1>1, <3>1, <3>2 DEF IInv, LeftIsLate
  <2> QED BY <2>1, <2>2
<1> QED BY <1>1, <1>2, <1>3 DEF LeftIsLate

(* An exchange turns from the manager at hand to the next.                 *)
LEMMA NextManagerKeeps ==
  ASSUME IInv, NEW e \in Exchanges, launch[e] = "starting", NextManager(e),
         task' \in [Managers -> {"none", "starting", "up", "failed", "cut"}],
         \A m \in Managers : m # Awaited(e) => task'[m] = task[m],
         recorded \subseteq recorded', recorded' \subseteq recorded \cup {Awaited(e)},
         task'[Awaited(e)] # "starting", task'[Awaited(e)] = "up" => Awaited(e) \in recorded',
         LeftIsLate', left' \subseteq left \cup {Awaited(e)},
         UNCHANGED <<auto, main, current, clock, began, due, results, took, control>>
  PROVE  IInv'
<1>1. UNCHANGED <<auto, main, current, clock, began, due, results, took, stopEvent, requested,
                 restarts, asked>>
  BY DEF control
<1>2. /\ Awaited(e) \in ManagersOf(e) /\ Awaited(e) \in Managers
      /\ Awaited(e)[1] = e /\ Awaited(e)[2] = awaited[e] /\ awaited[e] \in Nat
      /\ \A m \in Managers : m = Awaited(e) <=> m[1] = e /\ m[2] = awaited[e]
  BY AwaitedIs DEF IInv
<1>3. Cardinality(ManagersOf(e)) = Size(e) /\ Size(e) \in Nat /\ awaited[e] \in 1..Size(e)
  BY HowMany, ExchangesAre DEF IInv, Kinds
<1>4. main = "await" /\ ~Before(e, current)
  BY DEF IInv, Turns
<1>5. CASE awaited[e] = Size(e) /\ launch' = [launch EXCEPT ![e] = "done"] /\ awaited' = awaited /\ since' = since
  <2>1. Kinds'
    BY <1>1, <1>2, <1>5 DEF IInv, Kinds
  <2>2. /\ launch \in [Exchanges -> {"none", "starting", "done", "cut"}]
        /\ launch'[e] = "done" /\ \A f \in Exchanges : f # e => launch'[f] = launch[f]
    BY <1>5 DEF IInv, Kinds
  <2>3. Turns'
    BY <1>1, <1>4, <2>2 DEF IInv, Turns, Before
  <2>4. Untouched'
    BY <1>2, <2>2, ManagersAre DEF IInv, Untouched
  <2>5. Counted'
    <3>1. ASSUME NEW f \in Exchanges, f # e PROVE recorded' \cap ManagersOf(f) \subseteq recorded
      BY <1>2, <3>1, ManagersAre
    <3>2. \A f \in Exchanges : Turned(f)' => Turned(f) /\ f # e
      BY <1>1, <1>4 DEF Turned, Before
    <3> QED BY <1>1, <1>4, <2>2, <3>1, <3>2 DEF IInv, Counted
  <2>6. Taken'
    <3>1. ASSUME NEW m \in Managers, Past(m)', m # Awaited(e) PROVE Past(m)
      <4>1. m[1] \in Exchanges /\ m[2] \in 1..Size(m[1]) /\ m[2] \in Nat
        BY ManagersAre
      <4>2. CASE m[1] # e
        BY <1>5, <2>2, <3>1, <4>1, <4>2 DEF Past
      <4>3. CASE m[1] = e
        <5>1. m[2] # awaited[e] /\ m[2] <= awaited[e]
          BY <1>2, <1>3, <1>5, <3>1, <4>1, <4>3
        <5>2. m[2] < awaited[e]
          BY <1>2, <4>1, <5>1
        <5> QED BY <4>3, <5>2 DEF Past
      <4> QED BY <4>2, <4>3
    <3> QED BY <1>4, <3>1 DEF IInv, Taken
  <2>7. CutIsHeld'
    BY <1>1, <2>2 DEF IInv, CutIsHeld, Held
  <2>8. Times'
    <3>1. \A m \in Managers : task'[m] = "starting" => task[m] = "starting"
      OBVIOUS
    <3>2. ASSUME NEW f \in Exchanges, launch'[f] = "starting" PROVE InTime(f)'
      <4>1. f # e /\ InTime(f)
        BY <2>2, <3>2 DEF IInv, Times
      <4>2. Awaited(f)' = Awaited(f) /\ Awaited(f) \in Managers
        BY <1>5, AwaitedIs DEF IInv, Awaited
      <4> QED BY <1>1, <1>5, <3>1, <4>1, <4>2 DEF InTime, LaunchedAt
    <3> QED BY <1>1, <3>1, <3>2 DEF IInv, Times
  <2> QED BY <2>1, <2>3, <2>4, <2>5, <2>6, <2>7, <2>8 DEF IInv
<1>6. CASE /\ awaited[e] # Size(e) /\ awaited' = [awaited EXCEPT ![e] = @ + 1]
           /\ since' = [since EXCEPT ![e] = clock] /\ launch' = launch
  <2>1. /\ awaited \in [Exchanges -> Nat] /\ since \in [Exchanges -> Nat] /\ clock \in Nat
        /\ awaited'[e] = awaited[e] + 1 /\ since'[e] = clock
        /\ \A f \in Exchanges : f # e => awaited'[f] = awaited[f] /\ since'[f] = since[f]
    BY <1>6 DEF IInv, Kinds
  <2>2. Kinds'
    <3>1. awaited'[e] \in 1..Size(e) /\ awaited' \in [Exchanges -> Nat] /\ since' \in [Exchanges -> Nat]
      BY <1>3, <1>6, <2>1
    <3>2. \A f \in Exchanges : awaited'[f] \in 1..Size(f) /\ since'[f] <= clock
      BY <2>1, <3>1 DEF IInv, Kinds
    <3> QED BY <1>1, <1>2, <1>6, <3>1, <3>2 DEF IInv, Kinds
  <2>3. Turns'
    BY <1>1, <1>6 DEF IInv, Turns, Before
  <2>4. Untouched'
    BY <1>2, <1>6, ManagersAre DEF IInv, Untouched
  <2>5. Counted'
    <3>1. ASSUME NEW f \in Exchanges, f # e PROVE recorded' \cap ManagersOf(f) \subseteq recorded
      BY <1>2, <3>1, ManagersAre
    <3>2. \A f \in Exchanges : Turned(f)' => Turned(f) /\ f # e
      BY <1>1, <1>4 DEF Turned, Before
    <3> QED BY <1>1, <1>4, <1>6, <3>1, <3>2 DEF IInv, Counted
  <2>6. Taken'
    <3>1. ASSUME NEW m \in Managers, Past(m)', m # Awaited(e) PROVE Past(m)
      <4>1. m[1] \in Exchanges /\ m[2] \in Nat
        BY ManagersAre
      <4>2. CASE m[1] # e
        BY <1>6, <2>1, <3>1, <4>1, <4>2 DEF Past
      <4>3. CASE m[1] = e
        <5>1. m[2] # awaited[e] /\ m[2] < awaited[e] + 1
          BY <1>2, <1>6, <2>1, <3>1, <4>3 DEF Past
        <5>2. m[2] < awaited[e]
          BY <1>2, <4>1, <5>1
        <5> QED BY <4>3, <5>2 DEF Past
      <4> QED BY <4>2, <4>3
    <3> QED BY <1>4, <3>1 DEF IInv, Taken
  <2>7. CutIsHeld'
    BY <1>1, <1>6 DEF IInv, CutIsHeld, Held
  <2>8. Times'
    <3>1. \A m \in Managers : task'[m] = "starting" => task[m] = "starting"
      OBVIOUS
    <3>2. ASSUME NEW f \in Exchanges, f # e, launch'[f] = "starting" PROVE InTime(f)'
      <4>1. InTime(f)
        BY <1>6, <3>2 DEF IInv, Times
      <4>2. Awaited(f)' = Awaited(f) /\ Awaited(f) \in Managers
        BY <2>1, <3>2, AwaitedIs DEF IInv, Awaited
      <4> QED BY <1>1, <2>1, <3>1, <3>2, <4>1, <4>2 DEF InTime, LaunchedAt
    <3>3. InTime(e)'
      <4>1. InTime(e)
        BY DEF IInv, Times
      <4>2. LaunchedAt(e)' = LaunchedAt(e)
        BY <1>1 DEF LaunchedAt
      <4>3. \A m \in ManagersOf(e) : m[2] \in Nat
        BY ManagersAre
      <4>4. ASSUME clock > LaunchedAt(e)
            PROVE  \E m \in ManagersOf(e) : m[2] < awaited'[e] /\ m[2] <= awaited'[e] /\ took[m] > 0
        <5>1. PICK m \in ManagersOf(e) : m[2] <= awaited[e] /\ took[m] > 0
          BY <4>1, <4>4 DEF InTime
        <5> QED BY <1>2, <2>1, <4>3, <5>1
      <4>5. clock <= since'[e] + ManagerWait
        BY <2>1, Settings
      <4>6. LaunchedAt(e) <= since'[e]
        <5>1. LaunchedAt(e) <= since[e] /\ since[e] <= clock /\ since[e] \in Nat
          BY <2>1, <4>1 DEF InTime, IInv, Kinds
        <5>2. LaunchedAt(e) \in Int
          BY LaunchedIs DEF IInv
        <5> QED BY <2>1, <5>1, <5>2
      <4> QED BY <1>1, <2>1, <4>1, <4>2, <4>4, <4>5, <4>6 DEF InTime
    <3> QED BY <1>1, <3>1, <3>2, <3>3 DEF IInv, Times
  <2> QED BY <2>2, <2>3, <2>4, <2>5, <2>6, <2>7, <2>8 DEF IInv
<1> QED BY <1>3, <1>5, <1>6 DEF NextManager

LEMMA ExchangeSteps ==
  ASSUME IInv, NEW e \in Exchanges, TakeResult(e) \/ ManagerTimesOut(e) PROVE IInv'
<1>1. task \in [Managers -> {"none", "starting", "up", "failed", "cut"}] /\ Awaited(e) \in Managers
  BY AwaitedIs DEF IInv, Kinds
<1>2. CASE TakeResult(e)
  <2>1. /\ launch[e] = "starting" /\ task[Awaited(e)] # "starting" /\ NextManager(e) /\ task' = task
        /\ recorded' = recorded \cup {m \in {Awaited(e)} : task[m] = "up"}
        /\ UNCHANGED <<auto, main, current, clock, began, due, results, took, left, control>>
    BY <1>2 DEF TakeResult, Ended
  <2>2. LeftIsLate' /\ left' \subseteq left \cup {Awaited(e)}
    BY <2>1 DEF IInv, LeftIsLate
  <2> QED BY <1>1, <2>1, <2>2, NextManagerKeeps
<1>3. CASE ManagerTimesOut(e)
  <2>1. /\ launch[e] = "starting" /\ NextManager(e) /\ recorded' = recorded
        /\ task[Awaited(e)] = "starting" /\ clock - since[e] >= ManagerWait
        /\ NotStarted(Awaited(e), "cut") /\ task' = [task EXCEPT ![Awaited(e)] = "cut"]
        /\ UNCHANGED <<auto, main, current, clock, began, due, results, took, control>>
    BY <1>3 DEF ManagerTimesOut, Overdue, NotStarted
  <2>2. /\ task' \in [Managers -> {"none", "starting", "up", "failed", "cut"}]
        /\ task'[Awaited(e)] = "cut"
        /\ \A m \in Managers : m # Awaited(e) => task'[m] = task[m]
    BY <1>1, <2>1
  <2>3. LeftIsLate' /\ left' \subseteq left \cup {Awaited(e)}
    <3>1. main = "await" /\ took[Awaited(e)] >= ManagerWait
      BY <2>1, OverdueIsLate DEF IInv, Turns
    <3> QED BY <1>1, <2>1, <3>1, CutKeepsLate
  <2> QED BY <2>1, <2>2, <2>3, NextManagerKeeps
<1> QED BY <1>2, <1>3

-------------------------------------------------------------------------------
(* main() turns from the exchange at hand to the next, to the next group,  *)
(* or to its end.                                                          *)

LEMMA NextTurns ==
  ASSUME IInv, main = "await", NextExchange, launch' \in [Exchanges -> {"none", "starting", "done", "cut"}],
         launch'[current] \in {"done", "cut"},
         \A f \in Exchanges : f # current => launch'[f] = launch[f]
  PROVE  /\ current' \in Exchanges /\ main' \in {"await", "pause", "run", "stop"} /\ Turns'
         /\ main' \in {"run", "stop"} => \A f \in Exchanges : Turned(f) \/ f = current
         /\ \A f \in Exchanges : Turned(f)' /\ launch'[f] # "none" => Turned(f) \/ f = current
<1> DEFINE next == <<current[1], current[2] + 1>>
<1>1. /\ current \in Exchanges /\ current[1] \in Nat /\ current[2] \in Nat
      /\ current[1] \in 1..Len(Plan) /\ Len(Plan) \in Nat /\ Len(Plan[current[1]]) \in Nat
      /\ current = <<current[1], current[2]>>
  BY ExchangesAre, Groups DEF IInv, Kinds
<1>2. \A f \in Exchanges : /\ f[1] \in Nat /\ f[2] \in Nat /\ f[1] <= Len(Plan)
                           /\ f[2] <= Len(Plan[f[1]]) /\ f[2] >= 1 /\ f = <<f[1], f[2]>>
  <2>1. ASSUME NEW f \in Exchanges
        PROVE  /\ f[1] \in Nat /\ f[2] \in Nat /\ f[1] <= Len(Plan)
               /\ f[2] <= Len(Plan[f[1]]) /\ f[2] >= 1
    <3>1. f[1] \in 1..Len(Plan) /\ f[2] \in 1..Len(Plan[f[1]]) /\ f[1] \in Nat /\ f[2] \in Nat
      BY ExchangesAre
    <3>2. Len(Plan) \in Nat /\ Len(Plan[f[1]]) \in Nat
      BY <3>1, Groups
    <3> QED BY <3>1, <3>2
  <2> QED BY <2>1, ExchangesAre
<1>3. \A f \in Exchanges : f = current <=> f[1] = current[1] /\ f[2] = current[2]
  BY <1>1, <1>2
<1>4. \A f \in Exchanges : IF Before(f, current) THEN launch[f] \in {"done", "cut"}
        ELSE IF f[1] = current[1] THEN launch[f] \in {"starting", "done"} ELSE launch[f] = "none"
  BY DEF IInv, Turns
<1>5. \A f \in Exchanges : Before(f, current) => Turned(f)
  BY DEF Turned
<1>6. CASE next \in Exchanges
  <2>1. main' = "await" /\ current' = next
    BY <1>6 DEF NextExchange
  <2>2. next[1] = current[1] /\ next[2] = current[2] + 1
    OBVIOUS
  <2> HIDE DEF next
  <2>3. \A f \in Exchanges : Before(f, next) <=> Before(f, current) \/ f = current
    BY <1>1, <1>2, <1>3, <2>2 DEF Before
  <2>4. \A f \in Exchanges : IF Before(f, next) THEN launch'[f] \in {"done", "cut"}
          ELSE IF f[1] = next[1] THEN launch'[f] \in {"starting", "done"} ELSE launch'[f] = "none"
    BY <1>4, <2>2, <2>3
  <2>5. Turns'
    BY <2>1, <2>4 DEF Turns, Before
  <2>6. \A f \in Exchanges : Turned(f)' => Turned(f) \/ f = current
    BY <1>5, <2>1, <2>3 DEF Turned, Before
  <2> QED BY <1>6, <2>1, <2>5, <2>6
<1>7. CASE next \notin Exchanges
  <2>1. current' = current /\ main' = IF current[1] < Len(Plan) THEN "pause"
                                     ELSE IF results' # {} THEN "run" ELSE "stop"
    BY <1>7 DEF NextExchange
  <2>2. ~(current[2] + 1 \in 1..Len(Plan[current[1]]))
    BY <1>1, <1>7, ExchangesAre
  <2>3. \A f \in Exchanges : f[1] = current[1] => f[2] <= current[2]
    BY <1>1, <1>2, <2>2
  <2>4. \A f \in Exchanges : f[1] <= current[1] <=> Before(f, current) \/ f = current
    BY <1>1, <1>2, <1>3, <2>3 DEF Before
  <2>5. \A f \in Exchanges : /\ f[1] <= current[1] => launch'[f] \in {"done", "cut"}
                             /\ f[1] > current[1] => launch'[f] = "none"
    <3>1. ASSUME NEW f \in Exchanges, f[1] <= current[1] PROVE launch'[f] \in {"done", "cut"}
      BY <1>4, <2>4, <3>1
    <3>2. ASSUME NEW f \in Exchanges, f[1] > current[1] PROVE launch'[f] = "none"
      <4>1. ~Before(f, current) /\ f # current /\ f[1] # current[1]
        BY <1>1, <1>2, <2>4, <3>2
      <4> QED BY <1>4, <4>1
    <3> QED BY <3>1, <3>2
  <2>6. \A f \in Exchanges : f[1] <= current[1] \/ f[1] > current[1]
    BY <1>1, <1>2
  <2>7. CASE current[1] < Len(Plan)
    <3>1. main' = "pause"
      BY <2>1, <2>7
    <3>2. \A f \in Exchanges : launch'[f] = "none" <=> f[1] > current[1]
      BY <1>1, <1>2, <2>5, <2>6
    <3>3. \A f \in Exchanges : launch'[f] # "starting"
      BY <2>5, <2>6
    <3>4. Turns'
      BY <2>1, <2>7, <3>1, <3>2, <3>3 DEF Turns
    <3>5. \A f \in Exchanges : launch'[f] # "none" => Turned(f) \/ f = current
      BY <1>5, <2>4, <2>5, <2>6
    <3> QED BY <1>1, <2>1, <3>1, <3>4, <3>5
  <2>8. CASE ~(current[1] < Len(Plan))
    <3>1. main' \in {"run", "stop"}
      BY <2>1, <2>8
    <3>2. \A f \in Exchanges : f[1] <= current[1]
      BY <1>1, <1>2, <2>8
    <3>3. \A f \in Exchanges : launch'[f] \in {"done", "cut"}
      BY <2>5, <3>2
    <3>4. \A f \in Exchanges : Turned(f) \/ f = current
      BY <1>5, <2>4, <3>2
    <3>5. Turns'
      BY <3>1, <3>3 DEF Turns
    <3> QED BY <1>1, <2>1, <3>1, <3>4, <3>5
  <2> QED BY <2>7, <2>8
<1> QED BY <1>6, <1>7

LEMMA TurnedCounts ==
  ASSUME IInv, main = "await", NextExchange, recorded' = recorded, results \subseteq results',
         launch' \in [Exchanges -> {"none", "starting", "done", "cut"}],
         launch'[current] \in {"done", "cut"},
         launch'[current] = "done" => recorded \cap ManagersOf(current) \subseteq results',
         \A f \in Exchanges : f # current => launch'[f] = launch[f]
  PROVE  Counted'
<1>1. /\ main' \in {"await", "pause", "run", "stop"}
      /\ main' \in {"run", "stop"} => \A f \in Exchanges : Turned(f) \/ f = current
      /\ \A f \in Exchanges : Turned(f)' /\ launch'[f] # "none" => Turned(f) \/ f = current
  BY NextTurns
<1>2. ASSUME NEW f \in Exchanges, Turned(f) \/ f = current, launch'[f] = "done"
      PROVE  recorded' \cap ManagersOf(f) \subseteq results'
  BY <1>2 DEF IInv, Counted
<1>3. ASSUME main' = "stop", NEW f \in Exchanges, launch'[f] # "cut"
      PROVE  recorded' \cap ManagersOf(f) = {}
  <2>1. results' = {}
    BY <1>3 DEF NextExchange
  <2>2. Turned(f) \/ f = current
    BY <1>1, <1>3
  <2>3. launch'[f] = "done"
    <3>1. CASE f = current
      BY <1>3, <3>1
    <3>2. CASE f # current
      BY <1>3, <2>2, <3>2 DEF IInv, Turns, Turned
    <3> QED BY <3>1, <3>2
  <2> QED BY <1>2, <2>1, <2>2, <2>3
<1> QED BY <1>1, <1>2, <1>3 DEF Counted

LEMMA TakeResultsStep == ASSUME IInv, TakeResults PROVE IInv'
<1>1. /\ main = "await" /\ launch[current] # "starting" /\ NextExchange
      /\ results' = results \cup (recorded \cap ManagersOf(current)) /\ began' = clock
      /\ UNCHANGED <<auto, clock, launch, awaited, since, task, due, recorded, took, left, stopEvent,
                     requested, restarts, asked>>
  BY DEF TakeResults, Finished, Successes, NextExchange, control
<1>2. launch \in [Exchanges -> {"none", "starting", "done", "cut"}] /\ current \in Exchanges
  BY DEF IInv, Kinds
<1>3. launch[current] = "done" /\ ~Before(current, current)
  <2>1. current[1] \in Nat /\ current[2] \in Nat
    BY <1>2, ExchangesAre
  <2>2. ~Before(current, current)
    BY <2>1 DEF Before
  <2> QED BY <1>1, <1>2, <2>2 DEF IInv, Turns
<1>4. current' \in Exchanges /\ main' \in {"await", "pause", "run", "stop"} /\ Turns'
  BY <1>1, <1>2, <1>3, NextTurns
<1>5. Counted'
  BY <1>1, <1>2, <1>3, TurnedCounts
<1>6. Kinds'
  BY <1>1, <1>4, Settings DEF IInv, Kinds, Mains
<1>7. Untouched' /\ CutIsHeld'
  BY <1>1 DEF IInv, Untouched, CutIsHeld, Held
<1>8. Taken'
  BY <1>1 DEF IInv, Taken, Past
<1>9. Times'
  <2>1. \A m \in Managers : task'[m] = "starting" => clock' <= due'[m]
    BY <1>1 DEF IInv, Times
  <2>2. ASSUME NEW f \in Exchanges, launch'[f] = "starting" PROVE InTime(f)'
    <3>1. InTime(f) /\ Awaited(f)' = Awaited(f) /\ LaunchedAt(f)' = LaunchedAt(f)
      BY <1>1, <2>2 DEF IInv, Times, Awaited, LaunchedAt
    <3>2. LaunchedAt(f) \in Int /\ began \in Nat /\ clock \in Nat /\ began <= clock
      <4>1. <<f, 1>> \in Managers
        BY ExchangesAre, ManagersAre
      <4> QED BY <4>1 DEF LaunchedAt, IInv, Kinds
    <3>3. LaunchedAt(f) <= began'
      BY <1>1, <3>1, <3>2 DEF InTime
    <3> QED BY <1>1, <3>1, <3>3 DEF InTime
  <2> QED BY <2>1, <2>2 DEF Times
<1>10. LeftIsLate'
  BY <1>1 DEF IInv, LeftIsLate
<1> QED BY <1>4, <1>5, <1>6, <1>7, <1>8, <1>9, <1>10 DEF IInv

(* An exchange whose time is up has had a manager that took time, and      *)
(* awaits one that has taken longer than startup_timeout.                  *)
LEMMA CutIsLate ==
  ASSUME IInv, OutOfPatience
  PROVE  /\ Held(current) /\ task[Awaited(current)] = "starting" /\ launch[current] = "starting"
         /\ took[Awaited(current)] > ManagerWait
<1> DEFINE e == current
           n == Awaited(current)
<1>1. /\ main = "await" /\ launch[e] = "starting" /\ clock - began >= ExchangeWait
      /\ task[n] = "starting" /\ e \in Exchanges
  BY DEF OutOfPatience, Patience, Ended, IInv, Kinds
<1>2. /\ n \in ManagersOf(e) /\ n \in Managers /\ n[2] = awaited[e]
  BY <1>1, AwaitedIs DEF IInv
<1>3. InTime(e) /\ clock <= due[n]
  BY <1>1, <1>2 DEF IInv, Times
<1>4. /\ clock \in Nat /\ began \in Nat /\ since[e] \in Nat /\ due[n] \in Nat /\ took[n] \in Nat
      /\ LaunchedAt(e) \in Int
  <2>1. <<e, 1>> \in Managers
    BY <1>1, ExchangesAre, ManagersAre
  <2> QED BY <1>1, <1>2, <2>1 DEF LaunchedAt, IInv, Kinds
<1> HIDE DEF e, n
<1>5. due[n] = LaunchedAt(e) + took[n] /\ LaunchedAt(e) <= began /\ clock <= since[e] + ManagerWait
  BY <1>1, <1>2, <1>3 DEF InTime, e, n
<1>6. took[n] > ManagerWait
  BY <1>1, <1>3, <1>4, <1>5, Settings
<1>7. since[e] > LaunchedAt(e)
  BY <1>1, <1>4, <1>5, Settings
<1>8. PICK m \in ManagersOf(e) : m[2] < awaited[e] /\ took[m] > 0
  BY <1>3, <1>7 DEF InTime
<1>9. Held(e)
  BY <1>2, <1>6, <1>8 DEF Held
<1> QED BY <1>1, <1>6, <1>9 DEF e, n

LEMMA ExchangeTimesOutStep == ASSUME IInv, ExchangeTimesOut PROVE IInv'
<1>1. /\ main = "await" /\ NextExchange /\ OutOfPatience /\ began' = clock
      /\ launch' = [launch EXCEPT ![current] = "cut"]
      /\ NotStarted(Awaited(current), "cut")
      /\ task' = [task EXCEPT ![Awaited(current)] = "cut"] /\ results' = results
      /\ UNCHANGED <<auto, clock, awaited, since, due, recorded, took, stopEvent, requested,
                     restarts, asked>>
  BY DEF ExchangeTimesOut, OutOfPatience, NextExchange, NotStarted, control
<1>2. /\ Held(current) /\ task[Awaited(current)] = "starting" /\ launch[current] = "starting"
      /\ took[Awaited(current)] > ManagerWait
  BY <1>1, CutIsLate
<1>3. /\ current \in Exchanges
      /\ launch' \in [Exchanges -> {"none", "starting", "done", "cut"}] /\ launch'[current] = "cut"
      /\ \A f \in Exchanges : f # current => launch'[f] = launch[f]
  BY <1>1 DEF IInv, Kinds
<1>4. /\ Awaited(current) \in ManagersOf(current) /\ Awaited(current) \in Managers
      /\ awaited[current] \in Nat
      /\ \A m \in Managers : m = Awaited(current) <=> m[1] = current /\ m[2] = awaited[current]
  BY <1>3, AwaitedIs DEF IInv
<1>5. /\ task' \in [Managers -> {"none", "starting", "up", "failed", "cut"}]
      /\ task'[Awaited(current)] = "cut"
      /\ \A m \in Managers : m # Awaited(current) => task'[m] = task[m]
  BY <1>1, <1>4 DEF IInv, Kinds
<1>6. current' \in Exchanges /\ main' \in {"await", "pause", "run", "stop"} /\ Turns'
  BY <1>1, <1>3, NextTurns
<1>7. Counted'
  BY <1>1, <1>3, TurnedCounts
<1>13. LeftIsLate' /\ left' \subseteq left \cup {Awaited(current)}
  <2>1. took[Awaited(current)] >= ManagerWait
    BY <1>2, <1>4, Settings DEF IInv, Kinds
  <2> QED BY <1>1, <1>2, <1>4, <2>1, CutKeepsLate
<1>8. Kinds'
  BY <1>1, <1>3, <1>4, <1>5, <1>6, <1>13, Settings DEF IInv, Kinds, Mains
<1>9. Untouched'
  BY <1>1, <1>3, <1>4, <1>5, <1>13, ManagersAre DEF IInv, Untouched
<1>10. CutIsHeld'
  BY <1>1, <1>2, <1>3 DEF IInv, CutIsHeld, Held
<1>11. Taken'
  <2>1. ASSUME NEW m \in Managers, Past(m)', m # Awaited(current) PROVE Past(m)
    <3>1. m[1] \in Exchanges /\ ~(m[1] = current /\ m[2] = awaited[current])
      BY <1>4, <2>1, ManagersAre
    <3> QED BY <1>1, <1>2, <1>3, <2>1, <3>1 DEF Past
  <2> QED BY <1>1, <1>5, <2>1 DEF IInv, Taken
<1>12. Times'
  <2>1. \A m \in Managers : task'[m] = "starting" => task[m] = "starting"
    BY <1>5
  <2>2. \A m \in Managers : task'[m] = "starting" => clock' <= due'[m]
    BY <1>1, <2>1 DEF IInv, Times
  <2>3. ASSUME NEW f \in Exchanges, launch'[f] = "starting" PROVE InTime(f)'
    <3>1. InTime(f) /\ Awaited(f)' = Awaited(f) /\ LaunchedAt(f)' = LaunchedAt(f) /\ f # current
      BY <1>1, <1>3, <2>3 DEF IInv, Times, Awaited, LaunchedAt
    <3>2. Awaited(f) \in Managers
      BY AwaitedIs DEF IInv
    <3>3. LaunchedAt(f) \in Int /\ began \in Nat /\ clock \in Nat /\ began <= clock
      <4>1. <<f, 1>> \in Managers
        BY ExchangesAre, ManagersAre
      <4> QED BY <4>1 DEF LaunchedAt, IInv, Kinds
    <3>4. LaunchedAt(f) <= began'
      BY <1>1, <3>1, <3>3 DEF InTime
    <3> QED BY <1>1, <2>1, <3>1, <3>2, <3>4 DEF InTime
  <2> QED BY <2>2, <2>3 DEF Times
<1> QED BY <1>6, <1>7, <1>8, <1>9, <1>10, <1>11, <1>12, <1>13 DEF IInv

-------------------------------------------------------------------------------
(* Time.                                                                   *)

LEMMA TickStep == ASSUME IInv, Tick PROVE IInv'
<1>1. /\ main = "await" /\ ~Finished /\ ~OutOfPatience /\ clock' = clock + 1
      /\ \A m \in Managers : ~Due(m)
      /\ \A e \in Exchanges : ~Ended(e) /\ ~Overdue(e)
      /\ UNCHANGED <<auto, main, current, began, launch, awaited, since, task, due, recorded,
                     results, took, left, stopEvent, requested, restarts, asked>>
  BY DEF Tick, control
<1>2. clock \in Nat /\ began \in Nat /\ began <= clock /\ current \in Exchanges
  BY DEF IInv, Kinds
<1>3. clock - began < ExchangeWait
  BY <1>1, <1>2, Settings DEF Finished, OutOfPatience, Patience
<1>4. Kinds'
  <2>1. clock' \in Nat /\ began <= clock' /\ clock' <= began + ExchangeWait
    BY <1>1, <1>2, <1>3, Settings
  <2>2. \A e \in Exchanges : since[e] <= clock'
    BY <1>1, <1>2 DEF IInv, Kinds
  <2> QED BY <1>1, <2>1, <2>2 DEF IInv, Kinds
<1>5. Turns' /\ Untouched' /\ CutIsHeld'
  BY <1>1 DEF IInv, Turns, Before, Untouched, CutIsHeld, Held
<1>6. Counted' /\ Taken' /\ LeftIsLate'
  BY <1>1 DEF IInv, Counted, Turned, Before, Taken, Past, LeftIsLate
<1>7. ASSUME NEW m \in Managers, task[m] = "starting" PROVE clock + 1 <= due[m]
  <2>1. ~(due[m] <= clock) /\ due[m] \in Nat
    BY <1>1, <1>7 DEF Due, IInv, Kinds
  <2> QED BY <1>2, <2>1
<1>8. ASSUME NEW e \in Exchanges, launch[e] = "starting" PROVE InTime(e)'
  <2>1. InTime(e) /\ Awaited(e)' = Awaited(e) /\ LaunchedAt(e)' = LaunchedAt(e)
    BY <1>1, <1>8 DEF IInv, Times, Awaited, LaunchedAt
  <2>2. Awaited(e) \in ManagersOf(e) /\ Awaited(e) \in Managers /\ Awaited(e)[2] = awaited[e]
        /\ awaited[e] \in Nat
    BY AwaitedIs DEF IInv
  <2>3. task[Awaited(e)] = "starting" /\ clock - since[e] < ManagerWait /\ since[e] \in Nat
    BY <1>1, <1>2, <1>8, Settings DEF Ended, Overdue, IInv, Kinds
  <2>4. clock + 1 <= since[e] + ManagerWait
    BY <1>2, <2>3, Settings
  <2>5. LaunchedAt(e) \in Int /\ due[Awaited(e)] \in Nat /\ took[Awaited(e)] \in Nat
    <3>1. <<e, 1>> \in Managers
      BY ExchangesAre, ManagersAre
    <3> QED BY <2>2, <3>1 DEF LaunchedAt, IInv, Kinds
  <2>6. ASSUME clock + 1 > LaunchedAt(e)
        PROVE  \E m \in ManagersOf(e) : m[2] <= awaited[e] /\ took[m] > 0
    <3>1. CASE clock > LaunchedAt(e)
      BY <2>1, <3>1 DEF InTime
    <3>2. CASE clock = LaunchedAt(e)
      <4>1. due[Awaited(e)] = LaunchedAt(e) + took[Awaited(e)] /\ clock + 1 <= due[Awaited(e)]
        BY <1>7, <2>1, <2>2, <2>3 DEF InTime
      <4>2. took[Awaited(e)] > 0
        BY <1>2, <2>5, <3>2, <4>1
      <4> QED BY <2>2, <4>2
    <3> QED BY <1>2, <2>5, <2>6, <3>1, <3>2
  <2> QED BY <1>1, <2>1, <2>4, <2>6 DEF InTime
<1>9. Times'
  BY <1>1, <1>7, <1>8 DEF Times
<1> QED BY <1>4, <1>5, <1>6, <1>9 DEF IInv

-------------------------------------------------------------------------------
(* A group is launched.                                                    *)

LEMMA LaunchSteps == ASSUME IInv, LaunchFirst \/ LaunchNext PROVE IInv'
<1>1. PICK g \in 1..Len(Plan) :
        /\ Launch(g)
        /\ \A e \in Exchanges : IF e[1] < g THEN launch[e] \in {"done", "cut"} ELSE launch[e] = "none"
        /\ (main = "configure" /\ g = 1) \/ main = "pause"
  <2>1. CASE LaunchFirst
    <3>1. main = "configure" /\ Launch(1) /\ \A e \in Exchanges : launch[e] = "none"
      BY <2>1 DEF LaunchFirst, IInv, Turns
    <3>2. 1 \in 1..Len(Plan) /\ \A e \in Exchanges : ~(e[1] < 1)
      BY Groups, ExchangesAre
    <3> QED BY <3>1, <3>2
  <2>2. CASE LaunchNext
    <3>1. /\ main = "pause" /\ Launch(current[1] + 1) /\ current[1] < Len(Plan)
          /\ \A e \in Exchanges : /\ launch[e] = "none" <=> e[1] > current[1]
                                  /\ launch[e] # "starting"
      BY <2>2 DEF LaunchNext, IInv, Turns
    <3>2. current[1] \in Nat /\ Len(Plan) \in Nat
      BY ExchangesAre, Groups DEF IInv, Kinds
    <3>3. current[1] + 1 \in 1..Len(Plan)
      BY <3>1, <3>2
    <3>4. \A e \in Exchanges : e[1] < current[1] + 1 <=> ~(e[1] > current[1])
      BY <3>2, ExchangesAre
    <3>5. \A e \in Exchanges : launch[e] \in {"none", "starting", "done", "cut"}
      BY DEF IInv, Kinds
    <3>6. ASSUME NEW e \in Exchanges
          PROVE  IF e[1] < current[1] + 1 THEN launch[e] \in {"done", "cut"} ELSE launch[e] = "none"
      <4>1. launch[e] = "none" <=> ~(e[1] < current[1] + 1)
        <5>1. (launch[e] = "none") <=> (e[1] > current[1])
          BY <3>1
        <5>2. (e[1] < current[1] + 1) <=> ~(e[1] > current[1])
          BY <3>4
        <5> QED BY <5>1, <5>2
      <4>2. launch[e] # "starting" /\ launch[e] \in {"none", "starting", "done", "cut"}
        BY <3>1, <3>5
      <4> QED BY <4>1, <4>2
    <3> QED BY <3>1, <3>3, <3>6
  <2> QED BY <2>1, <2>2
<1> DEFINE D == UNION {ManagersOf(e) : e \in Group(g)}
<1>2. \A m \in Managers : m \in D <=> m[1] \in Group(g)
  <2>1. \A e \in Group(g) : e \in Exchanges
    BY DEF Group
  <2> QED BY <2>1, ManagersAre
<1>3. PICK d \in [D -> Durations] :
        /\ task' = [m \in Managers |-> IF m \in DOMAIN d THEN "starting" ELSE task[m]]
        /\ due' = [m \in Managers |-> IF m \in DOMAIN d THEN clock + d[m] ELSE due[m]]
        /\ took' = [m \in Managers |-> IF m \in DOMAIN d THEN d[m] ELSE took[m]]
  BY <1>1 DEF Launch
<1>4. \A m \in D : d[m] \in Nat
  BY Settings
<1>5. DOMAIN d = D
  OBVIOUS
<1>6. /\ main' = "await" /\ current' = <<g, 1>> /\ began' = clock
      /\ launch' = [e \in Exchanges |-> IF e \in Group(g) THEN "starting" ELSE launch[e]]
      /\ awaited' = [e \in Exchanges |-> IF e \in Group(g) THEN 1 ELSE awaited[e]]
      /\ since' = [e \in Exchanges |-> IF e \in Group(g) THEN clock ELSE since[e]]
      /\ UNCHANGED <<auto, clock, recorded, results, left, stopEvent, requested, restarts, asked>>
  BY <1>1 DEF Launch, control
<1>7. clock \in Nat /\ g \in Nat /\ current' \in Exchanges /\ current'[1] = g /\ current'[2] = 1
  BY <1>1, <1>6, ExchangesAre, Groups DEF IInv, Kinds
<1>8. \A e \in Exchanges : e \in Group(g) <=> e[1] = g
  BY DEF Group
<1> HIDE DEF D
<1>9. Kinds'
  <2>1. awaited' \in [Exchanges -> Nat] /\ since' \in [Exchanges -> Nat]
    BY <1>6, <1>7 DEF IInv, Kinds
  <2>2. \A e \in Exchanges : awaited'[e] \in 1..Size(e) /\ since'[e] <= clock
    BY <1>6, <1>7, ExchangesAre DEF IInv, Kinds
  <2>3. task' \in [Managers -> {"none", "starting", "up", "failed", "cut"}]
    BY <1>3 DEF IInv, Kinds
  <2>4. due' \in [Managers -> Nat]
    BY <1>3, <1>4, <1>5, <1>7 DEF IInv, Kinds
  <2>5. took' \in [Managers -> Nat]
    BY <1>3, <1>4, <1>5 DEF IInv, Kinds
  <2>6. clock <= clock + ExchangeWait
    BY <1>7, Settings
  <2>7. launch' \in [Exchanges -> {"none", "starting", "done", "cut"}]
    BY <1>6 DEF IInv, Kinds
  <2> QED BY <1>6, <1>7, <2>1, <2>2, <2>3, <2>4, <2>5, <2>6, <2>7 DEF IInv, Kinds, Mains
<1>10. \A e \in Exchanges : (Before(e, current))' <=> e[1] < g
  BY <1>7, ExchangesAre DEF Before
<1>11. Turns'
  <2>1. ASSUME NEW e \in Exchanges
        PROVE  IF e[1] < g THEN launch'[e] \in {"done", "cut"}
               ELSE IF e[1] = g THEN launch'[e] = "starting" ELSE launch'[e] = "none"
    <3>1. CASE e[1] = g
      BY <1>6, <1>7, <1>8, <3>1
    <3>2. CASE e[1] # g
      BY <1>1, <1>6, <1>8, <3>2
    <3> QED BY <3>1, <3>2
  <2> QED BY <1>6, <1>7, <1>10, <2>1 DEF Turns
<1>12. Untouched'
  <2>1. ASSUME NEW e \in Exchanges, launch'[e] = "none", NEW m \in ManagersOf(e)
        PROVE  task'[m] = "none" /\ m \notin recorded' /\ m \notin left'
    <3>1. e \notin Group(g) /\ launch[e] = "none"
      BY <1>6, <2>1
    <3>2. m \in Managers /\ m[1] = e /\ m \notin D
      BY <1>2, <3>1, ManagersAre
    <3> QED BY <1>3, <1>5, <1>6, <3>1, <3>2 DEF IInv, Untouched
  <2> QED BY <2>1 DEF Untouched
<1>13. Counted'
  <2>1. ASSUME NEW e \in Exchanges, Turned(e)', launch'[e] = "done"
        PROVE  recorded \cap ManagersOf(e) \subseteq results
    <3>1. e[1] < g /\ launch[e] = "done" /\ e[1] \in 1..Len(Plan)
      BY <1>6, <1>10, <2>1, ExchangesAre DEF Turned
    <3>2. main = "pause"
      BY <1>1, <3>1
    <3> QED BY <3>1, <3>2 DEF IInv, Counted, Turned
  <2> QED BY <1>6, <2>1 DEF Counted
<1>14. Taken'
  <2>1. ASSUME NEW m \in Managers, Past(m)'
        PROVE  task'[m] # "starting" /\ (task'[m] = "up" => m \in recorded')
    <3>1. m[1] \in Exchanges /\ m[2] \in 1..Size(m[1]) /\ m[2] \in Nat /\ m[2] >= 1
      BY ManagersAre, ExchangesAre
    <3>2. m[1] \notin Group(g)
      <4>1. ASSUME m[1] \in Group(g) PROVE launch'[m[1]] = "starting" /\ awaited'[m[1]] = 1
        BY <1>6, <3>1, <4>1
      <4> QED BY <2>1, <3>1, <4>1 DEF Past
    <3>3. launch'[m[1]] = launch[m[1]] /\ awaited'[m[1]] = awaited[m[1]]
      BY <1>6, <3>1, <3>2
    <3>4. Past(m)
      BY <2>1, <3>3 DEF Past
    <3>5. main = "pause"
      BY <1>1, <3>1, <3>4 DEF Past, IInv, Turns
    <3>6. task'[m] = task[m]
      BY <1>2, <1>3, <1>5, <3>2
    <3> QED BY <1>6, <3>4, <3>5, <3>6 DEF IInv, Taken
  <2> QED BY <2>1 DEF Taken
<1>15. CutIsHeld'
  <2>1. ASSUME NEW e \in Exchanges, launch'[e] = "cut" PROVE Held(e)'
    <3>1. e \notin Group(g) /\ launch[e] = "cut"
      BY <1>6, <2>1
    <3>2. \A m \in ManagersOf(e) : took'[m] = took[m]
      BY <1>2, <1>3, <1>5, <3>1, ManagersAre
    <3>3. Held(e)
      BY <3>1 DEF IInv, CutIsHeld
    <3> QED BY <3>2, <3>3 DEF Held
  <2> QED BY <2>1 DEF CutIsHeld
<1>16. Times'
  <2>1. ASSUME NEW m \in Managers, task'[m] = "starting" PROVE clock <= due'[m]
    <3>1. CASE m \in D
      BY <1>3, <1>4, <1>5, <1>7, <3>1
    <3>2. CASE m \notin D
      <4>1. task[m] = "starting" /\ due'[m] = due[m]
        BY <1>3, <1>5, <2>1, <3>2
      <4>2. main = "pause"
        BY <1>1, <4>1, ManagersAre DEF IInv, Turns, Untouched
      <4> QED BY <4>1, <4>2 DEF IInv, Times
    <3> QED BY <3>1, <3>2
  <2>2. ASSUME NEW e \in Exchanges, launch'[e] = "starting" PROVE InTime(e)'
    <3>1. e \in Group(g)
      BY <1>1, <1>6, <2>2
    <3>2. <<e, 1>> \in ManagersOf(e) /\ \A m \in ManagersOf(e) : m \in D /\ m \in Managers
      BY <1>2, <3>1, ExchangesAre, ManagersAre
    <3>3. \A m \in ManagersOf(e) : due'[m] = clock + took'[m] /\ took'[m] \in Nat
      BY <1>3, <1>4, <1>5, <3>2
    <3>4. LaunchedAt(e)' = clock
      BY <1>7, <3>2, <3>3 DEF LaunchedAt
    <3>5. since'[e] = clock /\ ~(clock > clock) /\ clock <= clock + ManagerWait /\ clock <= clock
      BY <1>6, <1>7, <3>1, Settings
    <3> QED BY <1>6, <3>3, <3>4, <3>5 DEF InTime
  <2> QED BY <1>6, <2>1, <2>2 DEF Times
<1>17. LeftIsLate'
  <2>1. ASSUME NEW m \in left PROVE m \notin D /\ m \in Managers
                                    /\ (task[m] = "failed" \/ (task[m] = "cut" /\ took[m] >= ManagerWait))
    <3>1. m \in Managers /\ m[1] \in Exchanges /\ m \in ManagersOf(m[1])
      BY ManagersAre DEF IInv, Kinds
    <3>2. launch[m[1]] # "none"
      BY <3>1 DEF IInv, Untouched
    <3>3. m[1][1] < g /\ m[1][1] \in Nat /\ m[1][1] >= 1
      BY <1>1, <3>1, <3>2, ExchangesAre, Groups
    <3>4. m \notin D
      BY <1>2, <1>7, <1>8, <3>1, <3>3
    <3>5. main = "pause"
      BY <1>1, <3>3
    <3> QED BY <3>1, <3>4, <3>5 DEF IInv, LeftIsLate
  <2> QED BY <1>3, <1>5, <1>6, <2>1 DEF LeftIsLate
<1> QED BY <1>9, <1>11, <1>12, <1>13, <1>14, <1>15, <1>16, <1>17 DEF IInv

-------------------------------------------------------------------------------

LEMMA StepIInv == IInv /\ [Next]_vars => IInv'
<1> SUFFICES ASSUME IInv, [Next]_vars PROVE IInv'
  OBVIOUS
<1>1. CASE UNCHANGED vars
  <2>1. UNCHANGED <<auto, main, current, clock, began, launch, awaited, since, task, due, recorded,
                   results, took, left, stopEvent, requested, restarts, asked>>
    BY <1>1 DEF vars, launcher, control
  <2>2. Kinds' /\ Turns' /\ Untouched'
    BY <2>1 DEF IInv, Kinds, Turns, Before, Untouched
  <2>3. Counted' /\ Taken' /\ CutIsHeld' /\ LeftIsLate'
    BY <2>1 DEF IInv, Counted, Turned, Before, Taken, Past, CutIsHeld, Held, LeftIsLate
  <2>4. Times'
    BY <2>1 DEF IInv, Times, InTime, LaunchedAt, Awaited
  <2> QED BY <2>2, <2>3, <2>4 DEF IInv
<1>2. CASE Main
  <2>1. StopBegins \/ StartOver => UNCHANGED launcher
    BY DEF StopBegins, StartOver
  <2> QED BY <1>2, <2>1, LaunchSteps, TakeResultsStep, ExchangeTimesOutStep, ControlSteps,
             StopSteps, LoopEndsStep DEF Main
<1>3. CASE ConfigurationFails \/ Signal \/ RestartNeeded
  <2>1. UNCHANGED launcher
    BY <1>3 DEF ConfigurationFails, Signal, RestartNeeded
  <2> QED BY <1>3, <2>1, ControlSteps
<1>4. CASE Exchange
  BY <1>4, ExchangeSteps DEF Exchange
<1>5. CASE \E m \in Managers : StartEnds(m)
  BY <1>5, StartEndsStep
<1>6. CASE Tick
  BY <1>6, TickStep
<1> QED BY <1>1, <1>2, <1>3, <1>4, <1>5, <1>6 DEF Next

(* The place of main() in the plan, what is recorded and counted of the    *)
(* exchanges behind it, and the times agree in every behaviour.            *)
THEOREM Invariance == Spec => []IInv
BY InitIInv, StepIInv, PTL DEF Spec

(* Every variable of the collector keeps its type, and no exchange is      *)
(* waited for longer than its time-out.                                    *)
THEOREM TypeCorrect == Spec => []TypeOK
<1>1. IInv => TypeOK
  <2> SUFFICES ASSUME IInv PROVE TypeOK
    OBVIOUS
  <2>1. clock \in began..(began + ExchangeWait)
    BY Settings DEF IInv, Kinds
  <2>2. ASSUME NEW e \in Exchanges PROVE Awaited(e) \in ManagersOf(e) /\ since[e] \in 0..clock
    BY AwaitedIs DEF IInv, Kinds
  <2> QED BY <2>1, <2>2 DEF IInv, Kinds, Mains, TypeOK
<1> QED BY <1>1, Invariance, PTL

(* While the collector runs every manager that has started is recorded,    *)
(* unless a slow start of another of the same exchange, after one that     *)
(* took time, has used up the time of the exchange; and one that did not   *)
(* start has left tasks behind only if it failed or took startup_timeout.  *)
THEOREM NoneRunsUnrecorded == Spec => []RunningIsRecorded
<1>1. IInv => RunningIsRecorded
  <2> SUFFICES ASSUME IInv, main \in {"pause", "run"}, NEW e \in Exchanges, NEW m \in ManagersOf(e)
               PROVE  /\ task[m] = "up" => m \in recorded \/ Held(e)
                      /\ m \in left => task[m] = "failed" \/ took[m] >= ManagerWait
    BY DEF RunningIsRecorded
  <2>1. m \in Managers /\ m[1] = e
    BY ManagersAre
  <2>2. launch[e] \in {"none", "done", "cut"}
    BY DEF IInv, Kinds, Turns
  <2>3. ASSUME task[m] = "up" PROVE m \in recorded \/ Held(e)
    <3>1. CASE launch[e] = "none"
      BY <2>3, <3>1 DEF IInv, Untouched
    <3>2. CASE launch[e] = "done"
      BY <2>1, <2>3, <3>2 DEF IInv, Taken, Past
    <3>3. CASE launch[e] = "cut"
      BY <3>3 DEF IInv, CutIsHeld
    <3> QED BY <2>2, <3>1, <3>2, <3>3
  <2>4. m \in left => task[m] = "failed" \/ took[m] >= ManagerWait
    BY DEF IInv, LeftIsLate
  <2> QED BY <2>3, <2>4
<1> QED BY <1>1, Invariance, PTL

(* The collector gives up its start only if no manager is recorded but     *)
(* those of exchanges whose time ran out.                                  *)
THEOREM GivesUpRightly == Spec => []GivesUpWithoutAny
<1>1. IInv => GivesUpWithoutAny
  <2> SUFFICES ASSUME IInv, main = "stop", ~stopEvent, NEW e \in Exchanges,
                      recorded \cap ManagersOf(e) # {}
               PROVE  launch[e] = "cut"
    BY DEF GivesUpWithoutAny
  <2> QED BY DEF IInv, Counted
<1> QED BY <1>1, Invariance, PTL
===============================================================================
