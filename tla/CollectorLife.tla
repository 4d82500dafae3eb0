----------------------------- MODULE CollectorLife -----------------------------
(***************************************************************************)
(* The life of the collector, services/data-collector/main.py: how it      *)
(* starts its managers under two layers of time-outs, runs until a signal  *)
(* or the process monitor (services/common/process_monitor.py) stops it,   *)
(* and exits or starts over in the same process.                           *)
(*                                                                         *)
(* An exchange is a group and a place in it, a manager an exchange and a   *)
(* number.  A step runs from one await of an asyncio task to the next; the *)
(* tasks are main(), one per exchange, and one per manager that starts.    *)
(* Time is counted while managers start; steps take none of it.            *)
(***************************************************************************)
EXTENDS Integers, Sequences, FiniteSets

CONSTANTS
  Plan,         \* per priority group, per exchange of it, how many managers
  ManagerWait,  \* startup_timeout
  ExchangeWait, \* time-out of an exchange
  Durations,    \* how long the start of a manager may take
  Autos,        \* settings of AUTO_RESTART_ON_HEALTH_CRITICAL
  MaxRestarts   \* bound: how often the monitor asks for a restart

ASSUME SettingsAssumption ==
  /\ Plan \in Seq(Seq(Nat \ {0}) \ {<<>>}) /\ Plan # <<>>
  /\ Durations \subseteq Nat /\ Autos \subseteq BOOLEAN
  /\ 0 < ManagerWait /\ ManagerWait < ExchangeWait
  /\ {ManagerWait, ExchangeWait, MaxRestarts} \subseteq Nat

Exchanges == UNION {{<<g, k>> : k \in DOMAIN Plan[g]} : g \in DOMAIN Plan}
ManagersOf(e) == {<<e, i>> : i \in 1..Plan[e[1]][e[2]]}
Managers == UNION {ManagersOf(e) : e \in Exchanges}

VARIABLES
  auto,      \* the setting
  main,      \* where main() is
  current,   \* the exchange it waits for
  clock,     \* time spent in starting managers
  began,     \* when it began to wait for that exchange
  launch,    \* per exchange, its start_exchange_managers
  awaited,   \* per exchange, the manager that waits for
  since,     \* per exchange, since when
  task,      \* per manager, its start, and the manager after that
  due,       \* per manager, when its start ends
  recorded,  \* active_managers
  results,   \* the successful ones of all_startup_results
  stopEvent, \* stop_event is set
  requested, \* _RESTART_REQUESTED
  restarts,  \* history: restarts asked for
  asked,     \* history: the operator has sent a signal
  took,      \* history: how long the start of a manager takes
  left       \* the managers that did not start, but whose tasks go on

launcher == <<current, clock, began, launch, awaited, since, task, due, recorded, results, took,
              left>>
control == <<stopEvent, requested, restarts, asked>>
vars == <<auto, main, launcher, control>>

Group(g) == {e \in Exchanges : e[1] = g}
Awaited(e) == <<e, awaited[e]>>

-------------------------------------------------------------------------------
(* start() up to the managers, and the start of a group: a task for each   *)
(* exchange, and in it one for each of its managers.                       *)

ConfigurationFails ==
  /\ main = "configure" /\ main' = "stop"
  /\ UNCHANGED <<auto, launcher, control>>

Launch(g) ==
  /\ main' = "await" /\ current' = <<g, 1>> /\ began' = clock
  /\ launch' = [e \in Exchanges |-> IF e \in Group(g) THEN "starting" ELSE launch[e]]
  /\ awaited' = [e \in Exchanges |-> IF e \in Group(g) THEN 1 ELSE awaited[e]]
  /\ since' = [e \in Exchanges |-> IF e \in Group(g) THEN clock ELSE since[e]]
  /\ \E d \in [UNION {ManagersOf(e) : e \in Group(g)} -> Durations] :
       /\ task' = [m \in Managers |-> IF m \in DOMAIN d THEN "starting" ELSE task[m]]
       /\ due' = [m \in Managers |-> IF m \in DOMAIN d THEN clock + d[m] ELSE due[m]]
       /\ took' = [m \in Managers |-> IF m \in DOMAIN d THEN d[m] ELSE took[m]]
  /\ UNCHANGED <<auto, clock, recorded, results, left, control>>

LaunchFirst == main = "configure" /\ Launch(1)
LaunchNext == main = "pause" /\ Launch(current[1] + 1)

-------------------------------------------------------------------------------
(* _start_single_manager.                                                  *)

(* Once the collector runs or stops, time is no longer counted.            *)
Due(m) == task[m] = "starting" /\ (due[m] <= clock \/ main \in {"run", "stop", "hung", "close"})

(* A start that fails after it has created its message processors and      *)
(* publish consumers calls stop(), which returns at once, because          *)
(* _is_running is not set yet; one that is cancelled does not even that.   *)
NotStarted(m, how) ==
  /\ task' = [task EXCEPT ![m] = how]
  /\ left' \in {left, left \cup {m}}

StartEnds(m) ==
  /\ Due(m)
  /\ \/ task' = [task EXCEPT ![m] = "up"] /\ left' = left
     \/ NotStarted(m, "failed")
  /\ UNCHANGED <<auto, main, current, clock, began, launch, awaited, since, due, recorded,
                 results, took, control>>

-------------------------------------------------------------------------------
(* start_exchange_managers: the managers start at once, and are waited for *)
(* one after the other, each for startup_timeout from its turn on.         *)

NextManager(e) ==
  IF awaited[e] = Cardinality(ManagersOf(e))
  THEN launch' = [launch EXCEPT ![e] = "done"] /\ UNCHANGED <<awaited, since>>
  ELSE /\ awaited' = [awaited EXCEPT ![e] = @ + 1]
       /\ since' = [since EXCEPT ![e] = clock]
       /\ UNCHANGED launch

Ended(e) == launch[e] = "starting" /\ task[Awaited(e)] # "starting"

TakeResult(e) ==
  /\ Ended(e)
  /\ recorded' = recorded \cup {m \in {Awaited(e)} : task[m] = "up"}
  /\ NextManager(e)
  /\ UNCHANGED <<auto, main, current, clock, began, task, due, results, took, left,
                 control>>

Overdue(e) ==
  launch[e] = "starting" /\ task[Awaited(e)] = "starting" /\ clock - since[e] >= ManagerWait

ManagerTimesOut(e) ==
  /\ Overdue(e)
  /\ NotStarted(Awaited(e), "cut")
  /\ NextManager(e)
  /\ UNCHANGED <<auto, main, current, clock, began, due, recorded, results, took, control>>

-------------------------------------------------------------------------------
(* _start_data_collection: the exchanges of a group are waited for one     *)
(* after the other, the groups follow each other after a pause.            *)

(* Mutant: an exchange gets no longer than one of its managers.            *)
NoLonger == ManagerWait
(* Mutant: an exchange gets as long as all its managers together.          *)
EnoughForAll == ManagerWait * Cardinality(ManagersOf(current))
Patience == ExchangeWait

Finished == main = "await" /\ launch[current] # "starting"
OutOfPatience ==
  main = "await" /\ launch[current] = "starting" /\ clock - began >= Patience
                 /\ ~Ended(current)

(* After the last exchange start() succeeds if any manager has; if not,    *)
(* main() goes on to stop().                                               *)
NextExchange ==
  LET next == <<current[1], current[2] + 1>>
  IN /\ main' = IF next \in Exchanges THEN "await"
                ELSE IF current[1] < Len(Plan) THEN "pause"
                ELSE IF results' # {} THEN "run" ELSE "stop"
     /\ current' = IF next \in Exchanges THEN next ELSE current
     /\ began' = clock

(* Mutant: an exchange counts if all its managers have started.            *)
AllOrNothing == {m \in Managers : m[1] = current /\ ManagersOf(current) \subseteq recorded}
Successes == recorded \cap ManagersOf(current)

TakeResults ==
  /\ Finished
  /\ results' = results \cup Successes
  /\ NextExchange
  /\ UNCHANGED <<auto, clock, launch, awaited, since, task, due, recorded, took, left,
                 control>>

(* The exchange's task is cancelled, and with it the start that it waits   *)
(* for.  The starts after that go on, and nobody takes their results.      *)
ExchangeTimesOut ==
  /\ OutOfPatience
  /\ launch' = [launch EXCEPT ![current] = "cut"]
  /\ NotStarted(Awaited(current), "cut")
  /\ results' = results
  /\ NextExchange
  /\ UNCHANGED <<auto, clock, awaited, since, due, recorded, took, control>>

Tick ==
  /\ main = "await"
  /\ ~Finished /\ ~OutOfPatience
  /\ \A m \in Managers : ~Due(m)
  /\ \A e \in Exchanges : ~Ended(e) /\ ~Overdue(e)
  /\ clock' = clock + 1
  /\ UNCHANGED <<auto, main, current, began, launch, awaited, since, task, due, recorded,
                 results, took, left, control>>

-------------------------------------------------------------------------------
(* The signal handler, and the monitor, which is not stopped with the      *)
(* collector, counts no restart and keeps no cooldown.  Each main() has a  *)
(* stop_event of its own: between two of them a signal sets the old one.   *)

Alive == main \notin {"sleep", "exit"}

Signal ==
  /\ main # "exit" /\ ~asked
  /\ asked' = TRUE
  /\ stopEvent' = (stopEvent \/ Alive)
  /\ UNCHANGED <<auto, main, launcher, requested, restarts>>

RestartNeeded ==
  /\ auto /\ Alive /\ ~requested /\ restarts < MaxRestarts
  /\ restarts' = restarts + 1
  /\ requested' = TRUE /\ stopEvent' = TRUE
  /\ UNCHANGED <<auto, main, launcher, asked>>

-------------------------------------------------------------------------------
(* The end of main(): the event is looked at once a second, and not while  *)
(* the managers start.  stop() stops the recorded managers and closes the  *)
(* connection to NATS; the event loop then cancels every task left.  The   *)
(* stop() of a manager may wait for room in a queue for good: then main()  *)
(* hangs, and nothing it does later happens.                               *)

(* Mutant: the loop that waits looks at the collector only.                *)
NotLooked == FALSE
StopSeen == stopEvent

StopBegins ==
  /\ main = "run" /\ StopSeen
  /\ main' = "stop"
  /\ UNCHANGED <<auto, launcher, control>>

Stopped(s) == task' = [m \in Managers |-> IF m \in s THEN "none" ELSE task[m]]

ManagersStop ==
  /\ main = "stop"
  /\ main' = "close"
  /\ Stopped(recorded) /\ recorded' = {}
  /\ UNCHANGED <<auto, current, clock, began, launch, awaited, since, due, results, took, left,
                 control>>

StopHangs ==
  /\ main = "stop"
  /\ main' = "hung"
  /\ \E s \in SUBSET recorded : s # recorded /\ Stopped(s)
  /\ UNCHANGED <<auto, current, clock, began, launch, awaited, since, due, recorded, results,
                 took, left, control>>

LoopEnds ==
  /\ main = "close"
  /\ main' = IF auto /\ requested THEN "sleep" ELSE "exit"
  /\ requested' = FALSE /\ stopEvent' = FALSE
  /\ clock' = 0 /\ began' = 0 /\ current' = <<1, 1>>
  /\ launch' = [e \in Exchanges |-> "none"]
  /\ awaited' = [e \in Exchanges |-> 1] /\ since' = [e \in Exchanges |-> 0]
  /\ task' = [m \in Managers |-> "none"] /\ due' = [m \in Managers |-> 0]
  /\ took' = [m \in Managers |-> 0]
  /\ recorded' = {} /\ results' = {} /\ left' = {}
  /\ UNCHANGED <<auto, restarts, asked>>

StartOver ==
  /\ main = "sleep" /\ main' = "configure"
  /\ UNCHANGED <<auto, launcher, control>>

-------------------------------------------------------------------------------

Init ==
  /\ auto \in Autos /\ main = "configure"
  /\ clock = 0 /\ began = 0 /\ current = <<1, 1>>
  /\ launch = [e \in Exchanges |-> "none"]
  /\ awaited = [e \in Exchanges |-> 1] /\ since = [e \in Exchanges |-> 0]
  /\ task = [m \in Managers |-> "none"] /\ due = [m \in Managers |-> 0]
  /\ took = [m \in Managers |-> 0]
  /\ recorded = {} /\ results = {} /\ left = {}
  /\ stopEvent = FALSE /\ requested = FALSE /\ restarts = 0 /\ asked = FALSE

Exchange == \E e \in Exchanges : TakeResult(e) \/ ManagerTimesOut(e)
Main == \/ LaunchFirst \/ LaunchNext \/ TakeResults \/ ExchangeTimesOut
        \/ StopBegins \/ ManagersStop \/ StopHangs \/ LoopEnds \/ StartOver

Next ==
  \/ Main \/ ConfigurationFails \/ Exchange \/ (\E m \in Managers : StartEnds(m))
  \/ Tick \/ Signal \/ RestartNeeded

Spec == Init /\ [][Next]_vars

(* The event loop runs each task when it can go on, and time passes.       *)
(* Whether the stop() of a manager returns is left open.                   *)
Fairness ==
  /\ WF_vars(Main) /\ WF_vars(Exchange) /\ WF_vars(Tick)
  /\ WF_vars(main = "await" /\ \E m \in Managers : StartEnds(m))
FairSpec == Spec /\ Fairness

-------------------------------------------------------------------------------
(* Properties.                                                             *)

(* Types, and how long the managers may take to start: an exchange is      *)
(* waited for no longer than its patience, and each but the last of a      *)
(* group at most that long after the one before.                           *)
TypeOK ==
  /\ auto \in BOOLEAN /\ {stopEvent, requested, asked} \subseteq BOOLEAN
  /\ main \in {"configure", "await", "pause", "run", "stop", "hung", "close", "sleep", "exit"}
  /\ current \in Exchanges /\ clock \in began..(began + ExchangeWait)
  /\ launch \in [Exchanges -> {"none", "starting", "done", "cut"}]
  /\ \A e \in Exchanges : Awaited(e) \in ManagersOf(e) /\ since[e] \in 0..clock
  /\ task \in [Managers -> {"none", "starting", "up", "failed", "cut"}]
  /\ {results, recorded, left} \subseteq SUBSET Managers
  /\ restarts \in 0..MaxRestarts

(* While the collector runs, a manager that has started is recorded, so    *)
(* that stop() stops it, unless the start of one of the same exchange took *)
(* longer than startup_timeout and that of another before it took time     *)
(* too: the time-outs of the managers then add up to more than the         *)
(* exchange gets, and those behind are forgotten, however promptly they    *)
(* have started.  Of those that did not start, tasks that nobody stops go  *)
(* on only where the start failed or took startup_timeout or longer; one   *)
(* such manager is enough.                                                 *)
Held(e) == \E m, n \in ManagersOf(e) : m[2] < n[2] /\ took[m] > 0 /\ took[n] > ManagerWait
RunningIsRecorded ==
  main \in {"pause", "run"} =>
    \A e \in Exchanges : \A m \in ManagersOf(e) :
      /\ task[m] = "up" => m \in recorded \/ Held(e)
      /\ m \in left => task[m] = "failed" \/ took[m] >= ManagerWait

(* The collector gives up its start only if no manager is recorded, except *)
(* those of an exchange whose time ran out: they run and will be stopped,  *)
(* but do not count, because the exchange's results are never seen.        *)
GivesUpWithoutAny ==
  main = "stop" /\ ~stopEvent =>
    \A e \in Exchanges : recorded \cap ManagersOf(e) # {} => launch[e] = "cut"

(* Once a signal has set the event of main(), whatever main() is at, it    *)
(* does not go on: the process exits, hangs where the stop() of a manager  *)
(* does not return, or starts over because the monitor has asked for it.   *)
SignalEnds ==
  asked /\ stopEvent ~> main \in {"exit", "hung"} \/ (main = "sleep" /\ restarts > 0)
===============================================================================
