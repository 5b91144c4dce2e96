--------------------------- MODULE ModuleSchedule ---------------------------
(***************************************************************************)
(* When modules run and what is reported: Pandora_Windows_Service::        *)
(* pandora_run with the broker agents (pandora_run_broker), pandora_init,  *)
(* and the state each Pandora_Module keeps for it (executions, timestamp,  *)
(* intensive_match, cron, data_list).                                      *)
(*                                                                         *)
(* The service wakes every intensive_interval seconds and goes through its *)
(* modules.  A module is executed in every n-th cycle; its value is        *)
(* reported if its interval has passed or, for an intensive module, if     *)
(* the value has begun or ceased to match the conditions.  A REFRESH       *)
(* command of the UDP server makes a forced cycle; here it comes while no  *)
(* cycle is going on.                                                      *)
(***************************************************************************)
EXTENDS Integers

CONSTANTS
    Mods,               \* the modules of the configuration
    IntensiveMods,      \* those with a module_intensive_condition
    CronMods,           \* those with a module_crontab
    ModuleInterval,     \* ModuleInterval[m]: module_interval
    Intervals,          \* <<interval, intensive_interval>> of the configurations
    BrokerCounts,       \* the numbers of broker agents they may have
    CronOffset,         \* the pause after a cron match, in seconds
    Start,              \* the time of the first cycle
    MaxJitter,          \* how much later than due, in whole seconds, a cycle
                        \* may read the clock
    MaxLag,             \* the most that the clock may then be ahead of iter_base_ticks:
                        \* MaxJitter or, in a forced cycle, an intensive_interval
    MaxOverrun,         \* bound: by how much a cycle delays the next one
    MaxForced,          \* bound: REFRESH commands
    MaxReloads,         \* bound: new configurations
    ServerIp,           \* is server_ip set?
    NoData

ASSUME ModuleScheduleAssumption ==
    /\ IntensiveMods \subseteq Mods
    /\ CronMods \subseteq Mods
    /\ ModuleInterval \in [Mods -> Nat \ {0}]
    /\ Intervals \subseteq {x \in (Nat \ {0}) \X (Nat \ {0}) : x[2] <= x[1]}
    /\ BrokerCounts \subseteq Nat
    /\ CronOffset \in Nat
    /\ Start \in Nat
    /\ \A x \in Intervals, m \in Mods : ModuleInterval[m] * x[1] <= Start
    /\ MaxJitter \in Nat
    /\ MaxLag \in Nat /\ MaxJitter <= MaxLag /\ \A x \in Intervals : x[2] <= MaxLag
    /\ MaxOverrun \in Nat
    /\ MaxForced \in Nat
    /\ MaxReloads \in Nat
    /\ ServerIp \in BOOLEAN
    /\ NoData \notin {"match", "nomatch"}

VARIABLES
    interval,   \* interval_sec
    sleep,      \* intensive_interval, in seconds: the service's sleep_time
    brokers,    \* count_broker_agents ()
    base,       \* iter_base_ticks, in seconds
    run_time,   \* the service's run_time
    timestamp,  \* the service's timestamp
    mod,        \* mod[m]: the module object
    pc,         \* the position in pandora_run
    agent,      \* 0, or the broker agent that is at work
    todo,       \* the modules the iterator has not reached
    data_flag,
    forced_run,
    forced, reloads,    \* how often there was a REFRESH, a new configuration
    lastXml,    \* history: when the agent's last XML was sent
    measured,   \* history: the last value of each intensive module of the agent
    known,      \* history: the last value of it that was sent
    reported,   \* history: when a value of each plain module of the agent was
                \* last sent in an unforced cycle
    silent,     \* history: unforced cycles since a value of it was sent in which
                \* nothing kept the module from being executed
    emptied,    \* history: the intensive modules of the agent that were taken for
                \* reported with no data, since a value of theirs was sent
    shortened   \* history: since the last XML, a shorter interval that was read after
                \* the broker agents has moved the time reference

confVars  == <<interval, sleep, brokers>>
timeVars  == <<base, run_time>>
cycleVars == <<agent, todo, data_flag, forced_run>>
bounded   == <<forced, reloads>>
history   == <<lastXml, measured, known, reported, silent, emptied, shortened>>
vars == <<confVars, timeVars, timestamp, mod, pc, cycleVars, bounded, history>>

Values    == {"match", "nomatch"}
PlainMods == Mods \ IntensiveMods

Module == [executions : Nat, every : Nat \ {0}, timestamp : Nat, intensive_match : BOOLEAN,
           cron : Nat, has_output : BOOLEAN, front : Values \cup {NoData}]

TypeOK ==
    /\ <<interval, sleep>> \in Intervals
    /\ brokers \in BrokerCounts
    /\ base \in Int
    /\ run_time \in Nat
    /\ timestamp \in Nat
    /\ mod \in [Mods -> Module]
    /\ pc \in {"sleep", "run", "send", "next"}
    /\ agent \in 0 .. brokers
    /\ todo \subseteq Mods
    /\ data_flag \in BOOLEAN
    /\ forced_run \in BOOLEAN
    /\ forced \in 0 .. MaxForced
    /\ reloads \in 0 .. MaxReloads
    /\ lastXml \in Nat
    /\ measured \in [IntensiveMods -> Values \cup {NoData}]
    /\ known \in [IntensiveMods -> Values \cup {NoData}]
    /\ reported \in [PlainMods -> Nat]
    /\ silent \in [PlainMods -> Nat]
    /\ emptied \subseteq IntensiveMods
    /\ shortened \in BOOLEAN
---------------------------------------------------------------------------
\* Pandora_Module's constructor and the factory: a non-intensive module is
\* executed in every (interval / intensive_interval)-th cycle, times its factor.
\* executions counts modulo that number.
Every(m, i, s) ==
    IF m \in IntensiveMods THEN ModuleInterval[m] ELSE ModuleInterval[m] * (i \div s)

New(m, i, s) ==
    [executions |-> 0, every |-> Every(m, i, s), timestamp |-> 0,
     intensive_match |-> FALSE, cron |-> 0, has_output |-> FALSE, front |-> NoData]

\* Mutant: a module keeps its timestamp when the list is read again.
NewModules_KeepTimestamp(i, s) ==
    [m \in Mods |-> [New(m, i, s) EXCEPT !.timestamp = mod[m].timestamp]]

\* new Pandora_Module_List (conf_file)
NewModules(i, s) == [m \in Mods |-> New(m, i, s)]

Init ==
    /\ \E x \in Intervals : interval = x[1] /\ sleep = x[2]
    /\ brokers \in BrokerCounts
    /\ base = Start - sleep
    /\ run_time = 0
    /\ timestamp = 0
    /\ mod = [m \in Mods |-> New(m, interval, sleep)]
    /\ pc = "sleep"
    /\ agent = 0
    /\ todo = {}
    /\ data_flag = FALSE
    /\ forced_run = FALSE
    /\ forced = 0
    /\ reloads = 0
    /\ lastXml = 0
    /\ measured = [m \in IntensiveMods |-> NoData]
    /\ known = [m \in IntensiveMods |-> NoData]
    /\ reported = [m \in PlainMods |-> 0]
    /\ silent = [m \in PlainMods |-> 0]
    /\ emptied = {}
    /\ shortened = FALSE

\* pandora_init, with the modules anew: the configuration i, s, n is in the file.
ReadConf(i, s, n) ==
    /\ interval' = i
    /\ sleep' = s
    /\ brokers' = n
    /\ mod' = NewModules(i, s)
    /\ silent' = [m \in PlainMods |-> 0]

\* The same with a configuration that has changed.
ReadNewConf ==
    /\ reloads < MaxReloads
    /\ reloads' = reloads + 1
    /\ \E x \in Intervals, n \in BrokerCounts : ReadConf(x[1], x[2], n)

\* checkConfig and, if it returns 1, pandora_init; goFirst.
BeginRun(f) ==
    /\ pc = "sleep"
    /\ \/ UNCHANGED <<confVars, mod, silent, reloads>>
       \/ ReadNewConf
    /\ pc' = "run"
    /\ todo' = Mods
    /\ data_flag' = FALSE
    /\ forced_run' = f
    /\ UNCHANGED <<agent, lastXml, measured, known, reported, emptied, shortened>>

\* execRunFunction: the next cycle is due one sleep_time after this one was,
\* later if this one took longer.
Wake ==
    /\ \E o \in 0 .. MaxOverrun, j \in 0 .. MaxJitter :
         /\ base' = base + sleep + o
         /\ run_time' = base' + j
    /\ run_time' >= run_time
    /\ BeginRun(FALSE)
    /\ UNCHANGED <<timestamp, forced>>

\* pandora_run (1)
Refresh ==
    /\ run_time # 0
    /\ forced < MaxForced
    /\ forced' = forced + 1
    /\ run_time' \in run_time .. base + sleep
    /\ BeginRun(TRUE)
    /\ UNCHANGED <<base, timestamp>>

\* History: a cycle without a value of m, and one in which m could have none.
Silence(m) ==
    IF agent = 0 /\ ~forced_run /\ m \in PlainMods
      THEN [silent EXCEPT ![m] = @ + 1] ELSE silent

Excused(m) ==
    IF agent = 0 /\ m \in PlainMods THEN [silent EXCEPT ![m] = 0] ELSE silent

\* setNoOutput
NoOutput(r) == [r EXCEPT !.has_output = FALSE, !.front = NoData]

\* The module is not executed: its preconditions are not met, or checkCron
\* returns 0 (before the pause is over, or the calendar does not match).
Skip(m) ==
    /\ pc = "run"
    /\ m \in todo
    /\ todo' = todo \ {m}
    /\ mod' = [mod EXCEPT ![m] = NoOutput(@)]
    /\ silent' = Excused(m)
    /\ UNCHANGED <<confVars, timeVars, timestamp, pc, agent, data_flag, forced_run,
                   bounded, lastXml, measured, known, reported, emptied, shortened>>

\* checkCron returns 1.
CronMatches(m) == m \in CronMods => mod[m].cron < run_time

\* Pandora_Module::run: the module is executed in every n-th cycle.
Fulfilled(m) == mod[m].executions = 0

\* The module object after checkCron and Pandora_Module::run.
Counted(m) ==
    [mod[m] EXCEPT !.executions = (@ + 1) % mod[m].every,
                   !.cron = IF m \in CronMods THEN run_time + CronOffset ELSE @]

\* Interval_Not_Fulfilled
NotFulfilled(m) ==
    /\ pc = "run"
    /\ m \in todo
    /\ CronMatches(m)
    /\ ~Fulfilled(m)
    /\ todo' = todo \ {m}
    /\ mod' = [mod EXCEPT ![m] = NoOutput(Counted(m))]
    /\ silent' = Silence(m)
    /\ UNCHANGED <<confVars, timeVars, timestamp, pc, agent, data_flag, forced_run,
                   bounded, lastXml, measured, known, reported, emptied, shortened>>

\* The module is executed and fails: it has no output.
Fails(m) ==
    /\ pc = "run"
    /\ m \in todo
    /\ CronMatches(m)
    /\ Fulfilled(m)
    /\ todo' = todo \ {m}
    /\ mod' = [mod EXCEPT ![m] = NoOutput(Counted(m))]
    /\ silent' = Excused(m)
    /\ UNCHANGED <<confVars, timeVars, timestamp, pc, agent, data_flag, forced_run,
                   bounded, lastXml, measured, known, reported, emptied, shortened>>

\* Pandora_Module::run sets has_output; setOutput puts the value v at the end of the
\* list.  NoData: the module ends without setOutput, so the list stays as it is.
Output(r, v) ==
    [r EXCEPT !.has_output = TRUE, !.front = IF @ = NoData THEN v ELSE @]

\* evaluateIntensiveConditions, on the front of the list.  It returns 0 for an empty one.
evaluateIntensiveConditions(m, r) == m \notin IntensiveMods \/ r.front = "match"

\* module->getInterval () * interval_sec
Span(m) == ModuleInterval[m] * interval

\* Mutant: the interval has to be exceeded.
Due_Exceeded(m) == mod[m].timestamp + Span(m) < run_time

\* The interval of the module has passed since its timestamp.
Due(m) == mod[m].timestamp + Span(m) <= run_time

\* Only the conditions of an intensive module tell values apart.  A module may end with
\* has_output and no value: a file or an event log without a new match, an address
\* that does not answer.
Results(m) == {NoData} \cup IF m \in IntensiveMods THEN Values ELSE {"match"}

\* The module is executed and has output, with a value or without one.
Execute(m, v) ==
    /\ pc = "run"
    /\ m \in todo
    /\ CronMatches(m)
    /\ Fulfilled(m)
    /\ todo' = todo \ {m}
    /\ LET r     == Output(Counted(m), v)
           match == evaluateIntensiveConditions(m, r)
           keep  == \/ forced_run /\ agent = 0
                    \/ match # r.intensive_match
                    \/ Due(m)
       IN  /\ mod' = [mod EXCEPT ![m] =
                        IF keep
                          THEN [r EXCEPT !.intensive_match = match,
                                         !.timestamp = IF Due(m) THEN run_time ELSE @]
                          ELSE NoOutput(r)]
           /\ data_flag' = (data_flag \/ keep)
           /\ silent' = IF v = NoData THEN Excused(m)
                        ELSE IF keep THEN silent ELSE Silence(m)
           /\ emptied' = IF agent = 0 /\ m \in IntensiveMods /\ keep /\ r.front = NoData
                           THEN emptied \cup {m} ELSE emptied
    /\ measured' = IF agent = 0 /\ m \in IntensiveMods /\ v # NoData
                     THEN [measured EXCEPT ![m] = v] ELSE measured
    /\ UNCHANGED <<confVars, timeVars, timestamp, pc, agent, forced_run, bounded, lastXml,
                   known, reported, shortened>>

\* isLast
Last ==
    /\ pc = "run"
    /\ todo = {}
    /\ pc' = "send"
    /\ UNCHANGED <<confVars, timeVars, timestamp, mod, cycleVars, bounded, history>>

\* timestamp + interval_sec <= run_time
Expired == timestamp + interval <= run_time

\* Mutant: an XML is only sent with data.
MustSend_DataOnly == forced_run \/ data_flag

\* A broker agent's cycle is never forced.
MustSend == (forced_run /\ agent = 0) \/ data_flag \/ Expired

\* "No data"
HasXml(r) == r.has_output /\ r.front # NoData

\* The data of the module is written and cleared.
getXml(r) == [r EXCEPT !.front = NoData]

\* sendXml with getXml of each module.
Send ==
    /\ pc = "send"
    /\ pc' = "next"
    /\ LET sent == IF MustSend /\ ServerIp
                     THEN {m \in Mods : HasXml(mod[m])}
                     ELSE {}
       IN  /\ mod' = [m \in Mods |->
                        IF m \in sent THEN getXml(mod[m]) ELSE mod[m]]
           /\ IF agent = 0
                THEN /\ lastXml' = IF MustSend /\ ServerIp THEN run_time ELSE lastXml
                     /\ known' = [m \in IntensiveMods |->
                                    IF m \in sent THEN mod[m].front ELSE known[m]]
                     /\ reported' = [m \in PlainMods |->
                                       IF m \in sent /\ ~forced_run THEN run_time
                                       ELSE reported[m]]
                     /\ silent' = [m \in PlainMods |-> IF m \in sent THEN 0 ELSE silent[m]]
                   /\ emptied' = emptied \ sent
                   /\ shortened' = (shortened /\ ~(MustSend /\ ServerIp))
                ELSE UNCHANGED <<lastXml, known, reported, silent, emptied, shortened>>
    /\ UNCHANGED <<confVars, timeVars, timestamp, cycleVars, bounded, measured>>

\* pandora_init_broker: the broker agent's modules, which are taken to be like the
\* agent's, replace those in the list.
InitBroker ==
    /\ mod' = NewModules(interval, sleep)
    /\ todo' = Mods

\* pandora_run_broker
NextBroker ==
    /\ pc = "next"
    /\ agent < brokers
    /\ agent' = agent + 1
    /\ InitBroker
    /\ data_flag' = FALSE
    /\ pc' = "run"
    /\ UNCHANGED <<confVars, timeVars, timestamp, forced_run, bounded, history>>

\* After broker agents the agent's configuration is read again.  The file may have
\* been edited since the cycle began: no digest is compared here.
Restore ==
    IF brokers = 0
      THEN UNCHANGED <<confVars, mod, silent, reloads>>
      ELSE \/ ReadConf(interval, sleep, brokers) /\ UNCHANGED reloads
           \/ ReadNewConf

\* "Reload the original configuration", "Reset time reference if necessary": by the
\* interval that the configuration has now.
Finish ==
    /\ pc = "next"
    /\ agent = brokers
    /\ agent' = 0
    /\ Restore
    /\ LET expired == timestamp + interval' <= run_time
       IN  /\ timestamp' = IF expired THEN run_time ELSE timestamp
           /\ shortened' =
                \/ shortened
                \/ expired /\ interval' < interval /\ lastXml # run_time
    /\ pc' = "sleep"
    /\ data_flag' = FALSE
    /\ forced_run' = FALSE
    /\ UNCHANGED <<timeVars, todo, forced, lastXml, measured, known, reported, emptied>>

RunModule(m) ==
    \/ Skip(m) \/ NotFulfilled(m) \/ Fails(m)
    \/ \E v \in Results(m) : Execute(m, v)

Next ==
    \/ Wake \/ Refresh
    \/ \E m \in Mods : RunModule(m)
    \/ Last \/ Send \/ NextBroker \/ Finish

Spec == Init /\ [][Next]_vars
---------------------------------------------------------------------------
(* Properties.                                                              *)

\* Between cycles the last value sent of an intensive module is the last value
\* it had, as far as its conditions tell values apart: pandora_run drops only
\* values whose match status the server knows, also after a reload, a forced
\* cycle or a broker agent's cycle has replaced or changed the module's state.
\* The exception is an execution with output and no data, which pandora_run takes
\* for one that does not match: what it resets or stamps, the server never learns.
StatusKnown ==
    pc = "sleep" /\ ServerIp =>
        \A m \in IntensiveMods \ emptied : known[m] = measured[m]

\* pandora_run sends an XML, with or without data, at least once in every
\* interval, whatever cycles are forced or late and whatever interval a reload
\* brings.  The exception is a shorter interval that pandora_init reads after the
\* broker agents: the time reference is then moved as if an XML had been sent.
Heartbeat ==
    pc = "sleep" /\ ServerIp /\ ~shortened => run_time < lastXml + interval

\* A non-intensive module that nothing keeps from being executed is reported at
\* least once in about two of its intervals: forced cycles move the cycle it is
\* executed in, and clocks read late make pandora_run drop a value, but not for
\* longer than its interval and the lag of the clock, which is longest if a forced
\* cycle reads a configuration with a much shorter intensive_interval.
NeverStarved ==
    ServerIp => \A m \in PlainMods :
        silent[m] < mod[m].every + (Span(m) + MaxLag - 1) \div sleep

\* "So this module will be calculated each 300sec x 3": pandora_run sends the
\* values of a non-intensive module not more often than once in its interval.
IntervalHonoured ==
    [][\A m \in PlainMods :
          reported'[m] # reported[m] /\ reported[m] # 0 =>
              reported'[m] >= reported[m] + Span(m)]_vars
=============================================================================
