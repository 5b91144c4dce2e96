--------------------------- MODULE ModulesProofs ---------------------------
(***************************************************************************)
(* Proofs about the modules of the agent.                                  *)
(*                                                                         *)
(* ModuleSchedule, for every set of modules, every interval, any number of *)
(* broker agents, forced cycles and reloads, and whatever the clock adds.  *)
(*                                                                         *)
(* TailModules, for sources of any length, emptied any number of times,    *)
(* with any number of failures and of new module objects.                  *)
(*                                                                         *)
(* CommandRun, for any amount of output, pipe, buffer and timeout.         *)
(***************************************************************************)
EXTENDS ModuleSchedule, TailModules, CommandRun, TLAPS

----------------------------------------------------------------------------
(* ModuleSchedule                                                          *)


\* A product of positive numbers, and a quotient not below 1, are positive.
LEMMA Positive ==
  ASSUME NEW a \in Nat \ {0}, NEW b \in Nat \ {0}
  PROVE  /\ a * b \in Nat \ {0}
         /\ b <= a => a \div b \in Nat \ {0}
<1>1. a * b \in Nat \ {0}
  OBVIOUS
<1>2. ASSUME b <= a PROVE a \div b \in Nat \ {0}
  BY <1>2
<1> QED
  BY <1>1, <1>2

\* The number of cycles from one execution of a module to the next is never 0:
\* Pandora_Module::run does not divide by it in vain.
LEMMA EveryPositive ==
  ASSUME NEW m \in Mods, NEW x \in Intervals
  PROVE  New(m, x[1], x[2]) \in Module
<1>1. /\ x[1] \in Nat \ {0} /\ x[2] \in Nat \ {0} /\ x[2] <= x[1]
      /\ ModuleInterval[m] \in Nat \ {0}
  BY ModuleScheduleAssumption
<1>2. x[1] \div x[2] \in Nat \ {0}
  BY <1>1, Positive
<1>3. Every(m, x[1], x[2]) \in Nat \ {0}
  BY <1>1, <1>2, Positive DEF Every
<1> QED
  BY <1>3 DEF New, Module

\* The lists read from a configuration consist of modules.
LEMMA NewModulesType ==
  ASSUME NEW i, NEW s, <<i, s>> \in Intervals
  PROVE  NewModules(i, s) \in [Mods -> Module]
<1>1. ASSUME NEW m \in Mods PROVE New(m, i, s) \in Module
  BY EveryPositive, <<i, s>>[1] = i, <<i, s>>[2] = s
<1> QED
  BY <1>1 DEF NewModules

\* What setNoOutput, checkCron with Pandora_Module::run, and setOutput make of a
\* module object.
LEMMA ModuleSteps ==
  ASSUME NEW r \in Module
  PROVE  /\ NoOutput(r) \in Module
         /\ NoOutput(r).front = NoData
         /\ NoOutput(r).timestamp = r.timestamp
         /\ NoOutput(r).intensive_match = r.intensive_match
         /\ NoOutput(r).executions = r.executions
         /\ NoOutput(r).every = r.every
         /\ \A v \in Values \cup {NoData} :
              /\ Output(r, v) \in Module
              /\ Output(r, v).has_output
              /\ Output(r, v).front = IF r.front = NoData THEN v ELSE r.front
              /\ Output(r, v).timestamp = r.timestamp
              /\ Output(r, v).intensive_match = r.intensive_match
              /\ Output(r, v).executions = r.executions
              /\ Output(r, v).every = r.every
BY DEF NoOutput, Output, Module

LEMMA CountedType ==
  ASSUME TypeOK, NEW m \in Mods
  PROVE  /\ Counted(m) \in Module
         /\ Counted(m).front = mod[m].front
         /\ Counted(m).timestamp = mod[m].timestamp
         /\ Counted(m).intensive_match = mod[m].intensive_match
         /\ Counted(m).executions = (mod[m].executions + 1) % mod[m].every
         /\ Counted(m).every = mod[m].every
<1>1. /\ mod[m] \in Module /\ run_time + CronOffset \in Nat
      /\ mod[m].executions \in Nat /\ mod[m].every \in Nat \ {0}
      /\ mod[m].cron \in Nat
  BY ModuleScheduleAssumption DEF TypeOK, Module
<1>2. (mod[m].executions + 1) % mod[m].every \in Nat
  BY <1>1
<1> QED
  BY <1>1, <1>2 DEF Counted, Module

\* The value at the front of the list after Execute(m, v), whether it matches,
\* and whether it is kept.
Front(m, v) == IF mod[m].front = NoData THEN v ELSE mod[m].front
Match(m, v) == m \notin IntensiveMods \/ Front(m, v) = "match"
Keep(m, v)  == \/ forced_run /\ agent = 0
               \/ Match(m, v) # mod[m].intensive_match
               \/ Due(m)

\* What Execute does: the module becomes r, and nothing else of mod changes.
Effect(m, v, r) ==
    /\ mod' = [mod EXCEPT ![m] = r]
    /\ data_flag' = (data_flag \/ Keep(m, v))
    /\ silent' = IF v = NoData THEN Excused(m)
                 ELSE IF Keep(m, v) THEN silent ELSE Silence(m)
    /\ emptied' = IF agent = 0 /\ m \in IntensiveMods /\ Keep(m, v) /\ Front(m, v) = NoData
                    THEN emptied \cup {m} ELSE emptied
    /\ r.executions = (mod[m].executions + 1) % mod[m].every
    /\ r.every = mod[m].every
    /\ Keep(m, v) => /\ r.has_output
                     /\ r.front = Front(m, v)
                     /\ r.intensive_match = Match(m, v)
                     /\ r.timestamp = IF Due(m) THEN run_time ELSE mod[m].timestamp
    /\ ~Keep(m, v) => /\ r.front = NoData
                      /\ r.timestamp = mod[m].timestamp
                      /\ r.intensive_match = mod[m].intensive_match

LEMMA ExecuteEffect ==
  ASSUME TypeOK, NEW m \in Mods, NEW v \in Values \cup {NoData}, Execute(m, v)
  PROVE  \E r \in Module : Effect(m, v, r)
<1> DEFINE r0 == Output(Counted(m), v)
           match == evaluateIntensiveConditions(m, r0)
           keep == \/ forced_run /\ agent = 0
                   \/ match # r0.intensive_match
                   \/ Due(m)
           r1 == IF keep
                   THEN [r0 EXCEPT !.intensive_match = match,
                                   !.timestamp = IF Due(m) THEN run_time ELSE @]
                   ELSE NoOutput(r0)
<1>1. /\ mod' = [mod EXCEPT ![m] = r1]
      /\ data_flag' = (data_flag \/ keep)
      /\ silent' = IF v = NoData THEN Excused(m) ELSE IF keep THEN silent ELSE Silence(m)
      /\ emptied' = IF agent = 0 /\ m \in IntensiveMods /\ keep /\ r0.front = NoData
                      THEN emptied \cup {m} ELSE emptied
  BY Zenon DEF Execute
<1>2. Counted(m) \in Module
  BY CountedType
<1>3. /\ r0 \in Module /\ r0.has_output
      /\ r0.front = Front(m, v)
      /\ r0.timestamp = mod[m].timestamp
      /\ r0.intensive_match = mod[m].intensive_match
      /\ r0.executions = (mod[m].executions + 1) % mod[m].every
      /\ r0.every = mod[m].every
  BY <1>2, CountedType, ModuleSteps DEF Front
<1>4. match = Match(m, v) /\ match \in BOOLEAN
  BY <1>3, Zenon DEF evaluateIntensiveConditions, Match
<1>5. keep = Keep(m, v)
  BY <1>3, <1>4, Zenon DEF Keep
<1>6. run_time \in Nat
  BY DEF TypeOK
<1>7. CASE keep
  <2>1. r1 = [r0 EXCEPT !.intensive_match = match,
                        !.timestamp = IF Due(m) THEN run_time ELSE @]
    BY <1>7, Zenon
  <2> HIDE DEF r0, match, keep
  <2>2. /\ r1 \in Module
        /\ r1.has_output /\ r1.front = r0.front /\ r1.intensive_match = match
        /\ r1.timestamp = IF Due(m) THEN run_time ELSE r0.timestamp
        /\ r1.executions = r0.executions /\ r1.every = r0.every
    BY <2>1, <1>3, <1>4, <1>6 DEF Module
  <2> HIDE DEF r1
  <2> QED
    BY <1>1, <1>3, <1>4, <1>5, <1>7, <2>2, Zenon DEF Effect
<1>8. CASE ~keep
  <2>1. r1 = NoOutput(r0)
    BY <1>8, Zenon
  <2> HIDE DEF r0, match, keep, r1
  <2>2. /\ NoOutput(r0) \in Module
        /\ NoOutput(r0).front = NoData
        /\ NoOutput(r0).timestamp = r0.timestamp
        /\ NoOutput(r0).intensive_match = r0.intensive_match
        /\ NoOutput(r0).executions = r0.executions
        /\ NoOutput(r0).every = r0.every
    BY <1>3, ModuleSteps
  <2> QED
    BY <1>1, <1>3, <1>5, <1>8, <2>1, <2>2, Zenon DEF Effect
<1> QED
  BY <1>7, <1>8

LEMMA PairOf ==
  ASSUME NEW x \in Intervals
  PROVE  /\ <<x[1], x[2]>> \in Intervals
         /\ x[1] \in Nat \ {0} /\ x[2] \in Nat \ {0}
BY ModuleScheduleAssumption

\* The types alone are not inductive: a reload changes the number of broker
\* agents, which is sound because none is at work then.
TypeInv == TypeOK /\ (pc = "sleep" => agent = 0)

\* The initial state has the types.
LEMMA TypeInit == Init => TypeInv
<1> SUFFICES ASSUME Init PROVE TypeInv
  OBVIOUS
<1>1. <<interval, sleep>> \in Intervals /\ sleep \in Nat
  BY PairOf DEF Init
<1>2. mod \in [Mods -> Module]
  BY <1>1, NewModulesType DEF Init, NewModules
<1>3. 0 \in 0 .. brokers
  BY ModuleScheduleAssumption DEF Init
<1> QED
  <2>1. base \in Int
    BY <1>1, ModuleScheduleAssumption DEF Init
  <2>2. /\ 0 \in 0 .. MaxForced /\ 0 \in 0 .. MaxReloads
        /\ 0 \in Nat
    BY ModuleScheduleAssumption
  <2>3. /\ measured \in [IntensiveMods -> Values \cup {NoData}]
        /\ known \in [IntensiveMods -> Values \cup {NoData}]
        /\ reported \in [PlainMods -> Nat]
        /\ silent \in [PlainMods -> Nat]
    BY DEF Init
  <2> QED
    BY <1>1, <1>2, <1>3, <2>1, <2>2, <2>3 DEF Init, TypeInv, TypeOK

\* What reading a configuration that has changed sets.
LEMMA ReadEffect ==
  ASSUME TypeOK, ReadNewConf
  PROVE  /\ <<interval', sleep'>> \in Intervals
         /\ brokers' \in BrokerCounts
         /\ 0 \in 0 .. brokers'
         /\ mod' = NewModules(interval', sleep')
         /\ mod' \in [Mods -> Module]
         /\ reloads' \in 0 .. MaxReloads
         /\ silent' = [m \in PlainMods |-> 0]
<1>1. PICK x \in Intervals, k \in BrokerCounts : ReadConf(x[1], x[2], k)
  BY DEF ReadNewConf
<1>2. /\ interval' = x[1] /\ sleep' = x[2] /\ brokers' = k
      /\ mod' = NewModules(x[1], x[2])
      /\ silent' = [m \in PlainMods |-> 0]
  BY <1>1 DEF ReadConf
<1>3. <<interval', sleep'>> \in Intervals
  BY <1>2, PairOf
<1>4. mod' = NewModules(interval', sleep')
  BY <1>2
<1>5. mod' \in [Mods -> Module]
  BY <1>3, <1>4, NewModulesType
<1>6. 0 \in 0 .. brokers'
  BY <1>2, ModuleScheduleAssumption
<1>7. reloads' \in 0 .. MaxReloads
  BY ModuleScheduleAssumption DEF ReadNewConf, TypeOK
<1> QED
  BY <1>2, <1>3, <1>4, <1>5, <1>6, <1>7

\* After the broker agents nothing is read, or everything anew.
LEMMA RestoreEffect ==
  ASSUME TypeOK, Restore
  PROVE  /\ <<interval', sleep'>> \in Intervals
         /\ brokers' \in BrokerCounts
         /\ 0 \in 0 .. brokers'
         /\ mod' \in [Mods -> Module]
         /\ reloads' \in 0 .. MaxReloads
         /\ silent' \in [PlainMods -> Nat]
         /\ brokers = 0 => UNCHANGED <<interval, sleep, mod, silent>>
         /\ brokers # 0 => /\ mod' = NewModules(interval', sleep')
                           /\ silent' = [m \in PlainMods |-> 0]
<1>1. CASE brokers = 0
  BY <1>1 DEF Restore, confVars, TypeOK
<1>2. CASE brokers # 0 /\ ReadConf(interval, sleep, brokers) /\ UNCHANGED reloads
  <2>1. /\ UNCHANGED <<interval, sleep, brokers>>
        /\ mod' = NewModules(interval, sleep)
        /\ silent' = [m \in PlainMods |-> 0]
    BY <1>2 DEF ReadConf
  <2>2. mod' \in [Mods -> Module]
    BY <2>1, NewModulesType DEF TypeOK
  <2>3. 0 \in 0 .. brokers
    BY ModuleScheduleAssumption DEF TypeOK
  <2> QED
    BY <1>2, <2>1, <2>2, <2>3 DEF TypeOK
<1>3. CASE brokers # 0 /\ ReadNewConf
  BY <1>3, ReadEffect
<1> QED
  BY <1>1, <1>2, <1>3 DEF Restore

\* Reading a new configuration keeps the types.
LEMMA BeginRunType ==
  ASSUME TypeInv, NEW f \in BOOLEAN, BeginRun(f)
  PROVE  /\ <<interval', sleep'>> \in Intervals
         /\ brokers' \in BrokerCounts
         /\ mod' \in [Mods -> Module]
         /\ agent' \in 0 .. brokers'
         /\ reloads' \in 0 .. MaxReloads
         /\ silent' \in [PlainMods -> Nat]
<1>0. agent = 0 /\ agent' = 0
  BY DEF BeginRun, TypeInv
<1>1. CASE UNCHANGED <<confVars, mod, silent, reloads>>
  BY <1>1 DEF BeginRun, confVars, TypeInv, TypeOK
<1>2. CASE ReadNewConf
  BY <1>0, <1>2, ReadEffect DEF TypeInv
<1> QED
  BY <1>1, <1>2 DEF BeginRun

\* Every step keeps the types.
LEMMA TypeStep ==
  ASSUME TypeInv, [Next]_vars
  PROVE  TypeInv'
<1> USE DEF TypeInv
<1>1. CASE Wake
  <2>1. BeginRun(FALSE) /\ UNCHANGED <<timestamp, forced>>
    BY <1>1 DEF Wake
  <2>2. base' \in Int /\ run_time' \in Nat
    <3>1. PICK o \in 0 .. MaxOverrun, j \in 0 .. MaxJitter :
            base' = base + sleep + o /\ run_time' = base' + j
      BY <1>1 DEF Wake
    <3>2. sleep \in Nat
      BY ModuleScheduleAssumption DEF TypeOK
    <3>3. o \in Int /\ j \in Int /\ base \in Int /\ run_time \in Nat
      BY <3>1, ModuleScheduleAssumption DEF TypeOK
    <3>4. run_time' >= run_time
      BY <1>1 DEF Wake
    <3> QED
      BY <3>1, <3>2, <3>3, <3>4
  <2> QED
    BY <2>1, <2>2, BeginRunType DEF BeginRun, TypeOK
<1>2. CASE Refresh
  <2>1. BeginRun(TRUE) /\ UNCHANGED <<base, timestamp>>
    BY <1>2 DEF Refresh
  <2>2. run_time' \in Nat /\ forced' \in 0 .. MaxForced
    <3>1. sleep \in Nat
      BY ModuleScheduleAssumption DEF TypeOK
    <3> QED
      BY <1>2, <3>1, ModuleScheduleAssumption DEF Refresh, TypeOK
  <2> QED
    BY <2>1, <2>2, BeginRunType DEF BeginRun, TypeOK
<1>3. ASSUME NEW m \in Mods, RunModule(m) PROVE TypeInv'
  <2>1. ASSUME Skip(m) \/ NotFulfilled(m) \/ Fails(m) PROVE TypeInv'
    <3>1. PICK r \in Module : mod' = [mod EXCEPT ![m] = r]
      <4>1. mod[m] \in Module /\ Counted(m) \in Module
        BY CountedType DEF TypeOK
      <4>2. NoOutput(mod[m]) \in Module /\ NoOutput(Counted(m)) \in Module
        BY <4>1, ModuleSteps
      <4> QED
        BY <2>1, <4>2 DEF Skip, NotFulfilled, Fails
    <3>2. mod' \in [Mods -> Module]
      BY <3>1 DEF TypeOK
    <3>3. silent' \in [PlainMods -> Nat]
      BY <2>1 DEF Skip, NotFulfilled, Fails, Silence, Excused, TypeOK
    <3> QED
      BY <2>1, <3>2, <3>3
         DEF Skip, NotFulfilled, Fails, TypeOK, confVars, timeVars, bounded
  <2>2. ASSUME NEW v \in Results(m), Execute(m, v) PROVE TypeInv'
    <3>0. v \in Values \cup {NoData}
      BY <2>2 DEF Results, Values
    <3>1. PICK r \in Module : mod' = [mod EXCEPT ![m] = r]
      BY <2>2, <3>0, ExecuteEffect DEF Effect
    <3>2. mod' \in [Mods -> Module]
      BY <3>1 DEF TypeOK
    <3>3. silent' \in {silent, Silence(m), Excused(m)} /\ data_flag' \in BOOLEAN
      BY <2>2 DEF Execute
    <3>4. silent' \in [PlainMods -> Nat]
      BY <3>3 DEF Silence, Excused, TypeOK
    <3>5. measured' \in [IntensiveMods -> Values \cup {NoData}]
      BY <2>2, <3>0 DEF Execute, TypeOK
    <3>6. emptied' \subseteq IntensiveMods /\ shortened' \in BOOLEAN
      BY <2>2 DEF Execute, TypeOK
    <3> QED
      BY <2>2, <3>2, <3>3, <3>4, <3>5, <3>6
         DEF Execute, TypeOK, confVars, timeVars, bounded
  <2> QED
    BY <1>3, <2>1, <2>2 DEF RunModule
<1>4. CASE Last
  BY <1>4 DEF Last, TypeOK, confVars, timeVars, cycleVars, bounded, history
<1>5. CASE Send
  <2> DEFINE sent == IF MustSend /\ ServerIp
                       THEN {m \in Mods : mod[m].has_output /\ mod[m].front # NoData}
                       ELSE {}
  <2>1. mod' = [m \in Mods |->
                  IF m \in sent THEN [mod[m] EXCEPT !.front = NoData] ELSE mod[m]]
    BY <1>5 DEF Send, HasXml, getXml
  <2> HIDE DEF sent
  <2>2. mod' \in [Mods -> Module]
    BY <2>1 DEF TypeOK, Module
  <2>3. /\ lastXml' \in Nat
        /\ known' \in [IntensiveMods -> Values \cup {NoData}]
        /\ reported' \in [PlainMods -> Nat]
        /\ silent' \in [PlainMods -> Nat]
        /\ emptied' \subseteq IntensiveMods
        /\ shortened' \in BOOLEAN
    <3>1. CASE agent = 0
      <4>1. \A m \in Mods : mod[m].front \in Values \cup {NoData}
        BY DEF TypeOK, Module
      <4>2. /\ lastXml' \in {run_time, lastXml}
            /\ known' = [m \in IntensiveMods |->
                           IF m \in sent THEN mod[m].front ELSE known[m]]
            /\ reported' = [m \in PlainMods |->
                              IF m \in sent /\ ~forced_run THEN run_time ELSE reported[m]]
            /\ silent' = [m \in PlainMods |-> IF m \in sent THEN 0 ELSE silent[m]]
            /\ emptied' = emptied \ sent
            /\ shortened' \in BOOLEAN
        BY <1>5, <3>1 DEF Send, HasXml, getXml, sent
      <4> QED
        BY <4>1, <4>2, ModuleScheduleAssumption DEF TypeOK
    <3>2. CASE agent # 0
      BY <1>5, <3>2 DEF Send, HasXml, getXml, TypeOK
    <3> QED
      BY <3>1, <3>2
  <2> QED
    BY <1>5, <2>2, <2>3 DEF Send, HasXml, getXml, TypeOK, confVars, timeVars, cycleVars, bounded
<1>6. CASE NextBroker
  <2>1. mod' \in [Mods -> Module]
    BY <1>6, NewModulesType DEF NextBroker, InitBroker, TypeOK
  <2>2. agent' \in 0 .. brokers
    BY <1>6, ModuleScheduleAssumption DEF NextBroker, InitBroker, TypeOK
  <2> QED
    BY <1>6, <2>1, <2>2 DEF NextBroker, InitBroker, TypeOK, confVars, timeVars, bounded, history
<1>7. CASE Finish
  <2>1. Restore
    BY <1>7 DEF Finish
  <2>2. timestamp' \in Nat
    BY <1>7 DEF Finish, TypeOK
  <2>3. shortened' \in BOOLEAN
    BY <1>7, Zenon DEF Finish
  <2> QED
    BY <1>7, <2>1, <2>2, <2>3, RestoreEffect DEF Finish, TypeOK, timeVars
<1>8. CASE UNCHANGED vars
  BY <1>8 DEF vars, TypeOK, confVars, timeVars, cycleVars, bounded, history
<1> QED
  BY <1>1, <1>2, <1>3, <1>4, <1>5, <1>6, <1>7, <1>8 DEF Next

\* The variables of pandora_run keep their types, and no module object is ever
\* left with a cycle count of 0 to divide by.
THEOREM ScheduleTypeCorrect == Spec => []TypeOK
<1>1. TypeInv /\ [Next]_vars => TypeInv'
  BY TypeStep
<1>2. TypeInv => TypeOK
  BY DEF TypeInv
<1> QED
  BY TypeInit, <1>1, <1>2, PTL DEF Spec

\* What has run out with the longer interval has with the shorter one.
LEMMA Sooner ==
  ASSUME NEW a \in Nat, NEW b \in Nat, NEW t \in Nat, NEW r \in Nat, a <= b, t + b <= r
  PROVE  t + a <= r
OBVIOUS

\* The time reference has not run out when it has just been judged.
LEMMA ResetInTime ==
  ASSUME NEW i \in Nat \ {0}, NEW t \in Nat, NEW r \in Nat
  PROVE  ~((IF t + i <= r THEN r ELSE t) + i <= r)
<1>1. CASE t + i <= r
  <2>1. ~(r + i <= r)
    OBVIOUS
  <2> QED
    BY <1>1, <2>1, Zenon
<1>2. CASE ~(t + i <= r)
  BY <1>2, Zenon
<1> QED
  BY <1>1, <1>2

\* Heartbeat is not inductive: it needs to know that an XML goes out in the cycle
\* in which the time reference expires, before the reference is reset.
HeartInv ==
    ServerIp =>
        /\ ~shortened => timestamp <= lastXml
        /\ timestamp <= run_time
        /\ lastXml <= run_time
        /\ pc = "sleep" => ~Expired
        /\ pc = "next" \/ agent # 0 => (Expired => lastXml = run_time)

LEMMA HeartStep ==
  ASSUME TypeInv, HeartInv, [Next]_vars
  PROVE  HeartInv'
<1> SUFFICES ASSUME ServerIp PROVE HeartInv'
  BY DEF HeartInv
<1>0. /\ interval \in Nat \ {0} /\ sleep \in Nat \ {0}
      /\ run_time \in Nat /\ timestamp \in Nat /\ lastXml \in Nat /\ agent \in Int
      /\ brokers \in Nat
  BY ModuleScheduleAssumption DEF TypeInv, TypeOK
<1>1. CASE Wake
  <2>1. run_time' >= run_time /\ run_time' \in Nat
    BY <1>1, TypeStep DEF Wake, TypeInv, TypeOK
  <2> QED
    BY <1>0, <1>1, <2>1 DEF Wake, BeginRun, HeartInv, TypeInv
<1>2. CASE Refresh
  <2>1. run_time' >= run_time /\ run_time' \in Nat
    BY <1>0, <1>2, TypeStep DEF Refresh, TypeInv, TypeOK
  <2> QED
    BY <1>0, <1>2, <2>1 DEF Refresh, BeginRun, HeartInv, TypeInv
<1>3. ASSUME NEW m \in Mods, RunModule(m) PROVE HeartInv'
  <2>1. /\ pc = "run" /\ pc' = pc /\ agent' = agent
        /\ UNCHANGED <<timestamp, lastXml, run_time, interval, shortened>>
    BY <1>3 DEF RunModule, Skip, NotFulfilled, Fails, Execute, timeVars, confVars
  <2> QED
    BY <2>1 DEF HeartInv, Expired
<1>4. CASE Last
  BY <1>4 DEF Last, HeartInv, Expired, timeVars, confVars, cycleVars, history
<1>5. CASE Send
  <2>1. CASE agent = 0
    <3>1. /\ pc = "send" /\ pc' = "next" /\ agent' = 0
          /\ UNCHANGED <<timestamp, run_time, interval>>
          /\ lastXml' = IF MustSend THEN run_time ELSE lastXml
      BY <1>5, <2>1 DEF Send, timeVars, confVars, cycleVars
    <3>2. ~shortened' => ~shortened \/ MustSend
      BY <1>5, <2>1, Zenon DEF Send
    <3>3. Expired => MustSend
      BY DEF MustSend
    <3> QED
      BY <1>0, <3>1, <3>2, <3>3 DEF HeartInv, Expired
  <2>2. CASE agent # 0
    BY <1>0, <1>5, <2>2 DEF Send, HasXml, getXml, HeartInv, Expired, timeVars, confVars, cycleVars
  <2> QED
    BY <2>1, <2>2
<1>6. CASE NextBroker
  BY <1>0, <1>6 DEF NextBroker, InitBroker, HeartInv, Expired, timeVars, confVars, history
<1>7. CASE Finish
  <2> DEFINE expired == timestamp + interval' <= run_time
  <2>1. /\ pc = "next" /\ pc' = "sleep" /\ agent' = 0
        /\ timestamp' = IF expired THEN run_time ELSE timestamp
        /\ UNCHANGED <<run_time, lastXml>>
    BY <1>7 DEF Finish, timeVars
  <2>2. ASSUME ~shortened'
        PROVE  ~shortened /\ (expired => interval <= interval' \/ lastXml = run_time)
    <3>1. shortened' = (shortened \/ (expired /\ interval' < interval /\ lastXml # run_time))
      BY <1>7, Zenon DEF Finish
    <3>2. ~shortened
      BY <2>2, <3>1, Zenon
    <3>5. expired /\ lastXml # run_time => ~(interval' < interval)
      BY <2>2, <3>1, Zenon
    <3>3. interval' \in Nat
      BY TypeStep, ModuleScheduleAssumption DEF TypeInv, TypeOK
    <3>6. ~(interval' < interval) => interval <= interval'
      BY <1>0, <3>3
    <3>4. expired => interval <= interval' \/ lastXml = run_time
      BY <3>5, <3>6, Zenon
    <3> QED
      BY <3>2, <3>4, Zenon
  <2>3. interval' \in Nat \ {0}
    <3>1. <<interval', sleep'>> \in Intervals /\ <<interval', sleep'>>[1] = interval'
      BY TypeStep DEF TypeInv, TypeOK
    <3> QED
      BY <3>1, ModuleScheduleAssumption
  <2>4. Expired => lastXml = run_time
    BY <2>1 DEF HeartInv
  <2>5. ~shortened => timestamp <= lastXml
    BY DEF HeartInv
  <2>6. ASSUME ~shortened' PROVE timestamp' <= lastXml'
    <3>1. ~shortened /\ timestamp <= lastXml
      BY <2>2, <2>5, <2>6
    <3>2. expired => interval <= interval' \/ lastXml = run_time
      BY <2>2, <2>6
    <3>3. CASE expired
      <4>1. ASSUME interval <= interval' PROVE timestamp + interval <= run_time
        <5>1. interval \in Nat /\ interval' \in Nat /\ timestamp + interval' <= run_time
          BY <1>0, <2>3, <3>3
        <5> QED
          BY <1>0, <4>1, <5>1, Sooner
      <4>2. lastXml = run_time
        BY <2>4, <3>2, <3>3, <4>1, Zenon DEF Expired
      <4> QED
        BY <1>0, <2>1, <3>3, <4>2
    <3>4. CASE ~expired
      BY <2>1, <3>1, <3>4
    <3> QED
      BY <3>3, <3>4
  <2>7. ~Expired'
    BY <1>0, <2>1, <2>3, ResetInTime, Zenon DEF Expired
  <2>8. timestamp' <= run_time' /\ lastXml' <= run_time'
    BY <1>0, <2>1 DEF HeartInv
  <2>9. /\ ~shortened' => timestamp' <= lastXml'
        /\ ~(pc' = "next" \/ agent' # 0)
    BY <2>1, <2>6
  <2> HIDE DEF expired
  <2> QED
    BY <2>7, <2>8, <2>9, Zenon DEF HeartInv
<1>8. CASE UNCHANGED vars
  BY <1>8 DEF vars, HeartInv, Expired, timeVars, confVars, cycleVars, history
<1> QED
  BY <1>1, <1>2, <1>3, <1>4, <1>5, <1>6, <1>7, <1>8 DEF Next

\* pandora_run sends an XML at least once in every interval, unless a shorter interval
\* read after the broker agents has moved its time reference since the last one.
THEOREM XmlInEveryInterval == Spec => []Heartbeat
<1>1. Init => HeartInv
  <2> SUFFICES ASSUME Init PROVE HeartInv
    OBVIOUS
  <2>1. interval \in Nat \ {0}
    BY PairOf DEF Init
  <2> QED
    BY <2>1 DEF Init, HeartInv, Expired
<1>2. TypeInv /\ HeartInv /\ [Next]_vars => TypeInv' /\ HeartInv'
  BY TypeStep, HeartStep
<1>3. TypeInv /\ HeartInv => Heartbeat
  <2> SUFFICES ASSUME TypeInv, HeartInv, pc = "sleep", ServerIp, ~shortened
               PROVE  run_time < lastXml + interval
    BY DEF Heartbeat
  <2>1. /\ interval \in Nat /\ run_time \in Nat /\ timestamp \in Nat
        /\ lastXml \in Nat
    BY ModuleScheduleAssumption DEF TypeInv, TypeOK
  <2> QED
    BY <2>1 DEF HeartInv, Expired
<1> QED
  BY TypeInit, <1>1, <1>2, <1>3, PTL DEF Spec

\* From the first cycle on the time is not before Start.
ClockInv ==
    \/ pc = "sleep" /\ run_time = 0 /\ base + sleep = Start
    \/ run_time >= Start /\ base >= Start

LEMMA ClockStep ==
  ASSUME TypeInv, ClockInv, [Next]_vars
  PROVE  ClockInv'
<1>0. /\ sleep \in Nat /\ base \in Int /\ run_time \in Nat /\ Start \in Nat
  BY ModuleScheduleAssumption DEF TypeInv, TypeOK
<1>1. CASE Wake
  <2>1. PICK o \in 0 .. MaxOverrun, j \in 0 .. MaxJitter :
          base' = base + sleep + o /\ run_time' = base' + j
    BY <1>1 DEF Wake
  <2>2. o \in Nat /\ j \in Nat
    BY <2>1, ModuleScheduleAssumption
  <2> QED
    BY <1>0, <2>1, <2>2 DEF ClockInv
<1>2. CASE Refresh
  BY <1>0, <1>2 DEF Refresh, ClockInv
<1>3. ASSUME NEW m \in Mods, RunModule(m) PROVE ClockInv'
  <2>1. pc = "run" /\ UNCHANGED <<base, run_time>>
    BY <1>3 DEF RunModule, Skip, NotFulfilled, Fails, Execute, timeVars
  <2> QED
    BY <2>1 DEF ClockInv
<1>4. CASE Last \/ Send \/ NextBroker \/ Finish
  BY <1>4 DEF Last, Send, NextBroker, InitBroker, Finish, ClockInv, timeVars
<1>5. CASE UNCHANGED vars
  BY <1>5 DEF vars, ClockInv, timeVars, confVars
<1> QED
  BY <1>1, <1>2, <1>3, <1>4, <1>5 DEF Next

\* A module that has never been reported is due in every cycle.
LEMMA NewIsDue ==
  ASSUME TypeInv, ClockInv, pc # "sleep", NEW m \in Mods
  PROVE  /\ run_time \in Nat \ {0}
         /\ mod[m].timestamp = 0 => Due(m)
         /\ Span(m) \in Nat \ {0}
<1>1. /\ interval \in Nat \ {0} /\ ModuleInterval[m] \in Nat \ {0}
      /\ ModuleInterval[m] * interval <= Start
      /\ run_time \in Nat /\ Start \in Nat
  <2>1. <<interval, sleep>> \in Intervals /\ <<interval, sleep>>[1] = interval
    BY DEF TypeInv, TypeOK
  <2> QED
    BY <2>1, ModuleScheduleAssumption DEF TypeInv, TypeOK
<1>2. Span(m) \in Nat \ {0} /\ Span(m) <= Start
  BY <1>1, Positive DEF Span
<1> QED
  BY <1>1, <1>2 DEF ClockInv, Due

\* The state of an intensive module agrees with what the server knows, unless it was
\* taken for reported without data, or its value is about to be sent, or a broker
\* agent's modules are in its place.
Synced(m) ==
    \/ mod[m].timestamp = 0
    \/ known[m] # NoData /\ (mod[m].intensive_match <=> known[m] = "match")

Settled(m) ==
    /\ agent = 0
    /\ mod[m].front = NoData
    /\ m \in emptied \/ (known[m] = measured[m] /\ Synced(m))

Pending(m) ==
    /\ agent = 0
    /\ pc \in {"run", "send"}
    /\ m \notin todo
    /\ data_flag
    /\ mod[m].has_output
    /\ mod[m].front = measured[m]
    /\ measured[m] # NoData
    /\ mod[m].intensive_match <=> mod[m].front = "match"

Displaced(m) == agent # 0 /\ (m \in emptied \/ known[m] = measured[m])

StatusInv ==
    ServerIp => \A m \in IntensiveMods : Settled(m) \/ Pending(m) \/ Displaced(m)

\* An executed intensive module is settled or about to be sent.
LEMMA ExecuteStatus ==
  ASSUME TypeInv, ClockInv, NEW m \in IntensiveMods, NEW v \in Values \cup {NoData},
         Execute(m, v), Settled(m)
  PROVE  Settled(m)' \/ Pending(m)'
<1>0. /\ m \in Mods /\ pc = "run" /\ pc' = "run" /\ agent' = 0 /\ agent = 0
      /\ m \notin todo' /\ known' = known
      /\ measured' = IF v # NoData THEN [measured EXCEPT ![m] = v] ELSE measured
      /\ mod[m].front = NoData
  BY ModuleScheduleAssumption DEF Execute, Settled
<1>2. PICK r \in Module : Effect(m, v, r)
  BY <1>0, ExecuteEffect DEF TypeInv
<1>3. mod'[m] = r
  BY <1>0, <1>2 DEF Effect, TypeInv, TypeOK
<1>4. Front(m, v) = v /\ (Match(m, v) <=> v = "match")
  BY <1>0 DEF Front, Match
<1>e. m \in emptied => m \in emptied'
  BY <1>2 DEF Effect
<1>d. CASE v = NoData
  <2>1. CASE Keep(m, v)
    <3>1. m \in emptied'
      BY <1>0, <1>2, <1>4, <1>d, <2>1 DEF Effect
    <3> QED
      BY <1>0, <1>2, <1>3, <1>4, <1>d, <2>1, <3>1 DEF Effect, Settled
  <2>2. CASE ~Keep(m, v)
    BY <1>0, <1>2, <1>3, <1>d, <1>e, <2>2 DEF Effect, Settled, Synced
  <2> QED
    BY <2>1, <2>2
<1>1. ASSUME v # NoData
      PROVE  measured'[m] = v /\ v \in {"match", "nomatch"}
  BY <1>0, <1>1 DEF TypeInv, TypeOK, Values
<1>5. CASE v # NoData /\ Keep(m, v)
  BY <1>0, <1>1, <1>2, <1>3, <1>4, <1>5 DEF Effect, Pending
<1>6. CASE v # NoData /\ ~Keep(m, v)
  <2>0. CASE m \in emptied
    BY <1>0, <1>2, <1>3, <1>6, <1>e, <2>0 DEF Effect, Settled
  <2>1. ~Due(m) /\ (mod[m].intensive_match <=> v = "match")
    <3>1. mod[m].intensive_match \in BOOLEAN
      BY <1>0 DEF TypeInv, TypeOK, Module
    <3>2. ~Due(m) /\ Match(m, v) = mod[m].intensive_match
      BY <1>6 DEF Keep
    <3> QED
      BY <1>4, <3>1, <3>2
  <2>2. mod[m].timestamp # 0
    BY <1>0, <2>1, NewIsDue
  <2>3. CASE m \notin emptied
    <3>1. known[m] # NoData /\ (mod[m].intensive_match <=> known[m] = "match")
      BY <2>2, <2>3 DEF Settled, Synced
    <3>2. known[m] = v
      <4>1. known[m] \in {"match", "nomatch"}
        BY <3>1 DEF TypeInv, TypeOK, Values
      <4> QED
        BY <1>1, <1>6, <2>1, <3>1, <4>1
    <3> QED
      BY <1>0, <1>1, <1>2, <1>3, <1>6, <3>1, <3>2 DEF Effect, Settled, Synced
  <2> QED
    BY <2>0, <2>3
<1> QED
  BY <1>d, <1>5, <1>6

LEMMA StatusStep ==
  ASSUME TypeInv, ClockInv, StatusInv, [Next]_vars
  PROVE  StatusInv'
<1> SUFFICES ASSUME ServerIp, NEW n \in IntensiveMods
             PROVE  (Settled(n) \/ Pending(n) \/ Displaced(n))'
  BY DEF StatusInv
<1>0. Settled(n) \/ Pending(n) \/ Displaced(n)
  BY DEF StatusInv
<1>n. n \in Mods
  BY ModuleScheduleAssumption
<1>new. ASSUME NEW i, NEW s, mod' = NewModules(i, s)
        PROVE  mod'[n].front = NoData /\ mod'[n].timestamp = 0
  BY <1>n, <1>new DEF NewModules, New
<1>1. ASSUME NEW f \in BOOLEAN, BeginRun(f) PROVE Settled(n)'
  <2>1. Settled(n) /\ agent' = agent /\ UNCHANGED <<known, measured, emptied>>
    BY <1>0, <1>1 DEF BeginRun, TypeInv, Pending, Displaced
  <2>2. CASE mod' = mod
    BY <2>1, <2>2 DEF Settled, Synced
  <2>3. CASE mod' = NewModules(interval', sleep')
    BY <1>new, <2>1, <2>3 DEF Settled, Synced
  <2> QED
    BY <1>1, <2>2, <2>3, ReadEffect DEF BeginRun, TypeInv
<1>2. CASE Wake
  BY <1>1, <1>2 DEF Wake
<1>3. CASE Refresh
  BY <1>1, <1>3 DEF Refresh
<1>4. ASSUME NEW m \in Mods, Skip(m) \/ NotFulfilled(m) \/ Fails(m)
      PROVE  (Settled(n) \/ Pending(n) \/ Displaced(n))'
  <2>1. /\ pc = "run" /\ m \in todo /\ todo' = todo \ {m}
        /\ UNCHANGED <<pc, agent, data_flag, known, measured, emptied>>
    BY <1>4 DEF Skip, NotFulfilled, Fails
  <2>2. mod[m] \in Module /\ Counted(m) \in Module
    BY CountedType DEF TypeInv, TypeOK
  <2>3. PICK r \in Module :
            /\ mod' = [mod EXCEPT ![m] = r]
            /\ r.front = NoData
            /\ r.timestamp = mod[m].timestamp
            /\ r.intensive_match = mod[m].intensive_match
    <3>1. CASE Skip(m)
      BY <2>2, <3>1, ModuleSteps DEF Skip
    <3>2. CASE NotFulfilled(m) \/ Fails(m)
      <4>1. /\ mod' = [mod EXCEPT ![m] = NoOutput(Counted(m))]
            /\ NoOutput(Counted(m)) \in Module
        BY <2>2, <3>2, ModuleSteps DEF NotFulfilled, Fails
      <4>2. /\ NoOutput(Counted(m)).front = NoData
            /\ NoOutput(Counted(m)).timestamp = mod[m].timestamp
            /\ NoOutput(Counted(m)).intensive_match = mod[m].intensive_match
        BY <2>2, ModuleSteps, CountedType DEF TypeInv
      <4> QED
        BY <4>1, <4>2
    <3> QED
      BY <1>4, <3>1, <3>2
  <2>4. CASE m = n
    <3>1. mod'[n] = r
      BY <1>n, <2>3, <2>4 DEF TypeInv, TypeOK
    <3> QED
      BY <1>0, <2>1, <2>3, <2>4, <3>1 DEF Settled, Pending, Displaced, Synced
  <2>5. CASE m # n
    <3>1. mod'[n] = mod[n]
      BY <1>n, <2>3, <2>5 DEF TypeInv, TypeOK
    <3> QED
      BY <1>0, <2>1, <2>5, <3>1 DEF Settled, Pending, Displaced, Synced
  <2> QED
    BY <2>4, <2>5
<1>5. ASSUME NEW m \in Mods, NEW v \in Results(m), Execute(m, v)
      PROVE  (Settled(n) \/ Pending(n) \/ Displaced(n))'
  <2>1. v \in Values \cup {NoData}
    BY <1>5 DEF Results, Values
  <2>2. /\ pc = "run" /\ m \in todo /\ todo' = todo \ {m}
        /\ UNCHANGED <<pc, agent, known>>
        /\ data_flag => data_flag'
        /\ measured' = IF agent = 0 /\ m \in IntensiveMods /\ v # NoData
                         THEN [measured EXCEPT ![m] = v] ELSE measured
        /\ emptied \subseteq emptied'
    BY <1>5 DEF Execute
  <2>3. CASE agent # 0
    BY <1>0, <2>2, <2>3 DEF Settled, Pending, Displaced
  <2>4. CASE agent = 0 /\ m = n
    BY <1>0, <1>5, <2>1, <2>2, <2>4, ExecuteStatus DEF Pending, Displaced
  <2>5. CASE agent = 0 /\ m # n
    <3>1. PICK r \in Module : mod' = [mod EXCEPT ![m] = r]
      BY <1>5, <2>1, ExecuteEffect DEF Effect, TypeInv
    <3>2. mod'[n] = mod[n] /\ measured'[n] = measured[n]
      BY <1>n, <2>2, <2>5, <3>1 DEF TypeInv, TypeOK
    <3> QED
      BY <1>0, <2>2, <2>5, <3>2 DEF Settled, Pending, Displaced, Synced
  <2> QED
    BY <2>3, <2>4, <2>5
<1>6. CASE Last
  BY <1>0, <1>6 DEF Last, Settled, Pending, Displaced, Synced, cycleVars, history
<1>7. CASE Send
  <2>0. agent' = agent /\ measured' = measured
    BY <1>7 DEF Send, HasXml, getXml, cycleVars
  <2>1. CASE agent # 0
    <3>1. UNCHANGED <<known, emptied>>
      BY <1>7, <2>1 DEF Send
    <3> QED
      BY <1>0, <2>0, <2>1, <3>1 DEF Settled, Pending, Displaced
  <2>2. CASE agent = 0 /\ Settled(n)
    <3>1. /\ mod'[n] = mod[n] /\ known'[n] = known[n]
          /\ n \in emptied => n \in emptied'
      BY <1>n, <1>7, <2>2 DEF Send, HasXml, getXml, Settled
    <3> QED
      BY <2>0, <2>2, <3>1 DEF Settled, Synced
  <2>3. CASE agent = 0 /\ Pending(n)
    <3>1. /\ mod'[n] = [mod[n] EXCEPT !.front = NoData]
          /\ known'[n] = mod[n].front
      BY <1>n, <1>7, <2>3 DEF Send, HasXml, getXml, Pending, MustSend
    <3>2. /\ mod'[n].front = NoData
          /\ mod'[n].intensive_match = mod[n].intensive_match
      BY <1>n, <3>1 DEF TypeInv, TypeOK, Module
    <3> QED
      BY <2>0, <2>3, <3>1, <3>2 DEF Pending, Settled, Synced
  <2> QED
    BY <1>0, <2>1, <2>2, <2>3 DEF Displaced
<1>8. CASE NextBroker
  <2>1. agent' # 0 /\ (n \in emptied \/ known[n] = measured[n])
    BY <1>0, <1>8, ModuleScheduleAssumption
       DEF NextBroker, InitBroker, Settled, Pending, Displaced, TypeInv, TypeOK
  <2> QED
    BY <1>8, <2>1 DEF NextBroker, InitBroker, Displaced, history
<1>9. CASE Finish
  <2>1. /\ n \in emptied \/ known[n] = measured[n]
        /\ agent' = 0 /\ UNCHANGED <<known, measured, emptied>>
    BY <1>0, <1>9 DEF Finish, Settled, Pending, Displaced
  <2>r. /\ brokers = 0 => mod' = mod
        /\ brokers # 0 => mod' = NewModules(interval', sleep')
    BY <1>9, RestoreEffect DEF Finish, TypeInv
  <2>2. CASE brokers = 0
    <3>1. Settled(n) /\ mod' = mod
      BY <1>0, <1>9, <2>r, <2>2 DEF Finish, Pending, Displaced
    <3> QED
      BY <2>1, <3>1 DEF Settled, Synced
  <2>3. CASE brokers # 0
    BY <2>r, <1>new, <2>1, <2>3 DEF Settled, Synced
  <2> QED
    BY <2>2, <2>3
<1>10. CASE UNCHANGED vars
  BY <1>0, <1>10
     DEF vars, Settled, Pending, Displaced, Synced, cycleVars, history
<1> QED
  BY <1>2, <1>3, <1>4, <1>5, <1>6, <1>7, <1>8, <1>9, <1>10 DEF Next, RunModule

\* Whatever values pandora_run drops, and whatever a reload, a forced cycle or a
\* broker agent does to the module list, the server knows the match status of
\* every intensive module when the service goes to sleep, but for the modules that
\* have since been taken for reported without data.
THEOREM ServerKnowsStatus == Spec => []StatusKnown
<1> DEFINE Inv == TypeInv /\ ClockInv /\ StatusInv
<1>1. Init => Inv
  <2> SUFFICES ASSUME Init PROVE Inv
    OBVIOUS
  <2>1. ClockInv
    <3>1. sleep \in Nat
      BY PairOf DEF Init
    <3> QED
      BY <3>1, ModuleScheduleAssumption DEF Init, ClockInv
  <2>2. ASSUME NEW m \in IntensiveMods PROVE Settled(m)
    BY ModuleScheduleAssumption DEF Init, New, Settled, Synced
  <2> QED
    BY TypeInit, <2>1, <2>2 DEF StatusInv
<1>2. Inv /\ [Next]_vars => Inv'
  BY TypeStep, ClockStep, StatusStep
<1>3. Inv => StatusKnown
  BY DEF TypeInv, StatusInv, StatusKnown, Settled, Pending, Displaced
<1> QED
  BY <1>1, <1>2, <1>3, PTL DEF Spec

\* A value in the list of a plain module waits to be sent in this very cycle;
\* unless the cycle is forced, the interval of the module has passed.
Waiting(m) ==
    /\ pc \in {"run", "send"}
    /\ m \notin todo
    /\ data_flag
    /\ mod[m].has_output
    /\ ~forced_run => /\ mod[m].timestamp = run_time
                      /\ reported[m] = 0 \/ reported[m] + Span(m) <= run_time

Spaced(m) ==
    /\ reported[m] <= mod[m].timestamp
    /\ mod[m].timestamp = 0 \/ mod[m].intensive_match
    /\ mod[m].front = NoData \/ Waiting(m)

SpacingInv == ServerIp => \A m \in PlainMods : Spaced(m)

LEMMA ExecuteSpacing ==
  ASSUME TypeInv, ClockInv, NEW m \in PlainMods, NEW v \in Values \cup {NoData},
         Execute(m, v), Spaced(m), agent = 0
  PROVE  Spaced(m)'
<1>0. /\ m \in Mods /\ m \notin IntensiveMods /\ pc = "run" /\ pc' = "run"
      /\ m \in todo /\ m \notin todo' /\ reported' = reported /\ run_time' = run_time
      /\ interval' = interval /\ forced_run' = forced_run
  BY DEF PlainMods, Execute, timeVars, confVars
<1>1. mod[m].front = NoData
  BY <1>0 DEF Spaced, Waiting
<1>2. PICK r \in Module : Effect(m, v, r)
  BY <1>0, ExecuteEffect DEF TypeInv
<1>3. mod'[m] = r
  BY <1>0, <1>2 DEF Effect, TypeInv, TypeOK
<1>4. /\ reported[m] \in Nat /\ run_time \in Nat /\ mod[m].timestamp \in Nat
      /\ mod[m].intensive_match \in BOOLEAN
  BY <1>0 DEF TypeInv, TypeOK, Module
<1>5. Span(m) \in Nat \ {0} /\ (mod[m].timestamp = 0 => Due(m))
  BY <1>0, NewIsDue
<1>6. Span(m)' = Span(m)
  BY <1>0 DEF Span
<1>7. Match(m, v)
  BY <1>0 DEF Match
<1>8. CASE ~Keep(m, v)
  BY <1>0, <1>2, <1>3, <1>8 DEF Effect, Spaced
<1>9. CASE Keep(m, v)
  <2>1. r.intensive_match /\ r.has_output /\ data_flag'
    BY <1>2, <1>7, <1>9 DEF Effect
  <2>2. CASE Due(m)
    <3>1. r.timestamp = run_time /\ reported[m] + Span(m) <= run_time
      BY <1>2, <1>4, <1>5, <1>9, <2>2 DEF Effect, Due, Spaced
    <3> QED
      BY <1>0, <1>3, <1>4, <1>5, <1>6, <2>1, <3>1 DEF Spaced, Waiting
  <2>3. CASE ~Due(m)
    <3>1. mod[m].intensive_match
      BY <1>5, <2>3 DEF Spaced
    <3>2. forced_run
      BY <1>4, <1>7, <1>9, <2>3, <3>1 DEF Keep
    <3> QED
      BY <1>0, <1>2, <1>3, <1>9, <2>1, <2>3, <3>2 DEF Effect, Spaced, Waiting
  <2> QED
    BY <2>2, <2>3
<1> QED
  BY <1>8, <1>9

LEMMA SpacingStep ==
  ASSUME BrokerCounts = {0}, MaxReloads = 0,
         TypeInv, ClockInv, SpacingInv, [Next]_vars
  PROVE  SpacingInv'
<1> SUFFICES ASSUME ServerIp, NEW n \in PlainMods PROVE Spaced(n)'
  BY DEF SpacingInv
<1>0. /\ Spaced(n) /\ n \in Mods /\ brokers = 0 /\ agent = 0 /\ reloads = 0
      /\ reported[n] \in Nat /\ run_time \in Nat /\ mod[n] \in Module
  BY DEF SpacingInv, PlainMods, TypeInv, TypeOK
<1>1. ASSUME NEW f \in BOOLEAN, BeginRun(f) PROVE Spaced(n)'
  BY <1>0, <1>1 DEF BeginRun, ReadNewConf, Spaced, Waiting
<1>2. CASE Wake
  BY <1>1, <1>2 DEF Wake
<1>3. CASE Refresh
  BY <1>1, <1>3 DEF Refresh
<1>4. ASSUME NEW m \in Mods, Skip(m) \/ NotFulfilled(m) \/ Fails(m)
      PROVE  Spaced(n)'
  <2>1. /\ pc = "run" /\ m \in todo /\ todo' = todo \ {m}
        /\ UNCHANGED <<pc, data_flag, forced_run, run_time, reported, interval>>
    BY <1>4 DEF Skip, NotFulfilled, Fails, timeVars, confVars
  <2>2. mod[m] \in Module /\ Counted(m) \in Module
    BY CountedType DEF TypeInv, TypeOK
  <2>3. PICK r \in {NoOutput(mod[m]), NoOutput(Counted(m))} :
            mod' = [mod EXCEPT ![m] = r]
    BY <1>4 DEF Skip, NotFulfilled, Fails
  <2>4. /\ r.front = NoData
        /\ r.timestamp = mod[m].timestamp
        /\ r.intensive_match = mod[m].intensive_match
    BY <2>2, <2>3, ModuleSteps, CountedType DEF TypeInv
  <2>5. Span(n)' = Span(n)
    BY <2>1 DEF Span
  <2>6. mod'[n] = IF m = n THEN r ELSE mod[n]
    BY <1>0, <2>3 DEF TypeInv, TypeOK
  <2> QED
    BY <1>0, <2>1, <2>4, <2>5, <2>6 DEF Spaced, Waiting
<1>5. ASSUME NEW m \in Mods, NEW v \in Results(m), Execute(m, v)
      PROVE  Spaced(n)'
  <2>1. v \in Values \cup {NoData}
    BY <1>5 DEF Results, Values
  <2>2. CASE m = n
    BY <1>0, <1>5, <2>1, <2>2, ExecuteSpacing
  <2>3. CASE m # n
    <3>1. PICK r \in Module : mod' = [mod EXCEPT ![m] = r]
      BY <1>5, <2>1, ExecuteEffect DEF Effect, TypeInv
    <3>2. mod'[n] = mod[n]
      BY <1>0, <2>3, <3>1 DEF TypeInv, TypeOK
    <3>3. /\ todo' \subseteq todo /\ (data_flag => data_flag')
          /\ UNCHANGED <<pc, forced_run, run_time, reported, interval>>
      BY <1>5 DEF Execute, timeVars, confVars
    <3>4. Span(n)' = Span(n)
      BY <3>3 DEF Span
    <3> QED
      BY <1>0, <3>2, <3>3, <3>4 DEF Spaced, Waiting
  <2> QED
    BY <2>2, <2>3
<1>6. CASE Last
  <2>1. /\ pc' = "send"
        /\ UNCHANGED <<mod, todo, data_flag, forced_run, run_time, reported, interval>>
    BY <1>6 DEF Last, cycleVars, history, timeVars, confVars
  <2>2. Span(n)' = Span(n)
    BY <2>1 DEF Span
  <2> QED
    BY <1>0, <2>1, <2>2 DEF Spaced, Waiting
<1>7. CASE Send
  <2>1. CASE mod[n].front = NoData
    <3>1. mod'[n] = mod[n] /\ reported'[n] = reported[n]
      BY <1>0, <1>7, <2>1 DEF Send, HasXml, getXml
    <3> QED
      BY <1>0, <2>1, <3>1 DEF Spaced
  <2>2. CASE mod[n].front # NoData
    <3>1. Waiting(n)
      BY <1>0, <2>2 DEF Spaced
    <3>2. /\ mod'[n] = [mod[n] EXCEPT !.front = NoData]
          /\ reported'[n] = IF forced_run THEN reported[n] ELSE run_time
      BY <1>0, <1>7, <2>2, <3>1 DEF Send, HasXml, getXml, Waiting, MustSend
    <3>3. /\ mod'[n].front = NoData
          /\ mod'[n].timestamp = mod[n].timestamp
          /\ mod'[n].intensive_match = mod[n].intensive_match
      BY <1>0, <3>2 DEF Module
    <3> QED
      BY <1>0, <3>1, <3>2, <3>3 DEF Spaced, Waiting
  <2> QED
    BY <2>1, <2>2
<1>8. CASE NextBroker
  BY <1>0, <1>8 DEF NextBroker, InitBroker
<1>9. CASE Finish
  BY <1>0, <1>9 DEF Finish, Restore, Spaced, Waiting
<1>10. CASE UNCHANGED vars
  <2>1. UNCHANGED <<pc, mod, todo, data_flag, forced_run, run_time, reported, interval>>
    BY <1>10 DEF vars, cycleVars, history, timeVars, confVars
  <2>2. Span(n)' = Span(n)
    BY <2>1 DEF Span
  <2> QED
    BY <1>0, <2>1, <2>2 DEF Spaced, Waiting
<1> QED
  BY <1>2, <1>3, <1>4, <1>5, <1>6, <1>7, <1>8, <1>9, <1>10 DEF Next, RunModule

\* Without broker agents and reloads, pandora_run never reports a plain module
\* before its interval has passed, whatever forced cycles come between and
\* however late the clock is read.  With a broker agent it does.
THEOREM IntervalKept ==
  ASSUME BrokerCounts = {0}, MaxReloads = 0
  PROVE  Spec => IntervalHonoured
<1> DEFINE Inv == TypeInv /\ ClockInv /\ SpacingInv
           Step == \A m \in PlainMods :
                      reported'[m] # reported[m] /\ reported[m] # 0 =>
                          reported'[m] >= reported[m] + Span(m)
<1>1. Init => Inv
  <2> SUFFICES ASSUME Init PROVE Inv
    OBVIOUS
  <2>1. ClockInv
    <3>1. sleep \in Nat
      BY PairOf DEF Init
    <3> QED
      BY <3>1, ModuleScheduleAssumption DEF Init, ClockInv
  <2>2. ASSUME NEW m \in PlainMods PROVE Spaced(m)
    BY DEF Init, New, Spaced, PlainMods
  <2> QED
    BY TypeInit, <2>1, <2>2 DEF SpacingInv
<1>2. Inv /\ [Next]_vars => Inv'
  BY TypeStep, ClockStep, SpacingStep
<1>3. Inv /\ [Next]_vars => [Step]_vars
  <2> SUFFICES ASSUME Inv, Next, NEW n \in PlainMods,
                      reported'[n] # reported[n], reported[n] # 0
               PROVE  reported'[n] >= reported[n] + Span(n)
    OBVIOUS
  <2>1. Send /\ agent = 0
    <3>1. ~(Wake \/ Refresh \/ Last \/ NextBroker \/ Finish)
      BY DEF Wake, Refresh, BeginRun, Last, NextBroker, InitBroker, Finish, history
    <3>2. \A m \in Mods : ~RunModule(m)
      BY DEF RunModule, Skip, NotFulfilled, Fails, Execute
    <3>3. agent = 0
      BY DEF TypeInv, TypeOK
    <3> QED
      BY <3>1, <3>2, <3>3 DEF Next
  <2>2. /\ ServerIp /\ mod[n].front # NoData /\ ~forced_run
        /\ reported'[n] = run_time
    BY <2>1 DEF Send, HasXml, getXml
  <2>3. Waiting(n)
    BY <2>2 DEF SpacingInv, Spaced
  <2>4. run_time >= reported[n] + Span(n)
    BY <2>2, <2>3 DEF Waiting
  <2> QED
    BY <2>2, <2>4
<1> QED
  BY <1>1, <1>2, <1>3, PTL DEF Spec, IntervalHonoured

\* The number of cycles in which pandora_run may drop the values of a module, and
\* the number of cycles until its next execution.
Patience(m) == (Span(m) + MaxLag - 1) \div sleep

Rest(m) == IF mod[m].executions = 0 THEN 0 ELSE mod[m].every - mod[m].executions

\* The silent cycles, with the one that is under way if the module's turn is to come.
Ahead(m) == IF pc = "run" /\ m \in todo /\ ~forced_run THEN silent[m] + 1 ELSE silent[m]

\* The value of the module will be sent in this cycle.
Leaving(m) ==
    /\ pc \in {"run", "send"}
    /\ m \notin todo
    /\ data_flag
    /\ mod[m].has_output
    /\ mod[m].front # NoData

\* The silent cycles are paid for by the module's count of executions and by the
\* time that has passed since its timestamp.
Quiet(m) ==
    /\ mod[m].front = NoData
    /\ silent[m] + Rest(m) < mod[m].every + Patience(m)
    /\ mod[m].timestamp # 0 => mod[m].timestamp + Ahead(m) * sleep <= base + MaxLag

Patient(m) ==
    /\ mod[m].every = Every(m, interval, sleep)
    /\ mod[m].executions < mod[m].every
    /\ mod[m].timestamp <= run_time
    /\ silent[m] < mod[m].every + Patience(m)
    /\ agent = 0 => Quiet(m) \/ Leaving(m)

LagInv ==
    /\ run_time <= base + MaxLag
    /\ run_time # 0 => base <= run_time

\* NeverStarved is not inductive: it says nothing of when the module was last
\* reported, nor of how far its count of executions has come.
StarveInv == LagInv /\ (ServerIp => \A m \in PlainMods : Patient(m))

\* A quotient is the largest number of divisors that fit.
LEMMA FitsIn ==
  ASSUME NEW a \in Nat, NEW b \in Nat, NEW s \in Nat \ {0}, a * s <= b
  PROVE  a <= b \div s
<1> DEFINE q == b \div s
<1>1. q \in Nat /\ b < (q + 1) * s
  <2>1. b = s * (b \div s) + (b % s) /\ b % s \in 0 .. s - 1 /\ b \div s \in Int
    OBVIOUS
  <2> QED
    BY <2>1
<1> HIDE DEF q
<1>2. ASSUME a >= q + 1 PROVE FALSE
  <2>1. PICK d \in Nat : a = (q + 1) + d
    BY <1>1, <1>2
  <2>2. a * s = (q + 1) * s + d * s /\ d * s \in Nat
    BY <1>1, <2>1
  <2> QED
    BY <1>1, <2>2
<1> QED
  BY <1>1, <1>2 DEF q

\* The quantities that the argument is about are numbers.
LEMMA Numbers ==
  ASSUME TypeInv, NEW m \in PlainMods
  PROVE  /\ m \in Mods /\ m \notin IntensiveMods
         /\ mod[m] \in Module /\ mod[m].executions \in Nat /\ mod[m].every \in Nat \ {0}
         /\ mod[m].timestamp \in Nat /\ silent[m] \in Nat
         /\ interval \in Nat \ {0} /\ sleep \in Nat \ {0} /\ sleep <= MaxLag
         /\ base \in Int /\ run_time \in Nat /\ MaxLag \in Nat
         /\ Span(m) \in Nat \ {0}
         /\ Patience(m) \in Nat
<1>1. <<interval, sleep>> \in Intervals
  BY DEF TypeInv, TypeOK
<1>2. /\ <<interval, sleep>>[1] = interval /\ <<interval, sleep>>[2] = sleep
      /\ m \in Mods /\ m \notin IntensiveMods
  BY DEF PlainMods
<1>3. /\ interval \in Nat \ {0} /\ sleep \in Nat \ {0} /\ sleep <= MaxLag
      /\ MaxLag \in Nat /\ ModuleInterval[m] \in Nat \ {0}
  BY <1>1, <1>2, ModuleScheduleAssumption
<1>4. Span(m) \in Nat \ {0}
  BY <1>3, Positive DEF Span
<1>5. Patience(m) \in Nat
  <2>1. Span(m) + MaxLag - 1 \in Nat
    BY <1>3, <1>4
  <2> HIDE DEF Span
  <2> QED
    BY <1>3, <2>1 DEF Patience
<1> QED
  BY <1>2, <1>3, <1>4, <1>5 DEF TypeInv, TypeOK, Module

\* The same after a step.
LEMMA NumbersNext ==
  ASSUME NEW m \in PlainMods
  PROVE  (TypeInv => /\ mod[m].every \in Nat \ {0} /\ run_time \in Nat
                     /\ Patience(m) \in Nat)'
<1>1. TypeInv => /\ mod[m].every \in Nat \ {0} /\ run_time \in Nat
                 /\ Patience(m) \in Nat
  BY Numbers
<1> QED
  BY <1>1, PTL

\* A module that has just been read from a configuration is at its beginning.
LEMMA NewIsPatient ==
  ASSUME TypeInv', NEW n \in PlainMods, mod' = NewModules(interval', sleep'), silent'[n] = 0
  PROVE  Patient(n)'
<1>1. /\ mod'[n] = New(n, interval', sleep') /\ n \in Mods
  BY DEF NewModules, PlainMods
<1>2. /\ mod'[n].executions = 0 /\ mod'[n].every = Every(n, interval', sleep')
      /\ mod'[n].timestamp = 0 /\ mod'[n].front = NoData
  BY <1>1 DEF New
<1>3. /\ mod'[n].every \in Nat \ {0} /\ run_time' \in Nat /\ Patience(n)' \in Nat
  BY NumbersNext
<1>4. Rest(n)' = 0
  BY <1>2 DEF Rest
<1> QED
  BY <1>2, <1>3, <1>4 DEF Patient, Quiet

\* The clock is never read too late, and never before the time a cycle is due.
LEMMA LagStep ==
  ASSUME TypeInv, LagInv, [Next]_vars
  PROVE  LagInv'
<1>0. /\ base \in Int /\ run_time \in Nat /\ sleep \in Nat \ {0} /\ sleep <= MaxLag
      /\ MaxLag \in Nat /\ MaxJitter \in Nat /\ MaxJitter <= MaxLag /\ MaxOverrun \in Nat
  <2>1. <<interval, sleep>> \in Intervals /\ <<interval, sleep>>[2] = sleep
    BY DEF TypeInv, TypeOK
  <2> QED
    BY <2>1, ModuleScheduleAssumption DEF TypeInv, TypeOK
<1>1. CASE Wake
  <2>1. PICK o \in 0 .. MaxOverrun, j \in 0 .. MaxJitter :
          base' = base + sleep + o /\ run_time' = base' + j
    BY <1>1 DEF Wake
  <2> QED
    BY <1>0, <2>1 DEF LagInv
<1>2. CASE Refresh
  <2>1. run_time # 0 /\ run_time' \in run_time .. base + sleep /\ base' = base
    BY <1>2 DEF Refresh
  <2> QED
    BY <1>0, <2>1 DEF LagInv
<1>3. ASSUME UNCHANGED timeVars PROVE LagInv'
  BY <1>3 DEF LagInv, timeVars
<1>4. CASE \E m \in Mods : RunModule(m)
  BY <1>3, <1>4 DEF RunModule, Skip, NotFulfilled, Fails, Execute
<1>5. CASE Last \/ Send \/ NextBroker \/ Finish \/ UNCHANGED vars
  BY <1>3, <1>5 DEF Last, Send, NextBroker, Finish, vars
<1> QED
  BY <1>1, <1>2, <1>4, <1>5 DEF Next

\* What a step that keeps the configuration does not change.
LEMMA SameConf ==
  ASSUME NEW n, UNCHANGED <<interval, sleep>>
  PROVE  /\ Span(n)' = Span(n)
         /\ Patience(n)' = Patience(n)
         /\ Every(n, interval, sleep)' = Every(n, interval, sleep)
BY DEF Span, Patience, Every

\* Nothing that touches another module, another agent or the later half of the
\* cycle disturbs this one.
LEMMA PatientAlike ==
  ASSUME TypeInv, NEW n \in PlainMods, Patient(n),
         UNCHANGED <<interval, sleep, base, run_time, agent, forced_run>>,
         mod'[n] = mod[n], silent'[n] = silent[n],
         pc' = pc \/ (todo = {} /\ pc = "run" /\ pc' = "send"),
         n \in todo <=> n \in todo',
         data_flag => data_flag'
  PROVE  Patient(n)'
<1>1. Rest(n)' = Rest(n)
  BY DEF Rest
<1>2. Ahead(n)' = Ahead(n)
  BY DEF Ahead
<1>3. Leaving(n) => Leaving(n)'
  BY DEF Leaving
<1>4. Quiet(n) => Quiet(n)'
  BY <1>1, <1>2, SameConf DEF Quiet
<1> QED
  BY <1>3, <1>4, SameConf DEF Patient

\* The module's turn passes without a value of it: the step accounts for the
\* cycle, and for the module's count of executions.
LEMMA PassedOver ==
  ASSUME TypeInv, LagInv, NEW n \in PlainMods, Patient(n), agent = 0,
         UNCHANGED <<interval, sleep, base, run_time, agent, pc>>,
         pc = "run", n \in todo, n \notin todo',
         NEW r \in Module, mod'[n] = r,
         r.front = NoData, r.timestamp = mod[n].timestamp, r.every = mod[n].every,
         \/ /\ silent'[n] = 0
            /\ r.executions < r.every
         \/ /\ silent'[n] = IF forced_run THEN silent[n] ELSE silent[n] + 1
            /\ mod[n].executions # 0
            /\ r.executions = (mod[n].executions + 1) % mod[n].every
         \/ /\ silent'[n] = silent[n] + 1
            /\ ~forced_run
            /\ silent[n] + 1 <= Patience(n)
            /\ r.executions < r.every
  PROVE  Patient(n)'
<1>0. /\ mod[n].executions \in Nat /\ mod[n].every \in Nat \ {0}
      /\ mod[n].timestamp \in Nat /\ silent[n] \in Nat /\ sleep \in Nat \ {0}
      /\ base \in Int /\ run_time \in Nat /\ MaxLag \in Nat /\ Patience(n) \in Nat
      /\ r.executions \in Nat
  BY Numbers DEF Module
<1>1. Quiet(n)
  BY DEF Patient, Leaving
<1>2. Ahead(n) = IF forced_run THEN silent[n] ELSE silent[n] + 1
  BY DEF Ahead
<1>3. Ahead(n)' = silent'[n]
  BY DEF Ahead
<1>4. /\ Rest(n)' = IF r.executions = 0 THEN 0 ELSE mod[n].every - r.executions
      /\ Patience(n)' = Patience(n)
      /\ mod'[n].every = Every(n, interval, sleep)' /\ mod'[n].timestamp <= run_time'
  BY SameConf DEF Rest, Patient
<1>5. CASE silent'[n] = 0 /\ r.executions < r.every
  <2>1. silent'[n] + Rest(n)' < mod'[n].every + Patience(n)'
    BY <1>0, <1>4, <1>5
  <2>2. mod'[n].timestamp + Ahead(n)' * sleep' <= base' + MaxLag
    BY <1>0, <1>3, <1>5 DEF Patient, LagInv
  <2> QED
    BY <1>0, <1>4, <1>5, <2>1, <2>2 DEF Patient, Quiet
<1>6. CASE /\ silent'[n] = IF forced_run THEN silent[n] ELSE silent[n] + 1
           /\ mod[n].executions # 0
           /\ r.executions = (mod[n].executions + 1) % mod[n].every
  <2>1. mod[n].executions + 1 <= mod[n].every
    BY <1>0 DEF Patient
  <2>2. /\ r.executions < mod[n].every
        /\ Rest(n)' + 1 = Rest(n)
    <3>1. CASE mod[n].executions + 1 = mod[n].every
      <4>1. r.executions = 0
        BY <1>0, <1>6, <3>1
      <4> QED
        BY <1>0, <1>4, <1>6, <3>1, <4>1 DEF Rest
    <3>2. CASE mod[n].executions + 1 < mod[n].every
      <4>1. r.executions = mod[n].executions + 1
        BY <1>0, <1>6, <3>2
      <4> QED
        BY <1>0, <1>4, <1>6, <3>2, <4>1 DEF Rest
    <3> QED
      BY <1>0, <2>1, <3>1, <3>2
  <2>3. /\ silent'[n] + Rest(n)' < mod'[n].every + Patience(n)'
        /\ Rest(n)' \in Nat /\ silent'[n] \in Nat
    BY <1>0, <1>1, <1>4, <1>6, <2>2 DEF Quiet
  <2>4. mod'[n].timestamp # 0 =>
          mod'[n].timestamp + Ahead(n)' * sleep' <= base' + MaxLag
    BY <1>1, <1>2, <1>3, <1>6 DEF Quiet
  <2>5. silent'[n] < mod'[n].every + Patience(n)'
    BY <1>0, <1>4, <2>3
  <2> QED
    BY <1>4, <2>2, <2>3, <2>4, <2>5 DEF Patient, Quiet
<1>7. CASE /\ silent'[n] = silent[n] + 1
           /\ ~forced_run
           /\ silent[n] + 1 <= Patience(n)
           /\ r.executions < r.every
  <2>1. silent'[n] + Rest(n)' < mod'[n].every + Patience(n)' /\ Rest(n)' \in Nat
    BY <1>0, <1>4, <1>7
  <2>2. mod'[n].timestamp # 0 =>
          mod'[n].timestamp + Ahead(n)' * sleep' <= base' + MaxLag
    BY <1>1, <1>2, <1>3, <1>7 DEF Quiet
  <2>3. silent'[n] < mod'[n].every + Patience(n)'
    BY <1>0, <1>4, <1>7
  <2> QED
    BY <1>4, <1>7, <2>1, <2>2, <2>3 DEF Patient, Quiet
<1> QED
  BY <1>5, <1>6, <1>7

\* pandora_run drops a value only if the interval has not passed since the
\* timestamp, and so not in more cycles in a row than the interval has.
LEMMA ExecutePatient ==
  ASSUME TypeInv, ClockInv, LagInv, NEW n \in PlainMods, Patient(n),
         NEW v \in Values \cup {NoData}, Execute(n, v)
  PROVE  Patient(n)'
<1>0. /\ n \in Mods /\ mod[n].executions \in Nat /\ mod[n].every \in Nat \ {0}
      /\ mod[n].timestamp \in Nat /\ silent[n] \in Nat /\ sleep \in Nat \ {0}
      /\ base \in Int /\ run_time \in Nat /\ MaxLag \in Nat
      /\ Span(n) \in Nat \ {0} /\ Patience(n) \in Nat
  BY Numbers
<1>1. /\ pc = "run" /\ n \in todo /\ n \notin todo' /\ mod[n].executions = 0
      /\ UNCHANGED <<interval, sleep, base, run_time, agent, pc, forced_run>>
  BY DEF Execute, Fulfilled, confVars, timeVars
<1>2. PICK r \in Module : Effect(n, v, r)
  BY <1>0, ExecuteEffect DEF TypeInv
<1>3. mod'[n] = r
  BY <1>0, <1>2 DEF Effect, TypeInv, TypeOK
<1>4. r.executions \in Nat /\ r.executions < r.every
  BY <1>0, <1>2 DEF Effect
<1>5. CASE Keep(n, v) /\ v # NoData /\ agent = 0
  <2>1. Front(n, v) # NoData
    BY <1>5 DEF Front
  <2>2. Leaving(n)'
    BY <1>1, <1>2, <1>3, <1>5, <2>1 DEF Effect, Leaving
  <2>3. silent'[n] = silent[n] /\ mod'[n].timestamp <= run_time
    BY <1>0, <1>2, <1>3, <1>5 DEF Effect, Patient
  <2> QED
    BY <1>1, <1>2, <1>3, <1>4, <2>2, <2>3, SameConf DEF Effect, Patient
<1>6. CASE ~Keep(n, v) /\ v # NoData /\ agent = 0
  <2>1. ~forced_run /\ ~Due(n)
    BY <1>6 DEF Keep
  <2>2. mod[n].timestamp # 0
    BY <1>0, <1>1, <2>1, NewIsDue
  <2>3. mod[n].timestamp + (silent[n] + 1) * sleep <= base + MaxLag
    BY <1>1, <1>6, <2>1, <2>2 DEF Patient, Quiet, Leaving, Ahead
  <2>4. base <= run_time /\ run_time < mod[n].timestamp + Span(n)
    <3>1. run_time # 0
      BY <1>0, <1>1, NewIsDue
    <3> QED
      BY <1>0, <2>1, <3>1 DEF LagInv, Due
  <2>5. (silent[n] + 1) * sleep <= Span(n) + MaxLag - 1
    <3> DEFINE w == (silent[n] + 1) * sleep
    <3>1. w \in Nat
      BY <1>0
    <3>2. mod[n].timestamp + w <= base + MaxLag
      BY <2>3
    <3> HIDE DEF w
    <3>3. w <= Span(n) + MaxLag - 1
      BY <1>0, <2>4, <3>1, <3>2
    <3> QED
      BY <3>3 DEF w
  <2>6. silent[n] + 1 <= Patience(n)
    <3>1. Span(n) + MaxLag - 1 \in Nat /\ silent[n] + 1 \in Nat
      BY <1>0
    <3> QED
      BY <1>0, <2>5, <3>1, FitsIn DEF Patience
  <2>7. silent'[n] = silent[n] + 1
    BY <1>2, <1>6, <2>1 DEF Effect, Silence, TypeInv, TypeOK
  <2> QED
    BY <1>1, <1>2, <1>3, <1>4, <1>6, <2>1, <2>6, <2>7, PassedOver DEF Effect
<1>7. CASE agent # 0
  <2>1. silent' = silent
    BY <1>2, <1>7 DEF Effect, Silence, Excused
  <2>2. mod'[n].timestamp <= run_time
    BY <1>0, <1>2, <1>3 DEF Effect, Patient
  <2> QED
    BY <1>1, <1>2, <1>3, <1>4, <1>7, <2>1, <2>2, SameConf DEF Effect, Patient
<1>8. CASE v = NoData /\ agent = 0
  <2>1. silent'[n] = 0
    BY <1>2, <1>8 DEF Effect, Excused, TypeInv, TypeOK
  <2>2. /\ mod[n].front = NoData /\ mod[n].timestamp <= run_time
        /\ mod[n].every = Every(n, interval, sleep)
    BY <1>1, <1>8 DEF Patient, Quiet, Leaving
  <2>3. mod'[n].front = NoData /\ mod'[n].timestamp <= run_time
    BY <1>0, <1>2, <1>3, <1>8, <2>2 DEF Effect, Front
  <2>4. Ahead(n)' = 0
    BY <1>1, <2>1 DEF Ahead
  <2>5. Rest(n)' \in Nat /\ Rest(n)' < mod[n].every
    BY <1>0, <1>2, <1>3, <1>4 DEF Effect, Rest
  <2>6. silent'[n] + Rest(n)' < mod'[n].every + Patience(n)
    BY <1>0, <1>2, <1>3, <2>1, <2>5 DEF Effect
  <2>7. mod'[n].timestamp + Ahead(n)' * sleep' <= base' + MaxLag
    BY <1>0, <1>1, <1>3, <2>3, <2>4 DEF LagInv, Module
  <2> QED
    BY <1>0, <1>1, <1>2, <1>3, <1>4, <2>1, <2>2, <2>3, <2>6, <2>7, SameConf
       DEF Effect, Patient, Quiet
<1> QED
  BY <1>5, <1>6, <1>7, <1>8

\* The same for a turn in which the module is not executed, or fails.
LEMMA NoValuePatient ==
  ASSUME TypeInv, LagInv, NEW n \in PlainMods, Patient(n),
         Skip(n) \/ NotFulfilled(n) \/ Fails(n)
  PROVE  Patient(n)'
<1>0. /\ n \in Mods /\ mod[n].executions \in Nat /\ mod[n].every \in Nat \ {0}
      /\ silent[n] \in Nat /\ mod[n] \in Module
  BY Numbers
<1>1. /\ pc = "run" /\ n \in todo /\ n \notin todo'
      /\ UNCHANGED <<interval, sleep, base, run_time, agent, pc, forced_run>>
  BY DEF Skip, NotFulfilled, Fails, confVars, timeVars
<1>2. Counted(n) \in Module
  BY <1>0, CountedType DEF TypeInv
<1>3. PICK r \in Module :
          /\ mod' = [mod EXCEPT ![n] = r]
          /\ r.front = NoData /\ r.timestamp = mod[n].timestamp /\ r.every = mod[n].every
          /\ Skip(n) => r.executions = mod[n].executions
          /\ ~Skip(n) => r.executions = (mod[n].executions + 1) % mod[n].every
  <2>1. CASE Skip(n)
    BY <1>0, <2>1, ModuleSteps DEF Skip
  <2>2. CASE ~Skip(n)
    <3>1. mod' = [mod EXCEPT ![n] = NoOutput(Counted(n))]
      BY <2>2 DEF NotFulfilled, Fails
    <3>2. /\ NoOutput(Counted(n)) \in Module
          /\ NoOutput(Counted(n)).front = NoData
          /\ NoOutput(Counted(n)).timestamp = mod[n].timestamp
          /\ NoOutput(Counted(n)).every = mod[n].every
          /\ NoOutput(Counted(n)).executions = (mod[n].executions + 1) % mod[n].every
      BY <1>0, <1>2, ModuleSteps, CountedType DEF TypeInv
    <3> QED
      BY <2>2, <3>1, <3>2
  <2> QED
    BY <2>1, <2>2
<1>4. mod'[n] = r
  BY <1>0, <1>3 DEF TypeInv, TypeOK
<1>5. r.executions < r.every
  BY <1>0, <1>3 DEF Patient
<1>6. CASE agent # 0
  <2>1. silent'[n] = silent[n]
    BY <1>6 DEF Skip, NotFulfilled, Fails, Silence, Excused
  <2> QED
    BY <1>1, <1>3, <1>4, <1>5, <1>6, <2>1, SameConf DEF Patient
<1>7. CASE agent = 0
  <2>1. CASE Skip(n) \/ Fails(n)
    <3>1. silent'[n] = 0
      BY <1>7, <2>1 DEF Skip, Fails, Excused, TypeInv, TypeOK
    <3> QED
      BY <1>1, <1>3, <1>4, <1>5, <1>7, <3>1, PassedOver
  <2>2. CASE NotFulfilled(n) /\ ~Skip(n)
    <3>1. /\ silent'[n] = IF forced_run THEN silent[n] ELSE silent[n] + 1
          /\ mod[n].executions # 0
      BY <1>7, <2>2 DEF NotFulfilled, Fulfilled, Silence, TypeInv, TypeOK
    <3> QED
      BY <1>1, <1>3, <1>4, <1>7, <2>2, <3>1, PassedOver
  <2> QED
    BY <2>1, <2>2
<1> QED
  BY <1>6, <1>7

\* Every step of pandora_run keeps every plain module patient.
LEMMA StarveStep ==
  ASSUME TypeInv, TypeInv', ClockInv, StarveInv, [Next]_vars
  PROVE  StarveInv'
<1> SUFFICES ASSUME ServerIp, NEW n \in PlainMods PROVE Patient(n)'
  BY LagStep DEF StarveInv
<1>0. Patient(n) /\ LagInv
  BY DEF StarveInv
<1>N. /\ n \in Mods /\ mod[n].executions \in Nat /\ mod[n].every \in Nat \ {0}
      /\ mod[n].timestamp \in Nat /\ silent[n] \in Nat /\ sleep \in Nat \ {0}
      /\ base \in Int /\ run_time \in Nat /\ MaxLag \in Nat /\ Patience(n) \in Nat
      /\ mod[n] \in Module
  BY Numbers
<1>1. ASSUME NEW f \in BOOLEAN, BeginRun(f),
             run_time <= run_time', run_time' \in Nat, base' \in Int,
             (IF f THEN base ELSE base + sleep) <= base'
      PROVE  Patient(n)'
  <2>1. /\ pc = "sleep" /\ pc' = "run" /\ agent = 0 /\ agent' = 0 /\ forced_run' = f
    BY <1>1 DEF BeginRun, TypeInv
  <2>2. CASE UNCHANGED <<confVars, mod, silent, reloads>>
    <3>1. Quiet(n) /\ Ahead(n) = silent[n]
      BY <1>0, <2>1 DEF Patient, Leaving, Ahead
    <3>2. /\ UNCHANGED <<interval, sleep, mod, silent>>
      BY <2>2 DEF confVars
    <3>3. Ahead(n)' = IF f THEN silent[n] ELSE silent[n] + 1
      BY <1>N, <1>1, <2>1, <3>2 DEF Ahead, BeginRun
    <3>4. mod[n].timestamp # 0 =>
            mod[n].timestamp + Ahead(n)' * sleep <= base' + MaxLag
      <4>1. (silent[n] + 1) * sleep = silent[n] * sleep + sleep /\ silent[n] * sleep \in Nat
        BY <1>N
      <4>2. mod[n].timestamp # 0 =>
              mod[n].timestamp + silent[n] * sleep <= base + MaxLag
        BY <3>1 DEF Quiet
      <4> QED
        BY <1>N, <1>1, <3>3, <4>1, <4>2
    <3>5. Rest(n)' = Rest(n) /\ mod[n].timestamp <= run_time'
      BY <1>0, <1>N, <1>1, <3>2 DEF Rest, Patient
    <3> QED
      BY <1>0, <3>1, <3>2, <3>4, <3>5, SameConf DEF Patient, Quiet
  <2>3. CASE mod' = NewModules(interval', sleep') /\ silent' = [m \in PlainMods |-> 0]
    BY <2>3, NewIsPatient
  <2> QED
    BY <1>1, <2>2, <2>3, ReadEffect DEF BeginRun, TypeInv
<1>2. CASE Wake
  <2>1. PICK o \in 0 .. MaxOverrun, j \in 0 .. MaxJitter :
          base' = base + sleep + o /\ run_time' = base' + j
    BY <1>2 DEF Wake
  <2>2. run_time' \in Nat /\ base' \in Int
    BY DEF TypeInv, TypeOK
  <2>3. base + sleep <= base'
    BY <1>N, <2>1, ModuleScheduleAssumption
  <2> QED
    BY <1>1, <1>2, <1>N, <2>2, <2>3 DEF Wake
<1>3. CASE Refresh
  <2>1. run_time' \in Nat /\ run_time' \in run_time .. base + sleep /\ base' = base
    BY <1>3 DEF Refresh, TypeInv, TypeOK
  <2>2. run_time <= run_time' /\ base <= base'
    BY <1>N, <2>1
  <2> QED
    BY <1>1, <1>3, <1>N, <2>1, <2>2 DEF Refresh
<1>4. ASSUME NEW m \in Mods, RunModule(m) PROVE Patient(n)'
  <2>1. CASE m = n
    <3>1. ASSUME NEW v \in Results(n), Execute(n, v) PROVE Patient(n)'
      BY <1>0, <3>1, ExecutePatient DEF Results, Values
    <3> QED
      BY <1>0, <1>4, <2>1, <3>1, NoValuePatient DEF RunModule
  <2>2. CASE m # n
    <3>1. PICK r \in Module : mod' = [mod EXCEPT ![m] = r]
      <4>1. ASSUME NEW v \in Results(m), Execute(m, v)
            PROVE  \E r \in Module : mod' = [mod EXCEPT ![m] = r]
        BY <4>1, ExecuteEffect DEF Effect, Results, Values, TypeInv
      <4>2. /\ NoOutput(mod[m]) \in Module /\ NoOutput(Counted(m)) \in Module
        BY CountedType, ModuleSteps DEF TypeInv, TypeOK
      <4> QED
        BY <1>4, <4>1, <4>2 DEF RunModule, Skip, NotFulfilled, Fails
    <3>2. mod'[n] = mod[n]
      BY <1>N, <2>2, <3>1 DEF TypeInv, TypeOK
    <3>3. /\ UNCHANGED <<interval, sleep, base, run_time, agent, forced_run, pc>>
          /\ todo' = todo \ {m}
          /\ data_flag => data_flag'
          /\ silent' \in {silent, Silence(m), Excused(m)}
      <4>1. CASE Skip(m) \/ NotFulfilled(m) \/ Fails(m)
        BY <4>1 DEF Skip, NotFulfilled, Fails, confVars, timeVars
      <4>2. ASSUME NEW v \in Results(m), Execute(m, v)
            PROVE  /\ UNCHANGED <<interval, sleep, base, run_time, agent, forced_run, pc>>
                   /\ todo' = todo \ {m}
                   /\ data_flag => data_flag'
                   /\ silent' \in {silent, Silence(m), Excused(m)}
        BY <4>2 DEF Execute, confVars, timeVars
      <4> QED
        BY <1>4, <4>1, <4>2 DEF RunModule
    <3>4. silent'[n] = silent[n]
      BY <2>2, <3>3 DEF Silence, Excused, TypeInv, TypeOK
    <3> QED
      BY <1>0, <2>2, <3>2, <3>3, <3>4, PatientAlike
  <2> QED
    BY <2>1, <2>2
<1>5. CASE Last
  BY <1>0, <1>5, PatientAlike DEF Last, confVars, timeVars, cycleVars, history
<1>6. CASE Send
  <2>1. /\ pc = "send" /\ pc' = "next"
        /\ UNCHANGED <<interval, sleep, base, run_time, agent, forced_run, todo>>
    BY <1>6 DEF Send, confVars, timeVars, cycleVars
  <2>2. CASE mod[n].front = NoData \/ agent # 0
    <3>1. /\ silent'[n] = silent[n]
          /\ mod'[n] \in {mod[n], [mod[n] EXCEPT !.front = NoData]}
      BY <1>6, <1>N, <2>2 DEF Send, HasXml, getXml
    <3>2. /\ mod'[n].executions = mod[n].executions /\ mod'[n].every = mod[n].every
          /\ mod'[n].timestamp = mod[n].timestamp
          /\ mod[n].front = NoData => mod'[n].front = NoData
      BY <1>N, <3>1 DEF Module
    <3>3. agent = 0 => Quiet(n)
      BY <1>0, <2>2 DEF Patient, Leaving
    <3>4. Ahead(n) = silent[n] /\ Ahead(n)' = silent[n] /\ Rest(n)' = Rest(n)
      BY <2>1, <3>1, <3>2 DEF Ahead, Rest
    <3> QED
      BY <1>0, <2>1, <3>1, <3>2, <3>3, <3>4, SameConf DEF Patient, Quiet
  <2>3. CASE mod[n].front # NoData /\ agent = 0
    <3>1. Leaving(n)
      BY <1>0, <2>3 DEF Patient, Quiet
    <3>2. silent'[n] = 0 /\ mod'[n] = [mod[n] EXCEPT !.front = NoData]
      BY <1>6, <1>N, <2>3, <3>1 DEF Send, HasXml, getXml, MustSend, Leaving
    <3>3. /\ mod'[n].executions = mod[n].executions /\ mod'[n].every = mod[n].every
          /\ mod'[n].timestamp = mod[n].timestamp
          /\ mod'[n].front = NoData
      BY <1>N, <3>2 DEF Module
    <3>4. Ahead(n)' = 0 /\ Rest(n)' = Rest(n) /\ Rest(n) \in Nat /\ Rest(n) < mod[n].every
      BY <1>0, <1>N, <2>1, <3>2, <3>3 DEF Ahead, Rest, Patient
    <3>5. mod'[n].timestamp + Ahead(n)' * sleep' <= base' + MaxLag
      BY <1>0, <1>N, <2>1, <3>3, <3>4 DEF Patient, LagInv
    <3>6. /\ silent'[n] + Rest(n)' < mod'[n].every + Patience(n)
          /\ silent'[n] < mod'[n].every + Patience(n)
      BY <1>N, <3>2, <3>3, <3>4
    <3> QED
      BY <1>0, <2>1, <3>3, <3>5, <3>6, SameConf DEF Patient, Quiet
  <2> QED
    BY <2>2, <2>3
<1>7. CASE NextBroker
  <2>1. /\ agent' # 0 /\ UNCHANGED <<interval, sleep, run_time, silent>>
        /\ mod'[n] = New(n, interval, sleep)
    BY <1>7, <1>N, ModuleScheduleAssumption
       DEF NextBroker, InitBroker, NewModules, confVars, timeVars, history, TypeInv, TypeOK
  <2>2. /\ mod'[n].executions = 0 /\ mod'[n].every = mod[n].every
        /\ mod'[n].timestamp = 0
    BY <1>0, <2>1 DEF New, Patient
  <2> QED
    BY <1>0, <1>N, <2>1, <2>2, SameConf DEF Patient
<1>8. CASE Finish
  <2>1. /\ pc = "next" /\ pc' = "sleep" /\ agent' = 0
        /\ UNCHANGED <<base, run_time>>
    BY <1>8 DEF Finish, timeVars
  <2>r. /\ brokers = 0 => UNCHANGED <<interval, sleep, mod, silent>>
        /\ brokers # 0 => /\ mod' = NewModules(interval', sleep')
                          /\ silent' = [m \in PlainMods |-> 0]
    BY <1>8, RestoreEffect DEF Finish, TypeInv
  <2>2. CASE brokers = 0
    <3>1. agent = 0 /\ UNCHANGED <<interval, sleep, mod, silent>>
      BY <1>8, <2>2, <2>r DEF Finish
    <3>2. Quiet(n)
      BY <1>0, <2>1, <3>1 DEF Patient, Leaving
    <3>3. Ahead(n)' = Ahead(n) /\ Rest(n)' = Rest(n)
      BY <2>1, <3>1 DEF Ahead, Rest
    <3> QED
      BY <1>0, <2>1, <3>1, <3>2, <3>3, SameConf DEF Patient, Quiet
  <2>3. CASE brokers # 0
    BY <2>3, <2>r, NewIsPatient
  <2> QED
    BY <2>2, <2>3
<1>9. CASE UNCHANGED vars
  BY <1>0, <1>9, PatientAlike DEF vars, confVars, timeVars, cycleVars, history
<1> QED
  BY <1>2, <1>3, <1>4, <1>5, <1>6, <1>7, <1>8, <1>9 DEF Next

\* A plain module that nothing keeps from being executed is reported in about two
\* of its intervals, whatever forced cycles, reloads and broker agents come between
\* and however late the clock is read.
THEOREM NotStarved == Spec => []NeverStarved
<1> DEFINE Inv == TypeInv /\ ClockInv /\ StarveInv
<1>1. Init => Inv
  <2> SUFFICES ASSUME Init PROVE Inv
    OBVIOUS
  <2>1. TypeInv
    BY TypeInit
  <2>2. ClockInv /\ LagInv
    <3>1. <<interval, sleep>> \in Intervals /\ <<interval, sleep>>[2] = sleep
      BY <2>1 DEF TypeInv, TypeOK
    <3>2. sleep \in Nat /\ sleep <= MaxLag /\ MaxLag \in Nat
      BY <3>1, ModuleScheduleAssumption
    <3> QED
      BY <3>2, ModuleScheduleAssumption DEF Init, ClockInv, LagInv
  <2>3. ASSUME NEW m \in PlainMods PROVE Patient(m)
    <3>1. mod[m] = New(m, interval, sleep) /\ silent[m] = 0
      BY DEF Init, PlainMods
    <3>2. /\ mod[m].executions = 0 /\ mod[m].every = Every(m, interval, sleep)
          /\ mod[m].timestamp = 0 /\ mod[m].front = NoData
      BY <3>1 DEF New
    <3>3. mod[m].every \in Nat \ {0} /\ run_time \in Nat /\ Patience(m) \in Nat
      BY <2>1, Numbers
    <3>4. Rest(m) = 0
      BY <3>2 DEF Rest
    <3> QED
      BY <3>1, <3>2, <3>3, <3>4 DEF Patient, Quiet
  <2> QED
    BY <2>1, <2>2, <2>3 DEF StarveInv
<1>2. Inv /\ [Next]_vars => Inv'
  BY TypeStep, ClockStep, StarveStep
<1>3. Inv => NeverStarved
  BY DEF StarveInv, NeverStarved, Patient, Patience
<1> QED
  BY <1>1, <1>2, <1>3, PTL DEF Spec

----------------------------------------------------------------------------
(* TailModules                                                             *)


Fates == {"absent", "new", "gone", "skipped", "parts", "dropped", "sent"}

\* What can have become of a record that is there.
Held == Fates \ {"absent", "gone"}

\* The types in three parts: what is true or false, what has been counted, and what
\* is kept of the records.
Flags ==
    /\ no_seek_eof \in BOOLEAN /\ opened \in BOOLEAN /\ first_run \in BOOLEAN
    /\ missed \in BOOLEAN /\ disturbed \in BOOLEAN

Places ==
    /\ kind \in {"logevent", "regexp"}
    /\ tail_pc \in {"idle", "open", "stat", "restart", "read", "decide", "loop"}
    /\ gen \in 0 .. MaxGen
    /\ len \in 0 .. MaxLen
    /\ unwritten \in 0 .. 1 /\ unwritten <= len
    /\ pos \in 0 .. MaxLen
    /\ posGen \in 0 .. MaxGen
    /\ unread \in 0 .. 1
    /\ size \in 0 .. 2 * MaxLen
    /\ fails \in 0 .. MaxFails
    /\ rebuilds \in 0 .. MaxRebuilds
    /\ sizeGen \in 0 .. MaxGen

Marks ==
    /\ batch \subseteq Records /\ twice \subseteq Records /\ split \subseteq Records
    /\ fate \in [Records -> Fates]

\* They are the types.
LEMMA TypeParts == TailTypeOK <=> Flags /\ Places /\ Marks
BY DEF TailTypeOK, Flags, Places, Marks, Fates

\* Every step keeps what is true or false so.
LEMMA FlagsStep ==
  ASSUME Flags, [TailNext]_tailVars
  PROVE  Flags'
<1> USE DEF Flags
<1>1. CASE Append \/ EndLine \/ Empty
  BY <1>1, Zenon DEF Append, EndLine, Empty, objectVars, historyVars
<1>2. CASE Run \/ ReadNothing \/ ReadError \/ Decide
  BY <1>2, Zenon DEF Run, ReadNothing, ReadError, Decide, objectVars, historyVars
<1>3. CASE Open
  BY <1>3, Zenon DEF Open, OpenLog, OpenFile, OpenAt
<1>4. CASE Stat
  BY <1>4, Zenon DEF Stat, Sees
<1>5. CASE Restart
  BY <1>5, Zenon DEF Restart, OpenAt
<1>6. CASE ReadLog
  BY <1>6, Zenon DEF ReadLog, historyVars
<1>7. CASE CloseLog
  BY <1>7, Zenon DEF CloseLog
<1>8. CASE ReadLines
  BY <1>8, Zenon DEF ReadLines
<1>9. CASE Rebuild
  BY <1>9, Zenon DEF Rebuild, historyVars
<1>10. CASE UNCHANGED tailVars
  BY <1>10, Zenon DEF tailVars, objectVars, historyVars
<1> QED
  BY <1>1, <1>2, <1>3, <1>4, <1>5, <1>6, <1>7, <1>8, <1>9, <1>10, Zenon
     DEF TailNext, Reader, Loop

\* Opening the source leaves the position in it.
LEMMA OpenEffect ==
  ASSUME Open, TailTypeOK
  PROVE  \/ /\ opened' = opened /\ pos' = pos /\ posGen' = posGen /\ unread' = unread
            /\ fate' = fate
            /\ \/ first_run' = first_run
               \/ disturbed'
            /\ disturbed => disturbed'
         \/ /\ ~opened
            /\ \E k \in 0 .. len :
                  /\ OpenAt(k)
                  /\ disturbed => disturbed'
                  /\ \/ k = len
                     \/ kind = "logevent" /\ disturbed'
                     \/ kind = "logevent" /\ k = 0 /\ (~first_run \/ Debug)
                     \/ kind = "regexp" /\ no_seek_eof
<1>1. len \in Nat /\ 0 \in 0 .. len /\ len \in 0 .. len
  BY DEF TailTypeOK
<1>2. CASE opened /\ UNCHANGED <<opened, pos, posGen, unread, first_run, fate, fails, disturbed>>
  BY <1>2, Zenon
<1>3. CASE ~opened /\ kind = "logevent" /\ OpenLog
  <2>1. ASSUME NEW k \in 0 .. len, ReadsTo(k), OpenAt(k), disturbed' = (disturbed \/ k < len)
        PROVE  (disturbed => disturbed') /\ (k = len \/ disturbed')
    BY <2>1 DEF ReadsTo
  <2> QED
    BY <1>1, <1>3, <2>1, Zenon DEF OpenLog
<1>4. CASE ~opened /\ kind = "regexp" /\ OpenFile
  BY <1>1, <1>4, Zenon DEF OpenFile
<1>5. CASE ~opened /\ UNCHANGED <<opened, pos, posGen, unread, first_run, fate, disturbed>>
  BY <1>5, Zenon
<1> QED
  BY <1>2, <1>3, <1>4, <1>5, Zenon DEF Open

\* Every step keeps the counts within their bounds.
LEMMA PlacesStep ==
  ASSUME TailTypeOK, [TailNext]_tailVars
  PROVE  Places'
<1>0. Places /\ MaxLen \in Nat /\ MaxGen \in Nat /\ MaxFails \in Nat /\ MaxRebuilds \in Nat
  BY TypeParts, TailModulesAssumption
<1> USE DEF Places
<1>1. CASE Append
  BY <1>0, <1>1 DEF Append, objectVars, boundVars
<1>2. CASE EndLine \/ Empty
  BY <1>0, <1>2 DEF EndLine, Empty, objectVars, boundVars, historyVars
<1>3. CASE Run \/ ReadNothing \/ Decide
  BY <1>0, <1>3 DEF Run, ReadNothing, Decide, sourceVars, objectVars, boundVars, historyVars
<1>4. CASE ReadError
  BY <1>0, <1>4 DEF ReadError, Failure, sourceVars, objectVars, historyVars
<1>5. CASE Open
  <2>1. pos' \in 0 .. MaxLen /\ posGen' \in 0 .. MaxGen /\ unread' \in 0 .. 1
    <3>1. CASE pos' = pos /\ posGen' = posGen /\ unread' = unread
      BY <1>0, <3>1
    <3>2. ASSUME NEW k \in 0 .. len, OpenAt(k) 
          PROVE  pos' \in 0 .. MaxLen /\ posGen' \in 0 .. MaxGen /\ unread' \in 0 .. 1
      BY <1>0, <3>2 DEF OpenAt
    <3> QED
      BY <1>5, <3>1, <3>2, OpenEffect
  <2>2. fails' \in 0 .. MaxFails
    <3>1. fails' = fails \/ Failure
      BY <1>5, Zenon DEF Open, OpenLog, OpenFile, ReadsTo
    <3> QED
      BY <1>0, <3>1 DEF Failure
  <2>3. tail_pc' \in {"stat", "read"}
    BY <1>5 DEF Open
  <2>4. UNCHANGED <<kind, gen, len, unwritten, size, rebuilds, sizeGen>>
    BY <1>5 DEF Open, sourceVars
  <2> QED
    BY <1>0, <2>1, <2>2, <2>3, <2>4
<1>6. CASE Stat
  BY <1>0, <1>6 DEF Stat, Sees, Size, Failure, sourceVars
<1>7. CASE Restart
  BY <1>0, <1>7 DEF Restart, OpenAt, Failure, sourceVars
<1>8. CASE ReadLog
  BY <1>0, <1>8 DEF ReadLog, ReadsTo, Failure, sourceVars, historyVars
<1>9. CASE CloseLog
  BY <1>0, <1>9 DEF CloseLog, Failure, sourceVars
<1>10. CASE ReadLines
  BY <1>0, <1>10 DEF ReadLines, sourceVars, boundVars
<1>11. CASE Rebuild
  BY <1>0, <1>11 DEF Rebuild, sourceVars, historyVars
<1>12. CASE UNCHANGED tailVars
  BY <1>0, <1>12 DEF tailVars, sourceVars, objectVars, boundVars, historyVars
<1> QED
  BY <1>1, <1>2, <1>3, <1>4, <1>5, <1>6, <1>7, <1>8, <1>9, <1>10, <1>11, <1>12
     DEF TailNext, Reader, Loop

\* Marking records keeps their marks in order.
LEMMA BecomesType ==
  ASSUME fate \in [Records -> Fates], NEW R, NEW s, NEW t \in Fates
  PROVE  /\ Becomes(R, s, t) \in [Records -> Fates]
         /\ \A r \in Records :
              Becomes(R, s, t)[r] = IF r \in R /\ fate[r] = s THEN t ELSE fate[r]
BY DEF Becomes

\* Every step keeps the records and their marks.
LEMMA MarksStep ==
  ASSUME TailTypeOK, [TailNext]_tailVars
  PROVE  Marks'
<1>0. /\ Marks /\ gen \in 0 .. MaxGen /\ len \in 0 .. MaxLen /\ pos \in 0 .. MaxLen
      /\ MaxLen \in Nat
  BY TypeParts, TailModulesAssumption DEF Places
<1> USE DEF Marks
<1>1. CASE Append
  <2>1. <<gen, len + 1>> \in Records
    BY <1>0, <1>1 DEF Append, Records
  <2> QED
    BY <1>0, <1>1, <2>1 DEF Append, Fates
<1>2. CASE Empty
  BY <1>0, <1>2, BecomesType DEF Empty, Fates
<1>3. CASE EndLine \/ Run \/ ReadNothing \/ ReadError \/ Rebuild \/ UNCHANGED tailVars
  BY <1>0, <1>3 DEF EndLine, Run, ReadNothing, ReadError, Rebuild, tailVars, historyVars
<1>4. ASSUME NEW k, OpenAt(k) PROVE fate' \in [Records -> Fates]
  BY <1>0, <1>4, BecomesType DEF OpenAt, Fates
<1>5. CASE Open
  <2>1. fate' = fate \/ \E k \in 0 .. len : OpenAt(k)
    BY <1>5, OpenEffect
  <2> QED
    BY <1>0, <1>4, <1>5, <2>1 DEF Open
<1>6. CASE Stat
  BY <1>0, <1>6 DEF Stat, Sees
<1>7. CASE Restart
  BY <1>0, <1>4, <1>7 DEF Restart
<1>8. CASE ReadLog
  <2>1. PICK k \in pos .. len : batch' = {gen} \X (pos + 1 .. k)
    BY <1>8 DEF ReadLog
  <2>2. batch' \subseteq Records
    BY <1>0, <2>1 DEF Records
  <2> QED
    BY <1>0, <1>8, <2>2 DEF ReadLog, historyVars
<1>9. CASE CloseLog
  BY <1>0, <1>9 DEF CloseLog
<1>10. CASE ReadLines
  <2>1. Parts \subseteq Records /\ ({gen} \X (pos + 1 .. len)) \ Parts \subseteq Records
    BY <1>0 DEF Parts, Now, Records
  <2>2. batch' \subseteq Records /\ split' \subseteq Records /\ twice' \subseteq Records
    BY <1>0, <1>10, <2>1 DEF ReadLines
  <2>3. fate' \in [Records -> Fates]
    BY <1>0, <1>10, BecomesType DEF ReadLines, Fates
  <2> QED
    BY <2>2, <2>3
<1>11. CASE Decide
  <2>1. fate' \in [Records -> Fates]
    <3>1. CASE fate' = [r \in Records |-> IF r \in batch THEN "sent" ELSE fate[r]]
      BY <1>0, <3>1 DEF Fates
    <3>2. CASE fate' = Becomes(batch, "new", "dropped")
      BY <1>0, <3>2, BecomesType DEF Fates
    <3> QED
      BY <1>11, <3>1, <3>2 DEF Decide
  <2>2. batch' = {} /\ split' = split /\ twice' \subseteq twice \cup batch
    BY <1>11, Zenon DEF Decide
  <2> QED
    BY <1>0, <2>1, <2>2
<1> QED
  BY <1>1, <1>2, <1>3, <1>5, <1>6, <1>7, <1>8, <1>9, <1>10, <1>11 DEF TailNext, Reader, Loop

\* Every step keeps the types.
LEMMA TailTypeStep ==
  ASSUME TailTypeOK, [TailNext]_tailVars
  PROVE  TailTypeOK'
<1>1. Flags' /\ Places' /\ Marks'
  BY TypeParts, FlagsStep, PlacesStep, MarksStep
<1>2. (TailTypeOK <=> Flags /\ Places /\ Marks)'
  BY DEF TailTypeOK, Flags, Places, Marks, Fates
<1> QED
  BY <1>1, <1>2

\* The initial state has the types.
LEMMA TailTypeInit == TailInit => TailTypeOK
<1> SUFFICES ASSUME TailInit PROVE Flags /\ Places /\ Marks
  BY TypeParts
<1>1. Flags
  BY DEF TailInit, Flags
<1>2. Places
  BY TailModulesAssumption DEF TailInit, Places
<1>3. Marks
  BY DEF TailInit, Marks, Fates
<1> QED
  BY <1>1, <1>2, <1>3

\* What has been read and not dropped, and whether any of it is of the present
\* contents of the source, or behind its n-th record.
Taken == batch \cup {r \in Records : fate[r] = "sent"}

Untaken == \A r \in Taken : r[1] # gen

Before(n) == \A r \in Taken : r[1] = gen => r[2] <= n

\* Positions and sizes are right for the contents they belong to, and what was read
\* lies before the position.
SourceInv ==
    /\ \A r \in Taken : r[1] <= gen /\ (r[1] = gen => r[2] <= len)
    /\ posGen <= gen /\ sizeGen <= gen
    /\ posGen = gen => pos <= len
    /\ sizeGen = gen => size <= Size
    /\ tail_pc # "decide" => batch = {}
    /\ tail_pc \in {"stat", "restart"} => kind = "regexp"
    /\ \A r \in batch : r[1] = posGen /\ r[2] <= pos
    /\ \A i \in 1 .. len : fate[<<gen, i>>] \in Held

\* The types that the argument needs, without the flags.
LEMMA Sorts ==
  ASSUME TailTypeOK
  PROVE  /\ fate \in [Records -> Fates] /\ batch \subseteq Records
         /\ gen \in Nat /\ len \in Nat /\ pos \in Nat /\ posGen \in Nat /\ size \in Nat
         /\ sizeGen \in Nat /\ unwritten \in 0 .. 1 /\ unwritten <= len /\ unread \in 0 .. 1
         /\ \A i \in 1 .. len : <<gen, i>> \in Records
         /\ \A r \in Records : r[1] \in Nat /\ r[2] \in Nat \ {0} /\ r = <<r[1], r[2]>>
<1>1. /\ fate \in [Records -> Fates] /\ batch \subseteq Records
      /\ gen \in 0 .. MaxGen /\ len \in 0 .. MaxLen /\ pos \in 0 .. MaxLen
      /\ posGen \in 0 .. MaxGen /\ size \in 0 .. 2 * MaxLen /\ sizeGen \in 0 .. MaxGen
      /\ unwritten \in 0 .. 1 /\ unwritten <= len /\ unread \in 0 .. 1
      /\ MaxLen \in Nat /\ MaxGen \in Nat
  BY TypeParts, TailModulesAssumption DEF Marks, Places
<1> QED
  BY <1>1 DEF Records

\* No step but a read adds to what has been taken.
LEMMA TakenKept ==
  ASSUME TailTypeOK
  PROVE  /\ Append \/ Empty \/ Decide => Taken' \subseteq Taken
         /\ \A k : OpenAt(k) /\ batch' = batch => Taken' \subseteq Taken
         /\ UNCHANGED <<batch, fate>> => Taken' = Taken
<1>0. fate \in [Records -> Fates] /\ batch \subseteq Records /\ len \in Nat
  BY Sorts
<1>1. CASE Append
  BY <1>0, <1>1 DEF Append, Taken
<1>2. CASE Empty
  BY <1>0, <1>2, BecomesType DEF Empty, Taken, Fates
<1>3. ASSUME NEW k, OpenAt(k), batch' = batch PROVE Taken' \subseteq Taken
  BY <1>0, <1>3, BecomesType DEF OpenAt, Taken, Fates
<1>4. CASE Decide
  <2>1. CASE fate' = [r \in Records |-> IF r \in batch THEN "sent" ELSE fate[r]]
    BY <1>0, <1>4, <2>1 DEF Decide, Taken
  <2>2. CASE fate' = Becomes(batch, "new", "dropped")
    BY <1>0, <1>4, <2>2, BecomesType DEF Decide, Taken, Fates
  <2> QED
    BY <1>4, <2>1, <2>2 DEF Decide
<1> QED
  BY <1>1, <1>2, <1>3, <1>4 DEF Taken

\* A step that does not touch the source and takes nothing.
LEMMA SourceKept ==
  ASSUME TailTypeOK, SourceInv, gen' = gen, len' = len, unwritten' = unwritten,
         kind' = kind, Taken' \subseteq Taken,
         \A i \in 1 .. len : fate'[<<gen, i>>] \in Held,
         \/ pos' = pos /\ posGen' = posGen
         \/ pos' \in 0 .. len /\ posGen' = gen,
         \/ size' = size /\ sizeGen' = sizeGen
         \/ size' = Size /\ sizeGen' = gen
         \/ size' = 0 /\ sizeGen' = sizeGen,
         batch' = {} \/ (batch' = batch /\ pos' = pos /\ posGen' = posGen /\ tail_pc' = tail_pc),
         tail_pc' \in {"stat", "restart"} => kind = "regexp"
  PROVE  SourceInv'
<1>0. /\ gen \in Nat /\ len \in Nat /\ pos \in Nat /\ posGen \in Nat /\ size \in Nat
      /\ sizeGen \in Nat /\ unwritten \in 0 .. 1 /\ unwritten <= len
  BY Sorts
<1>1. /\ posGen' <= gen' /\ sizeGen' <= gen'
      /\ posGen' = gen' => pos' <= len'
      /\ sizeGen' = gen' => size' <= Size'
  BY <1>0 DEF SourceInv, Size
<1>2. \A r \in Taken' : r[1] <= gen' /\ (r[1] = gen' => r[2] <= len')
  BY DEF SourceInv
<1>3. /\ tail_pc' # "decide" => batch' = {}
      /\ \A r \in batch' : r[1] = posGen' /\ r[2] <= pos'
  BY DEF SourceInv
<1> QED
  BY <1>1, <1>2, <1>3 DEF SourceInv

\* The marks of the records that are there, when the source is opened.
LEMMA OpenAtMarks ==
  ASSUME TailTypeOK, SourceInv, NEW k \in 0 .. len, OpenAt(k)
  PROVE  /\ \A i \in 1 .. len : fate'[<<gen, i>>] \in Held
         /\ \A i \in 1 .. k : fate'[<<gen, i>>] \in {"skipped", "parts", "dropped", "sent"}
         /\ opened' /\ pos' = k /\ posGen' = gen
<1>0. /\ fate \in [Records -> Fates] /\ len \in Nat
      /\ \A i \in 1 .. len : <<gen, i>> \in Records
  BY Sorts
<1>1. \A i \in 1 .. len :
        fate'[<<gen, i>>] = IF <<gen, i>> \in {gen} \X (1 .. k) /\ fate[<<gen, i>>] = "new"
                              THEN "skipped" ELSE fate[<<gen, i>>]
  BY <1>0, BecomesType DEF OpenAt, Fates
<1>2. \A i \in 1 .. len : fate[<<gen, i>>] \in Held
  BY DEF SourceInv
<1>3. \A i \in 1 .. k : i \in 1 .. len /\ <<gen, i>> \in {gen} \X (1 .. k)
  BY <1>0
<1> QED
  BY <1>1, <1>2, <1>3 DEF OpenAt, Held, Fates

\* What a regexp module reads: lines of the present contents, those behind the position
\* and perhaps the one in the middle of which it is; nothing if nothing is behind it.
LEMMA LinesRead ==
  ASSUME TailTypeOK, ReadLines
  PROVE  /\ \A r \in batch' : /\ r[1] = gen /\ r[2] \in 1 .. len
                              /\ r[2] > pos \/ r \in split'
         /\ \A i \in pos + 1 .. len : <<gen, i>> \in batch' \/ <<gen, i>> \in Parts
         /\ split \subseteq split'
         /\ \/ Beyond /\ pos' = len /\ posGen' = gen
            \/ ~Beyond /\ UNCHANGED <<pos, posGen>> /\ batch' = {} /\ len <= pos
<1>0. /\ len \in Nat /\ pos \in Nat /\ unwritten \in 0 .. 1 /\ unread \in 0 .. 1
  BY Sorts
<1>1. PICK matching \in SUBSET Parts :
        batch' = (({gen} \X (pos + 1 .. len)) \ Parts) \cup matching
  BY DEF ReadLines
<1>2. /\ split' = split \cup Parts
      /\ pos' = IF Beyond THEN len ELSE pos
      /\ posGen' = IF Beyond THEN gen ELSE posGen
  BY DEF ReadLines
<1>3. \A r \in Parts : r[1] = gen /\ r[2] \in 1 .. len /\ Beyond
  BY DEF Parts, Now
<1>4. ~Beyond => len <= pos
  BY <1>0 DEF Beyond, Size, Offset
<1>5. ~Beyond => batch' = {}
  BY <1>0, <1>1, <1>3, <1>4
<1> QED
  BY <1>0, <1>1, <1>2, <1>3, <1>4, <1>5

\* A line more makes a file longer.
LEMMA Longer ==
  \A n \in Nat : \A u \in 0 .. 1 :
     2 * n - 0 <= 2 * (n + 1) - u /\ 2 * n - 0 \in Int /\ 2 * (n + 1) - u \in Int
OBVIOUS

\* Every step keeps positions and sizes right.
LEMMA SourceStep ==
  ASSUME TailTypeOK, SourceInv, [TailNext]_tailVars
  PROVE  SourceInv'
<1>0. /\ fate \in [Records -> Fates] /\ batch \subseteq Records
      /\ gen \in Nat /\ len \in Nat /\ pos \in Nat /\ posGen \in Nat /\ size \in Nat
      /\ sizeGen \in Nat /\ unwritten \in 0 .. 1 /\ unwritten <= len
      /\ \A i \in 1 .. len : <<gen, i>> \in Records
  BY Sorts
<1>m. \A i \in 1 .. len : fate[<<gen, i>>] \in Held
  BY DEF SourceInv
<1>1. CASE Append
  <2>1. /\ len' = len + 1 /\ unwritten = 0 /\ unwritten' \in 0 .. 1
        /\ fate' = [fate EXCEPT ![<<gen, len + 1>>] = "new"]
        /\ UNCHANGED <<kind, gen, pos, posGen, size, tail_pc, batch, sizeGen>>
    BY <1>1 DEF Append, objectVars
  <2>2. \A r \in Taken' : r[1] <= gen' /\ (r[1] = gen' => r[2] <= len')
    <3>1. \A r \in Taken : r \in Records /\ r[2] \in Nat
      BY <1>0, Sorts DEF Taken
    <3> QED
      BY <1>0, <1>1, <2>1, <3>1, TakenKept DEF SourceInv
  <2>3. \A i \in 1 .. len' : fate'[<<gen', i>>] \in Held
    <3>1. <<gen, len + 1>> \in Records
      BY <1>1, TailModulesAssumption DEF Append, Records, TailTypeOK
    <3> QED
      BY <1>0, <1>m, <2>1, <3>1 DEF Held, Fates
  <2>4. /\ posGen' <= gen' /\ sizeGen' <= gen'
        /\ posGen' = gen' => pos' <= len'
        /\ sizeGen' = gen' => size' <= Size'
    <3>1. /\ len' = len + 1 /\ unwritten = 0 /\ unwritten' \in 0 .. 1
          /\ UNCHANGED <<gen, pos, posGen, size, sizeGen>>
      BY <2>1
    <3>2. /\ posGen <= gen /\ sizeGen <= gen
          /\ posGen = gen => pos <= len
          /\ sizeGen = gen => size <= Size
      BY DEF SourceInv
    <3>3. /\ gen \in Nat /\ len \in Nat /\ pos \in Nat /\ posGen \in Nat /\ size \in Nat
          /\ sizeGen \in Nat
      BY <1>0
    <3>4. Size <= Size' /\ Size \in Int /\ Size' \in Int
      BY <3>1, <3>3, Longer, Zenon DEF Size
    <3> QED
      BY <3>1, <3>2, <3>3, <3>4
  <2>5. UNCHANGED <<kind, posGen, pos, tail_pc, batch>>
    BY <2>1
  <2> QED
    BY <2>2, <2>3, <2>4, <2>5, Zenon DEF SourceInv
<1>2. CASE Empty
  <2>1. /\ gen' = gen + 1 /\ len' = 0
        /\ UNCHANGED <<kind, pos, posGen, size, tail_pc, batch, sizeGen>>
    BY <1>2 DEF Empty, objectVars
  <2>2. \A r \in Taken' : r[1] <= gen' /\ r[1] # gen'
    <3>1. \A r \in Taken : r[1] \in Nat
      BY <1>0, Sorts DEF Taken
    <3> QED
      BY <1>0, <1>2, <2>1, <3>1, TakenKept DEF SourceInv
  <2> QED
    BY <1>0, <2>1, <2>2 DEF SourceInv
<1>3. CASE Run \/ ReadNothing \/ ReadError \/ CloseLog
  <2>1. /\ UNCHANGED <<kind, gen, len, unwritten, pos, posGen, size, sizeGen, batch, fate>>
        /\ batch = {} /\ tail_pc' \notin {"stat", "restart"}
    BY <1>3 DEF Run, ReadNothing, ReadError, CloseLog, sourceVars, objectVars, historyVars,
                SourceInv
  <2>2. Taken' \subseteq Taken
    BY <2>1, TakenKept
  <2> QED
    BY <1>m, <2>1, <2>2, SourceKept
<1>4. CASE Rebuild
  <2>1. /\ UNCHANGED <<kind, gen, len, unwritten, sizeGen, batch, fate, tail_pc>>
        /\ batch = {} /\ tail_pc = "idle" /\ pos' = 0 /\ posGen' = gen /\ size' = 0
    BY <1>4 DEF Rebuild, sourceVars, historyVars, SourceInv
  <2>2. pos' \in 0 .. len
    BY <1>0, <2>1
  <2>3. Taken' \subseteq Taken
    BY <2>1, TakenKept
  <2> QED
    BY <1>m, <2>1, <2>2, <2>3, SourceKept
<1>5. CASE Open
  <2>1. /\ UNCHANGED <<kind, gen, len, unwritten, size, sizeGen, batch>> /\ batch = {}
        /\ tail_pc' \in {"stat", "restart"} => kind = "regexp"
    BY <1>5 DEF Open, sourceVars, SourceInv
  <2>2. CASE pos' = pos /\ posGen' = posGen /\ fate' = fate
    <3>1. Taken' \subseteq Taken
      BY <2>1, <2>2, TakenKept
    <3> QED
      BY <1>m, <2>1, <2>2, <3>1, SourceKept
  <2>3. ASSUME NEW k \in 0 .. len, OpenAt(k) PROVE SourceInv'
    <3>1. Taken' \subseteq Taken
      BY <2>1, <2>3, TakenKept
    <3>2. /\ \A i \in 1 .. len : fate'[<<gen, i>>] \in Held
          /\ pos' = k /\ posGen' = gen
      BY <2>3, OpenAtMarks
    <3> QED
      BY <2>1, <2>3, <3>1, <3>2, SourceKept
  <2> QED
    BY <1>5, <2>2, <2>3, OpenEffect
<1>6. CASE Stat
  <2>1. /\ UNCHANGED <<kind, gen, len, unwritten, pos, posGen, batch, fate>>
        /\ batch = {} /\ kind = "regexp"
        /\ \/ UNCHANGED <<size, sizeGen>>
           \/ size' = Size /\ sizeGen' = gen
    BY <1>6 DEF Stat, Sees, sourceVars, SourceInv
  <2>2. Taken' \subseteq Taken
    BY <2>1, TakenKept
  <2> QED
    BY <1>m, <2>1, <2>2, SourceKept
<1>7. CASE Restart
  <2>1. /\ UNCHANGED <<kind, gen, len, unwritten, size, sizeGen, batch>> /\ batch = {}
        /\ tail_pc' = "read" /\ 0 \in 0 .. len
    BY <1>0, <1>7 DEF Restart, sourceVars, SourceInv
  <2>2. CASE UNCHANGED <<pos, posGen, fate>>
    <3>1. Taken' \subseteq Taken
      BY <2>1, <2>2, TakenKept
    <3> QED
      BY <1>m, <2>1, <2>2, <3>1, SourceKept
  <2>3. CASE OpenAt(0)
    <3>1. Taken' \subseteq Taken
      BY <2>1, <2>3, TakenKept
    <3>2. /\ \A i \in 1 .. len : fate'[<<gen, i>>] \in Held
          /\ pos' = 0 /\ posGen' = gen
      BY <2>1, <2>3, OpenAtMarks
    <3> QED
      BY <2>1, <3>1, <3>2, SourceKept
  <2> QED
    BY <1>7, <2>2, <2>3 DEF Restart
<1>8. ASSUME NEW k \in Nat, k <= len, tail_pc' = "decide",
             UNCHANGED <<kind, gen, len, unwritten, size, sizeGen>>,
             Taken' \subseteq Taken \cup batch',
             \A i \in 1 .. len : fate'[<<gen, i>>] \in Held,
             \A r \in batch' : r[1] = gen /\ r[2] <= k,
             \/ pos' = k /\ posGen' = gen
             \/ UNCHANGED <<pos, posGen>> /\ batch' = {}
      PROVE  SourceInv'
  <2>1. \A r \in Taken' : r[1] <= gen' /\ (r[1] = gen' => r[2] <= len')
    <3>1. ASSUME NEW r \in batch', r \in Records PROVE r[1] <= gen /\ r[2] <= len
      BY <1>0, <1>8, <3>1, Sorts
    <3>2. ASSUME NEW r \in batch', r \notin Records PROVE r[1] <= gen /\ r[2] <= len
      BY <1>8, <3>2, MarksStep DEF Marks
    <3> QED
      BY <1>8, <3>1, <3>2 DEF SourceInv
  <2>2. \A r \in batch' : r[1] = posGen' /\ r[2] <= pos'
    BY <1>0, <1>8
  <2>3. /\ posGen' <= gen' /\ sizeGen' <= gen'
        /\ posGen' = gen' => pos' <= len'
        /\ sizeGen' = gen' => size' <= Size'
    BY <1>0, <1>8 DEF SourceInv, Size
  <2> QED
    BY <1>8, <2>1, <2>2, <2>3 DEF SourceInv
<1>9. CASE ReadLog
  <2>1. PICK k \in pos .. len : batch' = {gen} \X (pos + 1 .. k) /\ pos' = k
    BY <1>9 DEF ReadLog
  <2>2. /\ tail_pc' = "decide" /\ posGen = gen /\ posGen' = posGen
        /\ UNCHANGED <<kind, gen, len, unwritten, size, sizeGen, fate>>
    BY <1>9 DEF ReadLog, sourceVars, historyVars
  <2>3. k \in Nat /\ k <= len /\ \A r \in batch' : r[1] = gen /\ r[2] <= k
    BY <1>0, <2>1
  <2>4. Taken' \subseteq Taken \cup batch'
    BY <2>2 DEF Taken
  <2> QED
    BY <1>8, <1>m, <2>1, <2>2, <2>3, <2>4
<1>10. CASE ReadLines
  <2>1. /\ tail_pc' = "decide"
        /\ UNCHANGED <<kind, gen, len, unwritten, size, sizeGen>>
        /\ fate' = Becomes(Parts, "new", "parts")
    BY <1>10 DEF ReadLines, sourceVars
  <2>2. Taken' \subseteq Taken \cup batch'
    BY <1>0, <2>1, BecomesType DEF Taken, Fates
  <2>3. \A i \in 1 .. len : fate'[<<gen, i>>] \in Held
    BY <1>0, <1>m, <2>1, BecomesType DEF Held, Fates
  <2>4. \A r \in batch' : r[1] = gen /\ r[2] <= len
    BY <1>0, <1>10, LinesRead
  <2>5. \/ pos' = len /\ posGen' = gen
        \/ UNCHANGED <<pos, posGen>> /\ batch' = {}
    BY <1>10, LinesRead
  <2> QED
    BY <1>0, <1>8, <2>1, <2>2, <2>3, <2>4, <2>5
<1>11. CASE Decide
  <2>1. /\ UNCHANGED <<kind, gen, len, unwritten, pos, posGen, size, sizeGen>>
        /\ batch' = {} /\ tail_pc' = "idle"
    BY <1>11 DEF Decide, sourceVars, objectVars
  <2>2. \A i \in 1 .. len : fate'[<<gen, i>>] \in Held
    <3>1. CASE fate' = [r \in Records |-> IF r \in batch THEN "sent" ELSE fate[r]]
      BY <1>0, <1>m, <3>1 DEF Held, Fates
    <3>2. CASE fate' = Becomes(batch, "new", "dropped")
      BY <1>0, <1>m, <3>2, BecomesType DEF Held, Fates
    <3> QED
      BY <1>11, <3>1, <3>2 DEF Decide
  <2> QED
    <3>1. Taken' \subseteq Taken
      BY <1>11, TakenKept
    <3> QED
      BY <2>1, <2>2, <3>1, SourceKept
<1>12. CASE UNCHANGED tailVars
  <2>1. UNCHANGED <<kind, gen, len, unwritten, pos, posGen, size, sizeGen, batch, fate, tail_pc>>
    BY <1>12 DEF tailVars, sourceVars, objectVars, historyVars
  <2>2. tail_pc' \in {"stat", "restart"} => kind = "regexp"
    BY <2>1 DEF SourceInv
  <2>3. Taken' \subseteq Taken
    BY <2>1, TakenKept
  <2> QED
    BY <1>m, <2>1, <2>2, <2>3, SourceKept
<1>13. CASE EndLine
  <2>1. /\ UNCHANGED <<kind, gen, len, pos, posGen, size, sizeGen, batch, fate, tail_pc>>
        /\ unwritten = 1 /\ unwritten' = 0
    BY <1>13 DEF EndLine, objectVars, historyVars
  <2>2. Size <= Size'
    BY <1>0, <2>1 DEF Size
  <2>3. Taken' \subseteq Taken
    BY <2>1, TakenKept
  <2> QED
    BY <1>0, <2>1, <2>2, <2>3 DEF SourceInv, Size
<1> QED
  BY <1>1, <1>2, <1>3, <1>4, <1>5, <1>6, <1>7, <1>9, <1>10, <1>11, <1>12, <1>13
     DEF TailNext, Reader, Loop

\* Nothing has happened after which records may come again.
Undisturbed ==
    ~no_seek_eof /\ (kind = "logevent" => ~Debug) /\ ~disturbed /\ ~missed

\* NoDuplicates is not inductive.  What has been taken of the present contents lies
\* before the position; if the position belongs to older contents, if a log is to be
\* opened again at its beginning, or if the size of a file was last looked at before
\* it was emptied, nothing of them has been taken.
Clean ==
    /\ twice \subseteq split
    /\ \A r \in batch : fate[r] # "sent" \/ r \in split
    /\ opened /\ posGen = gen => Before(pos)
    /\ opened /\ posGen # gen => Untaken
    /\ kind = "logevent" /\ ~opened /\ ~first_run => Untaken
    /\ kind = "regexp" /\ sizeGen # gen => Untaken
    /\ tail_pc = "restart" => Untaken

OnceInv == Undisturbed => Clean

\* What disturbs the reader stays.
LEMMA StaysDisturbed ==
  ASSUME TailTypeOK, [TailNext]_tailVars, Undisturbed'
  PROVE  /\ Undisturbed /\ no_seek_eof' = no_seek_eof /\ kind' = kind
         /\ ~no_seek_eof /\ ~missed' /\ ~disturbed'
<1>1. UNCHANGED <<no_seek_eof, kind>>
  BY DEF TailNext, Reader, Append, EndLine, Empty, Run, Open, Stat, Sees, Restart, ReadNothing, ReadLog,
         CloseLog, ReadLines, ReadError, Loop, Decide, Rebuild, tailVars
<1>2. missed => missed'
  BY Zenon
     DEF TailNext, Reader, Append, EndLine, Empty, Run, Open, Stat, Sees, Restart, ReadNothing, ReadLog,
         CloseLog, ReadLines, ReadError, Loop, Decide, Rebuild, tailVars, historyVars
<1>3. disturbed => disturbed'
  <2>1. CASE Open
    BY <2>1, OpenEffect, Zenon
  <2>2. CASE Append \/ EndLine \/ Empty \/ Run \/ Stat \/ Restart \/ ReadNothing \/ ReadLog
             \/ CloseLog \/ ReadLines \/ ReadError \/ Decide \/ Rebuild \/ UNCHANGED tailVars
    BY <2>2, Zenon
       DEF Append, EndLine, Empty, Run, Stat, Sees, Restart, ReadNothing, ReadLog, CloseLog, ReadLines,
           ReadError, Decide, Rebuild, tailVars, historyVars
  <2> QED
    BY <2>1, <2>2, Zenon DEF TailNext, Reader, Loop
<1> QED
  BY <1>1, <1>2, <1>3, Zenon DEF Undisturbed

\* What was not taken is not taken by a step that takes nothing.
LEMMA UntakenKept ==
  ASSUME gen' = gen, Taken' \subseteq Taken
  PROVE  /\ Untaken => Untaken'
         /\ pos' = pos => (Before(pos) => Before(pos)')
         /\ Untaken => Before(pos)'
BY DEF Untaken, Before

\* A step of the cycle that neither opens nor reads.
LEMMA CleanKept ==
  ASSUME Clean, twice' \subseteq split', split' = split, gen' = gen, kind' = kind, opened' = opened, pos' = pos,
         posGen' = posGen, first_run' = first_run, sizeGen' = sizeGen,
         Taken' \subseteq Taken,
         batch' = {} \/ (batch' = batch /\ fate' = fate),
         tail_pc' # "restart" \/ tail_pc' = tail_pc
  PROVE  Clean'
BY UntakenKept DEF Clean

\* A read from the position on, of nothing before it but parts of lines.
LEMMA CleanRead ==
  ASSUME TailTypeOK, SourceInv, Clean, opened, batch = {}, posGen = gen,
         NEW k \in Nat, pos <= k, pos' = k, posGen' = gen,
         batch' \subseteq Records, split \subseteq split', Taken' \subseteq Taken \cup batch',
         \A r \in batch' : r[1] = gen /\ r[2] <= k /\ (r[2] > pos \/ r \in split'),
         \A r \in Records : fate'[r] = "sent" => fate[r] = "sent",
         gen' = gen, kind' = kind, twice' = twice, tail_pc' = "decide", opened',
         kind = "regexp" => sizeGen' = gen
  PROVE  Clean'
<1>0. pos \in Nat /\ \A r \in Records : r[1] \in Nat /\ r[2] \in Nat
  BY Sorts
<1>1. \A r \in Taken : r \in Records /\ (r[1] = gen => r[2] <= pos)
  BY Sorts DEF Clean, Before, Taken
<1>2. \A r \in batch' : fate'[r] # "sent" \/ r \in split'
  <2> SUFFICES ASSUME NEW r \in batch', fate[r] = "sent", r[2] > pos PROVE FALSE
    OBVIOUS
  <2>1. r \in Taken /\ r[1] = gen /\ r[2] \in Nat
    BY <1>0 DEF Taken
  <2> QED
    BY <1>0, <1>1, <2>1
<1>3. Before(pos)'
  <2> SUFFICES ASSUME NEW r \in Taken', r[1] = gen PROVE r[2] <= k
    BY DEF Before
  <2>1. CASE r \in batch'
    BY <2>1
  <2>2. CASE r \in Taken
    BY <1>0, <1>1, <2>2
  <2> QED
    BY <2>1, <2>2
<1>4. twice' \subseteq split'
  BY DEF Clean
<1> QED
  BY <1>2, <1>3, <1>4 DEF Clean

\* Every step keeps the reader from taking a record twice.
LEMMA OnceStep ==
  ASSUME TailTypeOK, TailTypeOK', SourceInv, OnceInv, [TailNext]_tailVars
  PROVE  OnceInv'
<1> SUFFICES ASSUME Undisturbed' PROVE Clean'
  BY DEF OnceInv
<1>0. /\ fate \in [Records -> Fates] /\ batch \subseteq Records
      /\ gen \in Nat /\ len \in Nat /\ pos \in Nat /\ posGen \in Nat /\ size \in Nat
      /\ sizeGen \in Nat
      /\ \A r \in Records : r[1] \in Nat /\ r[2] \in Nat \ {0}
  BY Sorts
<1>u. /\ Undisturbed /\ kind' = kind /\ ~no_seek_eof /\ ~missed' /\ ~disturbed' /\ ~missed
  BY StaysDisturbed DEF Undisturbed
<1>c. Clean /\ twice \subseteq split
  BY <1>u DEF OnceInv, Clean
<1>b. batch' \subseteq Records /\ \A r \in Taken : r \in Records
  BY <1>0 DEF TailTypeOK, Taken
<1>1. CASE Append
  <2>1. /\ UNCHANGED <<gen, pos, posGen, opened, first_run, sizeGen, batch, tail_pc, twice, split>>
        /\ fate' = [fate EXCEPT ![<<gen, len + 1>>] = "new"]
        /\ Taken' \subseteq Taken
    BY <1>1, TakenKept DEF Append, objectVars
  <2>2. \A r \in batch' : fate'[r] # "sent" \/ r \in split'
    BY <1>0, <1>c, <2>1 DEF Clean
  <2> QED
    BY <1>c, <1>u, <2>1, <2>2, UntakenKept DEF Clean
<1>2. CASE Empty
  <2>1. /\ UNCHANGED <<pos, posGen, opened, first_run, sizeGen, batch, tail_pc, twice, split>>
        /\ gen' = gen + 1 /\ fate' = Becomes(Now, "new", "gone")
        /\ Taken' \subseteq Taken
    BY <1>2, TakenKept DEF Empty, objectVars
  <2>2. \A r \in batch' : fate'[r] # "sent" \/ r \in split'
    BY <1>0, <1>c, <2>1, BecomesType DEF Clean, Fates
  <2>3. Untaken'
    BY <1>0, <1>b, <2>1 DEF Untaken, SourceInv
  <2>4. posGen' # gen'
    BY <1>0, <2>1 DEF SourceInv
  <2> QED
    BY <1>c, <2>1, <2>2, <2>3, <2>4 DEF Clean
<1>3. CASE EndLine \/ Run \/ ReadNothing \/ ReadError
  <2>1. /\ UNCHANGED <<gen, pos, posGen, opened, first_run, sizeGen, batch, fate, twice, split>>
        /\ tail_pc' # "restart" \/ tail_pc' = tail_pc
    BY <1>3 DEF EndLine, Run, ReadNothing, ReadError, sourceVars, objectVars, historyVars
  <2>2. Taken' \subseteq Taken
    BY <2>1, TakenKept
  <2> QED
    BY <1>c, <1>u, <2>1, <2>2, CleanKept
<1>4. CASE Rebuild
  <2>1. /\ UNCHANGED <<gen, sizeGen, batch, fate, twice, split, tail_pc>>
        /\ ~opened' /\ first_run' /\ batch = {} /\ tail_pc = "idle"
    BY <1>4 DEF Rebuild, sourceVars, historyVars, SourceInv
  <2>2. Taken' \subseteq Taken
    BY <2>1, TakenKept
  <2> QED
    BY <1>c, <1>u, <2>1, <2>2, UntakenKept DEF Clean
<1>5. CASE Open
  <2>1. /\ UNCHANGED <<gen, sizeGen, batch, twice, split>> /\ batch = {} /\ tail_pc' # "restart"
    BY <1>5 DEF Open, sourceVars, SourceInv
  <2>2. CASE opened' = opened /\ pos' = pos /\ posGen' = posGen /\ fate' = fate
             /\ first_run' = first_run
    <3>1. Taken' \subseteq Taken
      BY <2>1, <2>2, TakenKept
    <3> QED
      BY <1>c, <1>u, <2>1, <2>2, <3>1, CleanKept
  <2>3. ASSUME NEW k \in 0 .. len, OpenAt(k), ~opened,
               \/ k = len
               \/ kind = "logevent" /\ k = 0 /\ ~first_run
        PROVE  Clean'
    <3>1. Taken' \subseteq Taken
      BY <2>1, <2>3, TakenKept
    <3>2. opened' /\ pos' = k /\ posGen' = gen
      BY <2>3 DEF OpenAt
    <3>3. Before(pos)'
      <4>1. CASE k = len
        BY <2>1, <3>1, <3>2, <4>1 DEF Before, SourceInv
      <4>2. CASE kind = "logevent" /\ ~first_run
        BY <1>c, <2>1, <2>3, <3>1, <4>2, UntakenKept DEF Clean
      <4> QED
        BY <2>3, <4>1, <4>2
    <3> QED
      BY <1>c, <1>u, <2>1, <3>1, <3>2, <3>3, UntakenKept DEF Clean
  <2>4. ~Debug \/ kind # "logevent"
    BY <1>u DEF Undisturbed
  <2> QED
    BY <1>5, <1>u, <2>2, <2>3, <2>4, OpenEffect, Zenon
<1>6. CASE Stat
  <2>1. /\ UNCHANGED <<gen, pos, posGen, opened, first_run, batch, fate, twice, split>>
        /\ kind = "regexp" /\ batch = {}
        /\ sizeGen' = sizeGen \/ sizeGen' = gen
        /\ tail_pc' = "restart" => Size < size
    BY <1>6 DEF Stat, Sees, sourceVars, SourceInv
  <2>2. Taken' \subseteq Taken
    BY <2>1, TakenKept
  <2>3. tail_pc' = "restart" => Untaken
    <3>1. Size \in Int
      BY Sorts DEF Size
    <3>2. Size < size => sizeGen # gen
      BY <1>0, <3>1 DEF SourceInv
    <3> QED
      BY <1>c, <2>1, <3>2 DEF Clean
  <2> QED
    BY <1>c, <1>u, <2>1, <2>2, <2>3, UntakenKept DEF Clean
<1>7. CASE Restart
  <2>1. /\ UNCHANGED <<gen, sizeGen, batch, twice, split>> /\ batch = {} /\ tail_pc' = "read"
        /\ kind = "regexp" /\ Untaken
    BY <1>7, <1>c DEF Restart, sourceVars, SourceInv, Clean
  <2>2. Taken' \subseteq Taken
    BY <1>7, <2>1, TakenKept DEF Restart
  <2>3. Untaken' /\ Before(pos)'
    BY <2>1, <2>2, UntakenKept
  <2> QED
    BY <1>c, <1>u, <2>1, <2>3 DEF Clean
<1>8. CASE ReadLog
  <2>1. PICK k \in pos .. len : batch' = {gen} \X (pos + 1 .. k) /\ pos' = k
    BY <1>8 DEF ReadLog
  <2>2. /\ tail_pc' = "decide" /\ posGen = gen /\ posGen' = gen /\ opened /\ opened' = opened
        /\ UNCHANGED <<gen, fate, twice, split>> /\ kind = "logevent" /\ batch = {}
    BY <1>8 DEF ReadLog, sourceVars, historyVars, SourceInv
  <2>3. /\ k \in Nat /\ pos <= k
        /\ \A r \in batch' : r[1] = gen /\ r[2] <= k /\ r[2] > pos
    BY <1>0, <2>1
  <2>4. Taken' \subseteq Taken \cup batch'
    BY <2>2 DEF Taken
  <2> QED
    BY <1>b, <1>c, <1>u, <2>1, <2>2, <2>3, <2>4, CleanRead
<1>9. CASE CloseLog
  <2>1. /\ posGen # gen /\ opened /\ kind = "logevent" /\ ~opened'
        /\ UNCHANGED <<gen, pos, posGen, sizeGen, batch, fate, twice, split>> /\ tail_pc' = "decide"
        /\ batch = {}
    BY <1>9, <1>u DEF CloseLog, sourceVars, SourceInv
  <2>2. Taken' \subseteq Taken
    BY <2>1, TakenKept
  <2>3. Untaken'
    BY <1>c, <2>1, <2>2, UntakenKept DEF Clean
  <2> QED
    BY <1>c, <2>1, <2>3 DEF Clean
<1>10. CASE ReadLines
  <2>1. /\ tail_pc' = "decide" /\ opened /\ opened' /\ kind = "regexp" /\ batch = {}
        /\ UNCHANGED <<gen, twice, sizeGen, first_run>>
        /\ fate' = Becomes(Parts, "new", "parts")
    BY <1>10, <1>u DEF ReadLines, sourceVars, SourceInv
  <2>2. Beyond => posGen = gen /\ sizeGen = gen
    BY <1>10, <1>u, Zenon DEF ReadLines
  <2>3. /\ \A r \in Records : fate'[r] = "sent" => fate[r] = "sent"
        /\ Taken' \subseteq Taken \cup batch'
    BY <1>0, <2>1, BecomesType DEF Taken, Fates
  <2>4. CASE Beyond /\ pos' = len /\ posGen' = gen
    <3>1. pos <= len
      BY <2>2, <2>4 DEF SourceInv
    <3>2. \A r \in batch' : r[1] = gen /\ r[2] <= len /\ (r[2] > pos \/ r \in split')
      BY <1>0, <1>10, LinesRead
    <3> QED
      BY <1>0, <1>b, <1>c, <1>u, <1>10, <2>1, <2>2, <2>3, <2>4, <3>1, <3>2, CleanRead, LinesRead
  <2>5. CASE UNCHANGED <<pos, posGen>> /\ batch' = {}
    <3>1. Taken' \subseteq Taken
      BY <2>3, <2>5
    <3>2. twice' \subseteq split'
      BY <1>c, <1>10, <2>1, LinesRead
    <3> QED
      BY <1>c, <1>u, <2>1, <2>5, <3>1, <3>2, UntakenKept DEF Clean
  <2> QED
    BY <1>10, <2>4, <2>5, LinesRead
<1>11. CASE Decide
  <2>1. /\ UNCHANGED <<gen, pos, posGen, opened, first_run, sizeGen>>
        /\ batch' = {} /\ tail_pc' = "idle" /\ Taken' \subseteq Taken /\ split' = split
    BY <1>11, TakenKept DEF Decide, sourceVars, objectVars
  <2>2. twice' \subseteq split'
    BY <1>11, <1>c, <2>1 DEF Decide, Clean
  <2> QED
    BY <1>c, <1>u, <2>1, <2>2, CleanKept
<1>12. CASE UNCHANGED tailVars
  <2>1. UNCHANGED <<gen, pos, posGen, opened, first_run, sizeGen, batch, fate, twice, split, tail_pc>>
    BY <1>12 DEF tailVars, sourceVars, objectVars, historyVars
  <2>2. Taken' \subseteq Taken
    BY <2>1, TakenKept
  <2> QED
    BY <1>c, <1>u, <2>1, <2>2, CleanKept
<1> QED
  BY <1>1, <1>2, <1>3, <1>4, <1>5, <1>6, <1>7, <1>8, <1>9, <1>10, <1>11, <1>12
     DEF TailNext, Reader, Loop

\* NothingPassedOver is not inductive: until pandora_run has decided, a record before
\* the position may be one of those that were just read.
BehindInv ==
    opened /\ posGen = gen /\ ~missed =>
        \A i \in 1 .. pos : \/ fate[<<gen, i>>] \in {"skipped", "parts", "dropped", "sent"}
                            \/ <<gen, i>> \in batch

\* Every step keeps it.
LEMMA BehindStep ==
  ASSUME TailTypeOK, SourceInv, BehindInv, [TailNext]_tailVars
  PROVE  BehindInv'
<1> SUFFICES ASSUME opened', posGen' = gen', ~missed', NEW i \in 1 .. pos'
             PROVE  \/ fate'[<<gen', i>>] \in {"skipped", "parts", "dropped", "sent"}
                    \/ <<gen', i>> \in batch'
  BY DEF BehindInv
<1>0. /\ fate \in [Records -> Fates] /\ batch \subseteq Records
      /\ gen \in Nat /\ len \in Nat /\ pos \in Nat /\ posGen \in Nat
      /\ \A j \in 1 .. len : <<gen, j>> \in Records
  BY Sorts
<1>1. CASE Append
  <2>1. /\ UNCHANGED <<gen, pos, posGen, opened, batch, missed>>
        /\ fate' = [fate EXCEPT ![<<gen, len + 1>>] = "new"]
    BY <1>1 DEF Append, objectVars
  <2>2. i <= len /\ i \in 1 .. pos
    BY <1>0, <2>1 DEF SourceInv
  <2>3. fate'[<<gen, i>>] = fate[<<gen, i>>]
    BY <1>0, <2>1, <2>2
  <2> QED
    BY <2>1, <2>2, <2>3 DEF BehindInv
<1>2. CASE Empty
  <2>1. gen' = gen + 1 /\ posGen' = posGen
    BY <1>2 DEF Empty, objectVars
  <2> QED
    BY <1>0, <2>1 DEF SourceInv
<1>3. CASE EndLine \/ Run \/ ReadNothing \/ ReadError \/ Stat \/ UNCHANGED tailVars
  <2>1. UNCHANGED <<gen, pos, posGen, opened, batch, fate, missed>>
    BY <1>3 DEF EndLine, Run, ReadNothing, ReadError, Stat, Sees, tailVars, sourceVars, objectVars,
                historyVars
  <2> QED
    BY <2>1 DEF BehindInv
<1>4. CASE Rebuild \/ CloseLog
  BY <1>4 DEF Rebuild, CloseLog
<1>5. ASSUME NEW k \in 0 .. len, OpenAt(k), gen' = gen
      PROVE  fate'[<<gen', i>>] \in {"skipped", "parts", "dropped", "sent"}
  BY <1>5, OpenAtMarks
<1>6. CASE Open
  <2>1. UNCHANGED <<gen, batch, missed>>
    BY <1>6 DEF Open, sourceVars
  <2>2. CASE opened' = opened /\ pos' = pos /\ posGen' = posGen /\ fate' = fate
    BY <2>1, <2>2 DEF BehindInv
  <2> QED
    BY <1>5, <1>6, <2>1, <2>2, OpenEffect
<1>7. CASE Restart
  <2>1. OpenAt(0) /\ gen' = gen /\ 0 \in 0 .. len
    BY <1>0, <1>7 DEF Restart, sourceVars
  <2> QED
    BY <1>5, <2>1
<1>8. CASE ReadLog
  <2>1. PICK k \in pos .. len : batch' = {gen} \X (pos + 1 .. k) /\ pos' = k
    BY <1>8 DEF ReadLog
  <2>2. /\ posGen = gen /\ opened /\ UNCHANGED <<gen, fate, missed>> /\ batch = {}
    BY <1>8 DEF ReadLog, sourceVars, historyVars, SourceInv
  <2>3. i \in 1 .. pos \/ i \in pos + 1 .. k
    BY <1>0, <2>1
  <2> QED
    BY <2>1, <2>2, <2>3 DEF BehindInv
<1>9. CASE ReadLines
  <2>1. /\ opened /\ gen' = gen /\ batch = {} /\ missed \in BOOLEAN
        /\ fate' = Becomes(Parts, "new", "parts")
    BY <1>9 DEF ReadLines, sourceVars, SourceInv, TailTypeOK
  <2>2. ~missed /\ (Beyond => posGen = gen)
    BY <1>9, Zenon DEF ReadLines
  <2>3. posGen = gen /\ pos <= len /\ pos' <= len /\ pos' \in Nat
    <3>1. (Beyond /\ pos' = len) \/ (posGen' = posGen /\ pos' = pos)
      BY <1>9, LinesRead
    <3>2. posGen = gen => pos <= len
      BY DEF SourceInv
    <3>3. posGen = gen
      BY <2>1, <2>2, <3>1
    <3> QED
      BY <1>0, <3>1, <3>2, <3>3
  <2>4. <<gen, i>> \in Records /\ fate[<<gen, i>>] \in Held
    BY <1>0, <2>1, <2>3 DEF SourceInv
  <2>5. \/ i \in 1 .. pos
        \/ i \in pos + 1 .. len
    BY <1>0, <2>3
  <2>6. CASE i \in 1 .. pos
    <3>1. fate[<<gen, i>>] \in {"skipped", "parts", "dropped", "sent"}
      BY <2>1, <2>2, <2>3, <2>6 DEF BehindInv
    <3> QED
      BY <1>0, <2>1, <2>4, <3>1, BecomesType DEF Fates
  <2>7. CASE <<gen, i>> \in Parts
    BY <1>0, <2>1, <2>4, <2>7, BecomesType DEF Held, Fates
  <2> QED
    BY <1>9, <2>1, <2>5, <2>6, <2>7, LinesRead
<1>10. CASE Decide
  <2>1. UNCHANGED <<gen, pos, posGen, opened, missed>>
    BY <1>10 DEF Decide, sourceVars, objectVars
  <2>2. /\ i \in 1 .. len /\ i \in 1 .. pos /\ <<gen, i>> \in Records
        /\ fate[<<gen, i>>] \in Held
    BY <1>0, <2>1 DEF SourceInv
  <2>3. \/ fate[<<gen, i>>] \in {"skipped", "parts", "dropped", "sent"}
        \/ <<gen, i>> \in batch
    BY <2>1, <2>2 DEF BehindInv
  <2>4. CASE fate' = [r \in Records |-> IF r \in batch THEN "sent" ELSE fate[r]]
    BY <2>1, <2>2, <2>3, <2>4
  <2>5. CASE fate' = Becomes(batch, "new", "dropped")
    BY <1>0, <2>1, <2>2, <2>3, <2>5, BecomesType DEF Held, Fates
  <2> QED
    BY <1>10, <2>4, <2>5 DEF Decide
<1> QED
  BY <1>1, <1>2, <1>3, <1>4, <1>6, <1>7, <1>8, <1>9, <1>10 DEF TailNext, Reader, Loop

\* Whatever becomes of the log or the file and of the module object, no record is
\* reported twice and none before the reader's position is left out, but for the
\* exceptions that the property names.
THEOREM EachRecordOnce == TailSpec => []ReadOnce
<1> DEFINE Inv == TailTypeOK /\ SourceInv /\ OnceInv /\ BehindInv
<1>1. TailInit => Inv
  <2> SUFFICES ASSUME TailInit PROVE Inv
    OBVIOUS
  <2>1. Taken = {}
    BY DEF TailInit, Taken
  <2>2. SourceInv
    BY <2>1 DEF TailInit, SourceInv, Size
  <2>3. OnceInv
    BY <2>1 DEF TailInit, OnceInv, Clean, Untaken, Before
  <2>4. BehindInv
    BY DEF TailInit, BehindInv
  <2> QED
    BY TailTypeInit, <2>2, <2>3, <2>4
<1>2. Inv /\ [TailNext]_tailVars => Inv'
  BY TailTypeStep, SourceStep, OnceStep, BehindStep
<1>3. Inv => ReadOnce
  <2> SUFFICES ASSUME Inv PROVE NoDuplicates /\ NothingPassedOver
    BY DEF ReadOnce
  <2>1. NoDuplicates
    BY Zenon DEF NoDuplicates, OnceInv, Undisturbed, Clean
  <2>2. NothingPassedOver
    BY DEF NothingPassedOver, BehindInv, SourceInv
  <2> QED
    BY <2>1, <2>2
<1> QED
  BY <1>1, <1>2, <1>3, PTL DEF TailSpec

----------------------------------------------------------------------------
(* CommandRun                                                              *)


\* What has been written has been read or is in the pipe, and the pipe is empty
\* once it was read after the end of the child had been seen.
Flow ==
    /\ cmd_pc # "idle" => wrote = output + pipe
    /\ cmd_pc = "read" /\ dwRet => child = "ended"
    /\ cmd_pc = "check" /\ dwRet => child = "ended" /\ pipe = 0
    /\ cmd_pc = "exit" /\ ~late => child = "ended" /\ pipe = 0

\* The life of the child: code 0 is always its own.
Life ==
    /\ cmd_pc \in {"wait", "read", "check", "exit"} => child # "none"
    /\ cmd_pc = "exit" /\ child = "running" => purpose = "precondition"
    /\ child = "running" => code = StillActive
    /\ code = 0 => own
    /\ cmd_pc = "wait" => waits <= Timeout

\* The life of the command: only termination, which leaves its own exit code, ends
\* cmd.exe before it.
Under ==
    /\ command = "running" /\ child = "ended" =>
          code = StillActive /\ late /\ cmd_pc \in {"exit", "idle"}
    /\ command = "running" => child # "none"

CommandInv == CommandTypeOK /\ Flow /\ Life /\ Under /\ OutputWhole /\ ProcTruth /\ NoneLeft

USE CommandRunAssumption

\* The invariant holds at the start.
LEMMA CommandInvInit == CommandInit => CommandInv
<1>1. CommandInit => CommandTypeOK
  <2> SUFFICES ASSUME CommandInit PROVE CommandTypeOK
    OBVIOUS
  <2>1. wrote \in 0 .. MaxOutput /\ pipe \in 0 .. PipeCap /\ output \in 0 .. MaxOutput
    BY DEF CommandInit
  <2>2. waits \in 0 .. Timeout + 1 /\ data \in Nat \cup {NoValue} /\ code \in Codes
    BY DEF CommandInit, Codes
  <2> QED
    BY <2>1, <2>2 DEF CommandInit, CommandTypeOK
<1>2. CommandInit => Flow /\ Life /\ Under
  BY DEF CommandInit, Flow, Life, Under
<1>3. CommandInit => OutputWhole /\ ProcTruth /\ NoneLeft
  BY DEF CommandInit, OutputWhole, ProcTruth, NoneLeft
<1> QED
  BY <1>1, <1>2, <1>3 DEF CommandInv

\* Each step keeps the invariant.
LEMMA CommandInvStep == CommandInv /\ [CommandNext]_commandVars => CommandInv'
<1> SUFFICES ASSUME CommandInv, [CommandNext]_commandVars PROVE CommandInv'
  OBVIOUS
<1> USE DEF CommandInv, CommandTypeOK, Flow, Life, Under, OutputWhole, ProcTruth, NoneLeft, Kinds, Codes
<1>1. CASE StartChild
  <2>1. CommandTypeOK'
    <3>1. wrote' \in 0 .. MaxOutput /\ pipe' \in 0 .. PipeCap /\ output' \in 0 .. MaxOutput
      BY <1>1 DEF StartChild, Reset
    <3>2. waits' \in 0 .. Timeout + 1 /\ data' \in Nat \cup {NoValue} /\ code' \in Codes
      BY <1>1 DEF StartChild, Reset
    <3> QED
      BY <1>1, <3>1, <3>2 DEF StartChild, Reset
  <2>2. Flow'
    BY <1>1 DEF StartChild, Reset
  <2>3. Life' /\ Under'
    BY <1>1 DEF StartChild, Reset
  <2>4. OutputWhole' /\ ProcTruth' /\ NoneLeft'
    BY <1>1 DEF StartChild, Reset
  <2> QED
    BY <2>1, <2>2, <2>3, <2>4
<1>2. CASE StartFails
  <2>1. CommandTypeOK'
    <3>1. wrote' \in 0 .. MaxOutput /\ pipe' \in 0 .. PipeCap /\ output' \in 0 .. MaxOutput
      BY <1>2 DEF StartFails, Reset
    <3>2. waits' \in 0 .. Timeout + 1 /\ data' \in Nat \cup {NoValue} /\ code' \in Codes
      BY <1>2 DEF StartFails, Reset
    <3> QED
      BY <1>2, <3>1, <3>2 DEF StartFails, Reset
  <2>2. Flow'
    BY <1>2 DEF StartFails, Reset
  <2>3. Life' /\ Under'
    BY <1>2 DEF StartFails, Reset
  <2>4. OutputWhole' /\ ProcTruth' /\ NoneLeft'
    BY <1>2 DEF StartFails, Reset
  <2> QED
    BY <2>1, <2>2, <2>3, <2>4
<1>3. CASE Wait
  <2>1. CommandTypeOK'
    BY <1>3 DEF Wait, childVars, resultVars
  <2>2. Flow'
    BY <1>3 DEF Wait, childVars, resultVars
  <2>3. Life' /\ Under'
    BY <1>3 DEF Wait, childVars, resultVars
  <2>4. OutputWhole' /\ ProcTruth' /\ NoneLeft'
    BY <1>3 DEF Wait, childVars, resultVars
  <2> QED
    BY <2>1, <2>2, <2>3, <2>4
<1>4. CASE Read
  <2>1. CommandTypeOK'
    BY <1>4 DEF Read, childVars, resultVars
  <2>2. Flow'
    BY <1>4 DEF Read, childVars, resultVars
  <2>3. Life' /\ Under'
    BY <1>4 DEF Read, childVars, resultVars
  <2>4. OutputWhole' /\ ProcTruth' /\ NoneLeft'
    BY <1>4 DEF Read, childVars, resultVars
  <2> QED
    BY <2>1, <2>2, <2>3, <2>4
<1>5. CASE Check
  <2>1. CommandTypeOK'
    BY <1>5 DEF Check, Terminate, resultVars
  <2>2. Flow'
    BY <1>5 DEF Check, Terminate, resultVars
  <2>3. Life' /\ Under'
    BY <1>5 DEF Check, Terminate, resultVars
  <2>4. OutputWhole' /\ ProcTruth' /\ NoneLeft'
    BY <1>5 DEF Check, Terminate, resultVars
  <2> QED
    BY <2>1, <2>2, <2>3, <2>4
<1>6. CASE Exit
  <2>1. CommandTypeOK'
    BY <1>6 DEF Exit, TerminateJobObject, retval
  <2>2. Flow'
    BY <1>6 DEF Exit, TerminateJobObject, retval
  <2>3. Life' /\ Under'
    BY <1>6 DEF Exit, TerminateJobObject, retval
  <2>4. OutputWhole' /\ ProcTruth' /\ NoneLeft'
    BY <1>6 DEF Exit, TerminateJobObject, retval
  <2> QED
    BY <2>1, <2>2, <2>3, <2>4
<1>7. CASE ChildWrites
  BY <1>7 DEF ChildWrites, resultVars
<1>8. ASSUME NEW c \in Codes, ChildEnds(c)
      PROVE  CommandInv'
  BY <1>8 DEF ChildEnds, resultVars
<1>9. CASE Command
  BY <1>9 DEF Command, CommandStarts, CommandEnds, resultVars
<1>10. CASE UNCHANGED commandVars
  BY <1>10 DEF commandVars
<1> QED
  BY <1>1, <1>2, <1>3, <1>4, <1>5, <1>6, <1>7, <1>8, <1>9, <1>10 DEF CommandNext, Runner

\* The variables of a run keep their types; in particular the timeout bounds the
\* number of waits.
THEOREM CommandTypeCorrect == CommandSpec => []CommandTypeOK
<1>1. CommandInv => CommandTypeOK
  BY DEF CommandInv
<1> QED
  BY CommandInvInit, CommandInvStep, <1>1, PTL DEF CommandSpec

\* Pandora_Module_Exec reports the whole output of a command that ended within
\* its timeout, if a pipe holds no more than one buffer.
THEOREM WholeOutput == CommandSpec => []OutputWhole
<1>1. CommandInv => OutputWhole
  BY DEF CommandInv
<1> QED
  BY CommandInvInit, CommandInvStep, <1>1, PTL DEF CommandSpec

\* A proc module does not report success of a command that the agent terminated.
THEOREM SuccessIsOwn == CommandSpec => []ProcTruth
<1>1. CommandInv => ProcTruth
  BY DEF CommandInv
<1> QED
  BY CommandInvInit, CommandInvStep, <1>1, PTL DEF CommandSpec

\* No process that is in the job of its run outlives it, and without a job no cmd.exe
\* but that of a precondition does.
THEOREM NoOrphans == CommandSpec => []NoneLeft
<1>1. CommandInv => NoneLeft
  BY DEF CommandInv
<1> QED
  BY CommandInvInit, CommandInvStep, <1>1, PTL DEF CommandSpec

=============================================================================
