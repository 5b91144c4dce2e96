--------------------------- MODULE ServiceProofs ---------------------------
(***************************************************************************)
(* Machine-checked proofs about what the service does in each cycle and    *)
(* beside it: about ServiceLoop, for every width of the tick count, every  *)
(* sleep_time of less than half of it, and cycles and delays that together *)
(* are shorter than one turn of it; about Collections, for every set of    *)
(* collections, number of versions, reloads and crashes; about             *)
(* AsyncModules, for any number of instances, of retries and of changes    *)
(* from outside, and for both kinds of module.                             *)
(***************************************************************************)
EXTENDS ServiceLoop, Collections, AsyncModules, TLAPS

----------------------------------------------------------------------------
(* ServiceLoop                                                             *)

\* The tick count turns over: what a sum or a difference of two of its values is.
LEMMA Modulo ==
  ASSUME NEW n \in Int, -Wrap <= n, n < 2 * Wrap
  PROVE  n % Wrap = IF n < 0 THEN n + Wrap ELSE IF n < Wrap THEN n ELSE n - Wrap
<1>0. Wrap \in Nat \ {0}
  BY ServiceLoopAssumption
<1>1. CASE n < 0
  BY <1>0, <1>1
<1>2. CASE 0 <= n /\ n < Wrap
  BY <1>0, <1>2
<1>3. CASE Wrap <= n
  BY <1>0, <1>3
<1> QED
  BY <1>0, <1>1, <1>2, <1>3

\* Half of an even number.
LEMMA Half == Wrap \div 2 \in Nat /\ 2 * (Wrap \div 2) = Wrap
  BY ServiceLoopAssumption

\* The ticks since iter_base_ticks, as the code computes them.
Elapsed == (tick - base) % Wrap

\* Punctual is not inductive.  While a cycle runs, the ticks since the base are those
\* since its beginning and what the thread was kept waiting before; while the thread
\* waits, the base is where the tick count will be when the wait is over, and the
\* wait ends when the next cycle is due.
PaceInv ==
    /\ pc = "call" => base = tick
    /\ pc = "run" => age <= MaxDuration
    /\ pc = "run" /\ moved # "new" => age <= Elapsed /\ Elapsed <= age + MaxLate
    /\ pc = "wait" /\ moved # "new" => base = (tick + left) % Wrap
    /\ pc = "wait" /\ moved = "no" => age + left <= due

\* The quantities of the tick arithmetic are numbers of their widths.
LEMMA Widths ==
  ASSUME LoopTypeOK
  PROVE  /\ Wrap \in Nat /\ Wrap > 1 /\ MaxLate \in Nat /\ MaxDuration \in Nat
         /\ MaxDuration + MaxLate < Wrap
         /\ tick \in Nat /\ tick < Wrap /\ base \in Nat /\ base < Wrap
         /\ sleep_time \in Nat /\ 2 * sleep_time < Wrap
         /\ left \in Int /\ -MaxLate <= left /\ 2 * left <= Wrap
         /\ age \in Nat /\ due \in Nat
         /\ Elapsed = IF tick < base THEN tick - base + Wrap ELSE tick - base
         /\ Elapsed \in Nat /\ Elapsed < Wrap
<1>1. /\ Wrap \in Nat /\ Wrap > 1 /\ MaxLate \in Nat /\ MaxDuration \in Nat
      /\ MaxDuration + MaxLate < Wrap
  BY ServiceLoopAssumption
<1>2. /\ tick \in Nat /\ tick < Wrap /\ base \in Nat /\ base < Wrap
      /\ age \in Nat /\ due \in Nat
  BY <1>1 DEF LoopTypeOK
<1>3. sleep_time \in Nat /\ 2 * sleep_time < Wrap
  BY <1>1, ServiceLoopAssumption DEF LoopTypeOK
<1>4. left \in Int /\ -MaxLate <= left /\ 2 * left <= Wrap
  BY <1>1, Half DEF LoopTypeOK
<1>5. Elapsed = IF tick < base THEN tick - base + Wrap ELSE tick - base
  <2>1. tick - base \in Int /\ -Wrap <= tick - base /\ tick - base < Wrap
    BY <1>1, <1>2
  <2> QED
    BY <1>1, <1>2, <2>1, Modulo DEF Elapsed
<1> QED
  BY <1>1, <1>2, <1>3, <1>4, <1>5

\* What is left of sleep_time: the code takes an unsigned difference for an int, and
\* finds out by it whether the cycle was too long.
LEMMA RemainExact ==
  ASSUME LoopTypeOK, InTime
  PROVE  Remain = sleep_time - Elapsed /\ Elapsed <= sleep_time
<1> DEFINE n == sleep_time - Elapsed
<1>0. /\ Wrap \in Nat /\ Wrap > 1 /\ sleep_time \in Nat /\ 2 * sleep_time < Wrap
      /\ Elapsed \in Nat /\ Elapsed < Wrap
  BY Widths
<1>1. Remain = ToInt(n)
  BY DEF Remain, Elapsed
<1>2. n % Wrap = IF n < 0 THEN n + Wrap ELSE n
  <2>1. n \in Int /\ -Wrap <= n /\ n < Wrap
    BY <1>0
  <2> HIDE DEF n
  <2> QED
    BY <1>0, <2>1, Modulo
<1>3. n \in Int /\ n = sleep_time - Elapsed
  BY <1>0
<1> HIDE DEF n
<1>4. CASE 0 <= n
  <2>1. ToInt(n) = n
    BY <1>0, <1>2, <1>3, <1>4, Half DEF ToInt
  <2> QED
    BY <1>0, <1>1, <1>3, <1>4, <2>1
<1>5. CASE n < 0
  <2>1. ToInt(n) = n + Wrap \/ ToInt(n) = n
    BY <1>0, <1>2, <1>3, <1>5 DEF ToInt
  <2>2. 0 <= ToInt(n) /\ ToInt(n) <= sleep_time
    BY <1>1 DEF InTime
  <2> QED
    BY <1>0, <1>3, <1>5, <2>1, <2>2
<1> QED
  BY <1>3, <1>4, <1>5

\* Every step keeps the types.
LEMMA LoopTypeStep ==
  ASSUME LoopTypeOK, [LoopNext]_loopVars
  PROVE  LoopTypeOK'
<1>0. /\ Wrap \in Nat /\ Wrap > 1 /\ MaxLate \in Nat /\ MaxReloads \in Nat
      /\ SleepTimes \subseteq Nat /\ Wrap \div 2 \in Nat /\ StopDelay \in Nat
  BY ServiceLoopAssumption, Half
<1>1. CASE Tick
  <2>1. tick' \in 0 .. Wrap - 1
    BY <1>0, <1>1 DEF Tick, LoopTypeOK
  <2>2. left' \in -MaxLate .. Wrap \div 2
    BY <1>0, <1>1 DEF Tick, LoopTypeOK
  <2>3. asleep' \in 0 .. StopDelay
    BY <1>0, <1>1 DEF Tick, LoopTypeOK
  <2> QED
    BY <1>1, <2>1, <2>2, <2>3 DEF Tick, LoopTypeOK
<1>2. CASE ServiceStart
  BY <1>2 DEF ServiceStart, setIterationBaseTicks, LoopTypeOK
<1>3. CASE FirstRun \/ Delayed
  <2>1. base' \in {base, tick} /\ age' = 0 /\ pc' \in {"delay", "run"}
    BY <1>3 DEF FirstRun, Delayed, setIterationBaseTicks
  <2>2. startup' \in BOOLEAN
    BY <1>3, Zenon DEF FirstRun, Delayed, LoopTypeOK
  <2>3. UNCHANGED <<tick, sleep_time, left, stopVars, udp, reloads, due, moved>>
    BY <1>3 DEF FirstRun, Delayed
  <2> QED
    BY <2>1, <2>2, <2>3 DEF LoopTypeOK, stopVars
<1>4. CASE EndRun
  <2>1. left' \in -MaxLate .. Wrap \div 2
    <3>1. CASE left' = left \/ left' = 0
      BY <1>0, <3>1 DEF LoopTypeOK
    <3>2. CASE InTime /\ left' = Remain
      <4>1. /\ Remain = sleep_time - Elapsed /\ Elapsed <= sleep_time
            /\ sleep_time \in Nat /\ 2 * sleep_time < Wrap /\ Elapsed \in Nat
        BY <3>2, RemainExact, Widths
      <4> QED
        BY <1>0, <3>2, <4>1, Half
    <3> QED
      BY <1>4, <3>1, <3>2 DEF EndRun
  <2>2. base' \in 0 .. Wrap - 1
    <3>1. (base + sleep_time) % Wrap \in 0 .. Wrap - 1
      <4>1. base + sleep_time \in Nat
        BY Widths
      <4> QED
        BY <1>0, <4>1
    <3> QED
      BY <1>4, <3>1 DEF EndRun, setIterationBaseTicks, LoopTypeOK
  <2>3. due' \in Nat
    BY <1>4, Widths DEF EndRun, MaxOf, LoopTypeOK
  <2>4. pc' \in {"over", "wait"} /\ moved' \in {"no", "new", "old"}
    BY <1>4 DEF EndRun, LoopTypeOK
  <2> QED
    BY <1>4, <2>1, <2>2, <2>3, <2>4 DEF EndRun, LoopTypeOK, stopVars
<1>5. CASE Wake
  BY <1>0, <1>5 DEF Wake, LoopTypeOK, stopVars
<1>6. CASE Reload
  BY <1>0, <1>6 DEF Reload, LoopTypeOK, serviceVars, stopVars
<1>7. CASE Udp
  BY <1>7 DEF Udp, Refresh, RefreshDelayed, RefreshEnd, ListenFails, setIterationBaseTicks,
              LoopTypeOK, serviceVars, stopVars
<1>8. CASE Stop \/ Control \/ UseAfterDelete
  BY <1>0, <1>8 DEF Stop, Control, Stopped, DispatcherReturns, Exit, UseAfterDelete, Main,
                    LoopTypeOK, serviceVars
<1>9. CASE UNCHANGED loopVars
  BY <1>9 DEF loopVars, LoopTypeOK, serviceVars, stopVars
<1> QED
  BY <1>1, <1>2, <1>3, <1>4, <1>5, <1>6, <1>7, <1>8, <1>9 DEF LoopNext, Service

\* Every step keeps the pace.
LEMMA PaceStep ==
  ASSUME LoopTypeOK, LoopTypeOK', PaceInv, [LoopNext]_loopVars
  PROVE  PaceInv'
<1>0. /\ Wrap \in Nat /\ Wrap > 1 /\ MaxLate \in Nat /\ MaxDuration \in Nat
      /\ MaxDuration + MaxLate < Wrap
      /\ tick \in Nat /\ tick < Wrap /\ base \in Nat /\ base < Wrap
      /\ sleep_time \in Nat /\ 2 * sleep_time < Wrap
      /\ left \in Int /\ -MaxLate <= left /\ 2 * left <= Wrap
      /\ age \in Nat /\ due \in Nat
      /\ Elapsed = IF tick < base THEN tick - base + Wrap ELSE tick - base
      /\ Elapsed \in Nat /\ Elapsed < Wrap
  BY Widths
<1>1. CASE Tick
  <2>1. /\ tick' = (tick + 1) % Wrap /\ (pc # "over" => age' = age + 1)
        /\ left' = IF pc = "wait" THEN left - 1 ELSE left
        /\ UNCHANGED <<pc, base, due, moved>> /\ pc # "call"
        /\ pc = "run" => age < MaxDuration
        /\ pc = "wait" => left > -MaxLate
    BY <1>1 DEF Tick
  <2>2. tick' = IF tick + 1 = Wrap THEN 0 ELSE tick + 1
    <3>1. tick + 1 \in Int /\ -Wrap <= tick + 1 /\ tick + 1 < 2 * Wrap
      BY <1>0
    <3> QED
      BY <1>0, <2>1, <3>1, Modulo
  <2>3. Elapsed + 1 < Wrap => Elapsed' = Elapsed + 1
    <3>1. /\ tick' - base \in Int /\ -Wrap <= tick' - base /\ tick' - base < 2 * Wrap
      BY <1>0, <2>2
    <3>2. Elapsed' = IF tick' - base < 0 THEN tick' - base + Wrap
                     ELSE IF tick' - base < Wrap THEN tick' - base ELSE tick' - base - Wrap
      BY <2>1, <3>1, Modulo DEF Elapsed
    <3> QED
      BY <1>0, <2>2, <3>2
  <2>4. pc = "wait" => (tick' + left') % Wrap = (tick + left) % Wrap
    <3> SUFFICES ASSUME pc = "wait"
                 PROVE  (tick' + left') % Wrap = (tick + left) % Wrap
      OBVIOUS
    <3> DEFINE a == tick + left
               b == tick' + left'
    <3>1. /\ a \in Int /\ -Wrap <= a /\ a < 2 * Wrap
          /\ b \in Int /\ -Wrap <= b /\ b < 2 * Wrap
          /\ b = a \/ b = a - Wrap
          /\ -MaxLate <= left - 1
      BY <1>0, <2>1, <2>2
    <3>2. b = a - Wrap => a >= 0 /\ (a < Wrap => b < 0) /\ (a >= Wrap => b >= 0)
      BY <1>0, <3>1
    <3> HIDE DEF a, b
    <3>3. a % Wrap = IF a < 0 THEN a + Wrap ELSE IF a < Wrap THEN a ELSE a - Wrap
      BY <3>1, Modulo
    <3>4. b % Wrap = IF b < 0 THEN b + Wrap ELSE IF b < Wrap THEN b ELSE b - Wrap
      BY <3>1, Modulo
    <3>5. b % Wrap = a % Wrap
      BY <1>0, <3>1, <3>2, <3>3, <3>4
    <3> QED
      BY <3>5 DEF a, b
  <2>5. pc = "run" /\ moved # "new" =>
          age' <= Elapsed' /\ Elapsed' <= age' + MaxLate /\ age' <= MaxDuration
    BY <1>0, <2>1, <2>3 DEF PaceInv
  <2>6. pc = "wait" /\ moved # "new" => base' = (tick' + left') % Wrap
    BY <2>1, <2>4 DEF PaceInv
  <2>7. pc = "wait" /\ moved = "no" => age' + left' <= due'
    BY <1>0, <2>1 DEF PaceInv
  <2>8. pc = "run" => age' <= MaxDuration
    BY <1>0, <2>1
  <2> QED
    BY <2>1, <2>5, <2>6, <2>7, <2>8 DEF PaceInv
<1>2. CASE ServiceStart
  BY <1>2 DEF ServiceStart, setIterationBaseTicks, PaceInv
<1>3. CASE FirstRun \/ Delayed
  <2>1. /\ age' = 0 /\ tick' = tick /\ base' = tick /\ pc' \in {"run", "delay"}
    BY <1>3 DEF FirstRun, Delayed, setIterationBaseTicks, PaceInv
  <2>2. Elapsed' = 0
    <3>1. 0 % Wrap = 0 /\ tick - tick = 0
      BY <1>0
    <3> QED
      BY <2>1, <3>1 DEF Elapsed
  <2> QED
    BY <1>0, <2>1, <2>2 DEF PaceInv
<1>4. CASE EndRun
  <2>1. CASE pc' = "over"
    BY <2>1 DEF PaceInv
  <2>2. CASE pc' = "wait" /\ InTime
    <3>1. /\ left' = sleep_time - Elapsed /\ Elapsed <= sleep_time
          /\ base' = (base + sleep_time) % Wrap /\ due' = MaxOf(age, sleep_time)
          /\ moved' = IF moved = "new" THEN "old" ELSE moved
          /\ age' = age /\ tick' = tick /\ pc = "run"
      BY <1>4, <2>2, RemainExact DEF EndRun, setIterationBaseTicks
    <3>2. base' = (tick + left') % Wrap
      <4> DEFINE a == base + sleep_time
                 b == tick + left'
      <4>1. /\ a \in Int /\ -Wrap <= a /\ a < 2 * Wrap
            /\ b \in Int /\ -Wrap <= b /\ b < 2 * Wrap
            /\ b = a \/ b = a - Wrap
            /\ 0 <= b
        BY <1>0, <3>1
      <4> HIDE DEF a, b
      <4>2. a % Wrap = IF a < 0 THEN a + Wrap ELSE IF a < Wrap THEN a ELSE a - Wrap
        BY <4>1, Modulo
      <4>3. b % Wrap = IF b < 0 THEN b + Wrap ELSE IF b < Wrap THEN b ELSE b - Wrap
        BY <4>1, Modulo
      <4>4. a % Wrap = b % Wrap
        BY <1>0, <4>1, <4>2, <4>3
      <4> QED
        BY <3>1, <4>4 DEF a, b
    <3>3. moved' = "no" => age' + left' <= due'
      BY <1>0, <3>1 DEF MaxOf, PaceInv
    <3> QED
      BY <2>2, <3>1, <3>2, <3>3 DEF PaceInv
  <2>3. CASE pc' = "wait" /\ ~InTime
    <3>1. /\ left' = 0 /\ base' = tick /\ due' = MaxOf(age, sleep_time)
          /\ age' = age /\ tick' = tick
      BY <1>4, <2>3 DEF EndRun, setIterationBaseTicks
    <3>2. base' = (tick' + left') % Wrap
      BY <1>0, <3>1
    <3>3. age' + left' <= due'
      BY <1>0, <3>1 DEF MaxOf
    <3> QED
      BY <2>3, <3>2, <3>3 DEF PaceInv
  <2> QED
    BY <1>4, <2>1, <2>2, <2>3 DEF EndRun
<1>5. CASE Wake
  <2>1. /\ pc = "wait" /\ left <= 0 /\ pc' = "run" /\ age' = 0
        /\ moved' = IF moved = "old" THEN "no" ELSE moved
        /\ UNCHANGED <<tick, base>>
    BY <1>5 DEF Wake
  <2>2. moved' # "new" => base = (tick + left) % Wrap
    BY <2>1 DEF PaceInv
  <2>3. (tick + left) % Wrap = IF tick + left < 0 THEN tick + left + Wrap ELSE tick + left
    <3>1. tick + left \in Int /\ -Wrap <= tick + left /\ tick + left < Wrap
      BY <1>0, <2>1
    <3> QED
      BY <1>0, <3>1, Modulo
  <2>4. moved' # "new" => Elapsed <= MaxLate
    BY <1>0, <2>1, <2>2, <2>3
  <2>5. Elapsed' = Elapsed
    BY <2>1 DEF Elapsed
  <2> QED
    BY <1>0, <2>1, <2>4, <2>5 DEF PaceInv
<1>6. ASSUME UNCHANGED <<tick, base, serviceVars, moved>> PROVE PaceInv'
  BY <1>6 DEF PaceInv, Elapsed, serviceVars
<1>7. CASE Reload \/ Stop \/ Control \/ UseAfterDelete \/ UNCHANGED loopVars
  BY <1>6, <1>7 DEF Reload, Stop, Control, Stopped, DispatcherReturns, Exit, UseAfterDelete, Main,
                    loopVars
<1>8. CASE Udp
  <2>1. CASE RefreshDelayed
    BY <2>1 DEF RefreshDelayed, setIterationBaseTicks, PaceInv, serviceVars
  <2> QED
    BY <1>6, <1>8, <2>1 DEF Udp, Refresh, RefreshEnd, ListenFails
<1> QED
  BY <1>1, <1>2, <1>3, <1>4, <1>5, <1>7, <1>8 DEF LoopNext, Service

\* The initial state is one of them.
LEMMA PaceInit == LoopInit => LoopTypeOK /\ PaceInv
<1> SUFFICES ASSUME LoopInit PROVE LoopTypeOK /\ PaceInv
  OBVIOUS
<1>1. /\ Wrap \in Nat /\ Wrap > 1 /\ MaxLate \in Nat /\ MaxReloads \in Nat
      /\ Wrap \div 2 \in Nat /\ StopDelay \in Nat
  BY ServiceLoopAssumption, Half
<1>2. /\ 0 \in 0 .. StopDelay
      /\ 0 \in 0 .. Wrap - 1 /\ Wrap - 1 \in 0 .. Wrap - 1
      /\ 0 \in -MaxLate .. Wrap \div 2 /\ 0 \in 0 .. MaxReloads
  BY <1>1
<1> QED
  BY <1>2 DEF LoopInit, LoopTypeOK, PaceInv

\* execRunFunction begins its cycles when they are due, for every width of the tick
\* count and wherever it turns over, however long a cycle took, whatever a reload
\* makes of sleep_time, and, one cycle later, whatever the UDP thread did to the base.
THEOREM CyclesOnTime == LoopSpec => []Punctual
<1> DEFINE Inv == LoopTypeOK /\ PaceInv
<1>1. LoopInit => Inv
  BY PaceInit
<1>2. Inv /\ [LoopNext]_loopVars => Inv'
  BY LoopTypeStep, PaceStep
<1>3. Inv => Punctual
  <2> SUFFICES ASSUME LoopTypeOK, PaceInv PROVE NoDrift /\ OnTime
    BY DEF Punctual
  <2>1. NoDrift
    BY Widths DEF PaceInv, NoDrift, Elapsed
  <2>2. OnTime
    BY Widths DEF PaceInv, OnTime
  <2> QED
    BY <2>1, <2>2
<1> QED
  BY <1>1, <1>2, <1>3, PTL DEF LoopSpec

----------------------------------------------------------------------------
(* AsyncModules                                                            *)

\* Where the thread of a process never is.
ServicePcs == {"open", "notified", "asked", "restart", "over"}

\* The types alone are not inductive: a retry is counted beyond module_retries
\* unless async_run compares the counter before each start.
TypeInv == TypeOK /\ (tpc = "retry" => counter < Retries)

\* What a query answers is a state, and no state is NoData.
LEMMA QueryType ==
  ASSUME TypeOK, NEW r \in isRunning
  PROVE  r \in States /\ r # NoData
<1>1. MaxUp \in Nat /\ up \in 0 .. MaxUp
  BY AsyncModulesAssumption DEF TypeOK
<1>2. isRunning \subseteq -1 .. MaxUp
  BY <1>1 DEF isRunning
<1> QED
  BY <1>1, <1>2, AsyncModulesAssumption DEF States

\* A start leaves no more instances than there may be.
LEMMA StartType ==
  ASSUME TypeOK, StartProgram
  PROVE  up' \in 0 .. MaxUp /\ tries' \in Nat
BY AsyncModulesAssumption DEF StartProgram, Cap, TypeOK

\* The steps of the query.
LEMMA QueryStep ==
  ASSUME TypeOK, NEW next, Query(next)
  PROVE  \E r \in States :
            /\ res' = r
            /\ \/ /\ setOutput(r) /\ prev_res' = r /\ tpc' = "send" /\ back' = next
               \/ /\ UNCHANGED <<data, latest_output, late, prev_res, back>> /\ tpc' = next
            /\ UNCHANGED <<kind, up, healed, watchdog, has_output, cycleVars, counter, held,
                           ended, known, changes, tries>>
BY QueryType, Zenon DEF Query

\* The types in three parts: what is true or false, where the threads are, and what
\* has been counted or measured.
Flags ==
    /\ healed \in BOOLEAN /\ watchdog \in BOOLEAN /\ has_output \in BOOLEAN
    /\ ended \in BOOLEAN /\ late \in BOOLEAN

Places ==
    /\ kind \in {"proc", "service"}
    /\ cpc \in {"sleep", "measured", "decide", "clean"}
    /\ tpc \in {"none", "start", "look", "retry", "seen", "wait", "woken",
                "open", "notified", "asked", "restart", "send", "clean", "over"}
    /\ back \in {"none", "wait", "look", "restart"}

Amounts ==
    /\ up \in 0 .. MaxUp
    /\ data \in States \cup {NoData}
    /\ latest_output \in States \cup {NoData}
    /\ cres \in States
    /\ prev_res \in States \cup {NoData}
    /\ counter \in 0 .. Retries
    /\ tpc = "retry" => counter < Retries
    /\ res \in States
    /\ held \in 0 .. MaxUp
    /\ known \in States \cup {NoData}
    /\ changes \in 0 .. MaxChanges
    /\ tries \in Nat

\* They are the types.
LEMMA TypeParts == TypeInv <=> Flags /\ Places /\ Amounts
BY DEF TypeInv, TypeOK, Flags, Places, Amounts

\* Every step keeps what is true or false so.
LEMMA FlagsStep ==
  ASSUME Flags, [Next]_vars
  PROVE  Flags'
<1> USE DEF Flags
<1>1. CASE Comes \/ Ends \/ Heal
  BY <1>1, Zenon DEF Comes, Ends, Heal, objectVars, cycleVars, threadVars
<1>2. CASE CycleSkip \/ CycleMeasure \/ CycleDrop \/ CycleClean
  BY <1>2, Zenon
     DEF CycleSkip, CycleMeasure, CycleDrop, CycleClean, setNoOutput, threadVars
<1>3. CASE CycleSet \/ CycleSend \/ ThreadSend
  BY <1>3, Zenon DEF CycleSet, CycleSend, ThreadSend, setOutput, getXml, threadVars
<1>4. CASE ThreadStart \/ ThreadClean \/ LookNone \/ Retry \/ LookSome \/ Wait
  BY <1>4, Zenon
     DEF ThreadStart, ThreadClean, LookNone, Retry, LookSome, Wait, objectVars
<1>5. ASSUME NEW next, Query(next) PROVE Flags'
  BY <1>5, Zenon DEF Query, setOutput
<1>6. CASE Seen \/ Woken \/ Asked
  BY <1>5, <1>6, Zenon DEF Seen, Woken, Asked
<1>7. CASE OpenLog \/ AwaitEvent \/ StartAgain
  BY <1>7, Zenon DEF OpenLog, AwaitEvent, StartAgain, objectVars
<1>8. CASE UNCHANGED vars
  BY <1>8, Zenon DEF vars, objectVars, threadVars
<1> QED
  BY <1>1, <1>2, <1>3, <1>4, <1>6, <1>7, <1>8, Zenon DEF Next, Cycle, Thread

\* Every step leaves each thread at one of its places.
LEMMA PlacesStep ==
  ASSUME Places, [Next]_vars
  PROVE  Places'
<1> USE DEF Places
<1>1. CASE Comes \/ Ends \/ Heal
  BY <1>1 DEF Comes, Ends, Heal, cycleVars, threadVars
<1>2. CASE Cycle
  BY <1>2 DEF Cycle, CycleSkip, CycleMeasure, CycleSet, CycleDrop, CycleSend, CycleClean,
              cycleVars, threadVars
<1>3. CASE ThreadStart \/ ThreadSend \/ ThreadClean
  BY <1>3 DEF ThreadStart, ThreadSend, ThreadClean, cycleVars
<1>4. CASE LookNone \/ Retry \/ LookSome \/ Wait
  BY <1>4 DEF LookNone, Retry, LookSome, Wait, cycleVars
<1>5. ASSUME NEW next \in {"wait", "look", "restart"}, Query(next) PROVE Places'
  BY <1>5 DEF Query, cycleVars
<1>6. CASE Seen \/ Woken \/ Asked
  BY <1>5, <1>6 DEF Seen, Woken, Asked
<1>7. CASE OpenLog \/ AwaitEvent \/ StartAgain
  BY <1>7 DEF OpenLog, AwaitEvent, StartAgain, cycleVars
<1>8. CASE UNCHANGED vars
  BY <1>8 DEF vars, cycleVars, threadVars
<1> QED
  BY <1>1, <1>2, <1>3, <1>4, <1>6, <1>7, <1>8 DEF Next, Thread

\* Every step keeps what has been counted and measured within its bounds.
LEMMA AmountsStep ==
  ASSUME TypeInv, [Next]_vars
  PROVE  Amounts'
<1> USE DEF Amounts
<1>0. /\ Amounts /\ Places /\ TypeOK
      /\ 0 \in States /\ MaxUp \in Nat \ {0} /\ Retries \in Nat /\ MaxChanges \in Nat
  BY TypeParts, AsyncModulesAssumption DEF TypeInv, States
<1>1. CASE Comes
  BY <1>0, <1>1 DEF Comes, Cap, objectVars, cycleVars
<1>2. CASE Ends
  BY <1>0, <1>2 DEF Ends, objectVars, cycleVars
<1>3. CASE Heal \/ UNCHANGED vars
  BY <1>0, <1>3 DEF Heal, vars, objectVars, cycleVars, threadVars
<1>4. CASE CycleSkip \/ CycleDrop \/ CycleClean
  BY <1>0, <1>4 DEF CycleSkip, CycleDrop, CycleClean, setNoOutput, cycleVars, threadVars
<1>5. CASE CycleMeasure
  <2>1. cres' \in States
    BY <1>0, <1>5, QueryType DEF CycleMeasure
  <2> QED
    BY <1>0, <1>5, <2>1 DEF CycleMeasure, threadVars
<1>6. CASE CycleSet
  BY <1>0, <1>6 DEF CycleSet, setOutput
<1>7. CASE CycleSend
  BY <1>0, <1>7 DEF CycleSend, getXml, threadVars
<1>8. CASE ThreadStart
  BY <1>0, <1>8 DEF ThreadStart, objectVars, cycleVars
<1>9. CASE ThreadSend \/ ThreadClean
  BY <1>0, <1>9 DEF ThreadSend, ThreadClean, getXml, cycleVars, Places
<1>10. CASE LookNone
  <2>1. tpc' = "retry" => counter < Retries
    <3>1. tpc = "look" /\ (counter >= Retries => tpc' = tpc)
      BY <1>10, Zenon DEF LookNone
    <3> QED
      BY <1>0, <3>1
  <2>2. UNCHANGED <<up, data, latest_output, cres, prev_res, counter, res, held, known, changes,
                    tries>>
    BY <1>10, Zenon DEF LookNone, cycleVars
  <2> QED
    BY <1>0, <2>1, <2>2
<1>11. CASE Retry
  <2>1. up' \in 0 .. MaxUp /\ tries' \in Nat
    BY <1>0, <1>11, StartType DEF Retry
  <2> QED
    BY <1>0, <1>11, <2>1 DEF Retry, objectVars, cycleVars
<1>12. CASE LookSome
  <2>1. held' \in 0 .. MaxUp
    BY <1>0, <1>12 DEF LookSome
  <2> QED
    BY <1>0, <1>12, <2>1 DEF LookSome, objectVars, cycleVars
<1>13. ASSUME NEW next \in {"wait", "look", "restart"}, Query(next) PROVE Amounts'
  <2>1. PICK r \in States :
            /\ res' = r
            /\ \/ /\ setOutput(r) /\ prev_res' = r /\ tpc' = "send" /\ back' = next
               \/ /\ UNCHANGED <<data, latest_output, late, prev_res, back>> /\ tpc' = next
            /\ UNCHANGED <<kind, up, healed, watchdog, has_output, cycleVars, counter, held,
                           ended, known, changes, tries>>
    BY <1>0, <1>13, QueryStep
  <2> QED
    BY <1>0, <2>1 DEF setOutput, cycleVars
<1>14. CASE Seen \/ Woken \/ Asked
  BY <1>13, <1>14 DEF Seen, Woken, Asked
<1>15. CASE Wait \/ OpenLog \/ AwaitEvent
  BY <1>0, <1>15 DEF Wait, OpenLog, AwaitEvent, objectVars, cycleVars
<1>16. CASE StartAgain
  <2>1. up' \in 0 .. MaxUp /\ tries' \in Nat
    BY <1>0, <1>16, StartType DEF StartAgain
  <2> QED
    BY <1>0, <1>16, <2>1 DEF StartAgain, objectVars, cycleVars
<1> QED
  BY <1>1, <1>2, <1>3, <1>4, <1>5, <1>6, <1>7, <1>8, <1>9, <1>10, <1>11, <1>12, <1>14,
     <1>15, <1>16 DEF Next, Cycle, Thread

\* Every step of either thread keeps the types.
LEMMA TypeStep ==
  ASSUME TypeInv, [Next]_vars
  PROVE  TypeInv'
<1>1. Flags /\ Places
  BY TypeParts
<1>2. Flags' /\ Places' /\ Amounts'
  BY <1>1, FlagsStep, PlacesStep, AmountsStep
<1>3. (TypeInv <=> Flags /\ Places /\ Amounts)'
  BY DEF TypeInv, TypeOK, Flags, Places, Amounts
<1> QED
  BY <1>2, <1>3

\* The initial state has the types.
LEMMA TypeInit == Init => TypeInv
<1> SUFFICES ASSUME Init PROVE Flags /\ Places /\ Amounts
  BY TypeParts
<1>1. 0 \in States /\ MaxUp \in Nat \ {0} /\ Retries \in Nat \ {0} /\ MaxChanges \in Nat
  BY AsyncModulesAssumption DEF States
<1>2. Flags /\ Places
  BY DEF Init, Flags, Places
<1>3. Amounts
  BY <1>1 DEF Init, Amounts
<1> QED
  BY <1>2, <1>3

\* The variables of the module object and of its two threads keep their types: in
\* particular the counter of retries never exceeds module_retries.
THEOREM TypeCorrect == Spec => []TypeOK
<1>1. TypeInv /\ [Next]_vars => TypeInv'
  BY TypeStep
<1>2. TypeInv => TypeOK
  BY DEF TypeInv
<1> QED
  BY TypeInit, <1>1, <1>2, PTL DEF Spec

\* PendingOrSent is not inductive: it needs to know what is cleared in the second
\* half of a getXml, when the list still holds what the first half has written.
OutputInv ==
    /\ data # NoData => data = latest_output
    /\ (cpc = "clean" \/ tpc = "clean") /\ ~late => known = latest_output
    /\ PendingOrSent

\* Every step of either thread keeps it.
LEMMA OutputStep ==
  ASSUME TypeInv, OutputInv, [Next]_vars
  PROVE  OutputInv'
<1> USE DEF OutputInv, PendingOrSent
<1>0. /\ NoData \notin States /\ cres \in States /\ late \in BOOLEAN
      /\ back \in {"none", "wait", "look", "restart"}
  BY AsyncModulesAssumption DEF TypeInv, TypeOK, States
<1>1. CASE Comes \/ Ends \/ Heal
  BY <1>1 DEF Comes, Ends, Heal, objectVars, cycleVars, threadVars
<1>2. CASE CycleSkip \/ CycleDrop
  BY <1>2 DEF CycleSkip, CycleDrop, setNoOutput, cycleVars, threadVars
<1>3. CASE CycleMeasure
  BY <1>3 DEF CycleMeasure, threadVars
<1>4. CASE CycleSet
  BY <1>0, <1>4 DEF CycleSet, setOutput
<1>5. CASE CycleSend
  BY <1>5 DEF CycleSend, getXml, Written, Free, threadVars
<1>6. CASE CycleClean
  BY <1>6 DEF CycleClean, threadVars
<1>7. CASE ThreadStart
  BY <1>7 DEF ThreadStart, objectVars, cycleVars
<1>8. CASE ThreadSend
  BY <1>0, <1>8 DEF ThreadSend, getXml, Written, Free, cycleVars
<1>9. CASE ThreadClean
  BY <1>0, <1>9 DEF ThreadClean, cycleVars
<1>10. CASE LookNone \/ Retry \/ LookSome \/ Wait
  BY <1>10 DEF LookNone, Retry, LookSome, Wait, objectVars, cycleVars
<1>11. CASE OpenLog \/ AwaitEvent \/ StartAgain
  BY <1>11 DEF OpenLog, AwaitEvent, StartAgain, objectVars, cycleVars
<1>12. ASSUME NEW next \in {"wait", "look", "restart"}, Query(next), tpc # "clean"
       PROVE  OutputInv'
  <2>1. PICK r \in States :
            /\ \/ /\ setOutput(r) /\ tpc' = "send"
               \/ /\ UNCHANGED <<data, latest_output, late>> /\ tpc' = next
            /\ UNCHANGED <<has_output, cycleVars, known>>
    BY <1>12, QueryStep DEF TypeInv
  <2> QED
    BY <1>0, <1>12, <2>1 DEF setOutput, cycleVars
<1>13. CASE Seen \/ Woken \/ Asked
  BY <1>12, <1>13 DEF Seen, Woken, Asked
<1>14. CASE UNCHANGED vars
  BY <1>14 DEF vars, objectVars, cycleVars, threadVars
<1> QED
  BY <1>1, <1>2, <1>3, <1>4, <1>5, <1>6, <1>7, <1>8, <1>9, <1>10, <1>11, <1>13, <1>14
     DEF Next, Cycle, Thread

\* However the steps of the two threads interleave, a value that setOutput was
\* given stays in the list or was the last one the server was told, unless it came
\* between the two halves of a getXml.
THEOREM NothingLostBetween == Spec => []PendingOrSent
<1> DEFINE Inv == TypeInv /\ OutputInv
<1>1. Init => Inv
  BY TypeInit DEF Init, OutputInv, PendingOrSent
<1>2. Inv /\ [Next]_vars => Inv'
  BY TypeStep, OutputStep
<1>3. Inv => PendingOrSent
  BY DEF OutputInv
<1> QED
  BY <1>1, <1>2, <1>3, PTL DEF Spec

\* StartsBounded is not inductive: the starts in vain are those that the counter
\* has counted since it was reset, and it is reset only when an instance is up.
StartInv ==
    kind = "proc" => /\ tries <= counter
                     /\ up > 0 => tries = 0
                     /\ tpc \notin ServicePcs
                     /\ back # "restart"

\* Every step of either thread keeps it.
LEMMA StartStep ==
  ASSUME TypeInv, StartInv, [Next]_vars
  PROVE  StartInv'
<1> USE DEF StartInv, ServicePcs
<1>0. /\ tries \in Nat /\ counter \in Nat /\ up \in Nat
      /\ back \in {"none", "wait", "look", "restart"}
  BY AsyncModulesAssumption DEF TypeInv, TypeOK
<1>1. CASE Comes \/ Ends \/ Heal
  BY <1>0, <1>1 DEF Comes, Ends, Heal, threadVars
<1>2. CASE Cycle
  BY <1>2 DEF Cycle, CycleSkip, CycleMeasure, CycleSet, CycleDrop, CycleSend, CycleClean,
              threadVars
<1>3. CASE ThreadStart \/ ThreadSend \/ ThreadClean \/ LookNone
  BY <1>0, <1>3 DEF ThreadStart, ThreadSend, ThreadClean, LookNone
<1>4. CASE Retry
  BY <1>0, <1>4 DEF Retry, StartProgram
<1>5. CASE LookSome
  BY <1>0, <1>5 DEF LookSome
<1>6. ASSUME NEW next \in {"wait", "look", "restart"}, Query(next),
             kind = "proc" => next # "restart"
      PROVE  StartInv'
  <2>1. /\ UNCHANGED <<kind, tries, counter, up>>
        /\ \/ tpc' = "send" /\ back' = next
           \/ tpc' = next /\ back' = back
    BY <1>6 DEF Query
  <2> QED
    BY <1>6, <2>1
<1>7. CASE Seen \/ Woken \/ Asked
  BY <1>6, <1>7 DEF Seen, Woken, Asked
<1>8. CASE Wait
  BY <1>8 DEF Wait
<1>9. CASE OpenLog \/ AwaitEvent \/ StartAgain
  BY <1>9 DEF OpenLog, AwaitEvent, StartAgain
<1>10. CASE UNCHANGED vars
  BY <1>10 DEF vars, threadVars
<1> QED
  BY <1>1, <1>2, <1>3, <1>4, <1>5, <1>7, <1>8, <1>9, <1>10 DEF Next, Thread

\* The watchdog of a process starts it in vain at most module_retries times in a
\* row, whatever comes and goes meanwhile and whatever the queries answer.
THEOREM RetriesBounded == Spec => []StartsBounded
<1> DEFINE Inv == TypeInv /\ StartInv
<1>1. Init => Inv
  BY TypeInit DEF Init, StartInv, ServicePcs
<1>2. Inv /\ [Next]_vars => Inv'
  BY TypeStep, StartStep
<1>3. Inv => StartsBounded
  BY AsyncModulesAssumption DEF TypeInv, TypeOK, StartInv, StartsBounded
<1> QED
  BY <1>1, <1>2, <1>3, PTL DEF Spec

----------------------------------------------------------------------------
(* Collections                                                             *)

\* The iterator stands at a collection between the reading of its digest and the
\* end of its turn; the digest is there when it is used.
LocalsOK ==
    /\ step \in {"idle", "next", "purge"} => cur = NoColl
    /\ step \in {"recvMd5", "recvZip", "clear", "unzip", "save"} => cur \in Colls
    /\ step \in {"recvZip", "clear", "unzip", "save"} => got \in Versions
    /\ step = "save" => ~new

\* What holds of the collection whose turn it is.
TurnOK ==
    cur \in Colls \ failed =>
        /\ step = "recvMd5" /\ new => md5[cur] \notin Versions
        /\ step \in {"recvMd5", "recvZip", "clear"} /\ ~new /\ md5[cur] \in Versions
              => dir[cur] \in Versions
        /\ step = "save" => dir[cur] \in Versions

\* A purge has not passed the digest of an unlisted collection without removing it.
PurgeOK ==
    step = "purge" =>
        IF broker THEN entries = {}
        ELSE \A c \in Colls \ (failed \cup list) :
                md5[c] # NoFile => Md5Name(c) \in entries

CollInv == CollTypeOK /\ LocalsOK /\ TurnOK /\ PurgeOK /\ DigestMeansContent

\* An entry of a collection that is not listed is not in the list.
LEMMA Unlisted ==
    ASSUME NEW STATE c
    PROVE  ~isInCollectionList(DirName(c)) \/ ~isInCollectionList(Md5Name(c)) => c \notin list
BY DEF isInCollectionList

LEMMA CollInvInit == CollInit => CollInv
<1> SUFFICES ASSUME CollInit PROVE CollInv
  OBVIOUS
<1>1. brokers \in BOOLEAN /\ broker \in BOOLEAN /\ repaired \in BOOLEAN /\ new \in BOOLEAN
  BY Zenon DEF CollInit
<1>2. CollTypeOK
  BY <1>1, CollectionsAssumption DEF CollInit, CollTypeOK, PCs, Versions
<1> QED
  BY <1>2, CollectionsAssumption
  DEF CollInit, CollInv, LocalsOK, TurnOK, PurgeOK, DigestMeansContent, HalfPurged

LEMMA CollInvStep == CollInv /\ [CollNext]_collVars => CollInv'
<1> SUFFICES ASSUME CollInv, [CollNext]_collVars PROVE CollInv'
  OBVIOUS
<1> USE CollectionsAssumption
    DEF CollInv, LocalsOK, TurnOK, PurgeOK, DigestMeansContent, HalfPurged, serverVars
<1>1. CASE Begin
  BY <1>1 DEF Begin, CollTypeOK, PCs
<1>2. ASSUME NEW c \in Colls, CheckLocal(c)
      PROVE  CollInv'
  <2>1. CASE md5[c] = Short
    BY <1>2, <2>1 DEF CheckLocal, CollTypeOK, PCs
  <2>2. CASE md5[c] # Short
    <3>1. step' = "recvMd5" /\ cur' = c /\ new' = (md5[c] \in {NoFile, Empty})
      BY <1>2, <2>2 DEF CheckLocal
    <3>2. new' \in BOOLEAN
      BY <3>1, SMT
    <3>3. new' => md5[c] \in {NoFile, Empty}
      BY <3>1, Zenon
    <3>4. step = "next" /\ cur = NoColl /\ UNCHANGED <<md5, dir, got, zip, entries, failed>>
      BY <1>2 DEF CheckLocal
    <3>5. CollTypeOK'
      BY <1>2, <3>1, <3>2 DEF CheckLocal, CollTypeOK, PCs
    <3> QED
      BY <3>1, <3>3, <3>4, <3>5
  <2> QED
    BY <2>1, <2>2
<1>3. CASE RecvMd5
  <2>0. cur \in Colls /\ srvMd5[cur] \in Versions
    BY <1>3 DEF RecvMd5, CollTypeOK
  <2>1. CASE new
    <3>1. PICK x \in Versions \cup {Empty, Short} : md5' = [md5 EXCEPT ![cur] = x]
      BY <1>3, <2>0, <2>1 DEF RecvMd5
    <3>2. /\ md5' \in [Colls -> Versions \cup {NoFile, Empty, Short}]
          /\ \A c \in Colls \ {cur} : md5'[c] = md5[c]
      BY <2>0, <3>1 DEF CollTypeOK
    <3> QED
      BY <1>3, <2>0, <2>1, <3>2 DEF RecvMd5, CollTypeOK, PCs
  <2>2. CASE ~new /\ srvMd5[cur] = md5[cur]
    BY <1>3, <2>0, <2>2 DEF RecvMd5, GoNext, CollTypeOK, PCs
  <2>3. CASE ~new /\ srvMd5[cur] # md5[cur]
    BY <1>3, <2>0, <2>3 DEF RecvMd5, CollTypeOK, PCs
  <2> QED
    BY <2>1, <2>2, <2>3
<1>4. CASE RecvZip
  BY <1>4 DEF RecvZip, CollTypeOK, PCs
<1>5. CASE RecvFails
  BY <1>5 DEF RecvFails, GoNext, Midway, CollTypeOK, PCs
<1>6. CASE ClearDir
  <2>1. cur \in Colls /\ zip \in Versions /\ got \in Versions
    BY <1>6 DEF ClearDir, CollTypeOK
  <2>2. PICK d \in Versions \cup {NoFile, Empty} : dir' = [dir EXCEPT ![cur] = d]
    BY <1>6, <2>1 DEF ClearDir, CollTypeOK
  <2>3. /\ dir' \in [Colls -> Versions \cup {NoFile, Empty}]
        /\ \A c \in Colls \ {cur} : dir'[c] = dir[c]
    BY <2>1, <2>2 DEF CollTypeOK
  <2>4. CASE step' = "unzip"
    BY <1>6, <2>1, <2>3, <2>4 DEF ClearDir, Unzipped, GoNext, CollTypeOK, PCs
  <2>5. CASE step' # "unzip"
    BY <1>6, <2>1, <2>3, <2>5 DEF ClearDir, Unzipped, GoNext, CollTypeOK, PCs
  <2> QED
    BY <2>4, <2>5
<1>7. CASE Unzip
  <2>1. cur \in Colls /\ zip \in Versions /\ got \in Versions
    BY <1>7 DEF Unzip, CollTypeOK
  <2>2. /\ dir' \in [Colls -> Versions \cup {NoFile, Empty}]
        /\ failed' \subseteq Colls
        /\ cur \notin failed' => dir'[cur] \in Versions
        /\ \A c \in Colls \ {cur} : dir'[c] = dir[c] /\ (c \in failed' <=> c \in failed)
    BY <1>7, <2>1 DEF Unzip, CollTypeOK
  <2>3. CASE new
    BY <1>7, <2>1, <2>2, <2>3 DEF Unzip, Unzipped, GoNext, CollTypeOK, PCs
  <2>4. CASE ~new
    BY <1>7, <2>1, <2>2, <2>4 DEF Unzip, Unzipped, CollTypeOK, PCs
  <2> QED
    BY <2>3, <2>4
<1>8. CASE SaveMd5
  <2>1. cur \in Colls /\ got \in Versions /\ (cur \notin failed => dir[cur] \in Versions)
    BY <1>8 DEF SaveMd5
  <2>2. PICK x \in Versions \cup {Empty, Short} : md5' = [md5 EXCEPT ![cur] = x]
    BY <1>8, <2>1 DEF SaveMd5
  <2>3. md5' \in [Colls -> Versions \cup {NoFile, Empty, Short}]
    BY <2>1, <2>2 DEF CollTypeOK
  <2>4. \A c \in Colls \ failed : md5'[c] \in Versions => dir[c] \in Versions
    BY <2>1, <2>2 DEF CollTypeOK
  <2> QED
    BY <1>8, <2>3, <2>4 DEF SaveMd5, GoNext, CollTypeOK, PCs
<1>9. CASE Last
  <2>1. entries' \subseteq EntryNames
    BY <1>9 DEF Last, EntryNames
  <2>2. IF broker THEN entries' = {}
        ELSE \A c \in Colls : md5[c] # NoFile => Md5Name(c) \in entries'
    BY <1>9 DEF Last
  <2> QED
    BY <1>9, <2>1, <2>2 DEF Last, CollTypeOK, PCs
<1>10. CASE purgeDiskCollections
  <2>0. step = "purge" /\ cur = NoColl
    BY <1>10 DEF purgeDiskCollections, Spare, PurgeDir, PurgeMd5, Purged
  <2>1. ASSUME NEW n \in EntryNames, Spare(n)
        PROVE  CollInv'
    <3>1. ASSUME NEW c \in Colls \ list, Md5Name(c) \in entries
          PROVE  Md5Name(c) \in entries'
      <4>1. ~isInCollectionList(Md5Name(c))
        BY <3>1 DEF isInCollectionList, DirName, Md5Name
      <4> QED
        BY <2>1, <3>1, <4>1 DEF Spare
    <3> QED
      BY <2>0, <2>1, <3>1 DEF Spare, CollTypeOK, PCs
  <2>2. ASSUME NEW c \in Colls, PurgeDir(c)
        PROVE  CollInv'
    <3>1. c \notin list /\ ~broker
      BY <2>0, <2>2, Unlisted DEF PurgeDir
    <3>2. /\ dir' \in [Colls -> Versions \cup {NoFile, Empty}]
          /\ \A d \in Colls \ {c} : dir'[d] = dir[d]
          /\ dir'[c] = dir[c] \/ dir'[c] \in {NoFile, Empty}
      BY <2>2 DEF PurgeDir, CollTypeOK
    <3>3. /\ entries' \subseteq entries
          /\ \A d \in Colls : Md5Name(d) \in entries => Md5Name(d) \in entries'
      BY <2>2 DEF PurgeDir, DirName, Md5Name
    <3>4. failed' = failed \/ (failed' = failed \cup {c} /\ dir' = dir)
      BY <2>2 DEF PurgeDir
    <3>5. UNCHANGED <<serverVars, md5, path, step, todo, cur, got, zip, new, crashes>>
      BY <2>2 DEF PurgeDir
    <3> QED
      BY <2>0, <3>1, <3>2, <3>3, <3>4, <3>5 DEF CollTypeOK
  <2>3. ASSUME NEW c \in Colls, PurgeMd5(c)
        PROVE  CollInv'
    <3>1. c \notin list /\ ~broker
      BY <2>0, <2>3, Unlisted DEF PurgeMd5
    <3>2. \/ md5' = [md5 EXCEPT ![c] = NoFile] /\ failed' = failed
          \/ md5' = md5 /\ failed' = failed \cup {c}
      BY <2>3 DEF PurgeMd5
    <3>3. /\ md5' \in [Colls -> Versions \cup {NoFile, Empty, Short}]
          /\ \A d \in Colls \ {c} : md5'[d] = md5[d]
          /\ c \in failed' \/ md5'[c] = NoFile
          /\ failed' \subseteq failed \cup {c} /\ failed \subseteq failed'
      BY <3>2 DEF CollTypeOK
    <3>4. /\ entries' \subseteq entries
          /\ \A d \in Colls \ {c} : Md5Name(d) \in entries => Md5Name(d) \in entries'
      BY <2>3 DEF PurgeMd5, Md5Name
    <3>5. UNCHANGED <<serverVars, dir, path, step, todo, cur, got, zip, new, crashes>>
      BY <2>3 DEF PurgeMd5
    <3>6. CollTypeOK'
      BY <3>3, <3>4, <3>5 DEF CollTypeOK
    <3>7. PurgeOK'
      BY <2>0, <3>1, <3>3, <3>4, <3>5
    <3>8. DigestMeansContent'
      <4> SUFFICES ASSUME NEW d \in Colls \ (failed' \cup {cur'} \cup HalfPurged'),
                          md5'[d] \in Versions
                   PROVE  dir'[d] \in Versions
        OBVIOUS
      <4>1. d # c
        BY <3>3
      <4>2. d \notin HalfPurged
        BY <2>0, <3>4, <3>5, <4>1
      <4> QED
        BY <3>3, <3>5, <4>1, <4>2
    <3> QED
      BY <2>0, <3>5, <3>6, <3>7, <3>8
  <2>4. CASE Purged
    BY <2>0, <2>4 DEF Purged, CollTypeOK, PCs
  <2> QED
    BY <1>10, <2>1, <2>2, <2>3, <2>4 DEF purgeDiskCollections
<1>11. CASE Crash
  <2>1. failed' \subseteq Colls /\ failed \cup HalfPurged \subseteq failed'
    BY <1>11 DEF Crash, Midway, CollTypeOK
  <2>2. ASSUME NEW c \in Colls \ failed', md5[c] \in Versions
        PROVE  dir[c] \in Versions
    <3>1. CASE c # cur
      BY <2>1, <2>2, <3>1
    <3>2. CASE c = cur
      BY <1>11, <2>1, <2>2, <3>2 DEF Crash, Midway, CollTypeOK, PCs
    <3> QED
      BY <3>1, <3>2
  <2>3. CollTypeOK'
    <3>1. crashes' \in 0 .. MaxCrashes
      BY <1>11 DEF Crash, CollTypeOK
    <3> QED
      BY <1>11, <2>1, <3>1 DEF Crash, CollTypeOK, PCs
  <2> QED
    BY <1>11, <2>2, <2>3 DEF Crash
<1>12. ASSUME NEW l \in SUBSET Colls, NEW b \in BOOLEAN, Reconfigure(l, b)
       PROVE  CollInv'
  BY <1>12 DEF Reconfigure, CollTypeOK
<1>13. ASSUME NEW c \in Colls, NewZip(c) \/ NewMd5(c)
       PROVE  CollInv'
  BY <1>13 DEF NewZip, NewMd5, CollTypeOK, Versions
<1>14. CASE Repair
  BY <1>14 DEF Repair, CollTypeOK
<1>15. CASE UNCHANGED collVars
  BY <1>15 DEF collVars, CollTypeOK
<1> QED
  BY <1>1, <1>2, <1>3, <1>4, <1>5, <1>6, <1>7, <1>8, <1>9, <1>10, <1>11, <1>12,
     <1>13, <1>14, <1>15 DEF CollNext, Agent

\* The variables of checkCollections keep their types.
THEOREM CollTypeCorrect == CollSpec => []CollTypeOK
<1>1. CollInv => CollTypeOK
  BY DEF CollInv
<1> QED
  BY CollInvInit, CollInvStep, <1>1, PTL DEF CollSpec

\* A saved digest stands for a whole directory unless that collection's last
\* installation or removal broke off, or is under way, for any interleaving of
\* checks, purges of single entries, failures, new versions, reloads and crashes.
THEOREM DigestSound == CollSpec => []DigestMeansContent
<1>1. CollInv => DigestMeansContent
  BY DEF CollInv
<1> QED
  BY CollInvInit, CollInvStep, <1>1, PTL DEF CollSpec

=============================================================================
