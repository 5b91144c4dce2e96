----------------------------- MODULE ServiceLoop -----------------------------
(***************************************************************************)
(* The service loop: execRunFunction with its tick arithmetic, the start   *)
(* and the stop of the Windows service, and the thread of the UDP server,  *)
(* which runs cycles of its own.  Time passes in ticks; the tick count     *)
(* wraps at Wrap (2^32 in the code).  Started with --process, the agent    *)
(* does not use this loop.                                                 *)
(***************************************************************************)
EXTENDS Integers

CONSTANTS
    Wrap,           \* the number of values of a DWORD
    SleepTimes,     \* the values that intensive_interval may have, in ticks
    MaxDuration,    \* bound: ticks a cycle or the startup delay takes
    MaxLate,        \* bound: ticks after which a thread that may run does run
    StopDelay,      \* READ_TIMEOUT * 2
    MaxReloads      \* bound: how often pandora_init brings another sleep_time

ASSUME ServiceLoopAssumption ==
    /\ Wrap \in Nat \ {0, 1} /\ Wrap % 2 = 0
    /\ SleepTimes \subseteq Nat
    /\ MaxDuration \in Nat
    /\ MaxLate \in Nat
    /\ MaxDuration + MaxLate < Wrap
    /\ \A s \in SleepTimes : 2 * s < Wrap
    /\ StopDelay \in Nat
    /\ MaxReloads \in Nat

VARIABLES
    tick,           \* GetTickCount ()
    sleep_time,
    base,           \* iter_base_ticks
    startup,        \* the static flag of pandora_run
    pc,             \* the service thread
    age,            \* ticks since its last cycle, or its startup delay, began
    left,           \* ticks until its wait is over
    status,         \* what the service control manager has been told
    ctrl,           \* windows_service_ctrl_handler
    asleep,         \* ticks that the handler still sleeps
    main,           \* the main thread
    udp,            \* the thread of the UDP server
    reloads,
    due,            \* history: the age at which the next cycle should begin
    moved           \* history: has the UDP thread set base?  "new" until the service thread
                    \* has used that value, "old" until the next cycle begins

serviceVars == <<pc, age, left, due>>
stopVars   == <<status, ctrl, asleep, main>>
loopVars == <<tick, sleep_time, base, startup, serviceVars, stopVars, udp, reloads, moved>>

MaxOf(a, b) == IF a > b THEN a ELSE b

LoopTypeOK ==
    /\ tick \in 0 .. Wrap - 1
    /\ sleep_time \in SleepTimes \cup {0}
    /\ base \in 0 .. Wrap - 1
    /\ startup \in BOOLEAN
    /\ pc \in {"none", "call", "delay", "run", "wait", "over"}
    /\ age \in Nat
    /\ left \in -MaxLate .. Wrap \div 2
    /\ status \in {"pending", "running", "stopped"}
    /\ ctrl \in {"none", "stopping", "done"}
    /\ asleep \in 0 .. StopDelay
    /\ main \in {"dispatch", "delete", "exit", "crash"}
    /\ udp \in {"none", "listen", "delay", "run", "dead"}
    /\ reloads \in 0 .. MaxReloads
    /\ due \in Nat
    /\ moved \in {"no", "new", "old"}

LoopInit ==
    /\ tick \in {0, Wrap - 1}
    /\ sleep_time = 0
    /\ base = 0
    /\ startup = TRUE
    /\ pc = "none"
    /\ age = 0
    /\ left = 0
    /\ status = "pending"
    /\ ctrl = "none"
    /\ asleep = 0
    /\ main = "dispatch"
    /\ udp = "none"
    /\ reloads = 0
    /\ due = 0
    /\ moved = "no"
---------------------------------------------------------------------------
(* External: a tick passes.  A cycle takes at most MaxDuration ticks, and a *)
(* thread whose wait is over waits for at most MaxLate more.                *)
Tick ==
    /\ pc \notin {"none", "call"}
    /\ pc \in {"run", "delay"} => age < MaxDuration
    /\ pc = "wait" => left > -MaxLate
    /\ tick' = (tick + 1) % Wrap
    /\ age' = IF pc = "over" THEN age ELSE age + 1
    /\ left' = IF pc = "wait" THEN left - 1 ELSE left
    /\ asleep' = IF asleep > 0 THEN asleep - 1 ELSE 0
    /\ UNCHANGED <<sleep_time, base, startup, pc, status, ctrl, main, udp, reloads, due, moved>>
---------------------------------------------------------------------------
(* The service thread.                                                      *)

setIterationBaseTicks(t) == base' = t

\* windows_service_start: pandora_init, which may start the UDP server, and the
\* beginning of execRunFunction.
ServiceStart ==
    /\ pc = "none"
    /\ sleep_time' \in SleepTimes
    /\ udp' \in {"none", "listen"}
    /\ status' = "running"
    /\ setIterationBaseTicks(tick)
    /\ pc' = "call"
    /\ UNCHANGED <<tick, startup, age, left, ctrl, asleep, main, reloads, due, moved>>

\* The first call of pandora_run by this thread: the startup delay is for the
\* thread that comes first.
FirstRun ==
    /\ pc = "call"
    /\ pc' = IF startup THEN "delay" ELSE "run"
    /\ startup' = FALSE
    /\ age' = 0
    /\ UNCHANGED <<tick, sleep_time, base, left, stopVars, udp, reloads, due, moved>>

Delayed ==
    /\ pc = "delay"
    /\ setIterationBaseTicks(tick)
    /\ pc' = "run"
    /\ age' = 0
    /\ UNCHANGED <<tick, sleep_time, startup, left, stopVars, udp, reloads, due, moved>>

\* pandora_run calls pandora_init, in one thread or in the other.
Reload ==
    /\ pc = "run" \/ udp = "run"
    /\ reloads < MaxReloads
    /\ sleep_time' \in SleepTimes \ {sleep_time}
    /\ reloads' = reloads + 1
    /\ UNCHANGED <<tick, base, startup, serviceVars, stopVars, udp, moved>>

\* What an unsigned difference is as an int.
ToInt(n) == IF n % Wrap < Wrap \div 2 THEN n % Wrap ELSE (n % Wrap) - Wrap

\* sleep_time - (ticknow - iter_base_ticks)
Remain == ToInt(sleep_time - ((tick - base) % Wrap))

InTime == 0 <= Remain /\ Remain <= sleep_time

\* Mutant: the loop ends if a cycle took too long.
EndRun_Breaks ==
    /\ pc = "run"
    /\ IF sleep_time <= 0 \/ ~InTime
         THEN pc' = "over" /\ UNCHANGED <<base, left, due>>
         ELSE /\ pc' = "wait"
              /\ left' = Remain
              /\ setIterationBaseTicks((base + sleep_time) % Wrap)
              /\ due' = MaxOf(age, sleep_time)
    /\ moved' = IF moved = "new" THEN "old" ELSE moved
    /\ UNCHANGED <<tick, sleep_time, startup, age, stopVars, udp, reloads>>

\* Mutant: the base of the next cycle is the end of this one.
EndRun_Drifts ==
    /\ pc = "run"
    /\ IF sleep_time <= 0
         THEN pc' = "over" /\ UNCHANGED <<base, left, due>>
         ELSE /\ pc' = "wait"
              /\ left' = IF InTime THEN Remain ELSE 0
              /\ setIterationBaseTicks(tick)
              /\ due' = MaxOf(age, sleep_time)
    /\ moved' = IF moved = "new" THEN "old" ELSE moved
    /\ UNCHANGED <<tick, sleep_time, startup, age, stopVars, udp, reloads>>

\* run_function returns: the rest of the loop's body.
EndRun ==
    /\ pc = "run"
    /\ IF sleep_time <= 0
         THEN pc' = "over" /\ UNCHANGED <<base, left, due>>
         ELSE /\ pc' = "wait"
              /\ left' = IF InTime THEN Remain ELSE 0
              /\ setIterationBaseTicks(IF InTime THEN (base + sleep_time) % Wrap ELSE tick)
              /\ due' = MaxOf(age, sleep_time)
    /\ moved' = IF moved = "new" THEN "old" ELSE moved
    /\ UNCHANGED <<tick, sleep_time, startup, age, stopVars, udp, reloads>>

\* WaitForSingleObject times out: nothing ever sets stop_event.
Wake ==
    /\ pc = "wait"
    /\ left <= 0
    /\ pc' = "run"
    /\ age' = 0
    /\ left' = 0
    /\ due' = 0
    /\ moved' = IF moved = "old" THEN "no" ELSE moved
    /\ UNCHANGED <<tick, sleep_time, base, startup, stopVars, udp, reloads>>
---------------------------------------------------------------------------
(* The thread of the UDP server: listen and process_command.                *)

\* REFRESH: pandora_run (1)
Refresh ==
    /\ udp = "listen"
    /\ udp' = IF startup THEN "delay" ELSE "run"
    /\ startup' = FALSE
    /\ UNCHANGED <<tick, sleep_time, base, serviceVars, stopVars, reloads, moved>>

RefreshDelayed ==
    /\ udp = "delay"
    /\ setIterationBaseTicks(tick)
    /\ udp' = "run"
    /\ moved' = "new"
    /\ UNCHANGED <<tick, sleep_time, startup, serviceVars, stopVars, reloads>>

RefreshEnd ==
    /\ udp = "run"
    /\ udp' = "listen"
    /\ UNCHANGED <<tick, sleep_time, base, startup, serviceVars, stopVars, reloads, moved>>

\* recvfrom fails, or Winsock cannot be used: the thread ends, running stays 1 and
\* no other is started.
ListenFails ==
    /\ udp = "listen"
    /\ udp' = "dead"
    /\ UNCHANGED <<tick, sleep_time, base, startup, serviceVars, stopVars, reloads, moved>>
---------------------------------------------------------------------------
(* The stop of the service.                                                 *)

\* SERVICE_CONTROL_STOP, from the service control manager or by a STOP SERVICE of
\* the UDP server.  The handler sleeps.
Stop ==
    /\ status = "running"
    /\ ctrl = "none"
    /\ ctrl' = "stopping"
    /\ asleep' = StopDelay
    /\ UNCHANGED <<tick, sleep_time, base, startup, serviceVars, status, main, udp, reloads, moved>>

\* SetWindowsServiceStatus (SERVICE_STOPPED), whatever the other threads are at.
Stopped ==
    /\ ctrl = "stopping"
    /\ asleep = 0
    /\ ctrl' = "done"
    /\ status' = "stopped"
    /\ UNCHANGED <<tick, sleep_time, base, startup, serviceVars, asleep, main, udp, reloads, moved>>

\* A step of main.
Main(from, to) ==
    /\ main = from
    /\ main' = to
    /\ UNCHANGED <<tick, sleep_time, base, startup, serviceVars, status, ctrl, asleep, udp, reloads,
                   moved>>

\* StartServiceCtrlDispatcher returns to main, which deletes the service object, its
\* configuration and its modules.  (UDP_Server::stop does not stop a server that is
\* running.)
DispatcherReturns == status = "stopped" /\ Main("dispatch", "delete")

\* main returns, and all threads end.
Exit == Main("delete", "exit")

\* A cycle of one of the other threads uses what has been deleted: undefined
\* behaviour.  It may bring the process down, or the cycle goes on for a while.
UseAfterDelete ==
    /\ pc = "run" \/ udp = "run"
    /\ Main("delete", "crash")
---------------------------------------------------------------------------
Service == ServiceStart \/ FirstRun \/ Delayed \/ EndRun \/ Wake

Udp == Refresh \/ RefreshDelayed \/ RefreshEnd \/ ListenFails

Control == Stopped \/ DispatcherReturns \/ Exit

\* The process has ended.
Ended == main \in {"exit", "crash"}

LoopNext ==
    /\ ~Ended
    /\ Tick \/ Service \/ Reload \/ Udp \/ Stop \/ Control \/ UseAfterDelete

LoopSpec == LoopInit /\ [][LoopNext]_loopVars

\* Time passes, and the service thread, the handler and main get their turns.
\* Nothing is assumed of the UDP thread.
LoopFairSpec ==
    /\ LoopSpec
    /\ WF_loopVars(Tick /\ ~Ended)
    /\ WF_loopVars(Service /\ ~Ended)
    /\ WF_loopVars(Control /\ ~Ended)
---------------------------------------------------------------------------
(* Properties.                                                              *)

\* "to *start* each iteration with the same interval": execRunFunction begins a
\* cycle not later after its base than the thread was kept waiting, so that
\* delays do not add up, also over the wrap of the tick count, after a cycle that
\* was too long and after a reload.  A first cycle in the UDP thread, which moves
\* the base, is made up for by the next cycle.
NoDrift ==
    pc = "run" /\ age = 0 /\ moved # "new" => (tick - base) % Wrap <= MaxLate

\* The next cycle begins sleep_time after the last one began or, if that took
\* longer, when it ends: execRunFunction never sleeps too long, whatever the tick
\* count does.
OnTime ==
    pc = "wait" /\ moved = "no" => age <= due + MaxLate

\* Cycles begin when they are due, not earlier and not later: execRunFunction keeps to
\* its base, and every variable has its type.
Punctual == LoopTypeOK /\ NoDrift /\ OnTime

\* The loop goes on until the service is stopped, or has a sleep_time of 0.
KeepsRunning ==
    pc = "run" /\ age > 0 ~>
        (pc = "run" /\ age = 0) \/ (pc = "over" /\ sleep_time = 0) \/ Ended
=============================================================================
