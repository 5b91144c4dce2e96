---------------------------- MODULE AsyncModules ----------------------------
(***************************************************************************)
(* Asynchronous modules: Pandora_Module_Proc and Pandora_Module_Service,   *)
(* whose object is used by two threads.  The service thread runs it in     *)
(* every cycle; a thread of its own (async_run) watches the process or the *)
(* service, sends an XML when something changed, and starts again what has *)
(* ended.  The behaviours are those of one module object: what a thread    *)
(* does with an object that pandora_init has deleted is undefined.         *)
(***************************************************************************)
EXTENDS Integers

CONSTANTS
    MaxUp,          \* bound: instances of the process
    Retries,        \* module_retries
    MaxChanges,     \* bound: how often an instance starts or ends by itself
    NoData

ASSUME AsyncModulesAssumption ==
    /\ MaxUp \in Nat \ {0}
    /\ Retries \in Nat \ {0}
    /\ MaxChanges \in Nat
    /\ NoData \notin Int

VARIABLES
    kind,           \* "proc" or "service"
    up,             \* how many instances run
    healed,         \* queries and starts of programs are successful from now on
    watchdog, has_output, data, latest_output,  \* the object; data_list by its last value
    cpc, cres,      \* the service thread: its position and res
    tpc, back, prev_res, counter, res,          \* the thread; where it goes on after sendXml
    held, ended,    \* how many handles it has, and whether one of their processes ended;
                    \* of a service thread whether the event log has changed
    known,          \* what the server has last been told
    changes,
    tries,          \* history: starts in vain since an instance was up
    late            \* history: an output came between the two halves of a getXml

objectVars == <<watchdog, has_output, data, latest_output>>
cycleVars  == <<cpc, cres>>
threadVars == <<tpc, back, prev_res, counter, res, held, ended>>
vars == <<kind, up, healed, objectVars, cycleVars, threadVars, known, changes, tries, late>>

\* What a query may answer: -1 is a service that is neither running nor stopped.
States == -1 .. MaxUp

TypeOK ==
    /\ kind \in {"proc", "service"}
    /\ up \in 0 .. MaxUp
    /\ healed \in BOOLEAN
    /\ watchdog \in BOOLEAN
    /\ has_output \in BOOLEAN
    /\ data \in States \cup {NoData}
    /\ latest_output \in States \cup {NoData}
    /\ cpc \in {"sleep", "measured", "decide", "clean"}
    /\ cres \in States
    /\ tpc \in {"none", "start", "look", "retry", "seen", "wait", "woken",
                "open", "notified", "asked", "restart", "send", "clean", "over"}
    /\ back \in {"none", "wait", "look", "restart"}
    /\ prev_res \in States \cup {NoData}
    /\ counter \in 0 .. Retries
    /\ res \in States
    /\ held \in 0 .. MaxUp
    /\ ended \in BOOLEAN
    /\ known \in States \cup {NoData}
    /\ changes \in 0 .. MaxChanges
    /\ tries \in Nat
    /\ late \in BOOLEAN

\* A module with module_async yes and module_watchdog yes.
Init ==
    /\ kind \in {"proc", "service"}
    /\ up \in 0 .. 1
    /\ healed = FALSE
    /\ watchdog = TRUE
    /\ has_output = FALSE
    /\ data = NoData
    /\ latest_output = NoData
    /\ cpc = "sleep" /\ cres = 0
    /\ tpc = "none" /\ back = "none"
    /\ prev_res = NoData
    /\ counter = 0
    /\ res = 0
    /\ held = 0
    /\ ended = FALSE
    /\ known = NoData
    /\ changes = 0
    /\ tries = 0
    /\ late = FALSE
---------------------------------------------------------------------------
(* The world.                                                               *)

Cap == IF kind = "service" THEN 1 ELSE MaxUp

\* The thread holds handles, or has asked to be told of events.
Told == tpc \in {"seen", "wait", "notified"} \/ back = "wait"

\* External: an instance is started by somebody else.
Comes ==
    /\ changes < MaxChanges
    /\ up < Cap
    /\ up' = up + 1
    /\ tries' = 0
    /\ ended' = (ended \/ (kind = "service" /\ Told))
    /\ changes' = changes + 1
    /\ UNCHANGED <<kind, healed, objectVars, cycleVars, tpc, back, prev_res, counter, res, held,
                   known, late>>

\* External: an instance ends, perhaps one the thread holds no handle of.
Ends ==
    /\ changes < MaxChanges
    /\ up > 0
    /\ up' = up - 1
    /\ \/ ended' = (ended \/ Told)
       \/ kind = "proc" /\ up > held /\ UNCHANGED ended
    /\ changes' = changes + 1
    /\ UNCHANGED <<kind, healed, objectVars, cycleVars, tpc, back, prev_res, counter, res, held,
                   known, tries, late>>

\* External: WMI and the programs work from now on, services are in no passing state.
Heal ==
    /\ ~healed
    /\ healed' = TRUE
    /\ UNCHANGED <<kind, up, objectVars, cycleVars, threadVars, known, changes, tries, late>>

\* runProgram, startService: what a start may lead to.
StartProgram ==
    \/ /\ up < Cap
       /\ up' = up + 1
       /\ tries' = 0
    \/ /\ up = Cap \/ ~healed
       /\ tries' = IF up = 0 THEN tries + 1 ELSE 0
       /\ UNCHANGED up

\* isProcessRunning, isServiceRunning: 0 if the query fails.
isRunning ==
    IF healed THEN {up} ELSE {up, 0} \cup (IF kind = "service" THEN {-1} ELSE {})
---------------------------------------------------------------------------
(* The object.                                                              *)

setOutput(v) ==
    /\ data' = v
    /\ latest_output' = v
    /\ late' = (late \/ cpc = "clean" \/ tpc = "clean")

setNoOutput ==
    /\ has_output' = FALSE
    /\ data' = NoData

\* The mutex of sendXml is free; its first use has created it.
Free == cpc # "clean" /\ tpc # "clean"

Written == has_output /\ data # NoData

\* Mutant: the list is cleaned whether or not it was written.
getXml_CleansAnyway ==
    /\ IF has_output THEN known' = known /\ late' = late ELSE UNCHANGED <<known, late>>
    /\ data' = NoData

\* getXml, the first half: the list, if there is one, is written.
getXml ==
    /\ IF Written
         THEN known' = data /\ late' = FALSE
         ELSE UNCHANGED <<known, late>>
    /\ UNCHANGED data
---------------------------------------------------------------------------
(* The service thread.                                                      *)

\* pandora_run: the module is not executed.
CycleSkip ==
    /\ cpc = "sleep"
    /\ setNoOutput
    /\ UNCHANGED <<kind, up, healed, watchdog, latest_output, cycleVars, threadVars, known,
                   changes, tries, late>>

\* Mutant: only the first execution has output.
CycleMeasure_OnlyFirst ==
    /\ cpc = "sleep"
    /\ has_output' = (has_output \/ tpc = "none")
    /\ cres' \in isRunning
    /\ cpc' = "measured"
    /\ UNCHANGED <<kind, up, healed, watchdog, data, latest_output, threadVars, known, changes,
                   tries, late>>

\* run: Pandora_Module::run, and the query.
CycleMeasure ==
    /\ cpc = "sleep"
    /\ has_output' = TRUE
    /\ cres' \in isRunning
    /\ cpc' = "measured"
    /\ UNCHANGED <<kind, up, healed, watchdog, data, latest_output, threadVars, known, changes,
                   tries, late>>

\* setOutput and, the first time, CreateThread.
CycleSet ==
    /\ cpc = "measured"
    /\ setOutput(cres)
    /\ tpc' = IF tpc = "none" THEN "start" ELSE tpc
    /\ cpc' = "decide"
    /\ cres' = 0
    /\ UNCHANGED <<kind, up, healed, watchdog, has_output, back, prev_res, counter, res, held,
                   ended, known, changes, tries>>

\* pandora_run drops what there is, because the module's interval has not passed ...
CycleDrop ==
    /\ cpc = "decide"
    /\ cpc' = "sleep"
    /\ setNoOutput
    /\ UNCHANGED <<kind, up, healed, watchdog, latest_output, cres, threadVars, known, changes,
                   tries, late>>

\* ... or keeps it, and sendXml writes it.
CycleSend ==
    /\ cpc = "decide" /\ Free
    /\ getXml
    /\ cpc' = IF Written THEN "clean" ELSE "sleep"
    /\ UNCHANGED <<kind, up, healed, watchdog, has_output, latest_output, cres, threadVars,
                   changes, tries>>

\* cleanDataList, at the end of getXml; the mutex is released.
CycleClean ==
    /\ cpc = "clean"
    /\ data' = NoData
    /\ cpc' = "sleep"
    /\ UNCHANGED <<kind, up, healed, watchdog, has_output, latest_output, cres, threadVars, known,
                   changes, tries, late>>
---------------------------------------------------------------------------
(* async_run, of either kind.                                               *)

ThreadStart ==
    /\ tpc = "start"
    /\ prev_res' = latest_output
    /\ tpc' = IF kind = "proc" THEN "look" ELSE "open"
    /\ UNCHANGED <<kind, up, healed, objectVars, cycleVars, back, counter, res, held, ended, known,
                   changes, tries, late>>

\* The query, and setOutput if the result has changed.
Query(next) ==
    \E r \in isRunning :
        /\ res' = r
        /\ IF r # prev_res
             THEN setOutput(r) /\ prev_res' = r /\ tpc' = "send" /\ back' = next
             ELSE UNCHANGED <<data, latest_output, late, prev_res, back>> /\ tpc' = next
        /\ UNCHANGED <<kind, up, healed, watchdog, has_output, cycleVars, counter, held, ended,
                       known, changes, tries>>

\* sendXml with the list that holds this module only.
ThreadSend ==
    /\ tpc = "send" /\ Free
    /\ getXml
    /\ IF Written
         THEN tpc' = "clean" /\ UNCHANGED back
         ELSE tpc' = back /\ back' = "none"
    /\ UNCHANGED <<kind, up, healed, watchdog, has_output, latest_output, cycleVars, prev_res,
                   counter, res, held, ended, changes, tries>>

ThreadClean ==
    /\ tpc = "clean"
    /\ data' = NoData
    /\ tpc' = back
    /\ back' = "none"
    /\ UNCHANGED <<kind, up, healed, watchdog, has_output, latest_output, cycleVars, prev_res,
                   counter, res, held, ended, known, changes, tries, late>>
---------------------------------------------------------------------------
(* async_run of Pandora_Module_Proc.                                        *)

\* getProcessHandles finds none, or fails: the program is started again, Retries
\* times.
LookNone ==
    /\ tpc = "look"
    /\ up = 0 \/ ~healed
    /\ watchdog
    /\ IF counter >= Retries
         THEN watchdog' = FALSE /\ UNCHANGED tpc
         ELSE tpc' = "retry" /\ UNCHANGED watchdog
    /\ UNCHANGED <<kind, up, healed, has_output, data, latest_output, cycleVars, back, prev_res,
                   counter, res, held, ended, known, changes, tries, late>>

\* Mutant: the start is not counted.
Retry_Uncounted ==
    /\ tpc = "retry"
    /\ StartProgram
    /\ tpc' = "look"
    /\ UNCHANGED <<kind, healed, objectVars, cycleVars, back, prev_res, counter, res, held, ended,
                   known, changes, late>>

\* Mutant: a start in vain is the last one.
Retry_Once ==
    /\ tpc = "retry"
    /\ StartProgram
    /\ counter' = counter + 1
    /\ tpc' = IF up' = 0 THEN "over" ELSE "look"
    /\ UNCHANGED <<kind, healed, objectVars, cycleVars, back, prev_res, res, held, ended, known,
                   changes, late>>

\* Sleep (retry_delay), runProgram, Sleep (start_delay), counter++
Retry ==
    /\ tpc = "retry"
    /\ StartProgram
    /\ counter' = counter + 1
    /\ tpc' = "look"
    /\ UNCHANGED <<kind, healed, objectVars, cycleVars, back, prev_res, res, held, ended, known,
                   changes, late>>

\* Mutant: the counter of retries goes on instead of being reset.
LookSome_CountsUp ==
    /\ tpc = "look"
    /\ up > 0
    /\ counter' = counter + 1
    /\ held' = up
    /\ ended' = FALSE
    /\ tpc' = "seen"
    /\ UNCHANGED <<kind, up, healed, objectVars, cycleVars, back, prev_res, res, known, changes,
                   tries, late>>

\* getProcessHandles finds some, as long as there are failures perhaps not all:
\* "Reset retries counter"
LookSome ==
    /\ tpc = "look"
    /\ up > 0
    /\ counter' = 0
    /\ held' \in IF healed THEN {up} ELSE 1 .. up
    /\ ended' = FALSE
    /\ tpc' = "seen"
    /\ UNCHANGED <<kind, up, healed, objectVars, cycleVars, back, prev_res, res, known, changes,
                   tries, late>>

Seen == tpc = "seen" /\ Query("wait")

\* WaitForMultipleObjects is told the number that was queried and not the number
\* of handles: told 0 it fails and "some event happened"; told another number it
\* may look at fewer handles than there are, or fail.
Wait ==
    /\ tpc = "wait"
    /\ \/ (ended \/ res = 0) /\ tpc' = "woken"
       \/ res # 0 /\ (~ended \/ res # held) /\ tpc' = "look"
    /\ ended' = FALSE
    /\ held' = 0
    /\ res' = 0
    /\ UNCHANGED <<kind, up, healed, objectVars, cycleVars, back, prev_res, counter, known,
                   changes, tries, late>>

\* "Some event happened, probably the process was closed"
Woken == tpc = "woken" /\ Query("look")
---------------------------------------------------------------------------
(* async_run of Pandora_Module_Service.                                     *)

\* OpenEventLog and NotifyChangeEventLog.  The thread ends if the log cannot be
\* opened, and is not told of what happened before.
OpenLog ==
    /\ tpc = "open"
    /\ tpc' = "notified" \/ (~healed /\ tpc' = "over")
    /\ ended' = FALSE
    /\ UNCHANGED <<kind, up, healed, objectVars, cycleVars, back, prev_res, counter, res, held,
                   known, changes, tries, late>>

\* The wait times out, or the events are read: only the first one in each buffer
\* is looked at, so that the one about a service may be passed over.
AwaitEvent ==
    /\ tpc = "notified"
    /\ tpc' = "open" \/ (ended /\ tpc' = "asked")
    /\ ended' = FALSE
    /\ UNCHANGED <<kind, up, healed, objectVars, cycleVars, back, prev_res, counter, res, held,
                   known, changes, tries, late>>

\* "A start/stop action was thrown"
Asked == tpc = "asked" /\ Query("restart")

StartAgain ==
    /\ tpc = "restart"
    /\ IF res = 0 /\ watchdog
         THEN StartProgram
         ELSE UNCHANGED <<up, tries>>
    /\ tpc' = "open"
    /\ res' = 0
    /\ UNCHANGED <<kind, healed, objectVars, cycleVars, back, prev_res, counter, held, ended,
                   known, changes, late>>
---------------------------------------------------------------------------
Cycle ==
    \/ CycleSkip \/ CycleMeasure \/ CycleSet \/ CycleDrop \/ CycleSend \/ CycleClean

Thread ==
    \/ ThreadStart \/ ThreadSend \/ ThreadClean
    \/ LookNone \/ Retry \/ LookSome \/ Seen \/ Wait \/ Woken
    \/ OpenLog \/ AwaitEvent \/ Asked \/ StartAgain

Next == Comes \/ Ends \/ Heal \/ Cycle \/ Thread

Spec == Init /\ [][Next]_vars

\* The threads run; the service thread executes the module again and again, and
\* again and again its interval has passed (ModuleSchedule!NeverStarved).
FairSpec ==
    /\ Spec
    /\ WF_vars(Cycle) /\ SF_vars(CycleMeasure) /\ SF_vars(CycleSend)
    /\ WF_vars(Thread) /\ SF_vars(ThreadSend)
---------------------------------------------------------------------------
(* Properties.                                                              *)

\* What setOutput was given by either thread is still in the data list or is what
\* the server has been told last, as long as the module has output and nothing
\* came between the two halves of a getXml: a sendXml of one thread between the
\* steps of the other loses nothing.
PendingOrSent ==
    has_output /\ data = NoData /\ cpc # "measured" /\ ~late => known = latest_output

\* The watchdog of a process does not start a program in vain more than
\* module_retries times in a row.
StartsBounded == kind = "proc" => tries <= Retries

\* A process that is gone is started again, unless the retries are used up:
\* LookNone and Retry of async_run, whatever was sent and waited for before.
Reopens ==
    kind = "proc" /\ healed /\ up = 0 ~> up > 0 \/ ~watchdog

\* The server learns the number of instances, if it stays as it is: what the
\* thread's setOutput or sendXml loses, the cycle makes up for.
ServerLearns ==
    \A n \in 0 .. MaxUp : <>[](healed /\ up = n) => <>[](known = n)
=============================================================================
