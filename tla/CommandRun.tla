----------------------------- MODULE CommandRun -----------------------------
(***************************************************************************)
(* How a module runs a command: Pandora_Module_Exec::run and the loop of   *)
(* Pandora_Module::evaluatePreconditions, which is a copy of it.  The      *)
(* child is cmd.exe /c, which starts the command as a process of its own   *)
(* and waits for it.  They write to a pipe; the agent waits for the child  *)
(* 500 ms at a time, empties the pipe after each wait, and terminates the  *)
(* child once the module's timeout is over; the job is there to terminate  *)
(* the command with it.                                                    *)
(***************************************************************************)
EXTENDS Naturals

CONSTANTS
    MaxOutput,   \* bound: how much a child writes, in units
    PipeCap,     \* the size of the pipe
    BufSize,     \* BUFSIZE: how much one ReadFile takes
    Timeout,     \* module_timeout, in waits
    StillActive, \* the exit code 259
    NoValue

ASSUME CommandRunAssumption ==
    /\ MaxOutput \in Nat
    /\ PipeCap \in Nat \ {0}
    /\ BufSize \in Nat \ {0}
    /\ PipeCap <= BufSize
    /\ Timeout \in Nat
    /\ StillActive \in Nat \ {0, 1}
    /\ NoValue \notin Nat

VARIABLES
    purpose,    \* what the command is run for
    cmd_pc,
    child,      \* the state of the child process, cmd.exe
    command,    \* the state of the command that it starts
    inJob,      \* AssignProcessToJobObject was successful
    code,       \* its exit code
    wrote,      \* how much it has written
    pipe,       \* how much of it is in the pipe
    output,     \* how much of it the agent has read
    dwRet,      \* the result of the last wait: has the child ended?
    waits,      \* waits that timed out since tickbase
    has_output,
    data,       \* the module's value, or whether the precondition holds
    late,       \* history: the timeout was over
    own         \* history: the child ended by itself

commandVars == <<purpose, cmd_pc, child, command, inJob, code, wrote, pipe, output, dwRet, waits,
          has_output, data, late, own>>
childVars  == <<child, command, code, wrote, own>>
resultVars == <<has_output, data>>

Kinds == {"exec", "proc", "precondition"}
Codes == {0, 1, StillActive}

CommandTypeOK ==
    /\ purpose \in Kinds
    /\ cmd_pc \in {"idle", "wait", "read", "check", "exit"}
    /\ <<child, command>> \in {"none", "running", "ended"} \X {"none", "running", "ended"}
    /\ inJob \in BOOLEAN
    /\ code \in Codes
    /\ wrote \in 0 .. MaxOutput
    /\ pipe \in 0 .. PipeCap
    /\ output \in 0 .. MaxOutput
    /\ dwRet \in BOOLEAN
    /\ waits \in 0 .. Timeout + 1
    /\ has_output \in BOOLEAN
    /\ data \in Nat \cup {NoValue}
    /\ late \in BOOLEAN
    /\ own \in BOOLEAN

CommandInit ==
    /\ purpose \in Kinds
    /\ cmd_pc = "idle"
    /\ child = "none" /\ command = "none"
    /\ inJob = FALSE
    /\ code = StillActive
    /\ wrote = 0 /\ pipe = 0 /\ output = 0
    /\ dwRet = FALSE
    /\ waits = 0
    /\ has_output = FALSE
    /\ data = NoValue
    /\ late = FALSE
    /\ own = FALSE
---------------------------------------------------------------------------
Reset ==
    /\ command' = "none"
    /\ code' = StillActive
    /\ wrote' = 0 /\ pipe' = 0 /\ output' = 0
    /\ dwRet' = FALSE
    /\ waits' = 0
    /\ late' = FALSE
    /\ own' = FALSE
    /\ purpose' = purpose

\* No job, no pipe or no process.  A precondition whose process could not be
\* created is evaluated on a number that nothing was assigned to.
StartFails ==
    /\ cmd_pc = "idle"
    /\ Reset
    /\ child' = "none"
    /\ inJob' = FALSE
    /\ has_output' = FALSE
    /\ IF purpose = "precondition" THEN data' \in {0, 1} ELSE data' = NoValue
    /\ cmd_pc' = "idle"

\* CreateProcess (CREATE_SUSPENDED), AssignProcessToJobObject, ResumeThread
StartChild ==
    /\ cmd_pc = "idle"
    /\ Reset
    /\ child' = "running"
    /\ inJob' \in BOOLEAN
    /\ has_output' = TRUE
    /\ data' = NoValue
    /\ cmd_pc' = "wait"

\* External: cmd.exe starts the command, in its job if it is in one.
CommandStarts ==
    /\ child = "running"
    /\ command = "none"
    /\ command' = "running"
    /\ UNCHANGED <<purpose, cmd_pc, child, inJob, code, wrote, pipe, output, dwRet, waits,
                   resultVars, late, own>>

\* External: the command ends.
CommandEnds ==
    /\ command = "running"
    /\ command' = "ended"
    /\ UNCHANGED <<purpose, cmd_pc, child, inJob, code, wrote, pipe, output, dwRet, waits,
                   resultVars, late, own>>

\* External: the child or the command writes to the pipe, which blocks it while it is
\* full.
ChildWrites ==
    /\ cmd_pc # "idle"
    /\ child = "running" \/ command = "running"
    /\ wrote < MaxOutput
    /\ pipe < PipeCap
    /\ wrote' = wrote + 1
    /\ pipe' = pipe + 1
    /\ UNCHANGED <<purpose, cmd_pc, child, command, inJob, code, output, dwRet, waits,
                   resultVars, late, own>>

\* External: the child ends, with the exit code of the command that it has waited for,
\* or without having started one.
ChildEnds(c) ==
    /\ child = "running"
    /\ command # "running"
    /\ child' = "ended"
    /\ code' = c
    /\ own' = TRUE
    /\ UNCHANGED <<purpose, cmd_pc, command, inJob, wrote, pipe, output, dwRet, waits,
                   resultVars, late>>

\* WaitForSingleObject (pi.hProcess, 500)
Wait ==
    /\ cmd_pc = "wait"
    /\ dwRet' = (child = "ended")
    /\ waits' = IF child = "ended" THEN waits ELSE waits + 1
    /\ cmd_pc' = "read"
    /\ UNCHANGED <<purpose, inJob, childVars, pipe, output, resultVars, late>>

\* PeekNamedPipe and ReadFile
Read ==
    /\ cmd_pc = "read"
    /\ LET n == IF pipe < BufSize THEN pipe ELSE BufSize
       IN  pipe' = pipe - n /\ output' = output + n
    /\ cmd_pc' = "check"
    /\ UNCHANGED <<purpose, inJob, childVars, dwRet, waits, resultVars, late>>

\* Mutant: the child is terminated with the exit code of success.
Terminate_Code0 ==
    IF child = "running"
      THEN child' = "ended" /\ code' = 0
      ELSE UNCHANGED <<child, code>>

\* TerminateProcess, which evaluatePreconditions gives the handle of the thread.  The
\* command is another process.
Terminate ==
    IF child = "running" /\ purpose # "precondition"
      THEN child' = "ended" /\ code' = StillActive
      ELSE UNCHANGED <<child, code>>

\* Mutant: the child is looked at again after the pipe has been read.
Check_Again ==
    /\ cmd_pc = "check"
    /\ \/ /\ child = "ended"
          /\ cmd_pc' = "exit"
          /\ UNCHANGED <<child, code, late>>
       \/ /\ child # "ended" /\ Timeout < waits
          /\ late' = TRUE
          /\ Terminate
          /\ cmd_pc' = "exit"
       \/ /\ child # "ended" /\ Timeout >= waits
          /\ cmd_pc' = "wait"
          /\ UNCHANGED <<child, code, late>>
    /\ UNCHANGED <<purpose, command, inJob, wrote, pipe, output, dwRet, waits, resultVars, own>>

\* Mutant: the timeout only counts while the child is silent.
Check_Silent ==
    /\ cmd_pc = "check"
    /\ \/ /\ dwRet
          /\ cmd_pc' = "exit"
          /\ UNCHANGED <<child, code, late, waits>>
       \/ /\ ~dwRet /\ Timeout < waits
          /\ late' = TRUE
          /\ Terminate
          /\ cmd_pc' = "exit"
          /\ waits' = waits
       \/ /\ ~dwRet /\ Timeout >= waits
          /\ cmd_pc' = "wait"
          /\ waits' = IF pipe = 0 /\ wrote < MaxOutput THEN 0 ELSE waits
          /\ UNCHANGED <<child, code, late>>
    /\ UNCHANGED <<purpose, command, inJob, wrote, pipe, output, dwRet, resultVars, own>>

\* The end of the loop: the child had ended before the pipe was read, or the
\* timeout is over.
Check ==
    /\ cmd_pc = "check"
    /\ \/ /\ dwRet
          /\ cmd_pc' = "exit"
          /\ UNCHANGED <<child, code, late>>
       \/ /\ ~dwRet /\ Timeout < waits
          /\ late' = TRUE
          /\ Terminate
          /\ cmd_pc' = "exit"
       \/ /\ ~dwRet /\ Timeout >= waits
          /\ cmd_pc' = "wait"
          /\ UNCHANGED <<child, code, late>>
    /\ UNCHANGED <<purpose, command, inJob, wrote, pipe, output, dwRet, waits, resultVars, own>>

\* GetExitCodeProcess
retval == IF child = "running" THEN StillActive ELSE code

\* Mutant: a command that was terminated needs no more of it.
TerminateJobObject_Ended ==
    /\ child' = IF inJob /\ retval # 0 THEN "ended" ELSE child
    /\ command' = IF inJob /\ retval \notin {0, StillActive} /\ command = "running"
                    THEN "ended" ELSE command

\* TerminateJobObject, if the child was not successful: every process of the job ends.
TerminateJobObject ==
    /\ child' = IF inJob /\ retval # 0 THEN "ended" ELSE child
    /\ command' = IF inJob /\ retval # 0 /\ command = "running" THEN "ended" ELSE command

\* The value: of a proc module whether the command was successful, of an exec
\* module its output, which is dropped unless the command was successful; a
\* precondition does not hold then, else its output decides.
Exit ==
    /\ cmd_pc = "exit"
    /\ TerminateJobObject
    /\ \/ purpose = "proc" /\ data' = IF retval = 0 THEN 1 ELSE 0
       \/ purpose = "exec" /\ data' = output
       \/ purpose = "precondition" /\ data' \in IF retval = 0 THEN {0, 1} ELSE {0}
    /\ has_output' = (purpose = "proc" \/ retval = 0)
    /\ cmd_pc' = "idle"
    /\ UNCHANGED <<purpose, inJob, code, wrote, pipe, output, dwRet, waits, late, own>>

Runner == StartChild \/ StartFails \/ Wait \/ Read \/ Check \/ Exit

Command == CommandStarts \/ CommandEnds

CommandNext == Runner \/ Command \/ ChildWrites \/ \E c \in Codes : ChildEnds(c)

CommandSpec == CommandInit /\ [][CommandNext]_commandVars

\* A wait ends after 500 ms at the latest and the agent goes on; a child need
\* neither write nor end.
CommandFairSpec == CommandSpec /\ WF_commandVars(Wait \/ Read \/ Check \/ Exit)
---------------------------------------------------------------------------
(* Properties.                                                              *)

\* The value that Pandora_Module_Exec reports is the whole output of the command:
\* the last read comes after the end of the child has been seen and takes all
\* that is left.  (A child that ends by itself just as its timeout is over may
\* be reported with what had been read by then.)
OutputWhole ==
    cmd_pc = "idle" /\ purpose = "exec" /\ has_output /\ ~late => data = wrote

\* A proc module reports 1 only for a command that ended by itself with code 0,
\* also if that happened while the agent was about to terminate it.
ProcTruth ==
    cmd_pc = "idle" /\ purpose = "proc" /\ data = 1 => own /\ code = 0

\* No process of a run outlives it in its job: a timed-out command ends with the job,
\* although TerminateProcess ends, at best, the cmd.exe that started it.  If the
\* assignment to the job has failed, the command goes on, and so does the cmd.exe of a
\* precondition.
NoneLeft ==
    cmd_pc = "idle" =>
        /\ child = "running" => purpose = "precondition" /\ ~inJob
        /\ command = "running" => ~inJob

\* A command that never ends, or never stops writing, does not hold up the agent.
RunEnds == cmd_pc # "idle" ~> cmd_pc = "idle"
=============================================================================
