---------------------------- MODULE TailModules ----------------------------
(***************************************************************************)
(* Modules that report what has been added to a source since they were     *)
(* last executed: Pandora_Module_Logevent (an event log) and               *)
(* Pandora_Module_Regexp (a text file), with pandora_run's decision to     *)
(* report or to drop what an execution has read, and pandora_init, which   *)
(* replaces the module object.  A record is an event that passes           *)
(* filterEvent, or a line that matches the regular expression.  A line may *)
(* be written in two halves, of which each may match or not.               *)
(***************************************************************************)
EXTENDS Naturals

CONSTANTS
    MaxLen,     \* bound: records in the source
    MaxGen,     \* bound: how often the log is cleared, the file truncated
    MaxFails,   \* bound: failures to open or read the source
    MaxRebuilds,\* bound: new module objects
    Debug       \* getPandoraDebug ()

ASSUME TailModulesAssumption ==
    /\ MaxLen \in Nat
    /\ MaxGen \in Nat
    /\ MaxFails \in Nat
    /\ MaxRebuilds \in Nat
    /\ Debug \in BOOLEAN

\* The i-th record since the source was last emptied.
Records == (0 .. MaxGen) \X (1 .. MaxLen)

VARIABLES
    kind,           \* "logevent" or "regexp"
    no_seek_eof,    \* of a regexp module
    gen, len,       \* the source: how often it was emptied, its records since then
    unwritten,      \* the halves of the last line that are still to be written: 0 or 1
    opened,         \* log_event # NULL, file.is_open ()
    first_run,
    pos, posGen,    \* the position of the handle, and when it was right
    unread,         \* the halves of the line at the position that are still to be read
    size,           \* the size of the file when it was last looked at
    tail_pc,
    batch,          \* data_list
    fails, rebuilds,
    fate,           \* history: what became of each record
    sizeGen,        \* history: when the size was right
    twice,          \* history: the records that were reported twice
    split,          \* history: the lines that were read in two parts
    missed,         \* history: the file was read on after a truncation
    disturbed       \* history: an error hit the discarding of events, or closed a log that
                    \* had not been cleared

sourceVars  == <<gen, len, unwritten>>
objectVars  == <<opened, first_run, pos, posGen, unread, size>>
boundVars   == <<fails, rebuilds>>
historyVars == <<fate, sizeGen, twice, split, missed, disturbed>>
tailVars == <<kind, no_seek_eof, sourceVars, objectVars, tail_pc, batch, boundVars, historyVars>>

TailTypeOK ==
    /\ kind \in {"logevent", "regexp"}
    /\ no_seek_eof \in BOOLEAN
    /\ gen \in 0 .. MaxGen
    /\ len \in 0 .. MaxLen
    /\ unwritten \in 0 .. 1 /\ unwritten <= len
    /\ opened \in BOOLEAN
    /\ first_run \in BOOLEAN
    /\ pos \in 0 .. MaxLen
    /\ posGen \in 0 .. MaxGen
    /\ unread \in 0 .. 1
    /\ size \in 0 .. 2 * MaxLen
    /\ tail_pc \in {"idle", "open", "stat", "restart", "read", "decide", "loop"}
    /\ batch \subseteq Records
    /\ fails \in 0 .. MaxFails
    /\ rebuilds \in 0 .. MaxRebuilds
    /\ fate \in [Records -> {"absent", "new", "gone", "skipped", "parts", "dropped", "sent"}]
    /\ sizeGen \in 0 .. MaxGen
    /\ twice \subseteq Records
    /\ split \subseteq Records
    /\ missed \in BOOLEAN
    /\ disturbed \in BOOLEAN

TailInit ==
    /\ kind \in {"logevent", "regexp"}
    /\ no_seek_eof \in IF kind = "regexp" THEN BOOLEAN ELSE {FALSE}
    /\ gen = 0
    /\ len = 0 /\ unwritten = 0
    /\ opened = FALSE
    /\ first_run = TRUE
    /\ pos = 0 /\ posGen = 0 /\ unread = 0
    /\ size = 0
    /\ tail_pc = "idle"
    /\ batch = {}
    /\ fails = 0
    /\ rebuilds = 0
    /\ fate = [r \in Records |-> "absent"]
    /\ sizeGen = 0
    /\ twice = {}
    /\ split = {}
    /\ missed = FALSE
    /\ disturbed = FALSE
---------------------------------------------------------------------------
\* History: the records r that are in state s are in state t now.
Becomes(R, s, t) == [r \in Records |-> IF r \in R /\ fate[r] = s THEN t ELSE fate[r]]

Now == {gen} \X (1 .. len)

\* The size of the file and the position in it, in halves of lines.
Size == 2 * len - unwritten

Offset == 2 * pos - unread

\* External: an event, a line or the first half of a line is written.
Append ==
    /\ len < MaxLen /\ unwritten = 0
    /\ len' = len + 1
    /\ unwritten' \in IF kind = "regexp" THEN 0 .. 1 ELSE {0}
    /\ fate' = [fate EXCEPT ![<<gen, len + 1>>] = "new"]
    /\ UNCHANGED <<kind, no_seek_eof, gen, objectVars, tail_pc, batch, boundVars, sizeGen, twice,
                   split, missed, disturbed>>

\* External: the other half of the line is written.
EndLine ==
    /\ unwritten = 1
    /\ unwritten' = 0
    /\ UNCHANGED <<kind, no_seek_eof, gen, len, objectVars, tail_pc, batch, boundVars, historyVars>>

\* External: the log is cleared, the file is truncated.
Empty ==
    /\ gen < MaxGen
    /\ gen' = gen + 1
    /\ len' = 0 /\ unwritten' = 0
    /\ fate' = Becomes(Now, "new", "gone")
    /\ UNCHANGED <<kind, no_seek_eof, objectVars, tail_pc, batch, boundVars, sizeGen, twice, split,
                   missed, disturbed>>

\* Pandora_Module::run
Run ==
    /\ tail_pc = "idle"
    /\ tail_pc' = "open"
    /\ UNCHANGED <<kind, no_seek_eof, sourceVars, objectVars, batch, boundVars, historyVars>>

\* Opening at the beginning or, passing over the first k records, behind them.
OpenAt(k) ==
    /\ opened' = TRUE
    /\ posGen' = gen
    /\ pos' = k
    /\ unread' = IF k = len THEN unwritten ELSE 0
    /\ fate' = Becomes({gen} \X (1 .. k), "new", "skipped")

Failure ==
    /\ fails < MaxFails
    /\ fails' = fails + 1

\* How far a read comes: to the end, unless an error breaks it off.
ReadsTo(k) ==
    \/ k = len /\ UNCHANGED fails
    \/ k < len /\ Failure

\* openLogEvent: the events that are in the log when the module is first executed
\* are discarded.  If the log is corrupt it is closed at once.
OpenLog ==
    /\ first_run' = FALSE
    /\ \/ /\ first_run /\ ~Debug
          /\ \E k \in 0 .. len : 
                ReadsTo(k) /\ OpenAt(k) /\ disturbed' = (disturbed \/ k < len)
       \/ /\ ~first_run \/ Debug
          /\ OpenAt(0)
          /\ UNCHANGED <<fails, disturbed>>
       \/ /\ first_run /\ ~Debug
          /\ Failure
          /\ disturbed' = TRUE
          /\ UNCHANGED <<opened, pos, posGen, unread, fate>>

\* restart (no_seek_eof) goes to the end of the file.
OpenFile ==
    /\ OpenAt(IF no_seek_eof THEN 0 ELSE len)
    /\ UNCHANGED <<first_run, fails, disturbed>>

Open ==
    /\ tail_pc = "open"
    /\ tail_pc' = IF kind = "regexp" THEN "stat" ELSE "read"
    /\ \/ opened /\ UNCHANGED <<opened, pos, posGen, unread, first_run, fate, fails, disturbed>>
       \/ ~opened /\ kind = "logevent" /\ OpenLog
       \/ ~opened /\ kind = "regexp" /\ OpenFile
       \/ ~opened /\ Failure
          /\ UNCHANGED <<opened, pos, posGen, unread, first_run, fate, disturbed>>
    /\ UNCHANGED <<kind, no_seek_eof, sourceVars, size, batch, rebuilds, sizeGen, twice, split,
                   missed>>

\* What a look at the file tells: to restart or to read on.
Sees(restart) ==
    /\ tail_pc = "stat"
    /\ tail_pc' = IF restart THEN "restart" ELSE "read"
    /\ UNCHANGED <<kind, no_seek_eof, sourceVars, opened, pos, posGen, unread, first_run, batch,
                   rebuilds, fate, twice, split, missed, disturbed>>

\* Mutant: a file that is smaller than last time is left alone.
Stat_NoRestart ==
    /\ Sees(FALSE)
    /\ size' = IF no_seek_eof \/ Size < size THEN size ELSE Size
    /\ UNCHANGED <<sizeGen, fails>>

\* "Check if the file was truncated": it is smaller than last time.
Stat ==
    \/ /\ ~no_seek_eof
       /\ Sees(Size < size)
       /\ size' = Size
       /\ sizeGen' = gen
       /\ UNCHANGED fails
    \/ /\ \/ no_seek_eof /\ UNCHANGED fails
          \/ ~no_seek_eof /\ Failure
       /\ Sees(FALSE)
       /\ UNCHANGED <<size, sizeGen>>

\* restart (1) reads from the beginning.
Restart ==
    /\ tail_pc = "restart"
    /\ \/ OpenAt(0) /\ UNCHANGED fails
       \/ Failure /\ opened' = FALSE /\ UNCHANGED <<pos, posGen, unread, fate>>
    /\ tail_pc' = "read"
    /\ UNCHANGED <<kind, no_seek_eof, sourceVars, first_run, size, batch, rebuilds, twice, split,
                   missed, disturbed, sizeGen>>

\* Neither kind of module reads from a source that it could not open.
ReadNothing ==
    /\ tail_pc = "read"
    /\ ~opened
    /\ tail_pc' = "decide"
    /\ UNCHANGED <<kind, no_seek_eof, sourceVars, objectVars, batch, boundVars, historyVars>>

\* getLogEvents: the events that were read before an error are kept.
ReadLog ==
    /\ tail_pc = "read" /\ opened
    /\ kind = "logevent"
    /\ posGen = gen
    /\ \E k \in pos .. len :
          /\ ReadsTo(k)
          /\ batch' = {gen} \X (pos + 1 .. k)
          /\ pos' = k
    /\ tail_pc' = "decide"
    /\ UNCHANGED <<kind, no_seek_eof, sourceVars, opened, first_run, posGen, unread, size, rebuilds,
                   historyVars>>

\* ERROR_EVENTLOG_FILE_CHANGED, ERROR_EVENTLOG_FILE_CORRUPT: the log is closed.
CloseLog ==
    /\ tail_pc = "read" /\ opened
    /\ kind = "logevent"
    /\ \/ posGen # gen /\ UNCHANGED <<fails, disturbed>>
       \/ posGen = gen /\ Failure /\ disturbed' = TRUE
    /\ opened' = FALSE
    /\ tail_pc' = "decide"
    /\ UNCHANGED <<kind, no_seek_eof, sourceVars, first_run, pos, posGen, unread, size, batch,
                   rebuilds, fate, sizeGen, twice, split, missed>>

\* There is something behind the position.
Beyond == Size > Offset

\* The lines of which a read finds only a part: the last one if it has no end yet, and
\* the one in the middle of which the position is.
Parts == {r \in Now : /\ Beyond
                      /\ \/ r[2] = len /\ unwritten = 1
                         \/ r[2] = pos /\ unread = 1}

\* Mutant: one line too many is read before the first one.
ReadLines_LosesFirst ==
    /\ tail_pc = "read" /\ opened
    /\ kind = "regexp"
    /\ \E matching \in SUBSET Parts :
          batch' = (({gen} \X (pos + 2 .. len)) \ Parts) \cup matching
    /\ fate' = Becomes(Parts, "new", "parts")
    /\ split' = split \cup Parts
    /\ pos' = IF Beyond THEN len ELSE pos
    /\ posGen' = IF Beyond THEN gen ELSE posGen
    /\ unread' = IF Beyond THEN unwritten ELSE unread
    /\ missed' = (missed \/ (Beyond /\ (posGen # gen \/ (~no_seek_eof /\ sizeGen # gen))))
    /\ opened' = ~no_seek_eof
    /\ tail_pc' = "decide"
    /\ UNCHANGED <<kind, no_seek_eof, sourceVars, first_run, size, boundVars, sizeGen, twice,
                   disturbed>>

\* Pandora_Module_Regexp::run reads on to the end of the file, if the position is
\* before it.  getline takes a line without an end too, and next time what has become
\* of its rest: each part is a line of its own, and either may match.
ReadLines ==
    /\ tail_pc = "read" /\ opened
    /\ kind = "regexp"
    /\ \E matching \in SUBSET Parts :
          batch' = (({gen} \X (pos + 1 .. len)) \ Parts) \cup matching
    /\ fate' = Becomes(Parts, "new", "parts")
    /\ split' = split \cup Parts
    /\ pos' = IF Beyond THEN len ELSE pos
    /\ posGen' = IF Beyond THEN gen ELSE posGen
    /\ unread' = IF Beyond THEN unwritten ELSE unread
    /\ missed' = (missed \/ (Beyond /\ (posGen # gen \/ (~no_seek_eof /\ sizeGen # gen))))
    /\ opened' = ~no_seek_eof
    /\ tail_pc' = "decide"
    /\ UNCHANGED <<kind, no_seek_eof, sourceVars, first_run, size, boundVars, sizeGen, twice,
                   disturbed>>

\* An error sets badbit, and while (! file.eof ()) never ends.
ReadError ==
    /\ tail_pc = "read" /\ opened
    /\ kind = "regexp"
    /\ Failure
    /\ tail_pc' = "loop"
    /\ UNCHANGED <<kind, no_seek_eof, sourceVars, objectVars, batch, rebuilds, historyVars>>

Loop ==
    /\ tail_pc = "loop"
    /\ UNCHANGED tailVars

\* pandora_run: what the execution has read is sent or, if the module's interval
\* has not passed, dropped.
Decide ==
    /\ tail_pc = "decide"
    /\ \/ /\ fate' = [r \in Records |-> IF r \in batch THEN "sent" ELSE fate[r]]
          /\ twice' = twice \cup {r \in batch : fate[r] = "sent"}
       \/ /\ fate' = Becomes(batch, "new", "dropped")
          /\ twice' = twice
    /\ batch' = {}
    /\ tail_pc' = "idle"
    /\ UNCHANGED <<kind, no_seek_eof, sourceVars, objectVars, boundVars, sizeGen, split, missed,
                   disturbed>>

\* pandora_init: the module list is built anew.
Rebuild ==
    /\ tail_pc = "idle"
    /\ rebuilds < MaxRebuilds
    /\ rebuilds' = rebuilds + 1
    /\ opened' = FALSE
    /\ first_run' = TRUE
    /\ pos' = 0 /\ posGen' = gen /\ unread' = 0
    /\ size' = 0
    /\ UNCHANGED <<kind, no_seek_eof, sourceVars, tail_pc, batch, fails, historyVars>>

Reader == 
    \/ Run \/ Open \/ Stat \/ Restart \/ ReadNothing \/ ReadLog \/ CloseLog \/ ReadLines
    \/ ReadError \/ Loop \/ Decide

TailNext == Reader \/ Rebuild \/ Append \/ EndLine \/ Empty

TailSpec == TailInit /\ [][TailNext]_tailVars

\* pandora_run executes the module again and again.
TailFairSpec == TailSpec /\ WF_tailVars(Reader)
---------------------------------------------------------------------------
(* Properties.                                                              *)

\* No event and no line is reported twice, also if the source was emptied, the
\* module object replaced or a read broke off.  A regexp module with no_seek_eof
\* reads its file from the beginning each time, and with Debug a new module object
\* reads its log from the beginning; events come again if a log that is found corrupt
\* is closed and read from its beginning, if an error hits the discarding of the
\* events that a new module object finds, or if a truncated file is first read on and
\* then found to be shorter.  A line that was read before it had an end may be reported in
\* two parts.
NoDuplicates ==
    ~no_seek_eof /\ (kind = "logevent" => ~Debug) /\ ~disturbed /\ ~missed => twice \subseteq split

\* The reader leaves nothing behind: a record before its position has been
\* reported, dropped by pandora_run, or was there when the module opened the
\* source.  The exceptions are a truncated file that grew beyond its old size
\* unnoticed, and a line that was read before it had an end: neither of its parts
\* need match.
NothingPassedOver ==
    tail_pc = "idle" /\ opened /\ posGen = gen /\ ~missed =>
        \A i \in 1 .. pos : fate[<<gen, i>>] \in {"skipped", "parts", "dropped", "sent"}

\* A reader takes each record that it finds whole once, in spite of what becomes of its
\* source and of its own object meanwhile, and every variable has its type.
ReadOnce == TailTypeOK /\ NoDuplicates /\ NothingPassedOver

\* The file was truncated and its size does not tell.
Unnoticed == missed \/ (kind = "regexp" /\ posGen # gen /\ Size >= size)

\* Every record is looked at or vanishes: a log that was cleared is read again
\* from its beginning, and so is a file that was truncated, unless it grew to its
\* old size unnoticed or reading it failed, which the module does not survive.
AllRead ==
    \A r \in Records : fate[r] = "new" ~> (fate[r] # "new" \/ Unnoticed \/ tail_pc = "loop")
=============================================================================
