------------------------------ MODULE AgentConf ------------------------------
(***************************************************************************)
(* How the agent reads its configuration: pandora_init and                 *)
(* pandora_init_broker, Pandora_Agent_Conf::setFile, the constructor of    *)
(* Pandora_Module_List, and the part of pandora_run that goes from one     *)
(* broker agent's file to the next.  One file is opened again and again in *)
(* a cycle (to count the broker agents, to read the keys, the modules and  *)
(* the name of the agent, to count again and to name the broker agents).   *)
(* Somebody may save another one in between, and may hold it just then, so *)
(* that it cannot be opened: setFile and the list go on without it, but    *)
(* the functions that never ask is_open read lines until the end of a file *)
(* that has none.                                                          *)
(***************************************************************************)
EXTENDS ModuleFactory, FiniteSets

CONSTANTS
    Main,           \* pandora_agent.conf
    Texts,          \* the files it may be at the start
    NewTexts,       \* the files it may be replaced by
    Include,        \* the file an include line names, and its lines
    IncludeText,
    Brokers,        \* names of broker agents; the file of one has the same name
    NoFile,         \* the empty file name, which cannot be opened
    Unsafe,         \* collection names with ".." in them
    MaxEdits,       \* bound: how often the file is replaced
    MaxFails        \* bound: how often a file cannot be opened or written

\* A line that names a broker agent, and is not commented out.
NamesBroker(line) == ~line.comment /\ Holds(line, "broker_agent")

ASSUME AgentConfAssumption ==
    /\ Main # Include /\ Main # NoFile /\ Include # NoFile
    /\ {Main, Include, NoFile} \cap Brokers = {}
    /\ Brokers \cup {"agent_name"} \subseteq Tokens
    /\ MaxEdits \in Nat /\ MaxFails \in Nat

\* A file consists of lines; a broker_agent line has a name in it.
ASSUME TextsAssumption ==
    /\ Texts \cup NewTexts \cup {IncludeText} \subseteq Seq(Lines)
    /\ \A lines \in Texts \cup NewTexts : \A i \in DOMAIN lines :
          NamesBroker(lines[i]) => lines[i].val # <<>> /\ Head(lines[i].val) \in Brokers

VARIABLES
    disk,           \* the files there are, with their lines
    interval,       \* of the service, in seconds
    intensive,      \* intensive_interval of the service
    key_values, collection_list, broker_enabled,      \* Pandora_Agent_Conf
    modules,        \* the modules of the Pandora_Module_List
    current,        \* is its iterator set?  TRUE while there is no list
    pc,             \* the position in pandora_init or pandora_run
    file,           \* the file that is loaded or being loaded
    input,          \* the lines that are still to be read from it
    outer,          \* the lines to go on with after an included file
    block,          \* str_module: the lines since module_begin
    num, all_conf,  \* the number of broker agents and the names of their files
    agent,          \* how many of them have run in this cycle
    edits, fails,
    text,           \* history: the lines the module list was made from
    ran,            \* history: the files whose modules ran in this cycle
    changed,        \* history: the file was replaced since pandora_init began
    overrun,        \* history: all_conf was written past its end although the file
                    \* was not replaced
    refused,        \* history: what was not read the last time, from a file that is
                    \* there: the keys of the agent, the modules, an include of theirs
    unwritten       \* history: the broker agents whose file was not written, or cut

confVars == <<key_values, collection_list, broker_enabled>>
listVars == <<modules, current>>
readVars == <<input, outer, block>>
cycleVars == <<num, all_conf, agent>>
counters == <<edits, fails>>
history == <<text, ran, changed, overrun, refused, unwritten>>
vars == <<disk, interval, intensive, confVars, listVars, pc, file, readVars, cycleVars,
          counters, history>>

\* An operation on a file may fail.
Failure == fails < MaxFails /\ fails' = fails + 1

\* A file that is not there, or that cannot be opened just now.
Opened(path) == path \in DOMAIN disk /\ UNCHANGED fails
Refused(path) ==
    IF path \in DOMAIN disk THEN Failure ELSE UNCHANGED fails

----------------------------------------------------------------------------
(* pandora_init: the keys                                                  *)

\* The lines that name a broker agent.
BrokerLines(lines) == Picked(lines, {i \in DOMAIN lines : NamesBroker(lines[i])})

count_broker_agents == Len(BrokerLines(disk[Main]))

\* file_collection lines; a name with ".." in it is dropped.
Collections(lines) ==
    LET Names(line) == /\ ~line.comment
                       /\ Holds(line, "file_collection")
                       /\ Head(line.val) \notin Unsafe
        found == Picked(lines, {i \in DOMAIN lines : Names(lines[i])})
    IN  [i \in DOMAIN found |-> Head(found[i].val)]

\* parseFile: only the collections of an included file are read.
parseFile(path) == IF path \in DOMAIN disk THEN Collections(disk[path]) ELSE <<>>

\* writeBrokerConf: the agent's own file under the broker agent's name.  A name that is
\* commented out is replaced as well.
BrokerText(lines, name) ==
    LET Named(line) == IF Holds(line, "agent_name") /\ line.first \in {"agent_name", "#"}
                       THEN [line EXCEPT !.comment = FALSE, !.first = "agent_name",
                                         !.val = <<name>>]
                       ELSE line
    IN  Picked([i \in DOMAIN lines |-> Named(lines[i])],
               {i \in DOMAIN lines : ~Holds(lines[i], "broker_agent")})

\* The operations are not checked: the file may not be opened and stay as it is, or be cut
\* at the end of some line, and if the agent's own file is the one that cannot be opened,
\* it is read for ever.
writeBrokerConf(name) ==
    LET lines == BrokerText(disk[Main], name)
        Leaves(n) == disk' = [f \in DOMAIN disk \cup {name} |->
                                IF f = name THEN SubSeq(lines, 1, n) ELSE disk[f]]
    IN  \/ /\ name \notin DOMAIN disk
           /\ Leaves(Len(lines))
           /\ UNCHANGED <<pc, fails, unwritten>>
        \/ /\ Failure
           /\ unwritten' = unwritten \cup {name}
           /\ \/ UNCHANGED <<pc, disk>>
              \/ \E n \in 0 .. Len(lines) : Leaves(n) /\ UNCHANGED pc
              \/ Leaves(0) /\ pc' = "loop"

\* The file of a broker agent is written if it cannot be opened, and never again.
BrokerFile(name) ==
    \/ Opened(name) /\ UNCHANGED <<pc, disk, unwritten>>
    \/ writeBrokerConf(name)

\* The first lines of pandora_init.
InitBegins ==
    /\ pc = "init"
    /\ num' = count_broker_agents
    /\ all_conf' = [i \in 0 .. num' - 1 |-> NoFile]
    /\ changed' = FALSE
    /\ pc' = "open"
    /\ file' = Main
    /\ UNCHANGED <<disk, interval, intensive, confVars, listVars, readVars, agent, counters,
                   text, ran, overrun, refused, unwritten>>

\* What setFile reads is kept only from the agent's own file.
OwnKeys == IF file = Main THEN {"keys"} ELSE {}

\* Opens the file for setFile, of the agent or of a broker agent.  If that fails there are
\* no keys and no collections.
OpenConf ==
    /\ pc = "open"
    /\ key_values' = <<>>
    /\ collection_list' = <<>>
    /\ \/ Opened(file) /\ input' = disk[file] /\ refused' = refused \ OwnKeys
       \/ Refused(file) /\ input' = <<>> /\ refused' = refused \cup OwnKeys
    /\ pc' = "conf"
    /\ UNCHANGED <<disk, interval, intensive, broker_enabled, listVars, file, outer, block,
                   cycleVars, edits, text, ran, changed, overrun, unwritten>>

\* An element of all_conf is assigned; past its end somebody else's memory is.
SetConf(i, name) ==
    IF i \in DOMAIN all_conf
    THEN all_conf' = [all_conf EXCEPT ![i] = name] /\ UNCHANGED overrun
    ELSE overrun' = (overrun \/ ~changed) /\ UNCHANGED all_conf

\* A broker_agent line.  position is set to 0 anew for each of them.  Only the setFile
\* of the agent's own file looks for these lines.
BrokerLine(line) ==
    IF file = Main /\ NamesBroker(line)
    THEN /\ broker_enabled' = TRUE
         /\ SetConf(0, Head(line.val))
         /\ BrokerFile(Head(line.val))
    ELSE UNCHANGED <<broker_enabled, all_conf, overrun, disk, pc, fails, unwritten>>

\* One line of setFile.  A line may hold several keywords; only a collection ends the
\* examination of it.  An included file that cannot be opened has no collections.
ConfLine ==
    /\ pc = "conf"
    /\ input # <<>>
    /\ LET line == Head(input)
       IN  IF line.comment
           THEN UNCHANGED <<confVars, all_conf, overrun, disk, pc, fails, unwritten>>
           ELSE /\ BrokerLine(line)
                /\ \E included \in {<<>>} \cup (IF Holds(line, "include")
                                             THEN {parseFile(Head(line.val))} ELSE {}) :
                      collection_list' = collection_list \o included \o Collections(<<line>>)
                /\ key_values' = IF \/ Holds(line, "file_collection")
                                    \/ Holds(line, "module_")
                                 THEN key_values ELSE Append(key_values, line)
    /\ input' = Tail(input)
    /\ UNCHANGED <<interval, intensive, listVars, file, outer, block, num, agent, edits,
                   text, ran, changed, refused>>

\* The first line with that key has its value.
getValue(key) ==
    LET found == {i \in DOMAIN key_values : key_values[i].first = key}
    IN  IF found = {} THEN <<>>
        ELSE key_values[CHOOSE i \in found : \A j \in found : i <= j].val

\* The old list is deleted, and its iterator with it.  The service's intervals come from
\* the agent's own file.  A key that is missing or no number leaves them as they were,
\* except that a missing intensive_interval is interval.
Intervals ==
    /\ pc = "conf"
    /\ input = <<>>
    /\ current
    /\ IF file # Main THEN UNCHANGED <<interval, intensive>>
       ELSE /\ interval' = IF IsNumber(getValue("interval"))
                           THEN Number(getValue("interval")) ELSE interval
            /\ intensive' = IF getValue("intensive_interval") = <<>> THEN interval'
                            ELSE IF IsNumber(getValue("intensive_interval"))
                            THEN Number(getValue("intensive_interval")) ELSE intensive
    /\ pc' = "list"
    /\ UNCHANGED <<disk, confVars, listVars, file, readVars, cycleVars, counters, history>>

----------------------------------------------------------------------------
(* The constructor of Pandora_Module_List                                  *)

\* After the list pandora_init looks for the agent's name in the file; for a broker agent
\* this was done before.
AfterList == IF file = Main THEN "name" ELSE "run"

\* A file that cannot be opened leaves an empty list whose iterator is never set.
OpenList ==
    /\ pc = "list"
    /\ modules' = <<>>
    /\ current' = FALSE
    /\ \/ /\ Opened(file)
          /\ input' = disk[file] /\ text' = disk[file] /\ pc' = "lines"
          /\ refused' = refused \ {"modules", "include"}
       \/ /\ Refused(file)
          /\ text' = <<>> /\ pc' = AfterList /\ UNCHANGED input
          /\ refused' = (refused \ {"modules", "include"})
                          \cup (IF file \in DOMAIN disk THEN {"modules"} ELSE {})
    /\ UNCHANGED <<disk, interval, intensive, confVars, file, outer, block, cycleVars,
                   edits, ran, changed, overrun, unwritten>>

\* parseModuleDefinition.  The quotient of the intervals may have no value.
parseModuleDefinition(def) ==
    IF ~Divides(def, intensive)
    THEN pc' = "dead" /\ UNCHANGED modules
    ELSE /\ modules' = IF Makes(def)
                       THEN Append(modules, getModuleFromDefinition(def, interval, intensive))
                       ELSE modules
         /\ UNCHANGED pc

\* A line outside any block.  An include line is looked at again, for the other
\* keywords, when the included file has been read; a file is not included from there.
ListLine ==
    /\ pc = "lines"
    /\ block = <<>>
    /\ input # <<>>
    /\ LET line == Head(input)
           nested == outer # <<>>
           path == Head(line.val)
           rest == [line EXCEPT !.words = @ \ {"include"}]
       IN  CASE line.comment ->
                  input' = Tail(input) /\ UNCHANGED <<outer, block, modules, pc>>
             [] ~line.comment /\ ~nested /\ Holds(line, "include") ->
                  /\ input' = IF path \in DOMAIN disk THEN disk[path] ELSE <<>>
                  /\ outer' = <<rest>> \o Tail(input)
                  /\ UNCHANGED <<block, modules, pc>>
             [] ~line.comment /\ (nested \/ ~Holds(line, "include"))
                              /\ Holds(line, "module_begin") ->
                  /\ block' = <<line>>
                  /\ input' = Tail(input)
                  /\ UNCHANGED <<outer, modules, pc>>
             [] ~line.comment /\ (nested \/ ~Holds(line, "include"))
                              /\ ~Holds(line, "module_begin")
                              /\ Holds(line, "module_plugin") ->
                  /\ parseModuleDefinition(<<line>>)
                  /\ input' = Tail(input)
                  /\ UNCHANGED <<outer, block>>
             [] OTHER -> input' = Tail(input) /\ UNCHANGED <<outer, block, modules, pc>>
    /\ UNCHANGED <<disk, interval, intensive, confVars, current, file, cycleVars, counters,
                   history>>

\* parseModuleConf returns at once if the included file cannot be opened.
IncludeRefused ==
    /\ pc = "lines"
    /\ block = <<>> /\ outer = <<>>
    /\ input # <<>>
    /\ LET line == Head(input)
       IN  /\ ~line.comment /\ Holds(line, "include")
           /\ Head(line.val) \in DOMAIN disk
           /\ input' = <<[line EXCEPT !.words = @ \ {"include"}]>> \o Tail(input)
    /\ Failure
    /\ refused' = refused \cup {"include"}
    /\ UNCHANGED <<disk, interval, intensive, confVars, listVars, pc, file, outer, block,
                   cycleVars, edits, text, ran, changed, overrun, unwritten>>

\* A line inside a block is not looked at, but for module_end anywhere in it.
BlockLine ==
    /\ pc = "lines"
    /\ block # <<>>
    /\ input # <<>>
    /\ ~Holds(Head(input), "module_end")
    /\ block' = Append(block, Head(input))
    /\ input' = Tail(input)
    /\ UNCHANGED <<disk, interval, intensive, confVars, listVars, pc, file, outer,
                   cycleVars, counters, history>>

\* Mutant: what was collected is still there when the next block begins.
BlockEnds_NoReset ==
    /\ pc = "lines"
    /\ block # <<>>
    /\ input # <<>> => Holds(Head(input), "module_end")
    /\ parseModuleDefinition(IF input = <<>> THEN block ELSE Append(block, Head(input)))
    /\ block' = IF Len(input) > 1 THEN block ELSE <<>>
    /\ input' = IF input = <<>> THEN input ELSE Tail(input)
    /\ UNCHANGED <<disk, interval, intensive, confVars, current, file, outer, cycleVars,
                   counters, history>>

\* The end of the block, or of the file: the lines are a definition.
BlockEnds ==
    /\ pc = "lines"
    /\ block # <<>>
    /\ input # <<>> => Holds(Head(input), "module_end")
    /\ parseModuleDefinition(IF input = <<>> THEN block ELSE Append(block, Head(input)))
    /\ block' = <<>>
    /\ input' = IF input = <<>> THEN input ELSE Tail(input)
    /\ UNCHANGED <<disk, interval, intensive, confVars, current, file, outer, cycleVars,
                   counters, history>>

IncludeEnds ==
    /\ pc = "lines"
    /\ block = <<>> /\ input = <<>> /\ outer # <<>>
    /\ input' = outer
    /\ outer' = <<>>
    /\ UNCHANGED <<disk, interval, intensive, confVars, listVars, pc, file, block,
                   cycleVars, counters, history>>

\* The iterator is set.
ListEnds ==
    /\ pc = "lines"
    /\ block = <<>> /\ input = <<>> /\ outer = <<>>
    /\ current' = TRUE
    /\ pc' = AfterList
    /\ UNCHANGED <<disk, interval, intensive, confVars, modules, file, readVars, cycleVars,
                   counters, history>>

\* checkAgentName finds the name.  It is the last thing pandora_init does with the file,
\* and the first that pandora_init_broker does.
checkAgentName ==
    /\ pc = "name"
    /\ file \in DOMAIN disk
    /\ pc' = IF file = Main THEN "idle" ELSE "open"
    /\ UNCHANGED <<disk, interval, intensive, confVars, listVars, file, readVars, cycleVars,
                   counters, history>>

\* count_broker_agents, check_broker_agents and checkAgentName, which checkConfig calls
\* too before the modules run, look for the end of a file that was not opened.
Scanned == IF pc \in {"name", "run"} THEN file ELSE Main
ReadsForever ==
    /\ pc \in {"init", "count", "check", "name", "run"}
    /\ Refused(Scanned)
    /\ file' = Scanned
    /\ pc' = "loop"
    /\ UNCHANGED <<disk, interval, intensive, confVars, listVars, readVars, cycleVars,
                   edits, history>>

----------------------------------------------------------------------------
(* pandora_run                                                             *)

\* The service thread wakes up.  checkConfig may save and load another file.
Wake ==
    /\ pc = "idle"
    /\ pc' = "run"
    /\ ran' = <<>>
    /\ UNCHANGED <<disk, interval, intensive, confVars, listVars, file, readVars,
                   cycleVars, counters, text, changed, overrun, refused, unwritten>>

NewConf ==
    /\ pc = "idle"
    /\ edits < MaxEdits
    /\ \E new \in NewTexts : disk' = [disk EXCEPT ![Main] = new]
    /\ edits' = edits + 1
    /\ pc' = "init"
    /\ UNCHANGED <<interval, intensive, confVars, listVars, file, readVars, cycleVars,
                   fails, history>>

\* goFirst writes through the iterator, and run divides by the intensive interval.
RunModules ==
    /\ pc = "run"
    /\ current
    /\ IF \E i \in DOMAIN modules : modules[i].intensive = 0
       THEN pc' = "dead" /\ UNCHANGED <<ran, agent>>
       ELSE /\ pc' = IF file = Main THEN "count" ELSE "next"
            /\ ran' = Append(ran, file)
            /\ agent' = IF file = Main THEN agent ELSE agent + 1
    /\ UNCHANGED <<disk, interval, intensive, confVars, listVars, file, readVars, num,
                   all_conf, counters, text, changed, overrun, refused, unwritten>>

CountBrokers ==
    /\ pc = "count"
    /\ num' = count_broker_agents
    /\ all_conf' = [i \in 0 .. num' - 1 |-> NoFile]
    /\ agent' = 0
    /\ pc' = "check"
    /\ UNCHANGED <<disk, interval, intensive, confVars, listVars, file, readVars, counters,
                   history>>

\* Mutant: every place has the last name.
check_broker_agents_LastName ==
    /\ pc = "check"
    /\ LET lines == BrokerLines(disk[Main])
       IN  /\ all_conf' = [i \in DOMAIN all_conf |->
                             IF i < Len(lines) THEN Head(lines[Len(lines)].val) ELSE NoFile]
           /\ overrun' = (overrun \/ (Len(lines) > num /\ ~changed))
    /\ pc' = "next"
    /\ UNCHANGED <<disk, interval, intensive, confVars, listVars, file, readVars, num,
                   agent, counters, text, ran, changed, refused, unwritten>>

\* Mutant: commented lines are named, and were not counted.
check_broker_agents_Comments ==
    /\ pc = "check"
    /\ LET at == {i \in DOMAIN disk[Main] : Holds(disk[Main][i], "broker_agent")}
           lines == Picked(disk[Main], at)
       IN  /\ all_conf' = [i \in DOMAIN all_conf |->
                             IF i < Len(lines) THEN Head(lines[i + 1].val) ELSE NoFile]
           /\ overrun' = (overrun \/ (Len(lines) > num /\ ~changed))
    /\ pc' = "next"
    /\ UNCHANGED <<disk, interval, intensive, confVars, listVars, file, readVars, num,
                   agent, counters, text, ran, changed, refused, unwritten>>

\* check_broker_agents: the file is read again to name the broker agents.
check_broker_agents ==
    /\ pc = "check"
    /\ LET lines == BrokerLines(disk[Main])
       IN  /\ all_conf' = [i \in DOMAIN all_conf |->
                             IF i < Len(lines) THEN Head(lines[i + 1].val) ELSE NoFile]
           /\ overrun' = (overrun \/ (Len(lines) > num /\ ~changed))
    /\ pc' = "next"
    /\ UNCHANGED <<disk, interval, intensive, confVars, listVars, file, readVars, num,
                   agent, counters, text, ran, changed, refused, unwritten>>

\* pandora_init_broker with the next file; after the last one the agent's own
\* configuration is loaded again.
NextBroker ==
    /\ pc = "next"
    /\ agent < num
    /\ file' = all_conf[agent]
    /\ pc' = "name"
    /\ UNCHANGED <<disk, interval, intensive, confVars, listVars, readVars, cycleVars,
                   counters, history>>

BrokersDone ==
    /\ pc = "next"
    /\ agent = num
    /\ pc' = IF num # 0 THEN "init" ELSE "idle"
    /\ UNCHANGED <<disk, interval, intensive, confVars, listVars, file, readVars,
                   cycleVars, counters, history>>

\* Somebody saves another pandora_agent.conf while the agent does not have it open.
Edit ==
    /\ edits < MaxEdits
    /\ pc \in {"idle", "open", "list", "name", "run", "count", "check", "next"}
    /\ \E new \in NewTexts : disk' = [disk EXCEPT ![Main] = new]
    /\ edits' = edits + 1
    /\ changed' = TRUE
    /\ UNCHANGED <<interval, intensive, confVars, listVars, pc, file, readVars, cycleVars,
                   fails, text, ran, overrun, refused, unwritten>>

\* The service has been constructed: pandora_init is about to run for the first time.
Init ==
    /\ \E lines \in Texts : disk = [f \in {Main, Include} |->
                                      IF f = Main THEN lines ELSE IncludeText]
    /\ interval = 60 /\ intensive = 60
    /\ key_values = <<>> /\ collection_list = <<>> /\ broker_enabled = FALSE
    /\ modules = <<>> /\ current = TRUE
    /\ pc = "init" /\ file = Main
    /\ input = <<>> /\ outer = <<>> /\ block = <<>>
    /\ num = 0 /\ all_conf = <<>> /\ agent = 0
    /\ edits = 0 /\ fails = 0
    /\ text = <<>> /\ ran = <<>> /\ changed = FALSE /\ overrun = FALSE
    /\ refused = {} /\ unwritten = {}

Agent ==
    \/ InitBegins \/ OpenConf \/ ConfLine \/ Intervals
    \/ OpenList \/ ListLine \/ IncludeRefused \/ BlockLine \/ BlockEnds \/ IncludeEnds
    \/ ListEnds \/ checkAgentName \/ ReadsForever
    \/ Wake \/ RunModules \/ CountBrokers \/ check_broker_agents \/ NextBroker \/ BrokersDone

\* The agent has crashed, reads for ever, or uses an iterator that was never set: goFirst
\* writes through it, and the destructor of the list deletes it.
Unset == ~current /\ (pc = "run" \/ (pc = "conf" /\ input = <<>>))
Dead ==
    /\ pc \in {"dead", "loop"} \/ Unset
    /\ UNCHANGED vars

Next == Agent \/ NewConf \/ Edit \/ Dead

Spec == Init /\ [][Next]_vars

----------------------------------------------------------------------------
(* Properties                                                              *)

PCs == {"init", "open", "conf", "list", "lines", "name", "idle", "run", "count", "check",
        "next", "dead", "loop"}

\* Every variable has its type.
TypeOK ==
    /\ DOMAIN disk \subseteq {Main, Include} \cup Brokers
    /\ {Main, Include} \subseteq DOMAIN disk
    /\ interval \in Int /\ intensive \in Int
    /\ broker_enabled \in BOOLEAN /\ current \in BOOLEAN
    /\ pc \in PCs
    /\ file \in {Main, NoFile} \cup Brokers
    /\ num \in Nat
    /\ DOMAIN all_conf = 0 .. num - 1
    /\ \A i \in DOMAIN all_conf : all_conf[i] \in Brokers \cup {NoFile}
    /\ agent \in Nat
    /\ edits \in 0 .. MaxEdits /\ fails \in 0 .. MaxFails
    /\ changed \in BOOLEAN /\ overrun \in BOOLEAN
    /\ refused \subseteq {"keys", "modules", "include"} /\ unwritten \subseteq Brokers

\* Only the lines that close a block hold module_end, and the next block does not begin
\* before the last one is closed.
Begins(line) == ~line.comment /\ Holds(line, "module_begin")
EndOf(lines, b) ==
    CHOOSE e \in b + 1 .. Len(lines) :
        /\ lines[e].first = "module_end"
        /\ \A j \in b + 1 .. e - 1 : lines[j].first # "module_end"
Proper(lines) ==
    /\ \A i \in DOMAIN lines : Holds(lines[i], "module_end") => lines[i].first = "module_end"
    /\ \A b \in DOMAIN lines : Begins(lines[b]) =>
          \E e \in b + 1 .. Len(lines) :
             /\ lines[e].first = "module_end"
             /\ \A j \in b + 1 .. e : ~Begins(lines[j])
Inside(lines, i) ==
    \E b \in 1 .. i - 1 : Begins(lines[b]) /\ i <= EndOf(lines, b)

\* What one line of a file stands for: a block, a plugin, or nothing.
ModuleAt(lines, i) ==
    LET def == IF Begins(lines[i]) THEN SubSeq(lines, i, EndOf(lines, i)) ELSE <<lines[i]>>
    IN  IF /\ ~lines[i].comment
           /\ Begins(lines[i]) \/ Holds(lines[i], "module_plugin")
           /\ ~Inside(lines, i)
           /\ Makes(def)
        THEN <<getModuleFromDefinition(def, interval, intensive)>>
        ELSE <<>>
ModulesOf(lines) == FlattenSeq([i \in DOMAIN lines |-> ModuleAt(lines, i)])
Written(lines) ==
    FlattenSeq([i \in DOMAIN lines |->
        (IF ~lines[i].comment /\ Holds(lines[i], "include") /\ ~Inside(lines, i)
            /\ Head(lines[i].val) \in DOMAIN disk
         THEN ModulesOf(disk[Head(lines[i].val)]) ELSE <<>>)
        \o ModuleAt(lines, i)])

\* If each block of the file is closed before the next one begins, then the agent has
\* the modules of the file and of the files it includes, each made from the lines of
\* its own block alone, in the order in which they are written (the line by line reader
\* of Pandora_Module_List, against a definition that looks at whole files).  The modules
\* of an included file that could not be opened are missing.
ModulesAsWritten ==
    /\ pc \in {"idle", "run"}
    /\ "include" \notin refused
    /\ Proper(text) /\ Proper(IncludeText)
    => modules = Written(text)

\* A macro that a field names once is gone from the field, unless the value of a macro
\* names it in turn (getModuleFromDefinition replaces the first occurrence in a field,
\* and goes through the macros once).
MacrosReplaced ==
    block # <<>> /\ (input # <<>> => Holds(Head(input), "module_end")) =>
        LET macros == Queue(block, "macro")
            fields == Expand(block)
            Occurs(value, word) == Cardinality({i \in DOMAIN value : value[i] = word})
        IN  \A f \in DOMAIN fields, m \in DOMAIN macros :
               /\ HasBlank(macros[m]) /\ MacroName(macros[m]) # ""
               /\ Occurs(Scan(block)[f], MacroName(macros[m])) = 1
               /\ \A k \in DOMAIN macros : Occurs(Tail(macros[k]), MacroName(macros[m])) = 0
               => Occurs(fields[f], MacroName(macros[m])) = 0

\* all_conf is as long as count_broker_agents found the file to name broker agents; it
\* is written past its end only if the file was replaced before it was read again.
InBounds == ~overrun

\* Unless the file was replaced, a cycle runs the modules of the agent and then those
\* of every broker agent that the file names, each once, in the order of the file,
\* although setFile leaves only the last name in the array it is given.
EachBrokerRuns ==
    pc = "next" /\ agent = num /\ ~changed =>
        LET lines == BrokerLines(disk[Main])
        IN  ran = <<Main>> \o [i \in DOMAIN lines |-> Head(lines[i].val)]

\* Modules run and are deleted with an iterator that was set, unless a file that is there
\* could not be opened for the list.  The file of a broker agent that is not there never
\* gets as far as that.
IteratorSet == Unset => "modules" \in refused

\* The agent reads for ever only if a file could not be opened: one that is there, or the
\* file of a broker agent, which is missing only if pandora_agent.conf was replaced since
\* the names of the broker agents were read, or could not be read then, or if writing the
\* file failed.  (Whoever adds a broker_agent line while the agent runs makes it do so.)
EndsReading ==
    pc = "loop" => IF file \in DOMAIN disk THEN fails > 0
                   ELSE changed \/ "keys" \in refused \/ file \in unwritten

\* While the file names a broker agent the agent knows it, in the cycles of the broker
\* agents too, if it could read its keys: purgeDiskCollections must not delete their
\* collections.
BrokersKnown ==
    /\ pc \in {"idle", "run"}
    /\ ~changed /\ "keys" \notin refused
    /\ BrokerLines(disk[Main]) # <<>>
    => broker_enabled

\* The agent divides by zero only if intensive_interval is 0 or greater than interval,
\* whatever their signs, or the module_interval of a module is 0 (in the file or by a
\* macro).
NoZeroDivision ==
    pc = "dead" =>
        \/ intensive = 0
        \/ Abs(interval) < Abs(intensive)
        \/ \E i \in DOMAIN modules : modules[i].interval = 0

\* Loading a configuration, again and again, runs into undefined behaviour (a write past
\* all_conf or through an iterator that was not set, a division by zero) or into an
\* endless loop only in the cases that InBounds, IteratorSet, EndsReading and
\* NoZeroDivision name, and every variable has its type.
Defined == TypeOK /\ InBounds /\ IteratorSet /\ EndsReading /\ NoZeroDivision

\* The broker agents of the file are known and have their turns.
BrokersServed == EachBrokerRuns /\ BrokersKnown
=============================================================================
