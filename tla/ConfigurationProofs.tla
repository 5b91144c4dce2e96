------------------------ MODULE ConfigurationProofs ------------------------
(***************************************************************************)
(* Proofs about the configuration.                                         *)
(*                                                                         *)
(* RemoteConfig, for every set of versions, transfer mode, number of edits *)
(* and number of crashes: a saved file is loaded, and it is whole.         *)
(*                                                                         *)
(* AgentConf, for every set of files: reading them runs into undefined     *)
(* behaviour in the named cases only, every broker agent that the file     *)
(* names is known and has its turn, and macros are replaced.               *)
(***************************************************************************)
EXTENDS RemoteConfig, AgentConf, SeqOpsProofs, FiniteSetTheorems, SequenceTheorems

----------------------------------------------------------------------------
(* RemoteConfig                                                            *)


\* As long as nothing is spoiled, a cut file lies on the server only under the
\* digest of the agent's own file or under none, and no check that could fetch it
\* is past the comparison; what is saved is whole, and was received.
WholeFiles ==
    /\ conf_pc \in {"save", "write"} => confStr # None
    /\ ~spoiled =>
          /\ conf_pc # "write" => local \in Versions
          /\ conf_pc \in {"recvMd5", "upConf", "upMd5"} => confStr = local
          /\ conf_pc \in {"save", "write"} => confStr \in Versions
          /\ serverConf \in Cut =>
                /\ ~Misleads(serverConf, serverMd5)
                /\ conf_pc \notin {"recvConf", "save", "write", "reload"}

ExchangeInv == ConfTypeOK /\ WholeFiles /\ MemoryMatchesFile

LEMMA ExchangeInvInit == ConfInit => ExchangeInv
<1> SUFFICES ASSUME ConfInit PROVE ExchangeInv
  OBVIOUS
<1>1. healed \in BOOLEAN /\ spoiled \in BOOLEAN
  BY RemoteConfigAssumption, Zenon DEF ConfInit
<1> QED
  BY <1>1, RemoteConfigAssumption
     DEF ConfInit, ExchangeInv, ConfTypeOK, WholeFiles, MemoryMatchesFile, Files, Cut,
         ConfPCs

LEMMA ExchangeInvStep == ExchangeInv /\ [ConfNext]_exchangeVars => ExchangeInv'
<1> SUFFICES ASSUME ExchangeInv, [ConfNext]_exchangeVars PROVE ExchangeInv'
  OBVIOUS
<1> USE RemoteConfigAssumption
    DEF ExchangeInv, WholeFiles, MemoryMatchesFile, serverVars, envVars, Misleads, Cut, Files
<1>1. CASE Begin
  BY <1>1 DEF Begin, ConfTypeOK, ConfPCs
<1>2. CASE RecvMd5 \/ RecvMd5Fails
  BY <1>2 DEF RecvMd5, RecvMd5Fails, CanReceive, ConfTypeOK, ConfPCs
<1>3. CASE UploadConf
  <2>1. spoiled' \in BOOLEAN
    BY <1>3, Zenon DEF UploadConf
  <2>2. ~spoiled' => ~spoiled /\ ~Misleads(serverConf', serverMd5)
    BY <1>3, Zenon DEF UploadConf
  <2>3. serverConf' \in {confStr, serverConf} \cup Cut
    BY <1>3 DEF UploadConf
  <2> QED
    BY <1>3, <2>1, <2>2, <2>3 DEF UploadConf, ConfTypeOK, ConfPCs
<1>4. CASE UploadMd5
  BY <1>4 DEF UploadMd5, ConfTypeOK, ConfPCs
<1>5. CASE RecvConf
  BY <1>5 DEF RecvConf, CanReceive, ConfTypeOK, ConfPCs
<1>6. CASE GiveUp
  BY <1>6 DEF GiveUp, ConfTypeOK, ConfPCs
<1>7. CASE Save
  BY <1>7 DEF Save, ConfTypeOK, ConfPCs, Files
<1>8. CASE WriteLocal
  <2>1. confStr \in Files /\ (~spoiled => confStr \in Versions)
    BY <1>8 DEF WriteLocal, ConfTypeOK
  <2>2. spoiled' \in BOOLEAN
    BY <1>8, Zenon DEF WriteLocal, ConfTypeOK
  <2> QED
    BY <1>8, <2>1, <2>2 DEF WriteLocal, ConfTypeOK, ConfPCs
<1>9. CASE Reload
  BY <1>9 DEF Reload, ConfTypeOK, ConfPCs
<1>10. CASE Crash
  <2>1. spoiled' \in BOOLEAN
    BY <1>10, Zenon DEF Crash
  <2>2. ~spoiled' => ~spoiled /\ conf_pc # "write"
    BY <1>10, Zenon DEF Crash
  <2> QED
    BY <1>10, <2>1, <2>2 DEF Crash, ConfTypeOK, ConfPCs
<1>11. ASSUME NEW v \in Versions, ConsoleSavesConf(v)
       PROVE  ExchangeInv'
  BY <1>11 DEF ConsoleSavesConf, ConfTypeOK, Files
<1>12. CASE ConsoleSavesMd5
  <2>1. spoiled' \in BOOLEAN
    BY <1>12, Zenon DEF ConsoleSavesMd5
  <2>2. ~spoiled' => ~spoiled /\ ~Misleads(serverConf, console)
    BY <1>12, Zenon DEF ConsoleSavesMd5
  <2> QED
    BY <1>12, <2>1, <2>2 DEF ConsoleSavesMd5, ConfTypeOK
<1>13. CASE Heal
  BY <1>13 DEF Heal, ConfTypeOK
<1>14. CASE UNCHANGED exchangeVars
  BY <1>14 DEF exchangeVars, ConfTypeOK
<1> QED
  BY <1>1, <1>2, <1>3, <1>4, <1>5, <1>6, <1>7, <1>8, <1>9, <1>10, <1>11, <1>12,
     <1>13, <1>14 DEF ConfNext, checkConfig

LEMMA ExchangeInvariance == ConfSpec => []ExchangeInv
BY ExchangeInvInit, ExchangeInvStep, PTL DEF ConfSpec

\* The variables of checkConfig keep their types; in particular a configuration
\* that was not received is never saved.
THEOREM ExchangeTypeCorrect == ConfSpec => []ConfTypeOK
<1>1. ExchangeInv => ConfTypeOK
  BY DEF ExchangeInv
<1> QED
  BY ExchangeInvariance, <1>1, PTL

\* Between two runs of checkConfig, memory and pandora_agent.conf agree, whatever
\* the order of failures, edits and crashes.
THEOREM MemoryFollowsFile == ConfSpec => []MemoryMatchesFile
<1>1. ExchangeInv => MemoryMatchesFile
  BY DEF ExchangeInv
<1> QED
  BY ExchangeInvariance, <1>1, PTL

\* A cut-short pandora_agent.conf comes from a cut write of that file, or from a
\* cut upload that lay on the server under the digest of another configuration.
THEOREM TornOnlyIfSpoiled == ConfSpec => []NeverTorn
<1>1. ExchangeInv => NeverTorn
  BY DEF ExchangeInv, WholeFiles, NeverTorn
<1> QED
  BY ExchangeInvariance, <1>1, PTL

----------------------------------------------------------------------------
(* AgentConf: the inductive invariant                                      *)

\* Every broker_agent line has a name.
BrokersNamed(lines) ==
    \A i \in DOMAIN lines : NamesBroker(lines[i]) => Head(lines[i].val) \in Brokers

ModuleObjects ==
    {getModuleFromDefinition(def, a, b) : def \in Seq(Lines), a \in Int, b \in Int}

\* The types of what TypeOK leaves open.
DiskOK ==
    /\ disk \in [DOMAIN disk -> Seq(Lines)]
    /\ BrokersNamed(disk[Main])
LinesOK ==
    /\ input \in Seq(Lines) /\ outer \in Seq(Lines) /\ block \in Seq(Lines)
    /\ text \in Seq(Lines) /\ key_values \in Seq(Lines)

\* A broker agent's file is being loaded, or its modules run.
Loading == file # Main /\ pc \in {"name", "open", "conf", "list", "lines", "run"}

\* The position in the cycle: whose turn it is.
CycleInv ==
    /\ pc \in {"idle", "count", "check"} => file = Main
    /\ pc = "next" => agent <= num /\ (agent = 0 => file = Main)
    /\ Loading => agent < num /\ file = all_conf[agent]
    /\ pc = "check" => agent = 0

\* The iterator is set, but while the list is made, or when its file could not be opened.
CurrentInv == ~current => pc \in {"lines", "dead"} \/ "modules" \in refused

\* No file is loaded that is not there: checkAgentName would not have returned.
OpenedInv == pc \in {"open", "conf", "list", "lines", "run"} => file \in DOMAIN disk

\* The number of broker agents is that of the file.
CountInv == ~changed /\ pc \notin {"init", "loop"} => num = Len(BrokerLines(disk[Main]))

\* The broker agents of the first n lines are known and have their files, but for those
\* whose file could not be written.
KnownTo(n) ==
    \A i \in 1 .. n : NamesBroker(disk[Main][i]) =>
        broker_enabled /\ Head(disk[Main][i].val) \in DOMAIN disk \cup unwritten

\* While setFile reads the agent's file, those of the lines it has read ...
ReadInv ==
    pc = "conf" /\ file = Main =>
        /\ Len(input) <= Len(disk[Main])
        /\ \A j \in 1 .. Len(input) :
              input[j] = disk[Main][Len(disk[Main]) - Len(input) + j]
        /\ "keys" \notin refused => KnownTo(Len(disk[Main]) - Len(input))

\* ... and afterwards all of them, if it could read them.
KnownInv ==
    ~changed /\ "keys" \notin refused
        /\ (Loading \/ pc \in {"list", "lines", "name", "idle", "run", "count", "check", "next"})
        => KnownTo(Len(disk[Main]))

\* all_conf has their names, in their order.
NamesInv ==
    ~changed /\ (Loading \/ pc = "next") =>
        \A i \in 1 .. num : all_conf[i - 1] = Head(BrokerLines(disk[Main])[i].val)

\* Who has run in this cycle.
RanInv ==
    /\ ran \in Seq({Main, NoFile} \cup Brokers)
    /\ pc = "run" /\ file = Main => ran = <<>>
    /\ pc \in {"count", "check"} => ran = <<Main>>
    /\ ~changed /\ (Loading \/ pc = "next") =>
          /\ Len(ran) = agent + 1
          /\ ran[1] = Main
          /\ \A i \in 1 .. agent : ran[i + 1] = Head(BrokerLines(disk[Main])[i].val)

\* A module's intensive interval is zero for one of the reasons that NoZeroDivision names.
Excusable(m) ==
    m.intensive = 0 => intensive = 0 \/ Abs(interval) < Abs(intensive) \/ m.interval = 0
ModulesInv == pc # "list" => \A i \in DOMAIN modules : Excusable(modules[i])

\* What the parts of the invariant say together.
LoadInv ==
    /\ TypeOK /\ InBounds /\ EndsReading /\ NoZeroDivision
    /\ CurrentInv /\ OpenedInv
    /\ DiskOK /\ LinesOK /\ modules \in Seq(ModuleObjects)
    /\ CycleInv /\ CountInv /\ ReadInv /\ KnownInv /\ NamesInv /\ RanInv /\ ModulesInv

----------------------------------------------------------------------------
(* Facts about the operators                                               *)

\* The broker lines of a file are lines of it, and all that name a broker agent.
LEMMA BrokerLinesType ==
    ASSUME NEW lines \in Seq(Lines)
    PROVE  /\ BrokerLines(lines) \in Seq(Lines)
           /\ Len(BrokerLines(lines)) \in Nat
           /\ \A k \in 1 .. Len(BrokerLines(lines)) : \E i \in 1 .. Len(lines) :
                 NamesBroker(lines[i]) /\ BrokerLines(lines)[k] = lines[i]
           /\ \A i \in 1 .. Len(lines) : NamesBroker(lines[i]) =>
                 Len(BrokerLines(lines)) > 0
<1> DEFINE at == {i \in DOMAIN lines : NamesBroker(lines[i])}
           p == Picked(lines, at)
<1>1. BrokerLines(lines) = p
  BY DEF BrokerLines
<1>2. \A i : i \in at <=> i \in 1 .. Len(lines) /\ NamesBroker(lines[i])
  OBVIOUS
<1> HIDE DEF at
<1>3. /\ p \in Seq(Lines)
      /\ \A k \in 1 .. Len(p) : \E i \in 1 .. Len(lines) : i \in at /\ p[k] = lines[i]
      /\ \A i \in 1 .. Len(lines) : i \in at => \E k \in 1 .. Len(p) : p[k] = lines[i]
  <2>1. p \in Seq(Lines)
    BY PickedType
  <2>2. ASSUME NEW k \in 1 .. Len(p)
        PROVE  \E i \in 1 .. Len(lines) : i \in at /\ p[k] = lines[i]
    BY PickedType
  <2>3. ASSUME NEW i \in 1 .. Len(lines), i \in at
        PROVE  \E k \in 1 .. Len(p) : p[k] = lines[i]
    BY <2>3, PickedType
  <2>4. QED BY <2>1, <2>2, <2>3
<1> HIDE DEF p
<1>4. Len(p) \in Nat
  BY <1>3
<1>5. ASSUME NEW k \in 1 .. Len(p)
      PROVE  \E i \in 1 .. Len(lines) : NamesBroker(lines[i]) /\ p[k] = lines[i]
  <2>1. PICK i \in 1 .. Len(lines) : i \in at /\ p[k] = lines[i]
    BY <1>3
  <2>2. NamesBroker(lines[i])
    BY <1>2, <2>1
  <2>3. QED BY <2>1, <2>2
<1>6. ASSUME NEW i \in 1 .. Len(lines), NamesBroker(lines[i])
      PROVE  Len(p) > 0
  <2>1. i \in at
    BY <1>2, <1>6
  <2>2. PICK k \in 1 .. Len(p) : p[k] = lines[i]
    BY <1>3, <2>1
  <2>3. QED BY <1>4, <2>2
<1>7. QED
  BY <1>1, <1>3, <1>4, <1>5, <1>6

\* The file that writeBrokerConf writes consists of lines.
LEMMA BrokerTextType ==
    ASSUME NEW lines \in Seq(Lines), NEW name \in Tokens
    PROVE  BrokerText(lines, name) \in Seq(Lines)
<1> DEFINE Named(line) ==
               IF Holds(line, "agent_name") /\ line.first \in {"agent_name", "#"}
               THEN [line EXCEPT !.comment = FALSE, !.first = "agent_name", !.val = <<name>>]
               ELSE line
           named == [i \in DOMAIN lines |-> Named(lines[i])]
           at == {i \in DOMAIN lines : ~Holds(lines[i], "broker_agent")}
<1>1. BrokerText(lines, name) = Picked(named, at)
  BY DEF BrokerText
<1>2. ASSUME NEW line \in Lines PROVE Named(line) \in Lines
  <2>1. <<name>> \in Seq(Tokens) /\ "agent_name" \in Tokens
    BY AgentConfAssumption
  <2>2. QED
    BY <2>1 DEF Lines
<1>3. named \in Seq(Lines)
  <2>1. DOMAIN lines = 1 .. Len(lines) /\ Len(lines) \in Nat
    OBVIOUS
  <2> HIDE DEF Named
  <2>2. \A i \in 1 .. Len(lines) : Named(lines[i]) \in Lines
    BY <1>2
  <2>3. QED
    BY <2>1, <2>2
<1> HIDE DEF named, at
<1>4. QED
  BY <1>1, <1>3, PickedType

\* What sscanf reads as a number is one.
LEMMA NumberType ==
    ASSUME NEW value, IsNumber(value)
    PROVE  Number(value) \in Int
  BY NumeralsAssumption DEF IsNumber, Number

\* A product is zero only if a factor is, and a quotient only if the dividend is smaller.
LEMMA QuotientZero ==
    ASSUME NEW a \in Int, NEW b \in Int, b # 0, Quotient(a, b) = 0
    PROVE  Abs(a) < Abs(b)
<1>1. Abs(a) \in Nat /\ Abs(b) \in Nat /\ Abs(b) > 0
  BY DEF Abs
<1>2. Abs(a) \div Abs(b) = 0
  <2> DEFINE q == Abs(a) \div Abs(b)
  <2>1. q \in Int
    BY <1>1
  <2>2. Quotient(a, b) = q \/ Quotient(a, b) = -q
    BY DEF Quotient
  <2> HIDE DEF q
  <2>3. QED
    BY <2>1, <2>2 DEF q
<1>3. QED
  <2> DEFINE x == Abs(a)
             y == Abs(b)
  <2>1. x \in Nat /\ y \in Nat /\ y > 0 /\ x \div y = 0
    BY <1>1, <1>2
  <2> HIDE DEF x, y
  <2>2. x < y
    BY <2>1
  <2>3. QED
    BY <2>2 DEF x, y

\* The intensive interval of a module that is made is zero for a reason.
LEMMA ModuleExcusable ==
    ASSUME NEW def, NEW a \in Int, NEW b \in Int, Constructed(def), Divides(def, b),
           getModuleFromDefinition(def, a, b).intensive = 0
    PROVE  \/ b = 0
           \/ Abs(a) < Abs(b)
           \/ getModuleFromDefinition(def, a, b).interval = 0
<1> DEFINE n == Interval(Expand(def))
           list == ExpandList(def, "intensive_condition")
<1>1. n \in Int
  BY NumberType DEF Interval
<1>2. /\ getModuleFromDefinition(def, a, b).interval = n
      /\ getModuleFromDefinition(def, a, b).intensive =
            IF list # <<>> THEN n ELSE n * Quotient(a, b)
  BY DEF getModuleFromDefinition, IntensiveInterval
<1> HIDE DEF n, list
<1>3. CASE list # <<>>
  BY <1>2, <1>3
<1>4. CASE list = <<>> /\ b # 0
  <2>1. Quotient(a, b) \in Int
    <3>1. Abs(a) \in Nat /\ Abs(b) \in Nat /\ Abs(b) > 0
      BY <1>4 DEF Abs
    <3> DEFINE q == Abs(a) \div Abs(b)
    <3>2. q \in Int
      BY <3>1
    <3>3. Quotient(a, b) = q \/ Quotient(a, b) = -q
      BY DEF Quotient
    <3> HIDE DEF q
    <3>4. QED BY <3>2, <3>3
  <2>2. n * Quotient(a, b) = 0
    BY <1>2, <1>4
  <2> DEFINE q == Quotient(a, b)
  <2>3. q \in Int /\ n * q = 0
    BY <2>1, <2>2
  <2> HIDE DEF q
  <2>4. n = 0 \/ q = 0
    BY <1>1, <2>3
  <2>5. QED
    BY <1>2, <1>4, <2>4, QuotientZero DEF q
<1>5. QED
  BY <1>3, <1>4

----------------------------------------------------------------------------
(* Each action preserves the invariant                                     *)

\* Some values the constants cannot have.
LEMMA NamesDiffer ==
    /\ Main # Include /\ Main # NoFile /\ Main \notin Brokers
    /\ Include \notin Brokers /\ NoFile \notin Brokers
    /\ MaxEdits \in Nat /\ MaxFails \in Nat
  BY AgentConfAssumption

LEMMA InitLoad == Init => LoadInv
<1> SUFFICES ASSUME Init PROVE LoadInv
  OBVIOUS
<1>1. PICK lines \in Texts : disk = [f \in {Main, Include} |-> IF f = Main THEN lines
                                                         ELSE IncludeText]
  BY DEF Init
<1>2. lines \in Seq(Lines) /\ IncludeText \in Seq(Lines) /\ BrokersNamed(lines)
  BY TextsAssumption DEF BrokersNamed
<1>3. /\ DOMAIN disk = {Main, Include}
      /\ disk[Main] = lines /\ disk[Include] = IncludeText
  BY <1>1, NamesDiffer
<1>4. TypeOK
  <2>1. DOMAIN all_conf = {} /\ 0 .. num - 1 = {}
    BY DEF Init
  <2>2. DOMAIN disk \subseteq {Main, Include} \cup Brokers /\ {Main, Include} \subseteq DOMAIN disk
    BY <1>3
  <2>3. interval \in Int /\ intensive \in Int /\ num \in Nat /\ agent \in Nat
        /\ edits \in 0 .. MaxEdits /\ fails \in 0 .. MaxFails
    BY NamesDiffer DEF Init
  <2>4. broker_enabled \in BOOLEAN /\ current \in BOOLEAN /\ changed \in BOOLEAN
        /\ overrun \in BOOLEAN /\ pc \in PCs /\ file \in {Main, NoFile} \cup Brokers
        /\ refused \subseteq {"keys", "modules", "include"} /\ unwritten \subseteq Brokers
    BY DEF Init, PCs
  <2>5. QED
    BY <2>1, <2>2, <2>3, <2>4 DEF TypeOK
<1>5. DiskOK
  BY <1>1, <1>2, <1>3, NamesDiffer DEF DiskOK
<1>6. LinesOK /\ modules \in Seq(ModuleObjects)
  BY DEF Init, LinesOK
<1>7. InBounds /\ CurrentInv /\ EndsReading /\ OpenedInv /\ NoZeroDivision
  BY DEF Init, InBounds, CurrentInv, EndsReading, OpenedInv, TypeOK, NoZeroDivision
<1>8. CycleInv /\ CountInv /\ ReadInv /\ KnownInv /\ NamesInv
  BY DEF Init, CycleInv, CountInv, ReadInv, KnownInv, NamesInv, Loading
<1>9. RanInv /\ ModulesInv
  BY DEF Init, RanInv, ModulesInv, Loading
<1>10. QED
  BY <1>4, <1>5, <1>6, <1>7, <1>8, <1>9 DEF LoadInv

LEMMA InitBeginsLoad == LoadInv /\ InitBegins => LoadInv'
<1> SUFFICES ASSUME LoadInv, InitBegins PROVE LoadInv'
  OBVIOUS
<1> USE DEF LoadInv, confVars, listVars, readVars, cycleVars, counters, history
<1>1. disk[Main] \in Seq(Lines)
  BY DEF TypeOK, DiskOK
<1>2. num' \in Nat /\ num' = Len(BrokerLines(disk[Main]))
  BY <1>1, BrokerLinesType DEF InitBegins, count_broker_agents
<1>3. TypeOK'
  BY <1>2, NamesDiffer DEF InitBegins, TypeOK, PCs
<1>4. DiskOK' /\ LinesOK' /\ modules' \in Seq(ModuleObjects)
  BY DEF InitBegins, DiskOK, LinesOK, BrokersNamed
<1>5. InBounds' /\ CurrentInv' /\ EndsReading' /\ OpenedInv' /\ NoZeroDivision'
  BY DEF InitBegins, InBounds, CurrentInv, EndsReading, OpenedInv, TypeOK, NoZeroDivision
<1>6. CycleInv' /\ ReadInv' /\ KnownInv' /\ NamesInv'
  BY DEF InitBegins, CycleInv, ReadInv, KnownInv, NamesInv, Loading
<1>7. CountInv'
  BY <1>2 DEF InitBegins, CountInv
<1>8. RanInv' /\ ModulesInv'
  BY DEF InitBegins, RanInv, ModulesInv, Loading, Excusable
<1>9. QED
  BY <1>3, <1>4, <1>5, <1>6, <1>7, <1>8

LEMMA OpenConfLoad == LoadInv /\ OpenConf => LoadInv'
<1> SUFFICES ASSUME LoadInv, OpenConf PROVE LoadInv'
  OBVIOUS
<1> USE DEF LoadInv, confVars, listVars, readVars, cycleVars, counters, history
<1>1. disk[Main] \in Seq(Lines) /\ Main \in DOMAIN disk
  BY DEF TypeOK, DiskOK
<1>2. /\ pc = "open" /\ pc' = "conf" /\ key_values' = <<>>
      /\ fails' \in 0 .. MaxFails /\ fails' >= fails
      /\ refused' \subseteq {"keys", "modules", "include"}
      /\ "modules" \in refused => "modules" \in refused'
      /\ file # Main => refused' = refused
      /\ input' \in Seq(Lines)
      /\ file = Main => \/ input' = disk[Main]
                        \/ input' = <<>> /\ "keys" \in refused'
      /\ UNCHANGED <<disk, interval, intensive, broker_enabled, listVars, file, outer, block,
                     cycleVars, edits, text, ran, changed, overrun, unwritten>>
  <2>1. CASE Opened(file) /\ input' = disk[file] /\ refused' = refused \ OwnKeys
    <3>1. disk[file] \in Seq(Lines)
      BY <2>1 DEF DiskOK, Opened
    <3>2. refused' \subseteq refused /\ ("modules" \in refused => "modules" \in refused')
          /\ (file # Main => refused' = refused)
      BY <2>1 DEF OwnKeys
    <3>3. fails' \in 0 .. MaxFails /\ fails' >= fails
      BY <2>1, NamesDiffer DEF Opened, TypeOK
    <3>4. refused' \subseteq {"keys", "modules", "include"}
      BY <3>2 DEF TypeOK
    <3>5. file = Main => disk[file] = disk[Main]
      OBVIOUS
    <3>6. QED
      BY <2>1, <3>1, <3>2, <3>3, <3>4 DEF OpenConf
  <2>2. CASE Refused(file) /\ input' = <<>> /\ refused' = refused \cup OwnKeys
    <3>1. /\ refused' \subseteq {"keys", "modules", "include"}
          /\ refused \subseteq refused'
          /\ file = Main => "keys" \in refused'
          /\ file # Main => refused' = refused
      BY <2>2 DEF OwnKeys, TypeOK
    <3>2. fails' \in 0 .. MaxFails /\ fails' >= fails
      BY <2>2, NamesDiffer DEF Refused, Failure, TypeOK
    <3>3. QED
      BY <2>2, <3>1, <3>2 DEF OpenConf
  <2>3. QED BY <2>1, <2>2 DEF OpenConf
<1>3. TypeOK'
  BY <1>2 DEF TypeOK, PCs
<1>4. DiskOK' /\ LinesOK' /\ modules' \in Seq(ModuleObjects)
  BY <1>2 DEF DiskOK, LinesOK, BrokersNamed
<1>5. InBounds' /\ CurrentInv' /\ EndsReading' /\ OpenedInv' /\ NoZeroDivision'
  BY <1>2 DEF InBounds, CurrentInv, EndsReading, OpenedInv, NoZeroDivision
<1>6. CycleInv' /\ CountInv' /\ NamesInv' /\ RanInv'
  BY <1>2 DEF CycleInv, CountInv, NamesInv, RanInv, Loading
<1>7. KnownInv'
  BY <1>2 DEF KnownInv, KnownTo, Loading
<1>8. ReadInv'
  <2>1. CASE file = Main /\ input' = disk[Main]
    BY <1>1, <1>2, <2>1 DEF ReadInv, KnownTo
  <2>2. CASE file = Main /\ input' = <<>> /\ "keys" \in refused'
    BY <1>1, <1>2, <2>2 DEF ReadInv
  <2>3. QED BY <1>2, <2>1, <2>2 DEF ReadInv
<1>9. ModulesInv'
  BY <1>2 DEF ModulesInv, Excusable
<1>10. QED
  BY <1>3, <1>4, <1>5, <1>6, <1>7, <1>8, <1>9

LEMMA ConfLineLoad == LoadInv /\ ConfLine => LoadInv'
<1> SUFFICES ASSUME LoadInv, ConfLine PROVE LoadInv'
  OBVIOUS
<1> USE DEF LoadInv, confVars, listVars, readVars, cycleVars, counters, history
<1> DEFINE line == Head(input)
           names == file = Main /\ NamesBroker(line)
           name == Head(line.val)
<1>1. /\ disk[Main] \in Seq(Lines) /\ Main \in DOMAIN disk /\ pc = "conf"
      /\ Len(disk[Main]) \in Nat
  BY DEF TypeOK, DiskOK, ConfLine
<1>2. /\ input \in Seq(Lines) /\ input # <<>> /\ line \in Lines /\ input' = Tail(input)
      /\ input' \in Seq(Lines) /\ Len(input') = Len(input) - 1 /\ Len(input) \in Nat \ {0}
      /\ \A j \in 1 .. Len(input') : input'[j] = input[j + 1]
      /\ line = input[1]
  BY DEF ConfLine, LinesOK
<1>3. key_values' \in Seq(Lines)
  <2>1. key_values' = key_values \/ key_values' = Append(key_values, line)
    BY DEF ConfLine
  <2>2. key_values \in Seq(Lines)
    BY DEF LinesOK
  <2>3. line \in Lines
    BY <1>2
  <2> HIDE DEF line
  <2>4. Append(key_values, line) \in Seq(Lines)
    BY <2>2, <2>3, AppendProperties
  <2>5. QED BY <2>1, <2>2, <2>4, Zenon
<1>4. ASSUME names PROVE name \in Brokers /\ (~changed => num > 0)
  <2> DEFINE i == Len(disk[Main]) - Len(input) + 1
  <2>1. i \in 1 .. Len(disk[Main]) /\ line = disk[Main][i]
    BY <1>1, <1>2, <1>4 DEF ReadInv
  <2> HIDE DEF i
  <2>2. name \in Brokers
    BY <1>1, <1>4, <2>1 DEF DiskOK, BrokersNamed
  <2>3. Len(BrokerLines(disk[Main])) > 0
    BY <1>1, <1>4, <2>1, BrokerLinesType
  <2>4. QED BY <1>1, <2>2, <2>3 DEF CountInv
<1>5. \/ names /\ broker_enabled' = TRUE /\ SetConf(0, name) /\ BrokerFile(name)
      \/ ~names /\ UNCHANGED <<broker_enabled, all_conf, overrun, disk, pc, fails, unwritten>>
  BY DEF ConfLine, BrokerLine, NamesBroker
<1> HIDE DEF line, names, name
<1>6. /\ disk' \in [DOMAIN disk' -> Seq(Lines)]
      /\ DOMAIN disk \subseteq DOMAIN disk'
      /\ DOMAIN disk' \subseteq {Main, Include} \cup Brokers
      /\ disk'[Main] = disk[Main]
      /\ unwritten \subseteq unwritten' /\ unwritten' \subseteq Brokers
      /\ fails' \in 0 .. MaxFails
      /\ pc' = pc \/ (pc' = "loop" /\ names /\ fails' > 0)
      /\ names => name \in DOMAIN disk' \cup unwritten'
  <2>1. CASE ~names
    BY <1>5, <2>1 DEF TypeOK, DiskOK
  <2>2. CASE names
    <3>1. name \in Brokers /\ name # Main /\ name \in Tokens
      BY <1>4, <2>2, AgentConfAssumption
    <3>2. BrokerText(disk[Main], name) \in Seq(Lines)
      BY <1>1, <3>1, BrokerTextType
    <3> DEFINE lines == BrokerText(disk[Main], name)
               Leaves(n) == disk' = [f \in DOMAIN disk \cup {name} |->
                                       IF f = name THEN SubSeq(lines, 1, n) ELSE disk[f]]
    <3>3. Len(lines) \in Nat /\ \A n \in 0 .. Len(lines) : SubSeq(lines, 1, n) \in Seq(Lines)
      BY <3>2
    <3> HIDE DEF lines
    <3>4. ASSUME NEW n \in 0 .. Len(lines), Leaves(n)
          PROVE  /\ disk' \in [DOMAIN disk' -> Seq(Lines)]
                 /\ DOMAIN disk \subseteq DOMAIN disk'
                 /\ DOMAIN disk' \subseteq {Main, Include} \cup Brokers
                 /\ disk'[Main] = disk[Main]
                 /\ name \in DOMAIN disk'
      BY <1>1, <3>1, <3>3, <3>4 DEF TypeOK, DiskOK
    <3>5. \/ name \in DOMAIN disk /\ UNCHANGED <<fails, pc, disk, unwritten>>
          \/ Leaves(Len(lines)) /\ UNCHANGED <<fails, pc, unwritten>>
          \/ /\ Failure /\ unwritten' = unwritten \cup {name}
             /\ \/ UNCHANGED <<pc, disk>>
                \/ \E n \in 0 .. Len(lines) : Leaves(n) /\ UNCHANGED pc
                \/ Leaves(0) /\ pc' = "loop"
      BY <1>5, <2>2 DEF BrokerFile, Opened, writeBrokerConf, lines
    <3>6. CASE name \in DOMAIN disk /\ UNCHANGED <<fails, pc, disk, unwritten>>
      BY <3>6 DEF TypeOK, DiskOK
    <3>7. CASE Leaves(Len(lines)) /\ UNCHANGED <<fails, pc, unwritten>>
      <4>1. Len(lines) \in 0 .. Len(lines)
        BY <3>3
      <4> HIDE DEF Leaves
      <4>2. QED BY <3>4, <3>7, <4>1 DEF TypeOK
    <3>8. CASE /\ Failure /\ unwritten' = unwritten \cup {name}
               /\ \/ UNCHANGED <<pc, disk>>
                  \/ \E n \in 0 .. Len(lines) : Leaves(n) /\ UNCHANGED pc
                  \/ Leaves(0) /\ pc' = "loop"
      <4>1. /\ fails' \in 0 .. MaxFails /\ fails' > 0
            /\ unwritten \subseteq unwritten' /\ unwritten' \subseteq Brokers
            /\ name \in unwritten'
        BY <3>1, <3>8, NamesDiffer DEF Failure, TypeOK
      <4>2. CASE UNCHANGED <<pc, disk>>
        BY <4>1, <4>2 DEF TypeOK, DiskOK
      <4>3. CASE \E n \in 0 .. Len(lines) : Leaves(n) /\ UNCHANGED pc
        <5> HIDE DEF Leaves
        <5>1. PICK n \in 0 .. Len(lines) : Leaves(n) /\ UNCHANGED pc
          BY <4>3
        <5>2. QED BY <3>4, <4>1, <5>1
      <4>4. CASE Leaves(0) /\ pc' = "loop"
        <5> HIDE DEF Leaves
        <5>1. 0 \in 0 .. Len(lines)
          BY <3>3
        <5>2. QED BY <2>2, <3>4, <4>1, <4>4, <5>1
      <4>5. QED BY <3>8, <4>2, <4>3, <4>4
    <3>9. QED BY <3>5, <3>6, <3>7, <3>8
  <2>3. QED BY <2>1, <2>2
<1>7. /\ DOMAIN all_conf' = DOMAIN all_conf
      /\ \A i \in DOMAIN all_conf' : all_conf'[i] \in Brokers \cup {NoFile}
      /\ overrun' = FALSE
      /\ ~names => all_conf' = all_conf
  <2>1. CASE ~names
    BY <1>5, <2>1 DEF TypeOK, InBounds
  <2>2. CASE names /\ 0 \in DOMAIN all_conf
    BY <1>4, <1>5, <2>2 DEF TypeOK, InBounds, SetConf
  <2>3. CASE names /\ 0 \notin DOMAIN all_conf
    <3>1. changed = TRUE
      BY <1>4, <2>3 DEF TypeOK
    <3>2. overrun' = (overrun \/ ~changed) /\ all_conf' = all_conf
      BY <1>5, <2>3 DEF SetConf
    <3>3. overrun = FALSE
      BY DEF TypeOK, InBounds
    <3>4. QED BY <2>3, <3>1, <3>2, <3>3 DEF TypeOK
  <2>4. QED BY <2>1, <2>2, <2>3
<1>8. /\ broker_enabled' \in BOOLEAN
      /\ broker_enabled => broker_enabled'
      /\ names => broker_enabled'
  BY <1>5 DEF TypeOK
<1>9. UNCHANGED <<interval, intensive, modules, current, file, outer, block, num, agent,
                  edits, text, ran, changed, refused>>
  BY DEF ConfLine
<1>10. TypeOK'
  BY <1>1, <1>6, <1>7, <1>8, <1>9 DEF TypeOK, PCs
<1>11. DiskOK' /\ LinesOK' /\ modules' \in Seq(ModuleObjects)
  BY <1>2, <1>3, <1>6, <1>9 DEF DiskOK, LinesOK, BrokersNamed
<1>12. InBounds' /\ CurrentInv' /\ EndsReading' /\ OpenedInv' /\ NoZeroDivision'
  <2>1. pc' \in {"conf", "loop"} /\ file' \in DOMAIN disk'
    BY <1>1, <1>6, <1>9 DEF OpenedInv
  <2>2. InBounds' /\ CurrentInv' /\ OpenedInv' /\ NoZeroDivision'
    BY <1>1, <1>7, <1>9, <2>1 DEF InBounds, CurrentInv, OpenedInv, NoZeroDivision
  <2>3. EndsReading'
    BY <1>1, <1>6, <2>1 DEF EndsReading
  <2>4. QED BY <2>2, <2>3
<1>13. ~names => KnownTo(Len(disk[Main]))' = KnownTo(Len(disk[Main]))
  BY <1>5, <1>6 DEF KnownTo
<1>a. pc' = "conf" \/ (pc' = "loop" /\ file' = Main)
  BY <1>1, <1>6, <1>9 DEF names
<1>14. CycleInv' /\ NamesInv' /\ RanInv'
  BY <1>1, <1>6, <1>7, <1>9, <1>a DEF CycleInv, NamesInv, RanInv, Loading, names
<1>15. CountInv'
  BY <1>1, <1>6, <1>9 DEF CountInv
<1>16. KnownInv'
  BY <1>1, <1>6, <1>9, <1>13, <1>a DEF KnownInv, Loading, names
<1>17. ReadInv'
  <2>1. SUFFICES ASSUME file = Main PROVE ReadInv'
    BY <1>9 DEF ReadInv
  <2> DEFINE L == Len(disk[Main])
             k == L - Len(input)
  <2>2. /\ Len(input) <= L
        /\ \A j \in 1 .. Len(input) : input[j] = disk[Main][k + j]
        /\ "keys" \notin refused => KnownTo(k)
    BY <1>1, <2>1 DEF ReadInv
  <2>3. k \in Nat /\ L - Len(input') = k + 1
    BY <1>1, <1>2, <2>2
  <2>5. disk[Main][k + 1] = line
    BY <1>2, <2>2
  <2> HIDE DEF k
  <2>4. \A j \in 1 .. Len(input') : input'[j] = disk[Main][(k + 1) + j]
    <3>1. SUFFICES ASSUME NEW j \in 1 .. Len(input') PROVE input'[j] = disk[Main][(k + 1) + j]
      OBVIOUS
    <3>2. j + 1 \in 1 .. Len(input) /\ (k + 1) + j = k + (j + 1)
      BY <1>2, <2>3
    <3>3. QED BY <1>2, <2>2, <3>2
  <2>6. "keys" \notin refused =>
           \A i \in 1 .. k + 1 : NamesBroker(disk[Main][i]) =>
              /\ broker_enabled'
              /\ Head(disk[Main][i].val) \in DOMAIN disk' \cup unwritten'
    <3>1. SUFFICES ASSUME "keys" \notin refused,
                          NEW i \in 1 .. k + 1, NamesBroker(disk[Main][i])
                   PROVE  /\ broker_enabled'
                          /\ Head(disk[Main][i].val) \in DOMAIN disk' \cup unwritten'
      OBVIOUS
    <3>2. CASE i = k + 1
      BY <1>6, <1>8, <2>1, <2>5, <3>1, <3>2 DEF names, name
    <3>3. CASE i # k + 1
      <4>1. i \in 1 .. k
        BY <2>3, <3>3
      <4>2. QED BY <1>6, <1>8, <2>2, <3>1, <4>1 DEF KnownTo
    <3>4. QED BY <3>2, <3>3
  <2>7. Len(input') <= L
    BY <1>1, <1>2, <2>2
  <2>8. "keys" \notin refused => KnownTo(Len(disk[Main]) - Len(input))'
    BY <1>6, <2>3, <2>6 DEF KnownTo, NamesBroker
  <2>9. QED
    BY <1>6, <1>9, <2>3, <2>4, <2>7, <2>8 DEF ReadInv
<1>18. ModulesInv'
  BY <1>1, <1>9 DEF ModulesInv, Excusable
<1>19. QED
  BY <1>10, <1>11, <1>12, <1>14, <1>15, <1>16, <1>17, <1>18

LEMMA IntervalsLoad == LoadInv /\ Intervals => LoadInv'
<1> SUFFICES ASSUME LoadInv, Intervals PROVE LoadInv'
  OBVIOUS
<1> USE DEF LoadInv, confVars, listVars, readVars, cycleVars, counters, history
<1>1. interval' \in Int /\ intensive' \in Int
  <2>1. interval \in Int /\ intensive \in Int
    BY DEF TypeOK
  <2>2. interval' \in Int
    BY <2>1, NumberType DEF Intervals
  <2>3. QED
    BY <2>1, <2>2, NumberType DEF Intervals
<1>2. /\ pc = "conf" /\ input = <<>> /\ pc' = "list" /\ current
      /\ UNCHANGED <<disk, confVars, listVars, file, readVars, cycleVars, counters, history>>
  BY DEF Intervals
<1>3. TypeOK'
  BY <1>1, <1>2 DEF TypeOK, PCs
<1>4. DiskOK' /\ LinesOK' /\ modules' \in Seq(ModuleObjects)
  BY <1>2 DEF DiskOK, LinesOK, BrokersNamed
<1>5. InBounds' /\ CurrentInv' /\ EndsReading' /\ OpenedInv' /\ NoZeroDivision' /\ ModulesInv' /\ ReadInv'
  BY <1>2 DEF InBounds, CurrentInv, EndsReading, OpenedInv, TypeOK, NoZeroDivision, ModulesInv, ReadInv
<1>6. CycleInv' /\ CountInv' /\ NamesInv' /\ RanInv'
  BY <1>2 DEF CycleInv, CountInv, NamesInv, RanInv, Loading
<1>7. KnownInv'
  <2>1. CASE file = Main
    <3>1. disk[Main] \in Seq(Lines)
      BY DEF TypeOK, DiskOK
    <3>2. Len(input) = 0 /\ Len(disk[Main]) - 0 = Len(disk[Main])
      BY <1>2, <3>1
    <3>3. "keys" \notin refused => KnownTo(Len(disk[Main]))
      BY <1>2, <2>1, <3>2 DEF ReadInv
    <3>4. QED
      BY <1>2, <3>3 DEF KnownInv, KnownTo
  <2>2. CASE file # Main
    BY <1>2, <2>2 DEF KnownInv, KnownTo, Loading
  <2>3. QED BY <2>1, <2>2
<1>8. QED
  BY <1>3, <1>4, <1>5, <1>6, <1>7

\* A broker agent whose file is loaded has one, unless pandora_agent.conf was replaced,
\* or something failed.
LEMMA LoadedFileExists ==
    ASSUME LoadInv, Loading, ~changed, "keys" \notin refused
    PROVE  file \in DOMAIN disk \cup unwritten
<1> USE DEF LoadInv, confVars, listVars, readVars, cycleVars, counters, history
<1>1. disk[Main] \in Seq(Lines) /\ num \in Nat /\ agent \in Nat
  BY DEF TypeOK, DiskOK
<1>2. agent < num /\ file = all_conf[agent] /\ num = Len(BrokerLines(disk[Main]))
  BY DEF CycleInv, CountInv, Loading
<1>3. agent + 1 \in 1 .. num /\ (agent + 1) - 1 = agent
  BY <1>1, <1>2
<1>4. file = Head(BrokerLines(disk[Main])[agent + 1].val)
  BY <1>2, <1>3 DEF NamesInv
<1>5. PICK i \in 1 .. Len(disk[Main]) :
          NamesBroker(disk[Main][i]) /\ BrokerLines(disk[Main])[agent + 1] = disk[Main][i]
  BY <1>1, <1>2, <1>3, BrokerLinesType
<1>6. QED
  BY <1>4, <1>5 DEF KnownInv, KnownTo

LEMMA OpenListLoad == LoadInv /\ OpenList => LoadInv'
<1> SUFFICES ASSUME LoadInv, OpenList PROVE LoadInv'
  OBVIOUS
<1> USE DEF LoadInv, confVars, listVars, readVars, cycleVars, counters, history
<1>1. file \in DOMAIN disk /\ disk[file] \in Seq(Lines)
  BY DEF DiskOK, OpenedInv, OpenList
<1>2. /\ pc = "list" /\ modules' = <<>> /\ current' = FALSE
      /\ UNCHANGED <<disk, interval, intensive, confVars, file, outer, block, cycleVars,
                     edits, ran, changed, overrun, unwritten>>
      /\ "keys" \in refused' <=> "keys" \in refused
      /\ refused' \subseteq {"keys", "modules", "include"}
      /\ fails' \in 0 .. MaxFails
      /\ \/ /\ input' = disk[file] /\ text' = disk[file] /\ pc' = "lines"
         \/ /\ input' = input /\ text' = <<>>
            /\ pc' = IF file = Main THEN "name" ELSE "run"
            /\ "modules" \in refused'
  <2>1. CASE /\ Opened(file)
             /\ input' = disk[file] /\ text' = disk[file] /\ pc' = "lines"
             /\ refused' = refused \ {"modules", "include"}
    <3>1. ("keys" \in refused' <=> "keys" \in refused) /\ refused' \subseteq refused
      BY <2>1
    <3>2. QED BY <2>1, <3>1 DEF OpenList, TypeOK, Opened
  <2>2. CASE /\ Refused(file)
             /\ text' = <<>> /\ pc' = AfterList /\ UNCHANGED input
             /\ refused' = (refused \ {"modules", "include"})
                             \cup (IF file \in DOMAIN disk THEN {"modules"} ELSE {})
    <3>1. refused' = (refused \ {"modules", "include"}) \cup {"modules"}
      BY <1>1, <2>2
    <3>2. /\ "keys" \in refused' <=> "keys" \in refused
          /\ refused' \subseteq {"keys", "modules", "include"}
          /\ "modules" \in refused'
      BY <3>1 DEF TypeOK
    <3>3. fails' \in 0 .. MaxFails
      BY <1>1, <2>2, NamesDiffer DEF Refused, Failure, TypeOK
    <3>4. QED BY <2>2, <3>2, <3>3 DEF OpenList, AfterList
  <2>3. QED BY <2>1, <2>2 DEF OpenList
<1>4. TypeOK'
  BY <1>2 DEF TypeOK, PCs
<1>5. DiskOK' /\ LinesOK' /\ modules' \in Seq(ModuleObjects)
  <2>1. <<>> \in Seq(ModuleObjects) /\ <<>> \in Seq(Lines)
    OBVIOUS
  <2>2. text' \in Seq(Lines) /\ input' \in Seq(Lines)
    BY <1>1, <1>2, <2>1 DEF LinesOK
  <2>3. QED
    BY <1>2, <2>1, <2>2 DEF DiskOK, LinesOK, BrokersNamed
<1>6. /\ InBounds' /\ CurrentInv' /\ EndsReading' /\ OpenedInv' /\ NoZeroDivision'
      /\ ModulesInv' /\ ReadInv'
  <2>1. DOMAIN modules' = {}
    BY <1>2
  <2>2. QED
    BY <1>1, <1>2, <2>1 DEF InBounds, CurrentInv, EndsReading, OpenedInv, NoZeroDivision,
       ModulesInv, ReadInv
<1>7. CycleInv' /\ CountInv' /\ NamesInv' /\ RanInv'
  BY <1>2 DEF CycleInv, CountInv, NamesInv, RanInv, Loading
<1>8. KnownInv'
  BY <1>2 DEF KnownInv, KnownTo, Loading
<1>9. QED
  BY <1>4, <1>5, <1>6, <1>7, <1>8

\* What a definition adds to the list keeps the intervals excusable.
LEMMA ParseModules ==
    ASSUME LoadInv, pc = "lines", NEW STATE def, def \in Seq(Lines),
           parseModuleDefinition(def),
           UNCHANGED <<interval, intensive>>
    PROVE  /\ modules' \in Seq(ModuleObjects)
           /\ \A i \in DOMAIN modules' : Excusable(modules'[i])
           /\ pc' \in {"lines", "dead"}
           /\ pc' = "dead" => intensive = 0
<1> USE DEF LoadInv, confVars, listVars, readVars, cycleVars, counters, history
<1>1. /\ interval \in Int /\ intensive \in Int /\ modules \in Seq(ModuleObjects)
      /\ \A i \in DOMAIN modules : Excusable(modules[i])
  BY DEF TypeOK, ModulesInv
<1>2. CASE ~Divides(def, intensive)
  <2>1. pc' = "dead" /\ modules' = modules
    BY <1>2 DEF parseModuleDefinition
  <2>2. intensive = 0
    BY <1>2 DEF Divides
  <2>3. QED BY <1>1, <2>1, <2>2
<1>3. CASE Divides(def, intensive)
  <2> DEFINE m == getModuleFromDefinition(def, interval, intensive)
  <2>1. pc' = "lines" /\ modules' = IF Makes(def) THEN Append(modules, m) ELSE modules
    BY <1>3 DEF parseModuleDefinition
  <2>2. m \in ModuleObjects
    BY <1>1 DEF ModuleObjects
  <2>3. Makes(def) => Excusable(m)
    BY <1>1, <1>3, ModuleExcusable DEF Makes, Excusable
  <2> HIDE DEF m
  <2>4. CASE ~Makes(def)
    BY <1>1, <2>1, <2>4
  <2>5. CASE Makes(def)
    <3>1. modules' = Append(modules, m) /\ Excusable(m)
      BY <2>1, <2>3, <2>5
    <3>2. modules' \in Seq(ModuleObjects)
      BY <1>1, <2>2, <3>1
    <3>3. ASSUME NEW i \in DOMAIN modules' PROVE Excusable(modules'[i])
      <4>1. \/ i \in 1 .. Len(modules) /\ modules'[i] = modules[i]
            \/ modules'[i] = m
        BY <1>1, <2>2, <3>1
      <4>2. QED BY <1>1, <3>1, <4>1
    <3>4. QED BY <2>1, <3>2, <3>3
  <2>6. QED BY <2>4, <2>5
<1>4. QED BY <1>2, <1>3

\* A step of the constructor of the list.
LEMMA LinesStep ==
    ASSUME LoadInv, pc = "lines",
           UNCHANGED <<disk, interval, intensive, confVars, current, file, cycleVars,
                       counters, history>>,
           input' \in Seq(Lines), outer' \in Seq(Lines), block' \in Seq(Lines),
           modules' \in Seq(ModuleObjects),
           \A i \in DOMAIN modules' : Excusable(modules'[i]),
           pc' \in {"lines", "dead"},
           pc' = "dead" => intensive = 0
    PROVE  LoadInv'
<1> USE DEF LoadInv, confVars, listVars, readVars, cycleVars, counters, history
<1>1. TypeOK'
  BY DEF TypeOK, PCs
<1>2. DiskOK' /\ LinesOK' /\ modules' \in Seq(ModuleObjects)
  BY DEF DiskOK, LinesOK, BrokersNamed
<1>3. InBounds' /\ CurrentInv' /\ EndsReading' /\ OpenedInv' /\ NoZeroDivision' /\ ModulesInv' /\ ReadInv'
  BY DEF InBounds, CurrentInv, EndsReading, OpenedInv, TypeOK, NoZeroDivision, ModulesInv, Excusable, ReadInv
<1>4. CycleInv' /\ CountInv' /\ NamesInv' /\ RanInv'
  BY DEF CycleInv, CountInv, NamesInv, RanInv, Loading
<1>5. KnownInv'
  BY DEF KnownInv, KnownTo, Loading
<1>6. QED
  BY <1>1, <1>2, <1>3, <1>4, <1>5

LEMMA ListLineLoad == LoadInv /\ ListLine => LoadInv'
<1> SUFFICES ASSUME LoadInv, ListLine PROVE LoadInv'
  OBVIOUS
<1> USE DEF LoadInv, confVars, listVars, readVars, cycleVars, counters, history
<1> DEFINE line == Head(input)
           rest == [line EXCEPT !.words = @ \ {"include"}]
           path == Head(line.val)
<1>1. /\ pc = "lines"
      /\ UNCHANGED <<disk, interval, intensive, confVars, current, file, cycleVars,
                     counters, history>>
  BY DEF ListLine
<1>2. /\ input \in Seq(Lines) /\ outer \in Seq(Lines) /\ block \in Seq(Lines)
      /\ input # <<>> /\ line \in Lines /\ Tail(input) \in Seq(Lines)
  BY DEF ListLine, LinesOK
<1>3. rest \in Lines
  BY <1>2 DEF Lines
<1>4. \/ input' = Tail(input) /\ UNCHANGED <<outer, block, modules, pc>>
      \/ /\ input' = IF path \in DOMAIN disk THEN disk[path] ELSE <<>>
         /\ outer' = <<rest>> \o Tail(input)
         /\ UNCHANGED <<block, modules, pc>>
      \/ block' = <<line>> /\ input' = Tail(input) /\ UNCHANGED <<outer, modules, pc>>
      \/ /\ parseModuleDefinition(<<line>>) /\ input' = Tail(input)
         /\ UNCHANGED <<outer, block>>
  BY DEF ListLine
<1> HIDE DEF line, rest, path
<1>5. ASSUME UNCHANGED <<modules, pc>>, input' \in Seq(Lines), outer' \in Seq(Lines),
             block' \in Seq(Lines)
      PROVE  LoadInv'
  <2>1. /\ modules' \in Seq(ModuleObjects)
        /\ \A i \in DOMAIN modules' : Excusable(modules'[i])
    BY <1>1, <1>5 DEF ModulesInv
  <2>2. pc' = "lines"
    BY <1>1, <1>5
  <2>3. QED BY <1>1, <1>5, <2>1, <2>2, LinesStep
<1>6. CASE input' = Tail(input) /\ UNCHANGED <<outer, block, modules, pc>>
  BY <1>2, <1>5, <1>6
<1>7. CASE /\ input' = IF path \in DOMAIN disk THEN disk[path] ELSE <<>>
           /\ outer' = <<rest>> \o Tail(input)
           /\ UNCHANGED <<block, modules, pc>>
  <2>1. input' \in Seq(Lines)
    BY <1>7 DEF DiskOK
  <2>2. outer' \in Seq(Lines)
    BY <1>2, <1>3, <1>7
  <2>3. QED BY <1>2, <1>5, <1>7, <2>1, <2>2
<1>8. CASE block' = <<line>> /\ input' = Tail(input) /\ UNCHANGED <<outer, modules, pc>>
  <2>1. <<line>> \in Seq(Lines)
    BY <1>2
  <2>2. QED BY <1>2, <1>5, <1>8, <2>1
<1>9. CASE /\ parseModuleDefinition(<<line>>) /\ input' = Tail(input)
           /\ UNCHANGED <<outer, block>>
  <2> DEFINE def == <<line>>
  <2>1. def \in Seq(Lines)
    BY <1>2
  <2>2. parseModuleDefinition(def)
    BY <1>9
  <2> HIDE DEF def
  <2>3. /\ modules' \in Seq(ModuleObjects)
        /\ \A i \in DOMAIN modules' : Excusable(modules'[i])
        /\ pc' \in {"lines", "dead"}
        /\ pc' = "dead" => intensive = 0
    BY <1>1, <2>1, <2>2, ParseModules
  <2>4. QED BY <1>1, <1>2, <1>9, <2>3, LinesStep
<1>10. QED
  BY <1>4, <1>6, <1>7, <1>8, <1>9

LEMMA IncludeRefusedLoad == LoadInv /\ IncludeRefused => LoadInv'
<1> SUFFICES ASSUME LoadInv, IncludeRefused PROVE LoadInv'
  OBVIOUS
<1> USE DEF LoadInv, confVars, listVars, readVars, cycleVars, counters, history
<1>0. /\ pc = "lines" /\ pc' = "lines" /\ input' \in Seq(Lines)
      /\ fails' \in 0 .. MaxFails
      /\ refused \subseteq refused' /\ ("keys" \in refused' <=> "keys" \in refused)
      /\ refused' \subseteq {"keys", "modules", "include"}
      /\ UNCHANGED <<disk, interval, intensive, confVars, listVars, file, outer, block,
                     cycleVars, edits, text, ran, changed, overrun, unwritten>>
  <2> DEFINE rest == [Head(input) EXCEPT !.words = @ \ {"include"}]
  <2>1. Head(input) \in Lines /\ Tail(input) \in Seq(Lines)
    BY DEF IncludeRefused, LinesOK
  <2>2. rest \in Lines
    BY <2>1 DEF Lines
  <2>3. input' = <<rest>> \o Tail(input)
    BY DEF IncludeRefused
  <2> HIDE DEF rest
  <2>4. input' \in Seq(Lines)
    BY <2>1, <2>2, <2>3
  <2>5. fails' \in 0 .. MaxFails
    BY NamesDiffer DEF IncludeRefused, Failure, TypeOK
  <2>6. refused' = refused \cup {"include"}
    BY DEF IncludeRefused
  <2>7. /\ refused \subseteq refused' /\ ("keys" \in refused' <=> "keys" \in refused)
        /\ refused' \subseteq {"keys", "modules", "include"}
    BY <2>6 DEF TypeOK
  <2>8. QED BY <2>4, <2>5, <2>7 DEF IncludeRefused
<1>1. TypeOK'
  BY <1>0, NamesDiffer DEF TypeOK, PCs
<1>2. DiskOK' /\ LinesOK' /\ modules' \in Seq(ModuleObjects)
  BY <1>0 DEF DiskOK, LinesOK, BrokersNamed
<1>3. InBounds' /\ CurrentInv' /\ OpenedInv' /\ NoZeroDivision'
  BY <1>0 DEF InBounds, CurrentInv, OpenedInv, NoZeroDivision, CycleInv, TypeOK
<1>4. EndsReading'
  BY <1>0, NamesDiffer DEF EndsReading, TypeOK
<1>5. CycleInv' /\ CountInv' /\ NamesInv' /\ RanInv'
  BY <1>0 DEF CycleInv, CountInv, NamesInv, RanInv, Loading, TypeOK
<1>6. KnownInv' /\ ReadInv'
  BY <1>0 DEF KnownInv, KnownTo, Loading, ReadInv
<1>7. ModulesInv'
  BY <1>0 DEF ModulesInv, Excusable
<1>8. QED
  BY <1>1, <1>2, <1>3, <1>4, <1>5, <1>6, <1>7

LEMMA BlockLineLoad == LoadInv /\ BlockLine => LoadInv'
<1> SUFFICES ASSUME LoadInv, BlockLine PROVE LoadInv'
  OBVIOUS
<1> USE DEF LoadInv, confVars, listVars, readVars, cycleVars, counters, history
<1>1. /\ pc = "lines" /\ pc' = "lines" /\ UNCHANGED modules
      /\ UNCHANGED <<disk, interval, intensive, confVars, current, file, cycleVars,
                     counters, history>>
  BY DEF BlockLine
<1>2. input' \in Seq(Lines) /\ outer' \in Seq(Lines)
  BY DEF BlockLine, LinesOK
<1>3. block' \in Seq(Lines)
  BY DEF BlockLine, LinesOK
<1>4. /\ modules' \in Seq(ModuleObjects)
      /\ \A i \in DOMAIN modules' : Excusable(modules'[i])
  BY <1>1 DEF ModulesInv
<1>5. QED BY <1>1, <1>2, <1>3, <1>4, LinesStep

LEMMA BlockEndsLoad == LoadInv /\ BlockEnds => LoadInv'
<1> SUFFICES ASSUME LoadInv, BlockEnds PROVE LoadInv'
  OBVIOUS
<1> USE DEF LoadInv, confVars, listVars, readVars, cycleVars, counters, history
<1> DEFINE def == IF input = <<>> THEN block ELSE Append(block, Head(input))
<1>1. /\ pc = "lines" /\ parseModuleDefinition(def)
      /\ UNCHANGED <<disk, interval, intensive, confVars, current, file, cycleVars,
                     counters, history>>
  BY DEF BlockEnds
<1>2. input' \in Seq(Lines) /\ outer' \in Seq(Lines) /\ block' \in Seq(Lines)
  BY DEF BlockEnds, LinesOK
<1>3. def \in Seq(Lines)
  <2>1. CASE input = <<>>
    BY <2>1 DEF LinesOK
  <2>2. CASE input # <<>>
    <3>1. Head(input) \in Lines /\ block \in Seq(Lines)
      BY <2>2 DEF LinesOK
    <3>2. QED BY <2>2, <3>1
  <2>3. QED BY <2>1, <2>2
<1> HIDE DEF def
<1>4. /\ modules' \in Seq(ModuleObjects)
      /\ \A i \in DOMAIN modules' : Excusable(modules'[i])
      /\ pc' \in {"lines", "dead"}
      /\ pc' = "dead" => intensive = 0
  BY <1>1, <1>3, ParseModules
<1>5. QED BY <1>1, <1>2, <1>4, LinesStep

LEMMA IncludeEndsLoad == LoadInv /\ IncludeEnds => LoadInv'
<1> SUFFICES ASSUME LoadInv, IncludeEnds PROVE LoadInv'
  OBVIOUS
<1> USE DEF LoadInv, confVars, listVars, readVars, cycleVars, counters, history
<1>1. /\ pc = "lines" /\ pc' = "lines" /\ UNCHANGED modules
      /\ UNCHANGED <<disk, interval, intensive, confVars, current, file, cycleVars,
                     counters, history>>
  BY DEF IncludeEnds
<1>2. input' \in Seq(Lines) /\ outer' \in Seq(Lines) /\ block' \in Seq(Lines)
  BY DEF IncludeEnds, LinesOK
<1>3. /\ modules' \in Seq(ModuleObjects)
      /\ \A i \in DOMAIN modules' : Excusable(modules'[i])
  BY <1>1 DEF ModulesInv
<1>4. QED BY <1>1, <1>2, <1>3, LinesStep

LEMMA ListEndsLoad == LoadInv /\ ListEnds => LoadInv'
<1> SUFFICES ASSUME LoadInv, ListEnds PROVE LoadInv'
  OBVIOUS
<1> USE DEF LoadInv, confVars, listVars, readVars, cycleVars, counters, history
<1> USE DEF ListEnds, AfterList
<1>1. TypeOK'
  BY DEF TypeOK, PCs
<1>2. DiskOK' /\ LinesOK' /\ modules' \in Seq(ModuleObjects)
  BY DEF DiskOK, LinesOK, BrokersNamed
<1>3. InBounds' /\ CurrentInv' /\ EndsReading' /\ OpenedInv' /\ NoZeroDivision'
  BY DEF InBounds, CurrentInv, EndsReading, OpenedInv, TypeOK, NoZeroDivision, CycleInv
<1>4. CycleInv' /\ CountInv' /\ NamesInv'
  BY DEF TypeOK, CycleInv, CountInv, NamesInv, Loading
<1>5. RanInv'
  BY DEF CycleInv, RanInv, Loading
<1>6. KnownInv' /\ ReadInv'
  BY DEF CycleInv, KnownInv, KnownTo, Loading, ReadInv
<1>7. ModulesInv'
  BY DEF ModulesInv, Excusable
<1>8. QED
  BY <1>1, <1>2, <1>3, <1>4, <1>5, <1>6, <1>7

LEMMA checkAgentNameLoad == LoadInv /\ checkAgentName => LoadInv'
<1> SUFFICES ASSUME LoadInv, checkAgentName PROVE LoadInv'
  OBVIOUS
<1> USE DEF LoadInv, confVars, listVars, readVars, cycleVars, counters, history
<1>0. /\ pc = "name" /\ file \in DOMAIN disk /\ pc' = IF file = Main THEN "idle" ELSE "open"
      /\ UNCHANGED <<disk, interval, intensive, confVars, listVars, file, readVars,
                     cycleVars, counters, history>>
  BY DEF checkAgentName
<1>1. TypeOK'
  BY <1>0, NamesDiffer DEF TypeOK, PCs
<1>2. DiskOK' /\ LinesOK' /\ modules' \in Seq(ModuleObjects)
  BY <1>0 DEF DiskOK, LinesOK, BrokersNamed
<1>3. InBounds' /\ CurrentInv' /\ OpenedInv' /\ NoZeroDivision'
  BY <1>0 DEF InBounds, CurrentInv, OpenedInv, NoZeroDivision, CycleInv, TypeOK
<1>4. EndsReading'
  BY <1>0, NamesDiffer DEF EndsReading, TypeOK
<1>5. CycleInv' /\ CountInv' /\ NamesInv' /\ RanInv'
  BY <1>0 DEF CycleInv, CountInv, NamesInv, RanInv, Loading, TypeOK
<1>6. KnownInv' /\ ReadInv'
  BY <1>0 DEF KnownInv, KnownTo, Loading, ReadInv
<1>7. ModulesInv'
  BY <1>0 DEF ModulesInv, Excusable
<1>8. QED
  BY <1>1, <1>2, <1>3, <1>4, <1>5, <1>6, <1>7

LEMMA ReadsForeverLoad == LoadInv /\ ReadsForever => LoadInv'
<1> SUFFICES ASSUME LoadInv, ReadsForever PROVE LoadInv'
  OBVIOUS
<1> USE DEF LoadInv, confVars, listVars, readVars, cycleVars, counters, history
<1>0. /\ pc \in {"init", "count", "check", "name", "run"} /\ pc' = "loop"
      /\ file' = IF pc \in {"name", "run"} THEN file ELSE Main
      /\ fails' \in 0 .. MaxFails /\ (file' \in DOMAIN disk => fails' > 0)
      /\ UNCHANGED <<disk, interval, intensive, confVars, listVars, readVars,
                     cycleVars, edits, history>>
  BY NamesDiffer DEF ReadsForever, Scanned, Refused, Failure, TypeOK
<1>1. TypeOK'
  BY <1>0, NamesDiffer DEF TypeOK, PCs
<1>2. DiskOK' /\ LinesOK' /\ modules' \in Seq(ModuleObjects)
  BY <1>0 DEF DiskOK, LinesOK, BrokersNamed
<1>3. InBounds' /\ CurrentInv' /\ OpenedInv' /\ NoZeroDivision'
  BY <1>0 DEF InBounds, CurrentInv, OpenedInv, NoZeroDivision, CycleInv, TypeOK
<1>4. EndsReading'
  <2>1. SUFFICES ASSUME file' \notin DOMAIN disk, ~changed, "keys" \notin refused
                 PROVE  file' \in unwritten
    BY <1>0 DEF EndsReading
  <2>2. file' = file /\ Loading
    BY <1>0, <2>1 DEF TypeOK, Loading
  <2>3. QED BY <2>1, <2>2, LoadedFileExists
<1>5. CycleInv' /\ CountInv' /\ NamesInv' /\ RanInv'
  <2>1. pc' \notin {"init", "idle", "count", "check", "open", "conf", "list", "lines",
                   "name", "run", "next"}
    BY <1>0
  <2>2. CycleInv'
    BY <1>0, <2>1 DEF CycleInv, Loading
  <2>3. CountInv'
    BY <1>0, <2>1 DEF CountInv, CycleInv, TypeOK
  <2>4. NamesInv' /\ RanInv'
    BY <1>0, <2>1 DEF NamesInv, RanInv, Loading
  <2>5. QED BY <2>2, <2>3, <2>4
<1>6. KnownInv' /\ ReadInv'
  BY <1>0 DEF KnownInv, KnownTo, Loading, ReadInv
<1>7. ModulesInv'
  BY <1>0 DEF ModulesInv, Excusable
<1>8. QED
  BY <1>1, <1>2, <1>3, <1>4, <1>5, <1>6, <1>7

LEMMA WakeLoad == LoadInv /\ Wake => LoadInv'
<1> SUFFICES ASSUME LoadInv, Wake PROVE LoadInv'
  OBVIOUS
<1> USE DEF LoadInv, confVars, listVars, readVars, cycleVars, counters, history
<1> USE DEF Wake
<1>1. TypeOK'
  BY DEF TypeOK, PCs
<1>2. DiskOK' /\ LinesOK' /\ modules' \in Seq(ModuleObjects)
  BY DEF DiskOK, LinesOK, BrokersNamed
<1>3. InBounds' /\ CurrentInv' /\ EndsReading' /\ OpenedInv' /\ NoZeroDivision'
  BY DEF InBounds, CurrentInv, EndsReading, OpenedInv, TypeOK, NoZeroDivision, CycleInv
<1>4. CycleInv' /\ CountInv' /\ NamesInv'
  BY DEF TypeOK, CycleInv, CountInv, NamesInv, Loading
<1>5. RanInv'
  BY DEF CycleInv, RanInv, Loading
<1>6. KnownInv' /\ ReadInv'
  BY DEF CycleInv, KnownInv, KnownTo, Loading, ReadInv
<1>7. ModulesInv'
  BY DEF ModulesInv, Excusable
<1>8. QED
  BY <1>1, <1>2, <1>3, <1>4, <1>5, <1>6, <1>7

LEMMA RunModulesLoad == LoadInv /\ RunModules => LoadInv'
<1> SUFFICES ASSUME LoadInv, RunModules PROVE LoadInv'
  OBVIOUS
<1> USE DEF LoadInv, confVars, listVars, readVars, cycleVars, counters, history
<1> USE DEF RunModules
<1>1. TypeOK'
  BY DEF TypeOK, PCs
<1>2. DiskOK' /\ LinesOK' /\ modules' \in Seq(ModuleObjects)
  BY DEF DiskOK, LinesOK, BrokersNamed
<1>3. InBounds' /\ CurrentInv' /\ EndsReading' /\ OpenedInv' /\ NoZeroDivision'
  <2>1. InBounds' /\ CurrentInv' /\ EndsReading' /\ OpenedInv'
    BY DEF InBounds, CurrentInv, EndsReading, OpenedInv, TypeOK
  <2>2. NoZeroDivision'
    <3>1. SUFFICES ASSUME pc' = "dead" PROVE NoZeroDivision'
      BY DEF NoZeroDivision
    <3>2. PICK i \in DOMAIN modules : modules[i].intensive = 0
      BY <3>1
    <3>3. Excusable(modules[i])
      BY DEF ModulesInv
    <3>4. QED BY <3>2, <3>3 DEF NoZeroDivision, Excusable
  <2>3. QED BY <2>1, <2>2
<1>4. CycleInv' /\ CountInv' /\ NamesInv'
  BY DEF TypeOK, CycleInv, CountInv, NamesInv, Loading
<1>5. RanInv'
  <2>0. /\ ran \in Seq({Main, NoFile} \cup Brokers) /\ file \in {Main, NoFile} \cup Brokers
        /\ agent \in Nat /\ num \in Nat
    BY DEF RanInv, TypeOK
  <2>1. CASE pc' = "dead"
    BY <2>1 DEF RanInv, Loading
  <2>2. CASE pc' # "dead" /\ file = Main
    <3>1. ran' = <<Main>> /\ pc' = "count" /\ file' = Main
      BY <2>2 DEF RanInv
    <3>2. QED BY <3>1 DEF RanInv, Loading
  <2>3. CASE pc' # "dead" /\ file # Main
    <3>1. /\ ran' = Append(ran, file) /\ agent' = agent + 1 /\ pc' = "next" /\ file' = file
          /\ UNCHANGED <<disk, changed, num, all_conf>>
      BY <2>3
    <3>2. /\ ran' \in Seq({Main, NoFile} \cup Brokers) /\ Len(ran') = Len(ran) + 1
          /\ \A i \in 1 .. Len(ran) : ran'[i] = ran[i]
          /\ ran'[Len(ran) + 1] = file
      <4> DEFINE S == {Main, NoFile} \cup Brokers
      <4>1. ran \in Seq(S) /\ file \in S
        BY <2>0
      <4> HIDE DEF S
      <4>2. /\ ran' \in Seq(S) /\ Len(ran') = Len(ran) + 1
            /\ \A i \in 1 .. Len(ran) : ran'[i] = ran[i]
            /\ ran'[Len(ran) + 1] = file
        BY <3>1, <4>1
      <4>3. QED BY <4>2 DEF S
    <3>3. Loading /\ agent < num /\ file = all_conf[agent]
      BY <2>3 DEF Loading, CycleInv
    <3>4. ASSUME ~changed
          PROVE  /\ Len(ran') = agent' + 1
                 /\ ran'[1] = Main
                 /\ \A i \in 1 .. agent' : ran'[i + 1] = Head(BrokerLines(disk[Main])[i].val)
      <4>1. /\ Len(ran) = agent + 1
            /\ ran[1] = Main
            /\ \A i \in 1 .. agent : ran[i + 1] = Head(BrokerLines(disk[Main])[i].val)
        BY <3>3, <3>4 DEF RanInv
      <4>2. agent + 1 \in 1 .. num /\ (agent + 1) - 1 = agent
        BY <2>0, <3>3
      <4>3. file = Head(BrokerLines(disk[Main])[agent + 1].val)
        BY <3>3, <3>4, <4>2 DEF NamesInv
      <4>4. Len(ran') = agent' + 1 /\ ran'[1] = Main
        BY <2>0, <3>1, <3>2, <4>1
      <4>5. ASSUME NEW i \in 1 .. agent + 1
            PROVE  ran'[i + 1] = Head(BrokerLines(disk[Main])[i].val)
        <5>1. CASE i = agent + 1
          BY <3>2, <4>1, <4>3, <5>1
        <5>2. CASE i # agent + 1
          <6>1. i \in 1 .. agent /\ i + 1 \in 1 .. Len(ran)
            BY <2>0, <4>1, <5>2
          <6>2. QED BY <3>2, <4>1, <6>1
        <5>3. QED BY <5>1, <5>2
      <4>6. QED BY <3>1, <4>4, <4>5
    <3>5. QED BY <3>1, <3>2, <3>4 DEF RanInv, Loading
  <2>4. QED BY <2>1, <2>2, <2>3
<1>6. KnownInv' /\ ReadInv'
  BY DEF CycleInv, KnownInv, KnownTo, Loading, ReadInv
<1>7. ModulesInv'
  BY DEF ModulesInv, Excusable
<1>8. QED
  BY <1>1, <1>2, <1>3, <1>4, <1>5, <1>6, <1>7

LEMMA NextBrokerLoad == LoadInv /\ NextBroker => LoadInv'
<1> SUFFICES ASSUME LoadInv, NextBroker PROVE LoadInv'
  OBVIOUS
<1> USE DEF LoadInv, confVars, listVars, readVars, cycleVars, counters, history
<1> USE DEF NextBroker
<1>1. TypeOK'
  BY DEF TypeOK, PCs
<1>2. DiskOK' /\ LinesOK' /\ modules' \in Seq(ModuleObjects)
  BY DEF DiskOK, LinesOK, BrokersNamed
<1>3. InBounds' /\ CurrentInv' /\ EndsReading' /\ OpenedInv' /\ NoZeroDivision'
  BY DEF InBounds, CurrentInv, EndsReading, OpenedInv, TypeOK, NoZeroDivision, CycleInv
<1>4. CycleInv' /\ CountInv' /\ NamesInv'
  BY DEF TypeOK, CycleInv, CountInv, NamesInv, Loading
<1>5. RanInv'
  BY DEF CycleInv, RanInv, Loading
<1>6. KnownInv' /\ ReadInv'
  BY DEF CycleInv, KnownInv, KnownTo, Loading, ReadInv
<1>7. ModulesInv'
  BY DEF ModulesInv, Excusable
<1>8. QED
  BY <1>1, <1>2, <1>3, <1>4, <1>5, <1>6, <1>7

LEMMA BrokersDoneLoad == LoadInv /\ BrokersDone => LoadInv'
<1> SUFFICES ASSUME LoadInv, BrokersDone PROVE LoadInv'
  OBVIOUS
<1> USE DEF LoadInv, confVars, listVars, readVars, cycleVars, counters, history
<1> USE DEF BrokersDone
<1>1. TypeOK'
  BY DEF TypeOK, PCs
<1>2. DiskOK' /\ LinesOK' /\ modules' \in Seq(ModuleObjects)
  BY DEF DiskOK, LinesOK, BrokersNamed
<1>3. InBounds' /\ CurrentInv' /\ EndsReading' /\ OpenedInv' /\ NoZeroDivision'
  BY DEF InBounds, CurrentInv, EndsReading, OpenedInv, TypeOK, NoZeroDivision, CycleInv
<1>4. CycleInv' /\ CountInv' /\ NamesInv'
  BY DEF TypeOK, CycleInv, CountInv, NamesInv, Loading
<1>5. RanInv'
  BY DEF CycleInv, RanInv, Loading
<1>6. KnownInv' /\ ReadInv'
  BY DEF CycleInv, KnownInv, KnownTo, Loading, ReadInv
<1>7. ModulesInv'
  BY DEF ModulesInv, Excusable
<1>8. QED
  BY <1>1, <1>2, <1>3, <1>4, <1>5, <1>6, <1>7

LEMMA CountBrokersLoad == LoadInv /\ CountBrokers => LoadInv'
<1> SUFFICES ASSUME LoadInv, CountBrokers PROVE LoadInv'
  OBVIOUS
<1> USE DEF LoadInv, confVars, listVars, readVars, cycleVars, counters, history
<1> USE DEF CountBrokers
<1>0. num' \in Nat /\ num' = Len(BrokerLines(disk[Main]))
  <2>1. disk[Main] \in Seq(Lines)
    BY DEF TypeOK, DiskOK
  <2>2. QED
    BY <2>1, BrokerLinesType DEF count_broker_agents
<1>1. TypeOK'
  BY <1>0 DEF TypeOK, PCs
<1>2. DiskOK' /\ LinesOK' /\ modules' \in Seq(ModuleObjects)
  BY DEF DiskOK, LinesOK, BrokersNamed
<1>3. InBounds' /\ CurrentInv' /\ EndsReading' /\ OpenedInv' /\ NoZeroDivision'
  BY DEF InBounds, CurrentInv, EndsReading, OpenedInv, TypeOK, NoZeroDivision, CycleInv
<1>4. CycleInv' /\ CountInv' /\ NamesInv'
  BY <1>0 DEF CycleInv, CountInv, NamesInv, Loading
<1>5. RanInv'
  BY DEF CycleInv, RanInv, Loading
<1>6. KnownInv' /\ ReadInv'
  BY DEF CycleInv, KnownInv, KnownTo, Loading, ReadInv
<1>7. ModulesInv'
  BY DEF ModulesInv, Excusable
<1>8. QED
  BY <1>1, <1>2, <1>3, <1>4, <1>5, <1>6, <1>7

LEMMA check_broker_agentsLoad == LoadInv /\ check_broker_agents => LoadInv'
<1> SUFFICES ASSUME LoadInv, check_broker_agents PROVE LoadInv'
  OBVIOUS
<1> USE DEF LoadInv, confVars, listVars, readVars, cycleVars, counters, history
<1> USE DEF check_broker_agents
<1>0. ASSUME NEW i \in DOMAIN all_conf' PROVE all_conf'[i] \in Brokers \cup {NoFile}
  <2> DEFINE L == BrokerLines(disk[Main])
  <2>1. disk[Main] \in Seq(Lines) /\ BrokersNamed(disk[Main])
    BY DEF TypeOK, DiskOK
  <2>2. i \in DOMAIN all_conf /\ i \in Nat
        /\ all_conf'[i] = IF i < Len(L) THEN Head(L[i + 1].val) ELSE NoFile
    BY DEF TypeOK
  <2>3. ASSUME i < Len(L) PROVE Head(L[i + 1].val) \in Brokers
    <3>1. i + 1 \in 1 .. Len(L)
      BY <2>1, <2>2, <2>3, BrokerLinesType
    <3>2. PICK j \in 1 .. Len(disk[Main]) :
              NamesBroker(disk[Main][j]) /\ L[i + 1] = disk[Main][j]
      BY <2>1, <3>1, BrokerLinesType
    <3>3. QED BY <2>1, <3>2 DEF BrokersNamed
  <2>4. QED BY <2>2, <2>3
<1>1. TypeOK'
  BY <1>0 DEF TypeOK, PCs
<1>2. DiskOK' /\ LinesOK' /\ modules' \in Seq(ModuleObjects)
  BY DEF DiskOK, LinesOK, BrokersNamed
<1>3. InBounds' /\ CurrentInv' /\ EndsReading' /\ OpenedInv' /\ NoZeroDivision'
  <2>1. overrun' = (overrun \/ (Len(BrokerLines(disk[Main])) > num /\ ~changed))
    OBVIOUS
  <2>2. ~changed => ~(Len(BrokerLines(disk[Main])) > num)
    BY DEF CountInv, TypeOK
  <2>3. InBounds'
    BY <2>1, <2>2 DEF InBounds
  <2>4. QED
    BY <2>3 DEF CurrentInv, EndsReading, OpenedInv, TypeOK, NoZeroDivision
<1>4. CycleInv' /\ CountInv' /\ NamesInv'
  <2>1. CycleInv' /\ CountInv'
    BY DEF TypeOK, CycleInv, CountInv, Loading
  <2>2. ASSUME ~changed, NEW i \in 1 .. num
        PROVE  all_conf'[i - 1] = Head(BrokerLines(disk[Main])[i].val)
    <3>1. num = Len(BrokerLines(disk[Main])) /\ num \in Nat
      BY <2>2 DEF TypeOK, CountInv
    <3>2. i - 1 \in DOMAIN all_conf /\ i - 1 < num /\ (i - 1) + 1 = i
      BY <3>1 DEF TypeOK
    <3>3. QED BY <3>1, <3>2
  <2>3. NamesInv'
    BY <2>2 DEF NamesInv
  <2>4. QED BY <2>1, <2>3
<1>5. RanInv'
  BY DEF CycleInv, RanInv, Loading
<1>6. KnownInv' /\ ReadInv'
  BY DEF CycleInv, KnownInv, KnownTo, Loading, ReadInv
<1>7. ModulesInv'
  BY DEF ModulesInv, Excusable
<1>8. QED
  BY <1>1, <1>2, <1>3, <1>4, <1>5, <1>6, <1>7

LEMMA NewConfLoad == LoadInv /\ NewConf => LoadInv'
<1> SUFFICES ASSUME LoadInv, NewConf PROVE LoadInv'
  OBVIOUS
<1> USE DEF LoadInv, confVars, listVars, readVars, cycleVars, counters, history
<1> USE DEF NewConf
<1>0. PICK new \in NewTexts : disk' = [disk EXCEPT ![Main] = new]
  OBVIOUS
<1>a. new \in Seq(Lines) /\ BrokersNamed(new)
  BY TextsAssumption DEF BrokersNamed
<1>b. DOMAIN disk' = DOMAIN disk /\ disk'[Main] = new /\ Main \in DOMAIN disk
  BY <1>0 DEF TypeOK
<1>1. TypeOK'
  <2>1. edits' \in 0 .. MaxEdits
    BY NamesDiffer DEF TypeOK
  <2>2. QED
    BY <1>b, <2>1 DEF TypeOK, PCs
<1>2. DiskOK' /\ LinesOK' /\ modules' \in Seq(ModuleObjects)
  <2>1. DiskOK'
    BY <1>0, <1>a, <1>b DEF DiskOK
  <2>2. QED
    BY <2>1 DEF LinesOK
<1>3. InBounds' /\ CurrentInv' /\ EndsReading' /\ OpenedInv' /\ NoZeroDivision'
  BY DEF InBounds, CurrentInv, EndsReading, OpenedInv, TypeOK, NoZeroDivision, CycleInv
<1>4. CycleInv' /\ CountInv' /\ NamesInv'
  BY DEF TypeOK, CycleInv, CountInv, NamesInv, Loading
<1>5. RanInv'
  BY DEF CycleInv, RanInv, Loading
<1>6. KnownInv' /\ ReadInv'
  BY DEF CycleInv, KnownInv, KnownTo, Loading, ReadInv
<1>7. ModulesInv'
  BY DEF ModulesInv, Excusable
<1>8. QED
  BY <1>1, <1>2, <1>3, <1>4, <1>5, <1>6, <1>7

LEMMA EditLoad == LoadInv /\ Edit => LoadInv'
<1> SUFFICES ASSUME LoadInv, Edit PROVE LoadInv'
  OBVIOUS
<1> USE DEF LoadInv, confVars, listVars, readVars, cycleVars, counters, history
<1> USE DEF Edit
<1>0. PICK new \in NewTexts : disk' = [disk EXCEPT ![Main] = new]
  OBVIOUS
<1>a. new \in Seq(Lines) /\ BrokersNamed(new)
  BY TextsAssumption DEF BrokersNamed
<1>b. DOMAIN disk' = DOMAIN disk /\ disk'[Main] = new /\ Main \in DOMAIN disk
  BY <1>0 DEF TypeOK
<1>1. TypeOK'
  <2>1. edits' \in 0 .. MaxEdits
    BY NamesDiffer DEF TypeOK
  <2>2. QED
    BY <1>b, <2>1 DEF TypeOK, PCs
<1>2. DiskOK' /\ LinesOK' /\ modules' \in Seq(ModuleObjects)
  <2>1. DiskOK'
    BY <1>0, <1>a, <1>b DEF DiskOK
  <2>2. QED
    BY <2>1 DEF LinesOK
<1>3. InBounds' /\ CurrentInv' /\ EndsReading' /\ OpenedInv' /\ NoZeroDivision'
  BY DEF InBounds, CurrentInv, EndsReading, OpenedInv, TypeOK, NoZeroDivision, CycleInv
<1>4. CycleInv' /\ CountInv' /\ NamesInv'
  BY DEF TypeOK, CycleInv, CountInv, NamesInv, Loading
<1>5. RanInv'
  BY DEF CycleInv, RanInv, Loading
<1>6. KnownInv' /\ ReadInv'
  BY DEF CycleInv, KnownInv, KnownTo, Loading, ReadInv
<1>7. ModulesInv'
  BY DEF ModulesInv, Excusable
<1>8. QED
  BY <1>1, <1>2, <1>3, <1>4, <1>5, <1>6, <1>7

LEMMA NextLoad == LoadInv /\ [Next]_vars => LoadInv'
<1> SUFFICES ASSUME LoadInv, [Next]_vars PROVE LoadInv'
  OBVIOUS
<1>1. CASE Agent
  BY <1>1, InitBeginsLoad, OpenConfLoad, ConfLineLoad, IntervalsLoad, OpenListLoad,
     ListLineLoad, BlockLineLoad, BlockEndsLoad, IncludeEndsLoad, IncludeRefusedLoad,
     ListEndsLoad, checkAgentNameLoad, WakeLoad, RunModulesLoad, CountBrokersLoad,
     check_broker_agentsLoad, NextBrokerLoad, BrokersDoneLoad, ReadsForeverLoad DEF Agent
<1>2. CASE NewConf
  BY <1>2, NewConfLoad
<1>3. CASE Edit
  BY <1>3, EditLoad
<1>4. CASE UNCHANGED vars
  <2> USE <1>4 DEF LoadInv, confVars, listVars, readVars, cycleVars, counters, history, vars
  <2>1. TypeOK' /\ DiskOK' /\ LinesOK' /\ modules' \in Seq(ModuleObjects)
    BY DEF TypeOK, DiskOK, LinesOK, BrokersNamed
  <2>2. InBounds' /\ CurrentInv' /\ EndsReading' /\ OpenedInv' /\ NoZeroDivision' /\ ModulesInv'
    BY DEF InBounds, CurrentInv, EndsReading, OpenedInv, TypeOK, NoZeroDivision, ModulesInv, Excusable
  <2>3. CycleInv' /\ CountInv' /\ NamesInv' /\ RanInv'
    BY DEF CycleInv, CountInv, NamesInv, RanInv, Loading
  <2>4. KnownInv' /\ ReadInv'
    BY DEF KnownInv, KnownTo, Loading, ReadInv
  <2>5. QED BY <2>1, <2>2, <2>3, <2>4
<1>5. QED
  BY <1>1, <1>2, <1>3, <1>4 DEF Next, Dead

\* The invariant implies that every broker agent is known and has had its turn.
LEMMA LoadServes == LoadInv => BrokersServed
<1> SUFFICES ASSUME LoadInv PROVE BrokersServed
  OBVIOUS
<1> DEFINE lines == BrokerLines(disk[Main])
<1>1. disk[Main] \in Seq(Lines) /\ num \in Nat /\ agent \in Nat
  BY DEF LoadInv, TypeOK, DiskOK
<1>2. /\ lines \in Seq(Lines)
      /\ \A k \in 1 .. Len(lines) : \E i \in 1 .. Len(disk[Main]) :
            NamesBroker(disk[Main][i]) /\ lines[k] = disk[Main][i]
  BY <1>1, BrokerLinesType
<1>3. EachBrokerRuns
  <2>1. SUFFICES ASSUME pc = "next", agent = num, ~changed
                 PROVE  ran = <<Main>> \o [i \in DOMAIN lines |-> Head(lines[i].val)]
    BY DEF EachBrokerRuns
  <2>2. num = Len(lines)
    BY <2>1 DEF LoadInv, CountInv
  <2>3. /\ ran \in Seq({Main, NoFile} \cup Brokers)
        /\ Len(ran) = num + 1
        /\ ran[1] = Main
        /\ \A i \in 1 .. num : ran[i + 1] = Head(lines[i].val)
    BY <2>1 DEF LoadInv, RanInv
  <2> HIDE DEF lines
  <2>4. DOMAIN lines = 1 .. num
    BY <1>2, <2>2
  <2> DEFINE names == [i \in 1 .. num |-> Head(lines[i].val)]
             S == {Main, NoFile} \cup Brokers
  <2>5. names \in Seq(S)
    <3>1. \A i \in 1 .. num : ran[i + 1] \in S
      BY <1>1, <2>3
    <3>2. \A i \in 1 .. num : Head(lines[i].val) \in S
      BY <2>3, <3>1
    <3> HIDE DEF S
    <3>3. QED BY <1>1, <3>2
  <2>6. Len(names) = num /\ \A i \in 1 .. num : names[i] = Head(lines[i].val)
    BY <1>1
  <2>7. ran \in Seq(S) /\ <<Main>> \in Seq(S)
    BY <2>3
  <2> HIDE DEF names, S
  <2>8. ran = <<Main>> \o names
    <3>1. <<Main>> \o names \in Seq(S) /\ Len(<<Main>> \o names) = num + 1
      BY <1>1, <2>5, <2>6, <2>7
    <3>2. ASSUME NEW i \in 1 .. num + 1 PROVE ran[i] = (<<Main>> \o names)[i]
      <4>1. CASE i = 1
        BY <2>3, <2>5, <2>7, <4>1
      <4>2. CASE i # 1
        <5>1. i - 1 \in 1 .. num /\ (i - 1) + 1 = i
          BY <1>1, <4>2
        <5>2. (<<Main>> \o names)[i] = names[i - 1]
          BY <2>5, <2>6, <2>7, <5>1
        <5>3. QED BY <2>3, <2>6, <5>1, <5>2
      <4>3. QED BY <4>1, <4>2
    <3>3. QED
      BY <2>3, <2>7, <3>1, <3>2, SeqEqual
  <2>9. QED BY <2>4, <2>8 DEF names
<1>4. BrokersKnown
  <2>1. SUFFICES ASSUME pc \in {"idle", "run"}, ~changed, "keys" \notin refused,
                        lines # <<>>
                 PROVE  broker_enabled
    BY DEF BrokersKnown
  <2>2. Len(lines) > 0 /\ 1 \in 1 .. Len(lines)
    BY <1>2, <2>1
  <2>3. KnownTo(Len(disk[Main]))
    BY <2>1 DEF LoadInv, KnownInv
  <2>4. QED BY <1>2, <2>2, <2>3 DEF KnownTo
<1>5. QED
  BY <1>3, <1>4 DEF BrokersServed

\* Reading the configuration again and again, while somebody replaces the file, runs into
\* undefined behaviour (past the end of all_conf, through the iterator, a division by
\* zero) in the named cases only.
THEOREM LoadsDefined == Spec => []Defined
<1>1. LoadInv => Defined
  BY DEF LoadInv, Defined, CurrentInv, IteratorSet, Unset
<1>2. QED
  BY <1>1, InitLoad, NextLoad, PTL DEF Spec

\* Unless the file is replaced, every broker agent that it names is known to the agent
\* and has its turn in every cycle, in the order of the file.
THEOREM ServesBrokers == Spec => []BrokersServed
  BY InitLoad, NextLoad, LoadServes, PTL DEF Spec

----------------------------------------------------------------------------
(* Macros                                                                  *)

\* The words of values: those of the lines, and the blank that parseLine puts in.
ValueWords == Tokens \cup {" "}

\* A word does not occur in a value; it occurs at one place at most.
Never(value, word) == \A i \in 1 .. Len(value) : value[i] # word
Once(value, word) ==
    \A i, j \in 1 .. Len(value) : value[i] = word /\ value[j] = word => i = j

\* The elements of two sequences that are put together.
LEMMA Joined ==
    ASSUME NEW X, NEW a \in Seq(X), NEW b \in Seq(X)
    PROVE  /\ a \o b \in Seq(X)
           /\ Len(a) \in Nat /\ Len(b) \in Nat /\ Len(a \o b) = Len(a) + Len(b)
           /\ \A i \in 1 .. Len(a) : (a \o b)[i] = a[i]
           /\ \A i \in 1 .. Len(b) : (a \o b)[Len(a) + i] = b[i]
<1>1. Len(a) \in Nat /\ Len(b) \in Nat
  OBVIOUS
<1>2. a \o b \in Seq(X) /\ Len(a \o b) = Len(a) + Len(b)
  BY ConcatProperties
<1>3. \A i \in 1 .. Len(a) : (a \o b)[i] = a[i]
  OBVIOUS
<1>4. \A i \in 1 .. Len(b) : (a \o b)[Len(a) + i] = b[i]
  OBVIOUS
<1>5. QED BY <1>1, <1>2, <1>3, <1>4

\* The elements of three sequences that are put together.
IsJoined(r, a, t, b, X) ==
    /\ r \in Seq(X)
    /\ Len(r) = Len(a) + Len(t) + Len(b)
    /\ \A i \in 1 .. Len(a) : r[i] = a[i]
    /\ \A i \in 1 .. Len(t) : r[Len(a) + i] = t[i]
    /\ \A i \in 1 .. Len(b) : r[Len(a) + Len(t) + i] = b[i]

LEMMA JoinedThree ==
    ASSUME NEW X, NEW a \in Seq(X), NEW t \in Seq(X), NEW b \in Seq(X)
    PROVE  IsJoined(a \o t \o b, a, t, b, X)
<1> DEFINE c == a \o t
           r == c \o b
<1>1. /\ c \in Seq(X)
      /\ Len(a) \in Nat /\ Len(t) \in Nat /\ Len(c) = Len(a) + Len(t)
      /\ \A i \in 1 .. Len(a) : c[i] = a[i]
      /\ \A i \in 1 .. Len(t) : c[Len(a) + i] = t[i]
  BY Joined
<1> HIDE DEF c
<1>2. c \in Seq(X)
  BY <1>1
<1>3. /\ r \in Seq(X)
      /\ Len(b) \in Nat /\ Len(r) = Len(c) + Len(b)
      /\ \A i \in 1 .. Len(c) : r[i] = c[i]
      /\ \A i \in 1 .. Len(b) : r[Len(c) + i] = b[i]
  BY <1>2, Joined
<1>4. a \o t \o b = r
  BY DEF c
<1> HIDE DEF r
<1>5. \A i \in 1 .. Len(a) : i \in 1 .. Len(c)
  BY <1>1
<1>6. \A i \in 1 .. Len(t) : Len(a) + i \in 1 .. Len(c)
  BY <1>1
<1>7. QED
  BY <1>1, <1>3, <1>4, <1>5, <1>6 DEF IsJoined

\* What stands before and behind a place of a sequence.
LEMMA Around ==
    ASSUME NEW X, NEW v \in Seq(X), NEW k \in 1 .. Len(v)
    PROVE  /\ SubSeq(v, 1, k - 1) \in Seq(X) /\ Len(SubSeq(v, 1, k - 1)) = k - 1
           /\ \A i \in 1 .. k - 1 : SubSeq(v, 1, k - 1)[i] = v[i]
           /\ SubSeq(v, k + 1, Len(v)) \in Seq(X)
           /\ Len(SubSeq(v, k + 1, Len(v))) = Len(v) - k
           /\ \A i \in 1 .. Len(v) - k : SubSeq(v, k + 1, Len(v))[i] = v[k + i]
<1>1. Len(v) \in Nat /\ k \in Nat \ {0} /\ k <= Len(v)
  OBVIOUS
<1>2. /\ SubSeq(v, 1, k - 1) \in Seq(X) /\ Len(SubSeq(v, 1, k - 1)) = k - 1
      /\ \A i \in 1 .. k - 1 : SubSeq(v, 1, k - 1)[i] = v[i]
  BY <1>1
<1>3. /\ SubSeq(v, k + 1, Len(v)) \in Seq(X) /\ Len(SubSeq(v, k + 1, Len(v))) = Len(v) - k
      /\ \A i \in 1 .. Len(v) - k : SubSeq(v, k + 1, Len(v))[i] = v[k + i]
  BY <1>1
<1>4. QED BY <1>2, <1>3

\* The value behind the first occurrence of a macro is put together from three parts.
IsSpliced(r, v, t, k, X) ==
    /\ r \in Seq(X)
    /\ Len(r) = Len(v) + Len(t) - 1
    /\ \A i \in 1 .. k - 1 : r[i] = v[i]
    /\ \A i \in k .. k + Len(t) - 1 : r[i] = t[i - k + 1]
    /\ \A i \in k + Len(t) .. Len(r) : r[i] = v[i - Len(t) + 1]

LEMMA Spliced ==
    ASSUME NEW X, NEW v \in Seq(X), NEW t \in Seq(X), NEW k \in 1 .. Len(v)
    PROVE  IsSpliced(SubSeq(v, 1, k - 1) \o t \o SubSeq(v, k + 1, Len(v)), v, t, k, X)
<1> DEFINE a == SubSeq(v, 1, k - 1)
           b == SubSeq(v, k + 1, Len(v))
           r == a \o t \o b
<1>1. Len(v) \in Nat /\ Len(t) \in Nat /\ k \in Nat \ {0} /\ k <= Len(v)
  OBVIOUS
<1>2. /\ a \in Seq(X) /\ Len(a) = k - 1
      /\ \A i \in 1 .. k - 1 : a[i] = v[i]
      /\ b \in Seq(X) /\ Len(b) = Len(v) - k
      /\ \A i \in 1 .. Len(v) - k : b[i] = v[k + i]
  BY Around
<1> HIDE DEF a, b
<1>3. a \in Seq(X) /\ b \in Seq(X)
  BY <1>2
<1>4. /\ r \in Seq(X)
      /\ Len(r) = Len(a) + Len(t) + Len(b)
      /\ \A i \in 1 .. Len(a) : r[i] = a[i]
      /\ \A i \in 1 .. Len(t) : r[Len(a) + i] = t[i]
      /\ \A i \in 1 .. Len(b) : r[Len(a) + Len(t) + i] = b[i]
  <2>1. IsJoined(r, a, t, b, X)
    BY <1>3, JoinedThree
  <2> HIDE DEF r
  <2>2. QED BY <2>1 DEF IsJoined
<1> HIDE DEF r
<1>5. Len(r) = Len(v) + Len(t) - 1
  BY <1>1, <1>2, <1>4
<1>6. \A i \in 1 .. k - 1 : r[i] = v[i]
  BY <1>2, <1>4
<1>7. ASSUME NEW i \in k .. k + Len(t) - 1 PROVE r[i] = t[i - k + 1]
  <2>1. i - k + 1 \in 1 .. Len(t) /\ Len(a) + (i - k + 1) = i
    BY <1>1, <1>2
  <2>2. QED BY <1>4, <2>1
<1>8. ASSUME NEW i \in k + Len(t) .. Len(r) PROVE r[i] = v[i - Len(t) + 1]
  <2> DEFINE j == i - (k - 1 + Len(t))
  <2>1. /\ j \in 1 .. Len(v) - k /\ j \in 1 .. Len(b)
        /\ Len(a) + Len(t) + j = i /\ k + j = i - Len(t) + 1
    BY <1>1, <1>2, <1>5
  <2> HIDE DEF j
  <2>2. r[i] = b[j] /\ b[j] = v[k + j]
    BY <1>2, <1>4, <2>1
  <2>3. QED BY <2>1, <2>2
<1>9. IsSpliced(r, v, t, k, X)
  BY <1>4, <1>5, <1>6, <1>7, <1>8 DEF IsSpliced
<1>10. QED
  BY <1>9 DEF r, a, b

\* Replacing a macro whose value does not have the word brings no occurrence of it in, and
\* takes the only one away if the word is the name of the macro.
LEMMA ReplaceWord ==
    ASSUME NEW X, NEW v \in Seq(X), NEW macro \in Seq(X), macro # <<>>,
           NEW word, Never(MacroValue(macro), word)
    PROVE  /\ Replace(v, macro) \in Seq(X)
           /\ Never(v, word) => Never(Replace(v, macro), word)
           /\ Once(v, word) => Once(Replace(v, macro), word)
           /\ Once(v, word) /\ MacroName(macro) = word /\ word # "" =>
                 Never(Replace(v, macro), word)
<1> DEFINE t == MacroValue(macro)
           w == MacroName(macro)
           found == {i \in DOMAIN v : v[i] = w}
           first == CHOOSE i \in found : \A j \in found : i <= j
           r == Replace(v, macro)
<1>1. t \in Seq(X) /\ Len(t) \in Nat /\ Len(v) \in Nat
  BY DEF MacroValue
<1>2. CASE v = <<>>
  <2>1. r = <<>> /\ Len(r) = 0 /\ r \in Seq(X)
    BY <1>2 DEF Replace
  <2> HIDE DEF r
  <2>2. QED BY <2>1 DEF Never, Once, r
<1>3. CASE v # <<>> /\ w = ""
  <2>1. r = t \o v
    BY <1>3 DEF Replace
  <2> HIDE DEF t, r
  <2>2. /\ r \in Seq(X) /\ Len(r) = Len(t) + Len(v)
        /\ \A i \in 1 .. Len(t) : r[i] = t[i]
        /\ \A i \in Len(t) + 1 .. Len(r) : r[i] = v[i - Len(t)]
    BY <1>1, <2>1
  <2>3. \A i \in 1 .. Len(r) : r[i] = word =>
           i - Len(t) \in 1 .. Len(v) /\ v[i - Len(t)] = word
    <3>1. SUFFICES ASSUME NEW i \in 1 .. Len(r), r[i] = word
                   PROVE  i - Len(t) \in 1 .. Len(v) /\ v[i - Len(t)] = word
      OBVIOUS
    <3>2. i \notin 1 .. Len(t)
      BY <2>2, <3>1 DEF Never, t
    <3>3. i \in Len(t) + 1 .. Len(r) /\ i - Len(t) \in 1 .. Len(v)
      BY <1>1, <2>2, <3>2
    <3>4. QED BY <2>2, <3>1, <3>3
  <2>4. Never(v, word) => Never(r, word)
    BY <2>3 DEF Never
  <2>5. Once(v, word) => Once(r, word)
    BY <1>1, <2>2, <2>3 DEF Once
  <2>6. QED BY <1>3, <2>2, <2>4, <2>5 DEF r
<1>4. CASE v # <<>> /\ w # "" /\ found = {}
  <2>1. r = v
    BY <1>4 DEF Replace
  <2>2. w = word => Never(v, word)
    <3> HIDE DEF w
    <3>1. DOMAIN v = 1 .. Len(v)
      OBVIOUS
    <3>2. \A i \in 1 .. Len(v) : v[i] # w
      BY <1>4, <3>1
    <3> HIDE DEF found
    <3>3. QED BY <3>2 DEF Never
  <2>3. QED BY <2>1, <2>2
<1>5. CASE v # <<>> /\ w # "" /\ found # {}
  <2>1. first \in 1 .. Len(v) /\ v[first] = w
    <3>1. found \in SUBSET Nat
      BY <1>1
    <3> HIDE DEF found
    <3>2. \E i \in found : \A j \in found : i <= j
      BY <1>5, <3>1, LeastNumber
    <3>3. first \in found
      BY <3>2
    <3>4. QED BY <3>3 DEF found
  <2>2. r = SubSeq(v, 1, first - 1) \o t \o SubSeq(v, first + 1, Len(v))
    BY <1>5 DEF Replace
  <2> HIDE DEF t, r, found, first
  <2>3. /\ r \in Seq(X)
        /\ Len(r) = Len(v) + Len(t) - 1
        /\ \A i \in 1 .. first - 1 : r[i] = v[i]
        /\ \A i \in first .. first + Len(t) - 1 : r[i] = t[i - first + 1]
        /\ \A i \in first + Len(t) .. Len(r) : r[i] = v[i - Len(t) + 1]
    <3>1. IsSpliced(r, v, t, first, X)
      BY <1>1, <2>1, <2>2, Spliced
    <3>2. QED BY <3>1 DEF IsSpliced
  <2> DEFINE Old(i) == IF i < first THEN i ELSE i - Len(t) + 1
  <2>4. ASSUME NEW i \in 1 .. Len(r), r[i] = word
        PROVE  /\ i < first \/ i >= first + Len(t)
               /\ Old(i) \in 1 .. Len(v) /\ v[Old(i)] = word /\ Old(i) # first
    <3>1. ~(first <= i /\ i < first + Len(t))
      <4>1. SUFFICES ASSUME first <= i, i < first + Len(t) PROVE FALSE
        OBVIOUS
      <4>2. i \in first .. first + Len(t) - 1 /\ i - first + 1 \in 1 .. Len(t)
        BY <1>1, <2>1, <4>1
      <4>3. t[i - first + 1] = word
        BY <2>3, <2>4, <4>2
      <4>4. QED BY <4>2, <4>3 DEF Never, t
    <3>2. CASE i < first
      <4>1. i \in 1 .. first - 1 /\ Old(i) = i
        BY <2>1, <3>2
      <4>2. v[i] = word
        BY <2>3, <2>4, <4>1
      <4>3. QED BY <1>1, <2>1, <3>2, <4>1, <4>2
    <3>3. CASE i >= first + Len(t)
      <4>1. i \in first + Len(t) .. Len(r) /\ Old(i) = i - Len(t) + 1
        BY <1>1, <2>1, <2>3, <3>3
      <4>2. v[i - Len(t) + 1] = word
        BY <2>3, <2>4, <4>1
      <4>3. QED BY <1>1, <2>1, <2>3, <3>3, <4>1, <4>2
    <3>4. QED BY <1>1, <2>1, <3>1, <3>2, <3>3
  <2>5. Never(v, word) => Never(r, word)
    BY <2>4 DEF Never
  <2>6. Once(v, word) => Once(r, word)
    <3>1. SUFFICES ASSUME Once(v, word), NEW i \in 1 .. Len(r), NEW j \in 1 .. Len(r),
                          r[i] = word, r[j] = word
                   PROVE  i = j
      BY DEF Once
    <3>2. Old(i) = Old(j)
      <4>1. /\ Old(i) \in 1 .. Len(v) /\ v[Old(i)] = word
            /\ Old(j) \in 1 .. Len(v) /\ v[Old(j)] = word
        BY <2>4, <3>1
      <4> HIDE DEF Old
      <4>2. QED BY <3>1, <4>1 DEF Once
    <3>3. (i < first \/ i >= first + Len(t)) /\ (j < first \/ j >= first + Len(t))
      BY <2>4, <3>1
    <3>4. QED BY <1>1, <2>1, <3>2, <3>3
  <2>7. Once(v, word) /\ w = word => Never(r, word)
    <3>1. SUFFICES ASSUME Once(v, word), w = word, NEW i \in 1 .. Len(r), r[i] = word
                   PROVE  FALSE
      BY DEF Never
    <3>2. Old(i) \in 1 .. Len(v) /\ v[Old(i)] = word /\ Old(i) # first
      BY <2>4, <3>1
    <3> HIDE DEF Old
    <3>3. QED BY <2>1, <3>1, <3>2 DEF Once
  <2>8. QED BY <2>3, <2>5, <2>6, <2>7 DEF r
<1>6. QED
  BY <1>2, <1>3, <1>4, <1>5

\* after[n] is the value with the first n macros replaced.
Substituting(after, value, macros, X) ==
    /\ after \in [0 .. Len(macros) -> Seq(X)]
    /\ after[0] = value
    /\ \A n \in 1 .. Len(macros) :
          after[n] = IF HasBlank(macros[n]) THEN Replace(after[n - 1], macros[n])
                     ELSE after[n - 1]
    /\ Substitute(value, macros) = after[Len(macros)]

\* The recursion that Substitute is defined by has a solution.
LEMMA SubstituteDef ==
    ASSUME NEW X, NEW value \in Seq(X), NEW macros \in Seq(Seq(X) \ {<<>>})
    PROVE  \E after : Substituting(after, value, macros, X)
<1> DEFINE N == Len(macros)
           M == Seq(X) \ {<<>>}
           Body(p, n) == IF n = 0 THEN value
                         ELSE IF HasBlank(macros[n]) THEN Replace(p[n - 1], macros[n])
                         ELSE p[n - 1]
           F == [x \in Nat \X Seq(X) |->
                    IF x[1] \in 1 .. N /\ HasBlank(macros[x[1]])
                    THEN Replace(x[2], macros[x[1]]) ELSE x[2]]
<1>1. N \in Nat /\ \A i \in 1 .. N : macros[i] \in M
  OBVIOUS
<1>2. ASSUME NEW n \in Nat, NEW s \in Seq(X)
      PROVE  /\ F[<<n, s>>] = IF n \in 1 .. N /\ HasBlank(macros[n])
                              THEN Replace(s, macros[n]) ELSE s
             /\ F[<<n, s>>] \in Seq(X)
  <2> HIDE DEF N
  <2>1. F[<<n, s>>] = IF n \in 1 .. N /\ HasBlank(macros[n]) THEN Replace(s, macros[n]) ELSE s
    OBVIOUS
  <2>2. ASSUME NEW m \in M PROVE Replace(s, m) \in Seq(X)
    <3>1. m \in Seq(X) /\ m # <<>>
      OBVIOUS
    <3>2. \E word : Never(MacroValue(m), word)
      <4> DEFINE word == CHOOSE w : w \notin {MacroValue(m)[i] : i \in 1 .. Len(MacroValue(m))}
      <4>1. word \notin {MacroValue(m)[i] : i \in 1 .. Len(MacroValue(m))}
        BY NoSetContainsEverything
      <4> HIDE DEF word
      <4>2. Never(MacroValue(m), word)
        BY <4>1 DEF Never
      <4>3. QED BY <4>2
    <3>3. QED BY <3>1, <3>2, ReplaceWord
  <2>3. n \in 1 .. N => Replace(s, macros[n]) \in Seq(X)
    BY <1>1, <2>2
  <2>4. QED BY <2>1, <2>3
<1> HIDE DEF N, F
<1>3. PICK g : Recursive(g, F, value, Seq(X), N)
  <2> DEFINE SS == Seq(X)
  <2>1. \A n \in Nat, s \in SS : F[<<n, s>>] \in SS
    BY <1>2
  <2>2. value \in SS
    OBVIOUS
  <2> HIDE DEF SS
  <2>3. \E g : Recursive(g, F, value, SS, N)
    BY <1>1, <2>1, <2>2, RecursionExists
  <2>4. QED BY <2>3 DEF SS
<1>4. /\ g \in [0 .. N -> Seq(X)]
      /\ g[0] = value
      /\ \A n \in 1 .. N : g[n] = F[<<n, g[n - 1]>>]
  BY <1>3 DEF Recursive
<1>5. ASSUME NEW n \in 1 .. N
      PROVE  g[n] = IF HasBlank(macros[n]) THEN Replace(g[n - 1], macros[n]) ELSE g[n - 1]
  <2>1. n \in Nat /\ n - 1 \in 0 .. N
    BY <1>1
  <2>2. g[n - 1] \in Seq(X)
    BY <1>4, <2>1
  <2>3. QED BY <1>2, <1>4, <2>1, <2>2
<1>6. g = [n \in 0 .. N |-> Body(g, n)]
  <2>1. ASSUME NEW n \in 0 .. N PROVE g[n] = Body(g, n)
    <3>1. CASE n = 0
      BY <1>4, <3>1
    <3>2. CASE n # 0
      <4>1. n \in 1 .. N
        BY <1>1, <3>2
      <4>2. QED BY <1>5, <3>2, <4>1
    <3>3. QED BY <3>1, <3>2
  <2> HIDE DEF Body
  <2>2. QED BY <1>4, <2>1
<1> DEFINE p == CHOOSE q : q = [n \in 0 .. N |-> Body(q, n)]
<1>7. p = [n \in 0 .. N |-> Body(p, n)]
  <2> HIDE DEF Body
  <2>1. QED BY <1>6
<1>8. Substitute(value, macros) = p[N]
  BY DEF Substitute, N
<1> HIDE DEF p
<1>9. /\ p[0] = value
      /\ \A n \in 1 .. N : p[n] = IF HasBlank(macros[n]) THEN Replace(p[n - 1], macros[n])
                                ELSE p[n - 1]
  <2>1. \A n \in 0 .. N : p[n] = Body(p, n)
    <3> HIDE DEF Body
    <3>1. QED BY <1>7
  <2>2. QED BY <1>1, <2>1
<1>10. p = g
  <2> DEFINE T == {n \in Nat : n <= N => p[n] = g[n]}
  <2>1. 0 \in T
    BY <1>4, <1>9
  <2>2. ASSUME NEW n \in Nat, n \in T PROVE n + 1 \in T
    <3>1. SUFFICES ASSUME n + 1 <= N PROVE p[n + 1] = g[n + 1]
      OBVIOUS
    <3>2. n + 1 \in 1 .. N /\ p[n] = g[n] /\ (n + 1) - 1 = n
      BY <1>1, <2>2, <3>1
    <3>3. QED BY <1>5, <1>9, <3>2
  <2>3. Nat \subseteq T
    <3> HIDE DEF T
    <3>1. QED BY <2>1, <2>2, SetInduction
  <2>4. \A n \in 0 .. N : p[n] = g[n]
    BY <1>1, <2>3
  <2>5. DOMAIN p = 0 .. N
    <3> HIDE DEF Body
    <3>1. QED BY <1>7
  <2>6. p = [n \in 0 .. N |-> p[n]]
    <3> HIDE DEF Body
    <3>1. QED BY <1>7, <2>5
  <2>7. QED
    BY <1>4, <2>4, <2>6
<1>11. QED
  BY <1>4, <1>8, <1>9, <1>10 DEF N, Substituting

\* A macro that occurs once in a value, and in the value of no macro, is gone at the end.
LEMMA SubstituteReplaces ==
    ASSUME NEW X, NEW value \in Seq(X), NEW macros \in Seq(Seq(X) \ {<<>>}),
           NEW m \in 1 .. Len(macros), NEW word
    PROVE  /\ HasBlank(macros[m])
           /\ word = MacroName(macros[m]) /\ word # ""
           /\ Once(value, word)
           /\ \A k \in 1 .. Len(macros) : Never(MacroValue(macros[k]), word)
           => Never(Substitute(value, macros), word)
<1> DEFINE N == Len(macros)
           Given == /\ HasBlank(macros[m])
                    /\ word = MacroName(macros[m]) /\ word # ""
                    /\ Once(value, word)
                    /\ \A k \in 1 .. N : Never(MacroValue(macros[k]), word)
<1>b. Given <=> /\ HasBlank(macros[m])
                /\ word = MacroName(macros[m]) /\ word # ""
                /\ Once(value, word)
                /\ \A k \in 1 .. Len(macros) : Never(MacroValue(macros[k]), word)
  OBVIOUS
<1> HIDE DEF Given
<1> SUFFICES ASSUME Given PROVE Never(Substitute(value, macros), word)
  BY <1>b
<1>1. PICK p : Substituting(p, value, macros, X)
  BY SubstituteDef
<1>2. /\ p \in [0 .. N -> Seq(X)]
      /\ p[0] = value
      /\ \A n \in 1 .. N :
            p[n] = IF HasBlank(macros[n]) THEN Replace(p[n - 1], macros[n]) ELSE p[n - 1]
      /\ Substitute(value, macros) = p[N]
  BY <1>1 DEF Substituting
<1>3. N \in Nat /\ \A k \in 1 .. N : macros[k] \in Seq(X) /\ macros[k] # <<>>
  <2> DEFINE W == Seq(X) \ {<<>>}
  <2>1. macros \in Seq(W) /\ \A w \in W : w \in Seq(X) /\ w # <<>>
    OBVIOUS
  <2> HIDE DEF W
  <2>2. Len(macros) \in Nat /\ \A k \in 1 .. Len(macros) : macros[k] \in W
    BY <2>1
  <2>3. QED BY <2>1, <2>2
<1>4. m \in 1 .. N
  OBVIOUS
<1> HIDE DEF N
<1> DEFINE T == {n \in Nat : n <= N => Once(p[n], word) /\ (n >= m => Never(p[n], word))}
<1>a. m \in Nat /\ m >= 1 /\ m <= N
  BY <1>3, <1>4
<1>5. 0 \in T
  <2>0. Once(p[0], word)
    BY <1>2 DEF Given
  <2>1. Once(p[0], word) /\ ~(0 >= m)
    BY <1>a, <2>0
  <2>2. QED BY <2>1
<1>6. ASSUME NEW n \in Nat, n \in T PROVE n + 1 \in T
  <2>1. SUFFICES ASSUME n + 1 <= N
                 PROVE  Once(p[n + 1], word) /\ (n + 1 >= m => Never(p[n + 1], word))
    <3> DEFINE Good(k) == Once(p[k], word) /\ (k >= m => Never(p[k], word))
    <3>1. n + 1 <= N => Good(n + 1)
      OBVIOUS
    <3> HIDE DEF Good
    <3>2. n + 1 \in {k \in Nat : k <= N => Good(k)}
      BY <3>1
    <3>3. QED BY <3>2 DEF Good
  <2>2. n + 1 \in 1 .. N /\ n \in 0 .. N /\ n <= N /\ (n + 1) - 1 = n
    <3>1. N \in Nat
      BY <1>3
    <3>2. QED BY <2>1, <3>1
  <2>b. n <= N => Once(p[n], word) /\ (n >= m => Never(p[n], word))
    BY <1>6
  <2>3. Once(p[n], word) /\ (n >= m => Never(p[n], word)) /\ p[n] \in Seq(X)
    <3>1. p[n] \in Seq(X)
      BY <1>2, <2>2
    <3>2. QED BY <2>2, <2>b, <3>1
  <2>4. p[n + 1] = IF HasBlank(macros[n + 1]) THEN Replace(p[n], macros[n + 1]) ELSE p[n]
    BY <1>2, <2>2
  <2> DEFINE v == p[n]
             macro == macros[n + 1]
             r == Replace(v, macro)
  <2>5. v \in Seq(X) /\ macro \in Seq(X) /\ macro # <<>> /\ Never(MacroValue(macro), word)
    BY <1>3, <2>2, <2>3 DEF Given
  <2> HIDE DEF v, macro
  <2>6. /\ Never(v, word) => Never(r, word)
        /\ Once(v, word) => Once(r, word)
        /\ Once(v, word) /\ MacroName(macro) = word /\ word # "" => Never(r, word)
    BY <2>5, ReplaceWord
  <2> HIDE DEF r
  <2>7. p[n + 1] = IF HasBlank(macro) THEN r ELSE v
    BY <2>4 DEF r, v, macro
  <2>8. Once(v, word) /\ (n >= m => Never(v, word))
    BY <2>3 DEF v
  <2>9. n + 1 = m => HasBlank(macro) /\ MacroName(macro) = word
    BY DEF macro, Given
  <2>c. word # ""
    BY DEF Given
  <2>10. n + 1 >= m => n + 1 = m \/ n >= m
    BY <1>a
  <2>11. QED
    BY <2>6, <2>7, <2>8, <2>9, <2>10, <2>c
<1>7. Nat \subseteq T
  <2> HIDE DEF T
  <2>1. QED BY <1>5, <1>6, SetInduction
<1>8. Never(p[N], word)
  <2>1. N \in T
    BY <1>3, <1>7
  <2>2. N <= N => (N >= m => Never(p[N], word))
    BY <2>1
  <2>3. QED BY <1>3, <1>a, <2>2
<1>9. QED
  BY <1>2, <1>8

\* A word occurs so often in a value.
LEMMA Occurrences ==
    ASSUME NEW X, NEW v \in Seq(X), NEW word
    PROVE  /\ Cardinality({i \in DOMAIN v : v[i] = word}) = 1 => Once(v, word)
           /\ Cardinality({i \in DOMAIN v : v[i] = word}) = 0 <=> Never(v, word)
<1> DEFINE A == {i \in DOMAIN v : v[i] = word}
<1>1. DOMAIN v = 1 .. Len(v) /\ Len(v) \in Nat
  OBVIOUS
<1>2. IsFiniteSet(A)
  <2>1. IsFiniteSet(1 .. Len(v))
    BY <1>1, FS_Interval
  <2>2. A \subseteq 1 .. Len(v)
    BY <1>1
  <2> HIDE DEF A
  <2>3. QED BY <2>1, <2>2, FS_Subset
<1>3. \A i : i \in A <=> i \in 1 .. Len(v) /\ v[i] = word
  BY <1>1
<1> HIDE DEF A
<1>4. Cardinality(A) = 0 <=> A = {}
  BY <1>2, FS_EmptySet
<1>5. Cardinality(A) = 1 => \E x : A = {x}
  BY <1>2, FS_Singleton
<1>6. Cardinality(A) = 1 => Once(v, word)
  <2>1. SUFFICES ASSUME NEW x, A = {x} PROVE Once(v, word)
    BY <1>5
  <2>2. \A i \in A : i = x
    BY <2>1
  <2>3. QED BY <1>3, <2>2 DEF Once
<1>7. Cardinality(A) = 0 <=> Never(v, word)
  <2>1. A = {} <=> Never(v, word)
    BY <1>3 DEF Never
  <2>2. QED BY <1>4, <2>1
<1>8. QED
  BY <1>6, <1>7 DEF A

LEMMA ParseLineType ==
    ASSUME NEW line \in Lines, NEW token
    PROVE  parseLine(line, token) \in Seq(ValueWords)
<1>1. line.val \in Seq(Tokens)
  BY DEF Lines
<1>2. line.val \in Seq(ValueWords)
  <2> DEFINE v == line.val
  <2>1. v = [i \in 1 .. Len(v) |-> v[i]] /\ Len(v) \in Nat
    BY <1>1
  <2>2. \A i \in 1 .. Len(v) : v[i] \in Tokens
    BY <1>1
  <2>3. Tokens \subseteq ValueWords
    BY DEF ValueWords
  <2> HIDE DEF v
  <2>4. v \in Seq(ValueWords)
    BY <2>1, <2>2, <2>3
  <2>5. QED BY <2>4 DEF v
<1>3. <<" ">> \in Seq(ValueWords) /\ <<>> \in Seq(ValueWords)
  <2> DEFINE blank == " "
  <2>1. blank \in ValueWords
    BY DEF ValueWords
  <2> HIDE DEF blank
  <2>2. <<blank>> \in Seq(ValueWords) /\ <<>> \in Seq(ValueWords)
    BY <2>1
  <2>3. QED BY <2>2 DEF blank
<1>4. QED
  BY <1>2, <1>3 DEF parseLine

LEMMA ScanType ==
    ASSUME NEW def \in Seq(Lines), NEW f \in Fields
    PROVE  Scan(def)[f] \in Seq(ValueWords)
<1> DEFINE Gives(i) == parseLine(def[i], def[i].first) # <<>>
           given == {def[i].first : i \in {j \in DOMAIN def : Gives(j)}}
           found == {i \in DOMAIN def : def[i].first = f /\ Gives(i)}
           first == CHOOSE i \in found : \A j \in found : i <= j
<1>1. Scan(def)[f] = IF f \in given THEN parseLine(def[first], f) ELSE NoFields[f]
  BY DEF Scan
<1>2. NoFields[f] = <<>> /\ <<>> \in Seq(ValueWords)
  BY DEF NoFields
<1>3. ASSUME f \in given PROVE first \in DOMAIN def
  <2>1. found # {}
    BY <1>3
  <2>2. found \in SUBSET Nat
    OBVIOUS
  <2>3. found \subseteq DOMAIN def
    OBVIOUS
  <2> HIDE DEF found
  <2>4. \E i \in found : \A j \in found : i <= j
    BY <2>1, <2>2, LeastNumber
  <2>5. QED BY <2>3, <2>4
<1> HIDE DEF first, given
<1>4. f \in given => parseLine(def[first], f) \in Seq(ValueWords)
  <2>1. f \in given => def[first] \in Lines
    BY <1>3
  <2>2. QED BY <2>1, ParseLineType
<1>5. QED
  BY <1>1, <1>2, <1>4

LEMMA QueueType ==
    ASSUME NEW def \in Seq(Lines), NEW token
    PROVE  Queue(def, token) \in Seq(Seq(ValueWords) \ {<<>>})
<1> DEFINE values == [i \in DOMAIN def |-> parseLine(def[i], token)]
           at == {i \in DOMAIN def : values[i] # <<>>}
           p == Picked(values, at)
           V == Seq(ValueWords)
<1>1. Queue(def, token) = p
  BY DEF Queue
<1>2. \A i \in DOMAIN def : parseLine(def[i], token) \in V
  BY ParseLineType
<1>3. DOMAIN def = 1 .. Len(def) /\ Len(def) \in Nat
  OBVIOUS
<1>4. values \in Seq(V) /\ Len(values) = Len(def)
  <2> HIDE DEF V
  <2>1. QED BY <1>2, <1>3
<1>5. \A i \in at : values[i] # <<>>
  OBVIOUS
<1> HIDE DEF values, at, V
<1>6. /\ p \in Seq(V)
      /\ \A k \in 1 .. Len(p) : \E i \in 1 .. Len(values) : i \in at /\ p[k] = values[i]
  BY <1>4, PickedType
<1> HIDE DEF p
<1>7. \A k \in 1 .. Len(p) : p[k] \in V \ {<<>>}
  BY <1>5, <1>6
<1>8. p \in Seq(V \ {<<>>})
  <2>1. p = [k \in 1 .. Len(p) |-> p[k]] /\ Len(p) \in Nat
    BY <1>6
  <2>2. QED BY <1>7, <2>1
<1>9. QED BY <1>1, <1>8 DEF V

\* Macros are replaced, whatever the lines of a block.
LEMMA LoadReplaces == LoadInv => MacrosReplaced
<1> SUFFICES ASSUME LoadInv, block # <<>> PROVE MacrosReplaced
  BY DEF MacrosReplaced
<1> DEFINE macros == Queue(block, "macro")
           fields == Expand(block)
           Occurs(value, word) == Cardinality({i \in DOMAIN value : value[i] = word})
           V == ValueWords
<1>1. block \in Seq(Lines)
  BY DEF LoadInv, LinesOK
<1>2. macros \in Seq(Seq(V) \ {<<>>})
  BY <1>1, QueueType
<1>3. /\ DOMAIN fields = Fields
      /\ \A f \in Fields : fields[f] = IF Scan(block)[f] = <<>> THEN <<>>
                                      ELSE Substitute(Scan(block)[f], macros)
  BY DEF Expand
<1> HIDE DEF macros, fields, V
<1>4. ASSUME NEW f \in DOMAIN fields, NEW m \in DOMAIN macros,
             HasBlank(macros[m]), MacroName(macros[m]) # "",
             Occurs(Scan(block)[f], MacroName(macros[m])) = 1,
             \A k \in DOMAIN macros : Occurs(Tail(macros[k]), MacroName(macros[m])) = 0
      PROVE  Occurs(fields[f], MacroName(macros[m])) = 0
  <2> DEFINE word == MacroName(macros[m])
             value == Scan(block)[f]
  <2>1. value \in Seq(V)
    BY <1>1, <1>3, <1>4, ScanType DEF V
  <2>2. Once(value, word)
    BY <1>4, <2>1, Occurrences
  <2>3. DOMAIN macros = 1 .. Len(macros)
    BY <1>2
  <2>4. ASSUME NEW k \in 1 .. Len(macros) PROVE Never(MacroValue(macros[k]), word)
    <3>1. Tail(macros[k]) \in Seq(V)
      BY <1>2
    <3>2. Occurs(Tail(macros[k]), word) = 0
      BY <1>4, <2>3
    <3>3. QED BY <3>1, <3>2, Occurrences DEF MacroValue
  <2> HIDE DEF word, value
  <2>5. word # "" /\ word = MacroName(macros[m]) /\ m \in 1 .. Len(macros)
    BY <1>4, <2>3 DEF word
  <2>6. Never(Substitute(value, macros), word)
    BY <1>2, <1>4, <2>1, <2>2, <2>4, <2>5, SubstituteReplaces
  <2>7. PICK after : Substituting(after, value, macros, V)
    BY <1>2, <2>1, SubstituteDef
  <2>8. Substitute(value, macros) \in Seq(V)
    <3>1. Len(macros) \in Nat
      BY <1>2
    <3>2. QED BY <2>7, <3>1 DEF Substituting
  <2>9. fields[f] \in Seq(V) /\ Never(fields[f], word)
    <3>1. CASE value = <<>>
      <4>1. fields[f] = <<>>
        BY <1>3, <1>4, <3>1 DEF value
      <4>2. QED BY <4>1 DEF Never
    <3>2. CASE value # <<>>
      <4>1. fields[f] = Substitute(value, macros)
        BY <1>3, <1>4, <3>2 DEF value
      <4>2. QED BY <2>6, <2>8, <4>1
    <3>3. QED BY <3>1, <3>2
  <2>10. QED
    BY <2>9, Occurrences DEF word
<1>5. QED
  BY <1>4 DEF MacrosReplaced, macros, fields

\* Whatever the lines of a module are, the macros that a field names once are replaced.
THEOREM ReplacesMacros == Spec => []MacrosReplaced
  BY InitLoad, NextLoad, LoadReplaces, PTL DEF Spec

=============================================================================
