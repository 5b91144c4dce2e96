---------------------------- MODULE ModuleFactory ----------------------------
(***************************************************************************)
(* Pandora_Module_Factory::getModuleFromDefinition: the lines between      *)
(* module_begin and module_end become a module object, or nothing.         *)
(*                                                                         *)
(* A line is a record: comment says that its first character is '#', first *)
(* is the token it starts with once trimmed ("#" for a comment), words are *)
(* the keywords found anywhere in it, and val is what follows the token, a *)
(* sequence of words.  <<>> is the empty string.                           *)
(***************************************************************************)
EXTENDS Integers, Sequences, SequencesExt, TLC, SeqOps

CONSTANTS
    Numerals,       \* the words sscanf "%d" reads as a number, with that number
    Tokens          \* the words there may be in a line

ASSUME NumeralsAssumption == Numerals \in [DOMAIN Numerals -> Int]

Lines == [comment : BOOLEAN, first : Tokens, words : SUBSET Tokens, val : Seq(Tokens)]

\* The tokens in the order in which the code scans and substitutes them.
MeasureFields == {"name", "type", "interval", "exec", "proc", "service", "freedisk",
    "freedisk_percent", "freememory", "freememory_percent", "cpuusage", "inventory"}
LimitFields == {"max", "min", "post_process", "min_critical", "max_critical",
    "min_warning", "max_warning", "disabled", "min_ff_event", "description"}
EventFields == {"logevent", "source", "eventtype", "eventcode", "pattern",
    "application", "async", "start_command", "watchdog", "wmiquery", "wmicolumn",
    "retries", "startdelay", "retrydelay"}
CheckFields == {"perfcounter", "tcpcheck", "port", "timeout", "regexp", "plugin",
    "save", "crontab", "cron_interval", "noseekeof"}
RemoteFields == {"ping", "ping_count", "ping_timeout", "snmpget", "snmp_version",
    "snmp_community", "snmp_agent", "snmp_oid", "advanced_options", "cooked"}
LabelFields == {"unit", "group", "custom_id", "str_warning", "str_critical",
    "critical_instructions", "warning_instructions", "unknown_instructions", "tags",
    "critical_inverse", "warning_inverse", "quiet", "ff_interval"}

Fields == MeasureFields \cup LimitFields \cup EventFields \cup CheckFields
          \cup RemoteFields \cup LabelFields
Lists == {"precondition", "condition", "intensive_condition"}

\* The tokens that are written without a blank after them.
BareTokens == {"freememory", "freememory_percent", "inventory", "logevent", "async",
               "snmpget", "macro"}

Holds(line, word) == word \in line.words

\* Nothing if the line does not start with the token.  Only a bare token is found on a
\* line that has nothing after it, and its value is then a blank.
parseLine(line, token) ==
    IF ~Holds(line, "module_") \/ line.first # token THEN <<>>
    ELSE IF line.val = <<>> /\ token \in BareTokens THEN <<" ">>
    ELSE line.val

\* The strings before the lines are scanned.
NoFields == [f \in Fields |-> <<>>]

\* A field gets the first value that the definition gives it ...
Scan(def) ==
    LET Gives(i) == parseLine(def[i], def[i].first) # <<>>
        given == {def[i].first : i \in {j \in DOMAIN def : Gives(j)}}
        First(f) == LET found == {i \in DOMAIN def : def[i].first = f /\ Gives(i)}
                    IN  CHOOSE i \in found : \A j \in found : i <= j
    IN  [f \in Fields |-> IF f \in given THEN parseLine(def[First(f)], f) ELSE NoFields[f]]

\* ... and a list has every value.
Queue(def, token) ==
    LET values == [i \in DOMAIN def |-> parseLine(def[i], token)]
    IN  Picked(values, {i \in DOMAIN def : values[i] # <<>>})

----------------------------------------------------------------------------
(* Macros                                                                  *)

\* A macro line is split at its first blank.  The name is empty if a blank follows the
\* token; a line without a blank is passed over.
HasBlank(macro) == Len(macro) > 1 \/ Head(macro) = " "
MacroName(macro) == IF Head(macro) = " " THEN "" ELSE Head(macro)
MacroValue(macro) == Tail(macro)

\* Mutant: a field that is the macro's name and nothing else is left alone.
Replace_NotWhole(value, macro) ==
    LET found == {i \in DOMAIN value : value[i] = MacroName(macro)}
        first == CHOOSE i \in found : \A j \in found : i <= j
    IN  IF value = <<>> THEN <<>>
        ELSE IF MacroName(macro) = "" THEN MacroValue(macro) \o value
        ELSE IF found = {} \/ Len(value) = 1 THEN value
        ELSE SubSeq(value, 1, first - 1) \o MacroValue(macro)
               \o SubSeq(value, first + 1, Len(value))

\* The FIRST occurrence of the name is replaced; the empty name is found at once.
Replace(value, macro) ==
    LET found == {i \in DOMAIN value : value[i] = MacroName(macro)}
        first == CHOOSE i \in found : \A j \in found : i <= j
    IN  IF value = <<>> THEN <<>>
        ELSE IF MacroName(macro) = "" THEN MacroValue(macro) \o value
        ELSE IF found = {} THEN value
        ELSE SubSeq(value, 1, first - 1) \o MacroValue(macro)
               \o SubSeq(value, first + 1, Len(value))

\* The value after the macros, one after the other.
Substitute(value, macros) ==
    LET after[n \in 0 .. Len(macros)] ==
            IF n = 0 THEN value
            ELSE IF HasBlank(macros[n]) THEN Replace(after[n - 1], macros[n])
            ELSE after[n - 1]
    IN  after[Len(macros)]

----------------------------------------------------------------------------
(* The module object                                                       *)

\* sscanf "%d" and atoi: the number at the front of the string.
IsNumber(value) == value # <<>> /\ Head(value) \in DOMAIN Numerals
Number(value) == Numerals[Head(value)]

is_enabled(value) ==
    value \in {<<w>> : w \in {"enabled", "1", "on", "yes", "si", "ok", "true"}}

\* The first of these tokens that has a value decides what kind of module it is.
Kinds == <<"exec", "proc", "service", "freedisk", "freedisk_percent", "freememory",
           "freememory_percent", "cpuusage", "inventory", "logevent", "wmiquery",
           "perfcounter", "tcpcheck", "regexp", "plugin", "ping", "snmpget">>

Kind(fields) ==
    LET given == {i \in DOMAIN Kinds : fields[Kinds[i]] # <<>>}
    IN  IF given = {} THEN "none"
        ELSE Kinds[CHOOSE i \in given : \A j \in given : i <= j]

\* A watched process needs a command to start it with.
NoStartCommand(fields) ==
    /\ Kind(fields) = "proc"
    /\ is_enabled(fields["watchdog"])
    /\ fields["start_command"] = <<>>

\* What the constructor of each kind is given.
Arguments(fields) ==
    LET kind == Kind(fields)
    IN  CASE kind = "exec" -> {"exec", "timeout"}
          [] kind = "proc" ->
                {"proc"} \cup IF is_enabled(fields["watchdog"])
                              THEN {"watchdog", "start_command", "retries", "startdelay",
                                    "retrydelay"}
                              ELSE {}
          [] kind = "service" -> {"service", "watchdog"}
          [] kind \in {"freememory", "freememory_percent"} -> {}
          [] kind = "logevent" -> {"source", "eventtype", "eventcode", "pattern",
                                   "application"}
          [] kind = "wmiquery" -> {"wmiquery", "wmicolumn"}
          [] kind = "perfcounter" -> {"perfcounter", "cooked"}
          [] kind = "tcpcheck" -> {"tcpcheck", "port", "timeout"}
          [] kind = "regexp" -> {"regexp", "pattern", "noseekeof"}
          [] kind = "ping" -> {"ping", "ping_count", "ping_timeout", "advanced_options",
                               "timeout"}
          [] kind = "snmpget" -> {"snmp_version", "snmp_community", "snmp_agent",
                                  "snmp_oid", "advanced_options", "timeout"}
          [] OTHER -> {kind}

\* Values the code puts in where the definition has none or, for the processor's
\* number, one that is no number.
Default(kind, f) ==
    CASE f = "cpuusage" -> <<"-1">>
      [] kind = "ping" /\ f = "ping_count" -> <<"1">>
      [] kind = "ping" /\ f = "ping_timeout" -> <<"1000">>
      [] kind = "snmpget" /\ f = "snmp_version" -> <<"1">>
      [] kind = "snmpget" /\ f = "snmp_community" -> <<"public">>
      [] kind = "snmpget" /\ f = "snmp_agent" -> <<"localhost">>
      [] OTHER -> <<>>

\* parseModuleTypeFromString
NumericTypes == {<<>>} \cup {<<t>> : t \in {"generic_data", "generic_data_inc",
                    "generic_proc", "async_data", "async_proc"}}
TextTypes == {<<t>> : t \in {"generic_data_string", "async_string", "log"}}

Plugin(fields) == fields["plugin"] # <<>>
BadType(fields) ==
    ~Plugin(fields) /\ fields["type"] \notin NumericTypes \cup TextTypes
Numeric(fields) == ~Plugin(fields) /\ fields["type"] \in NumericTypes

\* The attributes every kind may have.
Attributes(fields) ==
    {"name", "description", "save", "async", "crontab"}
    \cup (IF fields["crontab"] # <<>> THEN {"cron_interval"} ELSE {})
    \cup (IF Numeric(fields)
          THEN {f \in {"max", "min"} : IsNumber(fields[f])} ELSE {})
    \cup (LimitFields \ {"max", "min"}) \cup LabelFields

\* A module's interval is 1 unless module_interval is a number.
Interval(fields) ==
    IF IsNumber(fields["interval"]) THEN Number(fields["interval"]) ELSE 1

\* A quotient is rounded towards zero.
Abs(n) == IF n < 0 THEN -n ELSE n
Quotient(a, b) ==
    IF (a < 0) = (b < 0) THEN Abs(a) \div Abs(b) ELSE -(Abs(a) \div Abs(b))

\* The service's interval is a multiple of its intensive interval; a module without
\* intensive conditions runs once in so many of the latter.
IntensiveInterval(fields, intensives, interval, intensive) ==
    IF intensives # <<>> THEN Interval(fields)
    ELSE Interval(fields) * Quotient(interval, intensive)

\* The fields and the lists of a definition with the macros in their places.
Expand(def) ==
    LET macros == Queue(def, "macro")
        scanned == Scan(def)
    IN  [f \in Fields |-> IF scanned[f] = <<>> THEN <<>> ELSE Substitute(scanned[f], macros)]
ExpandList(def, list) ==
    LET values == Queue(def, list)
    IN  [i \in DOMAIN values |-> Substitute(values[i], Queue(def, "macro"))]

\* The constructor has been called: the object exists when the interval is computed.
Constructed(def) ==
    LET fields == Expand(def)
    IN  Kind(fields) # "none" /\ ~NoStartCommand(fields)

\* The quotient of the two intervals of the service is not needed, or it is defined.
Divides(def, intensive) ==
    Constructed(def) /\ ExpandList(def, "intensive_condition") = <<>> => intensive # 0

\* The definition makes a module.
Makes(def) == Constructed(def) /\ ~BadType(Expand(def))

getModuleFromDefinition(def, interval, intensive) ==
    LET fields == Expand(def)
        kind == Kind(fields)
        used == Arguments(fields) \cup Attributes(fields)
        Given(f) == IF f = "cpuusage" THEN IsNumber(fields[f]) ELSE fields[f] # <<>>
        value == [f \in used |-> IF Given(f) THEN fields[f] ELSE Default(kind, f)]
    IN  [kind |-> kind,
         type |-> IF Plugin(fields) THEN <<"generic_data_string">> ELSE fields["type"],
         set |-> [f \in {g \in used : value[g] # <<>>} |-> value[f]],
         lists |-> [l \in Lists |-> ExpandList(def, l)],
         interval |-> Interval(fields),
         intensive |-> IntensiveInterval(fields, ExpandList(def, "intensive_condition"),
                                         interval, intensive)]
=============================================================================
