----------------------------- MODULE MCAgentConf -----------------------------
(***************************************************************************)
(* Files for AgentConf.  A file is a sequence of up to three pieces; the   *)
(* pieces are whole blocks, blocks that are spoiled in some way, and lines *)
(* of the other kinds.                                                     *)
(***************************************************************************)
EXTENDS AgentConf

Line(first, words, val) ==
    [comment |-> FALSE, first |-> first, words |-> words, val |-> val]
Comment(words) == [comment |-> TRUE, first |-> "#", words |-> words, val |-> <<>>]
M(first, val) == Line(first, {"module_"}, val)

Begin == Line("module_begin", {"module_", "module_begin"}, <<>>)
End == Line("module_end", {"module_", "module_end"}, <<>>)

Whole(name, body) == <<Begin, M("name", <<name>>)>> \o body \o <<End>>
Twice == Whole("a", <<M("exec", <<"x">>), M("name", <<"z">>), M("interval", <<"2">>),
                      M("proc", <<"p">>), M("max", <<"x">>)>>)
Macro == Whole("_v_", <<M("macro", <<"_v_", "_w_">>), M("macro", <<"_w_", "5">>),
                        M("freememory", <<>>), M("description", <<"_w_", "is", "_w_">>),
                        M("condition", <<"_v_", "x">>)>>)
BlankMacro == Whole("b", <<M("macro", <<"", "_v_">>), M("macro", <<"_v_">>),
                           M("proc", <<"p">>), M("watchdog", <<"1">>),
                           M("type", <<"generic_data_string">>), M("min", <<"5">>)>>)
Zero == Whole("c", <<M("cpuusage", <<"all">>), M("interval", <<"0">>)>>)
MacroZero == Whole("c", <<M("macro", <<"_w_", "0">>), M("exec", <<"x">>),
                          M("interval", <<"_w_">>)>>)
Intensive == Whole("d", <<M("ping", <<"h">>), M("intensive_condition", <<"y">>),
                          M("precondition", <<"y">>), M("type", <<"generic_proc">>)>>)
BadKind == Whole("e", <<M("type", <<"generic_data">>)>>)
BadTyped == Whole("f", <<M("exec", <<"x">>), M("type", <<"zzz">>)>>)
Open == <<Begin, M("name", <<"g">>), M("snmpget", <<>>), M("crontab", <<"*">>)>>
HiddenEnd == <<Begin, M("name", <<"h">>), Comment({"module_", "module_end"}),
               M("exec", <<"x">>), End>>
Plugin1 == <<Line("plugin", {"module_", "module_plugin"}, <<"x">>)>>
IncludeLine == <<Line("include", {"include"}, <<Include>>)>>
Broker(b) == <<Line("broker_agent", {"broker_agent"}, <<b>>)>>
OldBroker == <<Comment({"broker_agent"}), Comment({"agent_name"})>>
Collection == <<Line("file_collection", {"file_collection"}, <<"fc">>),
                Line("file_collection", {"file_collection"}, <<"..">>)>>
Interval5 == <<Line("interval", {}, <<"5">>), Line("interval", {}, <<"60">>)>>
IntensiveIs(n) == <<Line("intensive_interval", {}, <<n>>)>>

Pieces == {Twice, Macro, BlankMacro, Zero, MacroZero, Intensive, BadKind, BadTyped, Open, HiddenEnd,
           Plugin1, IncludeLine, Broker("b1"), Broker("b2"), OldBroker, Collection,
           Interval5, IntensiveIs("2"), IntensiveIs("0"), IntensiveIs("60"),
           IntensiveIs("-90")}

\* The pieces that are put together with any other, and with each other up to three.
Core == {Twice, Open, Plugin1, IncludeLine, Broker("b1"), Broker("b2")}

AllTexts ==
    LET Pairs == {<<p, q>> : p \in Core \cup {Interval5}, q \in Pieces}
    IN  Pieces \cup {pq[1] \o pq[2] : pq \in Pairs} \cup {pq[2] \o pq[1] : pq \in Pairs}
               \cup {p \o q \o r : p, q, r \in Core}
AllNewTexts == {<<>>, Broker("b1") \o Broker("b2") \o Twice}
Included == Plugin1 \o Intensive \o Collection \o IncludeLine
Words == "0" :> 0 @@ "1" :> 1 @@ "2" :> 2 @@ "5" :> 5 @@ "60" :> 60
         @@ "-90" :> -90
TokensOf(line) == {line.first} \cup line.words \cup Range(line.val)
AllTokens ==
    {"b1", "b2", "agent_name"}
    \cup UNION {TokensOf(line) : line \in Range(Included) \cup UNION {Range(p) : p \in Pieces}}
=============================================================================
