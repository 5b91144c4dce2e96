--------------------------- MODULE SshChannelProofs ---------------------------
(***************************************************************************)
(* Proofs about the channels of a connection (SshChannel): the variables   *)
(* keep their types, flow control, what channel_eof promises, and the      *)
(* brigade the channels share, for every width of a word, every window,    *)
(* every number of channels and every program.                             *)
(*                                                                         *)
(* The steps are many and most parts of the invariant see little of each.  *)
(* So what a step does is said in a few forms, and each part is shown to   *)
(* survive the forms:                                                      *)
(*   Kinds        what a call of the program does, but for reading packets *)
(*                off the connection; Local says it weaker still, one      *)
(*                channel at a time;                                       *)
(*   Arrives      a packet is read and filed by packet_add;                *)
(*   ServerKinds  what the server does, and the loss of the connection.    *)
(* StepIs says that a step of the specification is one of these.  What is  *)
(* on the wires and in the brigade is counted with sums over sequences     *)
(* (SeqOpsProofs), whose lemmas are proved by induction.                   *)
(*                                                                         *)
(* The invariant is                                                        *)
(*   TypeOK, Places, Connection, Sized   what is where;                    *)
(*   Unheard, Ends                       what the server has and has not   *)
(*                                       heard, and sends no more;         *)
(*   Windows, NotOverrun, Refunds        flow control, either way;         *)
(*   Asking                              one question is under way at a    *)
(*                                       time, and its answer is its own;  *)
(*   Clearing                            what channel_free has cleared.    *)
(***************************************************************************)
EXTENDS SshChannel, SeqOpsProofs

----------------------------------------------------------------------------
(* The invariant                                                           *)

Asks == {"OPEN", "REQUEST", "EXEC"}
Answering == {"OPEN_CONFIRMATION", "OPEN_FAILURE", "SUCCESS", "FAILURE"}
RepliesTo(op) == IF op = "open" THEN {"OPEN_CONFIRMATION", "OPEN_FAILURE"}
                 ELSE {"SUCCESS", "FAILURE"}
Waits == call.pc \in {"first", "again", "wait"}

\* Where each call may be.
PlacesOf(op) ==
    CASE op = "none" -> {"idle"}
      [] op = "open" -> {"first", "again", "wait", "pollData", "scanData", "pollExt",
                         "scanExt", "unlink"}
      [] op = "request" -> {"first", "again", "wait"}
      [] op = "read" -> {"drain", "block", "take"}
      [] op = "write" -> {"write"}
      [] op = "wait_closed" -> {"closing"}
      [] op = "free" -> {"pollData", "scanData", "pollExt", "scanExt", "unlink"}

Places ==
    /\ call.pc \in PlacesOf(call.op)
    /\ call.op = "open" /\ Waits => call.c \in DOMAIN ch /\ ~ch[call.c].confirmed
    /\ call.op = "open" /\ ~Waits => call.c \notin DOMAIN ch
    /\ call.op = "write" => call.k = 0

\* The connection, and the ids that were given.
Connection ==
    /\ \A c \in DOMAIN ch : c < next_channel
    /\ tcp = "up" => socket_state = "CONNECTED"
    /\ tcp = "reset" => inq = <<>> /\ outq = <<>>
    /\ \A i \in DOMAIN inq : inq[i].type = "DISCONNECT" => tcp # "up"
    /\ \A i \in DOMAIN inq : inq[i].type = "OPEN_CONFIRMATION" => inq[i].n = PeerWindow
    /\ \A i \in DOMAIN brigade :
          brigade[i].type = "OPEN_CONFIRMATION" => brigade[i].n = PeerWindow

\* Nothing is sent after the end of the data, and after CLOSE.
Ends ==
    /\ \A c \in DOMAIN ch : ch[c].reof => peer[c].eof
    /\ \A c \in DOMAIN ch : ch[c].rclose => peer[c].st = "closed"
    /\ \A c \in DOMAIN ch : ch[c].reof \/ ch[c].rclose =>
          \A j \in DOMAIN inq : ~IsData(inq[j], c)
    /\ \A i \in DOMAIN inq : inq[i].type = "EOF" => peer[inq[i].ch].eof
    /\ \A i \in DOMAIN inq : inq[i].type = "CLOSE" => peer[inq[i].ch].st = "closed"
    /\ \A i, j \in DOMAIN inq :
          i < j /\ inq[i].type \in {"EOF", "CLOSE"} => ~IsData(inq[j], inq[i].ch)

\* What is asked and answered.
AskWeight == [p \in Packets |-> IF p.type \in Asks THEN 1 ELSE 0]
AnswerWeight == [p \in Packets |-> IF p.type \in Answering THEN 1 ELSE 0]
AsksMine(p) == Waits /\ p.ch = call.c /\ (p.type = "OPEN" <=> call.op = "open")
AnswersMine(p) == Waits /\ p.ch = call.c /\ p.type \in RepliesTo(call.op)
Asking ==
    /\ call.pc = "again" =>
          /\ socket_state = "CONNECTED"
          /\ \E i \in DOMAIN brigade : brigade[i].type \in Answering
    /\ socket_state = "CONNECTED" =>
        /\ Weigh(outq, AskWeight) + Weigh(inq, AnswerWeight) + Weigh(brigade, AnswerWeight) <= 1
        /\ \A i \in DOMAIN outq : outq[i].type \in Asks => AsksMine(outq[i])
        /\ \A i \in DOMAIN inq : inq[i].type \in Answering => AnswersMine(inq[i])
        /\ \A i \in DOMAIN brigade : brigade[i].type \in Answering => AnswersMine(brigade[i])
        /\ call.pc = "wait" =>
              \A i \in DOMAIN brigade : brigade[i].type \notin Answering

\* A channel the server has not heard of: nothing was granted, and there is no data.
UnheardIds ==
    /\ \A c \in Ids : c >= next_channel => peer[c].st = "none"
    /\ \A c \in wrapped : c < next_channel
Opens ==
    /\ \A i, j \in DOMAIN outq :
          outq[i].type = "OPEN" /\ outq[j].type = "OPEN" /\ outq[i].ch = outq[j].ch => i = j
    /\ tcp = "up" => \A i \in DOMAIN outq : outq[i].type = "OPEN" =>
          peer[outq[i].ch].st = "none" /\ outq[i].ch < next_channel /\ outq[i].n = WindowDefault
Silent(c) ==
    /\ peer[c].owes = 0
    /\ c \in DOMAIN ch => ~ch[c].confirmed /\ ch[c].rwin = WindowDefault
    /\ \A i \in DOMAIN outq :
          outq[i].ch = c => outq[i].type \notin Types \cup {"WINDOW_ADJUST"}
    /\ \A i \in DOMAIN inq :
          inq[i].ch = c => inq[i].type \notin Types \cup {"WINDOW_ADJUST", "OPEN_CONFIRMATION"}
    /\ \A i \in DOMAIN brigade :
          brigade[i].ch = c => brigade[i].type \notin Types \cup {"OPEN_CONFIRMATION"}
Untouched(c) ==
    /\ peer[c].st # "none" => peer[c].credit = PeerWindow
    /\ peer[c].owes = 0
    /\ \A i \in DOMAIN outq : ~IsData(outq[i], c)
    /\ \A i \in DOMAIN inq : inq[i].ch = c => inq[i].type # "WINDOW_ADJUST"
Unheard ==
    /\ UnheardIds
    /\ Opens
    /\ \A c \in Ids : peer[c].st = "none" => Silent(c)
    /\ \A c \in DOMAIN ch : ~ch[c].confirmed => Untouched(c)

\* The windows.
Sized ==
    /\ \A i \in DOMAIN inq : inq[i].type \in Types =>
          inq[i].n <= PacketDefault /\ Len(inq[i].bytes) = inq[i].n
WindowOf(c) ==
    /\ DataOf(inq, c) <= ch[c].rwin
    /\ tcp = "up" /\ peer[c].st = "open" =>
          LET granted == peer[c].win + Adjusts(outq, c) + DataOf(inq, c)
          IN  ch[c].rwin >= granted /\ (c \notin ignored => ch[c].rwin = granted)
Windows == \A c \in DOMAIN ch \ wrapped : WindowOf(c)
Refunds ==
    \A c \in DOMAIN ch : c \notin uneven \cup ignored =>
       /\ c \notin wrapped
       /\ <<call.op, call.c>> # <<"free", c>> =>
        ch[c].rwin + ch[c].adjust_queue + DataOf(brigade, c) = WindowDefault

\* Freeing.
Clearing ==
    call.over =>
        /\ call.op = "free" /\ ch[call.c].rclose
        /\ tcp # "reset" /\ call.pc \in {"pollExt", "scanExt", "unlink"} =>
              \A i \in DOMAIN brigade : brigade[i].ch = call.c => brigade[i].type # "DATA"
        /\ tcp # "reset" /\ call.pc = "unlink" =>
              \A i \in DOMAIN brigade : brigade[i].ch = call.c => brigade[i].type # "EXTENDED_DATA"

----------------------------------------------------------------------------
(* Numbers and packets                                                     *)

\* The constants.
LEMMA Constants ==
    /\ WindowDefault \in Nat \ {0} /\ PacketDefault \in Nat \ {0}
    /\ MinAdjust \in Nat \ {0} /\ StreamId \in Nat \ {0}
    /\ PeerWindow \in Nat \ {0} /\ PeerPacket \in Nat \ {0} /\ MaxChannels \in Nat \ {0}
    /\ Word \in Nat \ {0}
    /\ WindowDefault < Word /\ PeerWindow < Word
    /\ Programs \subseteq Seq(Commands)
    /\ Ids \subseteq Nat /\ 0 \in Ids
  BY SshChannelAssumption DEF Ids

\* Arithmetic of Word's width.
LEMMA Modulo ==
    ASSUME NEW x \in Int
    PROVE  /\ x % Word \in 0 .. Word - 1
           /\ x >= 0 => x % Word <= x
           /\ x >= 0 /\ x < Word => x % Word = x
<1>1. Word \in Nat \ {0}
  BY Constants
<1>2. ASSUME NEW w \in Nat \ {0}
      PROVE  /\ x % w \in 0 .. w - 1
             /\ x >= 0 => x % w <= x
             /\ x >= 0 /\ x < w => x % w = x
  OBVIOUS
<1>3. QED BY <1>1, <1>2

\* What a packet grants a channel, and what data it has for it.
AdjustWeight(c) == [p \in Packets |-> IF p.type = "WINDOW_ADJUST" /\ p.ch = c THEN p.n ELSE 0]
DataWeight(c) == [p \in Packets |-> IF IsData(p, c) THEN p.n ELSE 0]

\* Both are functions from the packets to the natural numbers.
LEMMA Weights ==
    ASSUME NEW c
    PROVE  /\ AdjustWeight(c) \in [Packets -> Int]
           /\ DataWeight(c) \in [Packets -> Int]
           /\ \A p \in Packets :
                 /\ AdjustWeight(c)[p] = IF p.type = "WINDOW_ADJUST" /\ p.ch = c THEN p.n ELSE 0
                 /\ DataWeight(c)[p] = IF IsData(p, c) THEN p.n ELSE 0
                 /\ AdjustWeight(c)[p] \in Nat /\ DataWeight(c)[p] \in Nat
<1>1. \A p \in Packets : p.n \in Nat
  BY DEF Packets
<1> HIDE DEF Packets
<1>2. QED BY <1>1 DEF AdjustWeight, DataWeight

\* The model's sums are sums of such weights.
LEMMA SumsWeigh ==
    ASSUME NEW packets \in Seq(Packets), NEW c
    PROVE  /\ Adjusts(packets, c) = Weigh(packets, AdjustWeight(c))
           /\ DataOf(packets, c) = Weigh(packets, DataWeight(c))
<1>1. \A i \in DOMAIN packets : packets[i] \in Packets
  OBVIOUS
<1>2. Mapped(packets, AdjustWeight(c)) =
         [i \in DOMAIN packets |->
             IF packets[i].type = "WINDOW_ADJUST" /\ packets[i].ch = c THEN packets[i].n ELSE 0]
  BY <1>1, Weights DEF Mapped
<1>3. Mapped(packets, DataWeight(c)) =
         [i \in DOMAIN packets |-> IF IsData(packets[i], c) THEN packets[i].n ELSE 0]
  BY <1>1, Weights DEF Mapped
<1>4. QED BY <1>2, <1>3 DEF Adjusts, DataOf, Weigh

\* The sums are natural numbers, no smaller than any packet's part, and 0 if there is none.
LEMMA SumsType ==
    ASSUME NEW packets \in Seq(Packets), NEW c
    PROVE  /\ Adjusts(packets, c) \in Nat
           /\ DataOf(packets, c) \in Nat
           /\ (\A i \in DOMAIN packets :
                  packets[i].ch = c => packets[i].type # "WINDOW_ADJUST")
                 => Adjusts(packets, c) = 0
           /\ (\A i \in DOMAIN packets : ~IsData(packets[i], c)) => DataOf(packets, c) = 0
           /\ \A i \in DOMAIN packets : IsData(packets[i], c) =>
                 packets[i].n <= DataOf(packets, c)
<1>1. /\ \A i \in 1 .. Len(packets) : packets[i] \in Packets
      /\ DOMAIN packets = 1 .. Len(packets)
  OBVIOUS
<1>2. Weigh(packets, AdjustWeight(c)) \in Nat
  <2>1. \A i \in 1 .. Len(packets) : AdjustWeight(c)[packets[i]] >= 0
    BY <1>1, Weights
  <2>2. AdjustWeight(c) \in [Packets -> Int]
    BY Weights
  <2>3. /\ Weigh(packets, AdjustWeight(c)) \in Int
        /\ Weigh(packets, AdjustWeight(c)) >= 0
    BY <2>1, <2>2, WeighType
  <2>4. QED BY <2>3
<1>3. /\ Weigh(packets, DataWeight(c)) \in Nat
      /\ \A i \in 1 .. Len(packets) : DataWeight(c)[packets[i]] <= Weigh(packets, DataWeight(c))
  <2>1. \A i \in 1 .. Len(packets) : DataWeight(c)[packets[i]] >= 0
    BY <1>1, Weights
  <2>2. DataWeight(c) \in [Packets -> Int]
    BY Weights
  <2>3. /\ Weigh(packets, DataWeight(c)) \in Int
        /\ Weigh(packets, DataWeight(c)) >= 0
        /\ \A i \in 1 .. Len(packets) :
              DataWeight(c)[packets[i]] <= Weigh(packets, DataWeight(c))
    BY <2>1, <2>2, WeighType
  <2>4. QED BY <2>3
<1>4. ASSUME \A i \in DOMAIN packets : packets[i].ch = c => packets[i].type # "WINDOW_ADJUST"
      PROVE  Weigh(packets, AdjustWeight(c)) = 0
  <2>1. \A i \in 1 .. Len(packets) : AdjustWeight(c)[packets[i]] = 0
    BY <1>1, <1>4, Weights
  <2>2. AdjustWeight(c) \in [Packets -> Int]
    BY Weights
  <2>3. QED BY <2>1, <2>2, WeighType
<1>5. ASSUME \A i \in DOMAIN packets : ~IsData(packets[i], c)
      PROVE  Weigh(packets, DataWeight(c)) = 0
  <2>1. \A i \in 1 .. Len(packets) : DataWeight(c)[packets[i]] = 0
    BY <1>1, <1>5, Weights
  <2>2. DataWeight(c) \in [Packets -> Int]
    BY Weights
  <2>3. QED BY <2>1, <2>2, WeighType
<1>6. \A i \in DOMAIN packets : IsData(packets[i], c) => DataWeight(c)[packets[i]] = packets[i].n
  BY <1>1, Weights
<1>7. QED
  BY <1>1, <1>2, <1>3, <1>4, <1>5, <1>6, SumsWeigh

\* A packet that is appended adds what it weighs.
LEMMA SumsAppend ==
    ASSUME NEW packets \in Seq(Packets), NEW p \in Packets, NEW c
    PROVE  /\ Adjusts(Append(packets, p), c) =
                 Adjusts(packets, c) + IF p.type = "WINDOW_ADJUST" /\ p.ch = c THEN p.n ELSE 0
           /\ DataOf(Append(packets, p), c) =
                 DataOf(packets, c) + IF IsData(p, c) THEN p.n ELSE 0
<1>0. AdjustWeight(c) \in [Packets -> Int] /\ DataWeight(c) \in [Packets -> Int]
  BY Weights
<1>1. Append(packets, p) \in Seq(Packets)
  OBVIOUS
<1>2. Weigh(Append(packets, p), AdjustWeight(c)) =
         Weigh(packets, AdjustWeight(c)) + AdjustWeight(c)[p]
  BY <1>0, WeighAppend
<1>3. Weigh(Append(packets, p), DataWeight(c)) =
         Weigh(packets, DataWeight(c)) + DataWeight(c)[p]
  BY <1>0, WeighAppend
<1>4. /\ Adjusts(Append(packets, p), c) = Adjusts(packets, c) + AdjustWeight(c)[p]
      /\ DataOf(Append(packets, p), c) = DataOf(packets, c) + DataWeight(c)[p]
  BY <1>1, <1>2, <1>3, SumsWeigh
<1>5. QED BY <1>4, Weights

\* A packet that is taken off the head takes away what it weighs.
LEMMA SumsTail ==
    ASSUME NEW packets \in Seq(Packets), packets # <<>>, NEW c
    PROVE  /\ Adjusts(packets, c) = Adjusts(Tail(packets), c) +
                 IF Head(packets).type = "WINDOW_ADJUST" /\ Head(packets).ch = c
                 THEN Head(packets).n ELSE 0
           /\ DataOf(packets, c) = DataOf(Tail(packets), c) +
                 IF IsData(Head(packets), c) THEN Head(packets).n ELSE 0
<1>0. AdjustWeight(c) \in [Packets -> Int] /\ DataWeight(c) \in [Packets -> Int]
  BY Weights
<1>1. Tail(packets) \in Seq(Packets) /\ packets[1] \in Packets /\ Head(packets) = packets[1]
  OBVIOUS
<1>2. Weigh(packets, AdjustWeight(c)) =
         AdjustWeight(c)[packets[1]] + Weigh(Tail(packets), AdjustWeight(c))
  BY <1>0, WeighTail
<1>3. Weigh(packets, DataWeight(c)) =
         DataWeight(c)[packets[1]] + Weigh(Tail(packets), DataWeight(c))
  BY <1>0, WeighTail
<1>4. /\ Adjusts(packets, c) = AdjustWeight(c)[packets[1]] + Adjusts(Tail(packets), c)
      /\ DataOf(packets, c) = DataWeight(c)[packets[1]] + DataOf(Tail(packets), c)
  BY <1>1, <1>2, <1>3, SumsWeigh
<1>5. /\ Adjusts(Tail(packets), c) \in Nat /\ DataOf(Tail(packets), c) \in Nat
      /\ AdjustWeight(c)[packets[1]] \in Nat /\ DataWeight(c)[packets[1]] \in Nat
  BY <1>1, SumsType, Weights
<1>6. QED BY <1>1, <1>4, <1>5, Weights

\* One packet less in the brigade, or some.
LEMMA SumsWithout ==
    ASSUME NEW packets \in Seq(Packets), NEW k \in DOMAIN packets, NEW c
    PROVE  /\ Without(packets, k) \in Seq(Packets)
           /\ \A j \in DOMAIN Without(packets, k) :
                 \E i \in DOMAIN packets : i # k /\ Without(packets, k)[j] = packets[i]
           /\ DataOf(packets, c) = DataOf(Without(packets, k), c) +
                 IF IsData(packets[k], c) THEN packets[k].n ELSE 0
<1>0. AdjustWeight(c) \in [Packets -> Int] /\ DataWeight(c) \in [Packets -> Int]
  BY Weights
<1>1. packets[k] \in Packets /\ k \in 1 .. Len(packets)
  OBVIOUS
<1>2. /\ Without(packets, k) \in Seq(Packets)
      /\ \A j \in 1 .. Len(Without(packets, k)) :
            \E i \in 1 .. Len(packets) :
                 i \in DOMAIN packets \ {k} /\ Without(packets, k)[j] = packets[i]
  <2> DEFINE at == DOMAIN packets \ {k}
  <2>1. Without(packets, k) = Picked(packets, at)
    BY DEF Without
  <2> HIDE DEF at
  <2>2. /\ Picked(packets, at) \in Seq(Packets)
        /\ \A j \in 1 .. Len(Picked(packets, at)) :
              \E i \in 1 .. Len(packets) : i \in at /\ Picked(packets, at)[j] = packets[i]
    BY PickedType
  <2>3. QED BY <2>1, <2>2 DEF at
<1>3. Weigh(packets, DataWeight(c)) =
         Weigh(Without(packets, k), DataWeight(c)) + DataWeight(c)[packets[k]]
  BY <1>0, <1>1, WeighWithout
<1>4. DataOf(packets, c) = DataOf(Without(packets, k), c) + DataWeight(c)[packets[k]]
  BY <1>2, <1>3, SumsWeigh
<1>5. DataOf(packets, c) = DataOf(Without(packets, k), c) +
         IF IsData(packets[k], c) THEN packets[k].n ELSE 0
  BY <1>1, <1>4, Weights
<1>6. QED BY <1>2, <1>5

----------------------------------------------------------------------------
(* What the steps do                                                       *)

\* What a packet without data is made of.
LEMMA PacketFields ==
    ASSUME NEW type \in PacketTypes, NEW c \in Ids, NEW n \in Nat
    PROVE  /\ Packet(type, c, n) \in Packets
           /\ Packet(type, c, n).type = type
           /\ Packet(type, c, n).ch = c
           /\ Packet(type, c, n).n = n
           /\ Len(Packet(type, c, n).bytes) = 0
  BY DEF Packet, Packets

\* What a packet with data is made of.
LEMMA DataFields ==
    ASSUME NEW s \in {0, 1}, NEW c \in Ids, NEW bytes \in Seq(Nat)
    PROVE  /\ Data(s, c, bytes) \in Packets
           /\ Data(s, c, bytes).type = IF s = 0 THEN "DATA" ELSE "EXTENDED_DATA"
           /\ Data(s, c, bytes).ch = c
           /\ Data(s, c, bytes).n = Len(bytes)
           /\ Data(s, c, bytes).bytes = bytes
  BY DEF Data, Packets, PacketTypes, Types

\* A packet is sent and delivered.
Sent(p) == outq' = Append(outq, p) /\ tcp = "up"

\* Out appends the packet where it was sent and the connection is up.
LEMMA SendingOk ==
    ASSUME NEW ok \in SendResults, NEW p
    PROVE  /\ ok \in BOOLEAN
           /\ ~ok => tcp # "up"
           /\ Out(p, ok) = IF ok /\ tcp = "up" THEN Append(outq, p) ELSE outq
  BY DEF SendResults, Out

\* The effect of receive_window_adjust.
AdjustStep(chans, c, n) ==
    LET T == (n + chans[c].adjust_queue) % Word
    IN  \/ /\ ch' = [chans EXCEPT ![c].adjust_queue = T]
           /\ UNCHANGED <<outq, wrapped>>
        \/ /\ ch' = [chans EXCEPT ![c].adjust_queue = 0, ![c].rwin = (@ + T) % Word]
           /\ \/ Sent(Packet("WINDOW_ADJUST", c, T))
              \/ outq' = outq /\ (tcp # "up" \/ T = 0)
           /\ wrapped' = IF chans[c].rwin + T >= Word THEN wrapped \cup {c} ELSE wrapped

\* receive_window_adjust has that effect.
LEMMA AdjustEffect ==
    ASSUME NEW chans, chans \in [DOMAIN chans -> ChannelRecords], NEW c \in DOMAIN chans,
           NEW n \in Nat, NEW force \in BOOLEAN, receive_window_adjust(chans, c, n, force)
    PROVE  AdjustStep(chans, c, n)
<1> DEFINE T == (n + chans[c].adjust_queue) % Word
<1>1. chans[c] \in ChannelRecords /\ chans[c].adjust_queue \in Nat
      /\ chans[c].rwin \in Nat
  BY DEF ChannelRecords
<1>2. PICK ok \in SendResults :
         /\ ch' = [chans EXCEPT ![c] = Adjusted(@, n, force, ok)]
         /\ outq' = IF \/ Queues(chans[c], n, force)
                       \/ n = 0 /\ chans[c].adjust_queue = 0 THEN outq
                    ELSE Out(Packet("WINDOW_ADJUST", c, Total(chans[c], n)), ok)
         /\ wrapped' = IF /\ ok /\ ~Queues(chans[c], n, force)
                          /\ chans[c].rwin + Total(chans[c], n) >= Word
                       THEN wrapped \cup {c} ELSE wrapped
  BY DEF receive_window_adjust
<1>3. Total(chans[c], n) = T
  BY DEF Total
<1>4. /\ ok \in BOOLEAN /\ ~ok => tcp # "up"
      /\ Out(Packet("WINDOW_ADJUST", c, T), ok) =
            IF ok /\ tcp = "up" THEN Append(outq, Packet("WINDOW_ADJUST", c, T)) ELSE outq
  BY SendingOk
<1>5. CASE Queues(chans[c], n, force) \/ ~ok
  <2>1. Adjusted(chans[c], n, force, ok) = [chans[c] EXCEPT !.adjust_queue = T]
    BY <1>3, <1>5 DEF Adjusted
  <2>2. ch' = [chans EXCEPT ![c].adjust_queue = T]
    BY <1>2, <2>1
  <2>3. outq' = outq /\ wrapped' = wrapped
    BY <1>2, <1>3, <1>4, <1>5
  <2>4. QED BY <2>2, <2>3 DEF AdjustStep
<1>6. CASE ~Queues(chans[c], n, force) /\ ok
  <2>1. Adjusted(chans[c], n, force, ok) =
           [chans[c] EXCEPT !.adjust_queue = 0, !.rwin = (@ + T) % Word]
    BY <1>3, <1>6 DEF Adjusted
  <2>2. ch' = [chans EXCEPT ![c].adjust_queue = 0, ![c].rwin = (@ + T) % Word]
    BY <1>2, <2>1
  <2>3. wrapped' = IF chans[c].rwin + T >= Word THEN wrapped \cup {c} ELSE wrapped
    BY <1>2, <1>3, <1>6
  <2>4. CASE n = 0 /\ chans[c].adjust_queue = 0
    <3>1. T = 0
      BY <2>4, Modulo, Constants
    <3>2. outq' = outq
      BY <1>2, <2>4
    <3>3. QED BY <2>2, <2>3, <3>1, <3>2 DEF AdjustStep
  <2>5. CASE ~(n = 0 /\ chans[c].adjust_queue = 0)
    <3>1. outq' = IF tcp = "up" THEN Append(outq, Packet("WINDOW_ADJUST", c, T)) ELSE outq
      BY <1>2, <1>3, <1>4, <1>6, <2>5
    <3>2. QED BY <2>2, <2>3, <3>1 DEF AdjustStep, Sent
  <2>6. QED BY <2>4, <2>5
<1>7. QED BY <1>4, <1>5, <1>6

\* The ids are given in their order.
LEMMA NextId ==
    ASSUME TypeOK, Connection
    PROVE  nextid = next_channel
<1> DEFINE used == DOMAIN ch \cup {next_channel}
<1>1. /\ next_channel \in Nat
      /\ \A d \in used : d \in Nat /\ d <= next_channel
  BY Constants DEF TypeOK, Connection
<1> HIDE DEF used
<1>2. next_channel \in used /\ \A d \in used : d <= next_channel
  BY <1>1 DEF used
<1>3. \A id \in used : (\A d \in used : d <= id) => id = next_channel
  BY <1>1, <1>2
<1>4. (CHOOSE id \in used : \A d \in used : d <= id) = next_channel
  BY <1>2, <1>3
<1>5. QED BY <1>4 DEF nextid, used

\* What is chosen from a set of positions, the first.
LEMMA FirstOf ==
    ASSUME NEW T \in SUBSET Nat, T # {}
    PROVE  /\ (CHOOSE i \in T : \A j \in T : i <= j) \in T
           /\ \A j \in T : (CHOOSE i \in T : \A k \in T : i <= k) <= j
<1>1. \E i \in T : \A j \in T : i <= j
  BY LeastNumber
<1>2. QED BY <1>1

\* Where a call is tells which call it is.
LEMMA PlaceOps ==
    ASSUME TypeOK, Places
    PROVE  /\ call.pc = "idle" => call.op = "none"
           /\ Waits => call.op \in {"open", "request"}
           /\ call.pc \in {"drain", "block", "take"} => call.op = "read"
           /\ call.pc = "write" => call.op = "write"
           /\ call.pc = "closing" => call.op = "wait_closed"
           /\ call.pc \in {"pollData", "scanData", "pollExt", "scanExt", "unlink"} =>
                 call.op \in {"open", "free"}
           /\ call.pc \in {"drain", "block", "take", "write", "closing"} => call.c \in Mine
           /\ call.c \in Ids
<1>1. /\ call.op \in {"none", "open", "request", "read", "write", "wait_closed", "free"}
      /\ call.c \in Ids
      /\ call.op \notin {"none", "open"} => call.c \in Mine
  BY DEF TypeOK, Calls
<1>2. call.pc \in PlacesOf(call.op)
  BY DEF Places
<1>3. QED BY <1>1, <1>2 DEF PlacesOf, Waits

\* The packets in the brigade were there before, but for what was read of them.
Same(p, q) == p.type = q.type /\ p.ch = q.ch /\ p.n = q.n
Shrinks ==
    /\ brigade' \in Seq(Packets)
    /\ \A j \in DOMAIN brigade' : \E i \in DOMAIN brigade :
          Same(brigade'[j], brigade[i]) /\ Len(brigade'[j].bytes) <= Len(brigade[i].bytes)

\* It may stay as it is.
LEMMA ShrinksNot ==
    ASSUME TypeOK, brigade' = brigade
    PROVE  Shrinks
<1>1. brigade \in Seq(Packets)
  BY DEF TypeOK
<1>2. \A i \in DOMAIN brigade : Len(brigade[i].bytes) \in Nat
  BY <1>1 DEF Packets
<1>3. \A i \in DOMAIN brigade :
         Same(brigade[i], brigade[i]) /\ Len(brigade[i].bytes) <= Len(brigade[i].bytes)
  BY <1>2 DEF Same
<1>4. QED BY <1>1, <1>3 DEF Shrinks

\* A packet may be taken out of it.
LEMMA ShrinksWithout ==
    ASSUME TypeOK, NEW k \in DOMAIN brigade, brigade' = Without(brigade, k)
    PROVE  Shrinks
<1>1. brigade \in Seq(Packets)
  BY DEF TypeOK
<1>2. /\ Without(brigade, k) \in Seq(Packets)
      /\ \A j \in DOMAIN Without(brigade, k) :
            \E i \in DOMAIN brigade : i # k /\ Without(brigade, k)[j] = brigade[i]
  BY <1>1, SumsWithout
<1>3. \A i \in DOMAIN brigade : Len(brigade[i].bytes) \in Nat
  BY <1>1 DEF Packets
<1>4. QED BY <1>2, <1>3 DEF Shrinks, Same

\* The call that asks for something waits for the answer.
Begins(p) ==
    p.type \in Asks => /\ call = Idle /\ call'.pc = "first" /\ call'.c = p.ch
                      /\ call'.op = IF p.type = "OPEN" THEN "open" ELSE "request"

\* The data of a channel in the brigade stays what it is, or n of it is given back.
Keeps(c) == DataOf(brigade', c) = DataOf(brigade, c)
Refunded(c, n) ==
    /\ \A d : d # c => Keeps(d)
    /\ uneven' \in {uneven, uneven \cup {c}}
    /\ c \notin uneven' => \E R \in Nat : /\ DataOf(brigade, c) = DataOf(brigade', c) + R
                                         /\ n \in {R, R % Word}

\* The brigade as it was.
LEMMA KeepsSame ==
    ASSUME TypeOK, brigade' = brigade, NEW c \in Ids
    PROVE  /\ \A d : Keeps(d)
           /\ uneven' = uneven => Refunded(c, 0)
<1>1. \A d : Keeps(d)
  BY DEF Keeps
<1>2. brigade \in Seq(Packets) /\ DataOf(brigade, c) \in Nat
  BY SumsType DEF TypeOK
<1>3. DataOf(brigade, c) = DataOf(brigade', c) + 0
  BY <1>2
<1>4. QED BY <1>1, <1>3 DEF Refunded

\* A packet that is taken out concerns no channel but its own.
LEMMA KeepsWithout ==
    ASSUME TypeOK, NEW k \in DOMAIN brigade, brigade' = Without(brigade, k), NEW d
    PROVE  ~IsData(brigade[k], d) => Keeps(d)
<1>1. brigade \in Seq(Packets)
  BY DEF TypeOK
<1>2. brigade' \in Seq(Packets)
      /\ DataOf(brigade, d) = DataOf(brigade', d) + IF IsData(brigade[k], d) THEN brigade[k].n ELSE 0
  BY <1>1, SumsWithout
<1>3. DataOf(brigade', d) \in Nat
  BY <1>2, SumsType
<1>4. QED BY <1>2, <1>3 DEF Keeps

\* The steps of the program that receive nothing, in six kinds.  First: packets are sent that
\* say nothing of windows, and flags are set.
Alike(a, b) ==
    /\ a.confirmed = b.confirmed /\ a.lwin = b.lwin /\ a.rwin = b.rwin
    /\ a.adjust_queue = b.adjust_queue /\ a.reof = b.reof /\ a.rclose = b.rclose
Plain ==
    /\ ch' \in [DOMAIN ch -> ChannelRecords]
    /\ \A c \in DOMAIN ch : Alike(ch'[c], ch[c])
    /\ \/ outq' = outq
       \/ \E p \in Packets :
             p.type \in {"REQUEST", "EXEC", "EOF", "CLOSE"} /\ Sent(p) /\ Begins(p)
    /\ UNCHANGED <<next_channel, brigade, inq, tcp, peer, noise, history>>

\* Second: a channel or packets are forgotten.
Forget ==
    /\ ch' = ch \/ \E c \in Ids : ch' = Unlinked(c)
    /\ Shrinks
    /\ \A c \in DOMAIN ch' : <<call.op, call.c>> # <<"free", c>> => Keeps(c)
    /\ UNCHANGED <<next_channel, outq, inq, tcp, peer, noise, history>>

\* Third: the server is granted a larger window.
Granting ==
    \E c \in Mine, mode \in Modes, n \in Nat :
       LET chans == [ch EXCEPT ![c].mode = mode]
       IN  /\ \/ AdjustStep(chans, c, n)
              \/ n = 0 /\ ch' = chans /\ UNCHANGED <<outq, wrapped>>
           /\ Refunded(c, n)
           /\ Shrinks
           /\ UNCHANGED <<next_channel, inq, tcp, peer, noise, ignored>>

\* Fourth: a channel is opened, or cannot be.
Opening ==
    /\ next_channel \in Ids /\ next_channel' = next_channel + 1
    /\ \/ ch' = ch /\ outq' = outq
       \/ /\ ch' = [c \in DOMAIN ch \cup {next_channel} |->
                       IF c = next_channel THEN NewChannel ELSE ch[c]]
          /\ \/ outq' = outq
             \/ LET p == Packet("OPEN", next_channel, WindowDefault)
                IN  Sent(p) /\ Begins(p)
    /\ UNCHANGED <<brigade, inq, tcp, peer, noise, history>>

\* Fifth: the server has confirmed it.
Confirming ==
    \E k \in DOMAIN brigade : LET c == brigade[k].ch IN
       /\ brigade[k].type = "OPEN_CONFIRMATION" /\ c \in DOMAIN ch /\ ~ch[c].confirmed
       /\ brigade' = Without(brigade, k)
       /\ ch' = [ch EXCEPT ![c].lwin = brigade[k].n, ![c].confirmed = TRUE]
       /\ UNCHANGED <<next_channel, outq, inq, tcp, peer, noise, history>>

\* Sixth: data is sent.
Writing ==
    \E c \in Mine, n \in Nat :
       /\ n <= ch[c].lwin
       /\ \/ ch' = ch /\ outq' = outq
          \/ /\ ch' = [ch EXCEPT ![c].lwin = @ - n]
             /\ outq' = outq \/ Sent(Data(0, c, [i \in 1 .. n |-> 0]))
       /\ UNCHANGED <<next_channel, brigade, inq, tcp, peer, noise, history>>

\* One of the six.
Kinds == Plain \/ Forget \/ Granting \/ Opening \/ Confirming \/ Writing

\* A step that changes nothing but the call is plain.
LEMMA KindUnchanged ==
    ASSUME TypeOK,
           UNCHANGED <<ch, next_channel, brigade, outq, inq, tcp, peer, noise, history>>
    PROVE  Kinds
<1>1. ch' \in [DOMAIN ch -> ChannelRecords]
  BY DEF TypeOK
<1>2. \A c \in DOMAIN ch : Alike(ch'[c], ch[c])
  BY DEF Alike
<1>3. QED BY <1>1, <1>2 DEF Kinds, Plain

\* The calls that begin.
LEMMA KindOpen ==
    ASSUME TypeOK, Connection, open_ex
    PROVE  Kinds
<1>1. nextid = next_channel
  BY NextId
<1>2. next_channel \in Ids
  BY <1>1, Constants DEF open_ex, TypeOK, Ids
<1>3. PICK ok \in SendResults :
         /\ outq' = Out(Packet("OPEN", next_channel, WindowDefault), ok)
         /\ ch' = IF ok THEN [c \in DOMAIN ch \cup {next_channel} |->
                                 IF c = next_channel THEN NewChannel ELSE ch[c]]
                  ELSE ch
         /\ call' = Call("open", IF ok THEN "first" ELSE "pollData", next_channel)
  BY <1>1 DEF open_ex
<1>4. /\ ok \in BOOLEAN
      /\ Out(Packet("OPEN", next_channel, WindowDefault), ok) =
            IF ok /\ tcp = "up" THEN Append(outq, Packet("OPEN", next_channel, WindowDefault))
            ELSE outq
  BY SendingOk
<1>5. next_channel' = next_channel + 1
  BY <1>1 DEF open_ex
<1>6. UNCHANGED <<brigade, inq, tcp, peer, noise, history>>
  BY DEF open_ex
<1>7. ok => Begins(Packet("OPEN", next_channel, WindowDefault))
  <2>1. call = Idle
    BY DEF open_ex
  <2>2. QED BY <1>3, <2>1 DEF Begins, Packet, Call, Idle
<1>8. Opening
  BY <1>2, <1>3, <1>4, <1>5, <1>6, <1>7 DEF Opening, Sent
<1>9. QED BY <1>8 DEF Kinds

\* channel_setenv_ex, request_pty_ex, x11_req_ex and process_startup ask.
LEMMA KindRequest ==
    ASSUME TypeOK, NEW type \in {"REQUEST", "EXEC"}, NEW c \in Ids, Request(type, c)
    PROVE  Kinds
<1>1. PICK ok \in SendResults : /\ outq' = Out(Packet(type, c, 0), ok)
                                /\ call' = IF ok THEN Call("request", "first", c) ELSE Idle
  BY DEF Request
<1>2. Out(Packet(type, c, 0), ok) =
         IF ok /\ tcp = "up" THEN Append(outq, Packet(type, c, 0)) ELSE outq
  BY SendingOk
<1>3. Packet(type, c, 0) \in Packets /\ Packet(type, c, 0).type = type
  <2>1. type \in PacketTypes /\ 0 \in Nat
    BY DEF PacketTypes
  <2>2. QED BY <2>1, PacketFields
<1>4. UNCHANGED <<clientVars, inq, tcp, peer, noise, history>>
  BY DEF Request
<1>5. ch' \in [DOMAIN ch -> ChannelRecords] /\ \A d \in DOMAIN ch : Alike(ch'[d], ch[d])
  BY <1>4 DEF TypeOK, Alike, clientVars
<1>6. ok => Begins(Packet(type, c, 0))
  <2>1. call = Idle
    BY DEF Request
  <2>2. QED BY <1>1, <2>1 DEF Begins, Packet, Call, Idle
<1>7. Plain
  BY <1>1, <1>2, <1>3, <1>4, <1>5, <1>6 DEF Plain, Sent, clientVars
<1>8. QED BY <1>7 DEF Kinds

\* Flags are set and at most a packet that ends something is sent.
LEMMA KindFlags ==
    ASSUME TypeOK, NEW c \in DOMAIN ch, NEW type \in {"EOF", "CLOSE"}, NEW lclose \in BOOLEAN,
           NEW leof \in BOOLEAN, NEW blocking \in BOOLEAN, NEW ok \in BOOLEAN,
           ch' = [ch EXCEPT ![c].lclose = lclose, ![c].leof = leof, ![c].blocking = blocking],
           outq' = outq \/ outq' = Out(Packet(type, c, 0), ok),
           UNCHANGED <<next_channel, brigade, inq, tcp, peer, noise, history>>
    PROVE  Kinds
<1>1. Out(Packet(type, c, 0), ok) =
         IF ok /\ tcp = "up" THEN Append(outq, Packet(type, c, 0)) ELSE outq
  BY DEF Out
<1>2. c \in Ids
  BY DEF TypeOK
<1>3. Packet(type, c, 0) \in Packets /\ Packet(type, c, 0).type = type
  <2>1. type \in PacketTypes /\ 0 \in Nat
    BY DEF PacketTypes
  <2>2. QED BY <1>2, <2>1, PacketFields
<1>4. ch' \in [DOMAIN ch -> ChannelRecords]
  <2>1. ch \in [DOMAIN ch -> ChannelRecords]
    BY DEF TypeOK
  <2>2. [ch[c] EXCEPT !.lclose = lclose, !.leof = leof, !.blocking = blocking]
           \in ChannelRecords
    BY <2>1 DEF ChannelRecords
  <2>3. ch' = [ch EXCEPT ![c] =
                 [ch[c] EXCEPT !.lclose = lclose, !.leof = leof, !.blocking = blocking]]
    OBVIOUS
  <2>4. QED BY <2>1, <2>2, <2>3
<1>5. ASSUME NEW d \in DOMAIN ch PROVE Alike(ch'[d], ch[d])
  BY DEF TypeOK, Alike, ChannelRecords
<1>6. Plain
  BY <1>1, <1>3, <1>4, <1>5 DEF Plain, Sent, Begins, Asks
<1>7. QED BY <1>6 DEF Kinds

\* channel_set_blocking is plain.
LEMMA KindSetBlocking ==
    ASSUME TypeOK, NEW c \in Mine, NEW blocking \in BOOLEAN, set_blocking(c, blocking)
    PROVE  Kinds
<1>1. c \in DOMAIN ch /\ ch[c] \in ChannelRecords
  BY DEF Mine, TypeOK
<1>2. ch[c].lclose \in BOOLEAN /\ ch[c].leof \in BOOLEAN
  BY <1>1 DEF ChannelRecords
<1>3. ch' = [ch EXCEPT ![c].lclose = ch[c].lclose, ![c].leof = ch[c].leof,
                       ![c].blocking = blocking]
  BY <1>1 DEF set_blocking, ChannelRecords
<1>4. UNCHANGED <<next_channel, brigade, outq, inq, tcp, peer, noise, history>>
  BY DEF set_blocking
<1>5. QED BY <1>1, <1>2, <1>3, <1>4, KindFlags

\* channel_send_eof is plain.
LEMMA KindSendEof ==
    ASSUME TypeOK, NEW c \in Mine, send_eof(c)
    PROVE  Kinds
<1>1. c \in DOMAIN ch /\ ch[c] \in ChannelRecords
  BY DEF Mine, TypeOK
<1>2. ch[c].lclose \in BOOLEAN /\ ch[c].leof \in BOOLEAN /\ ch[c].blocking \in BOOLEAN
  BY <1>1 DEF ChannelRecords
<1>3. PICK ok \in SendResults : /\ outq' = Out(Packet("EOF", c, 0), ok)
                                /\ ch' = [ch EXCEPT ![c].leof = @ \/ ok]
  BY DEF send_eof
<1>4. ok \in BOOLEAN
  BY SendingOk
<1> DEFINE leof == ch[c].leof \/ ok
<1>5. leof \in BOOLEAN
  BY <1>2, <1>4
<1>6. ch' = [ch EXCEPT ![c].lclose = ch[c].lclose, ![c].leof = leof,
                       ![c].blocking = ch[c].blocking]
  BY <1>1, <1>3 DEF ChannelRecords
<1> HIDE DEF leof
<1>7. UNCHANGED <<next_channel, brigade, inq, tcp, peer, noise, history>>
  BY DEF send_eof
<1>8. QED BY <1>1, <1>2, <1>3, <1>4, <1>5, <1>6, <1>7, KindFlags

\* What channel_close and channel_free share is plain.
LEMMA KindClosing ==
    ASSUME TypeOK, NEW c \in Mine, NEW ok \in SendResults, Close(c, ok),
           UNCHANGED <<next_channel, brigade, inq, tcp, peer, noise, history>>
    PROVE  Kinds
<1>1. c \in DOMAIN ch /\ ch[c] \in ChannelRecords
  BY DEF Mine, TypeOK
<1>2. ch[c].leof \in BOOLEAN /\ ch[c].blocking \in BOOLEAN
  BY <1>1 DEF ChannelRecords
<1>3. outq' = Out(Packet("CLOSE", c, 0), ok) /\ ok \in BOOLEAN
  BY SendingOk DEF Close
<1>4. ch' = [ch EXCEPT ![c].lclose = TRUE, ![c].leof = ch[c].leof,
                       ![c].blocking = ch[c].blocking]
  BY <1>1 DEF Close, ChannelRecords
<1>5. QED BY <1>1, <1>2, <1>3, <1>4, KindFlags

\* channel_close is plain.
LEMMA KindClose ==
    ASSUME TypeOK, NEW c \in Mine, close(c)
    PROVE  Kinds
<1>1. PICK ok \in SendResults : Close(c, ok)
  BY DEF close
<1>2. UNCHANGED <<next_channel, brigade, inq, tcp, peer, noise, history>>
  BY DEF close
<1>3. QED BY <1>1, <1>2, KindClosing

\* The beginning of channel_free is plain.
LEMMA KindFree ==
    ASSUME TypeOK, NEW c \in Mine, free(c)
    PROVE  Kinds
<1>1. UNCHANGED <<next_channel, brigade, inq, tcp, peer, noise, history>>
  BY DEF free
<1>2. CASE ch[c].lclose \/ socket_state = "DISCONNECTED"
  <2>1. UNCHANGED <<ch, outq>>
    BY <1>2 DEF free
  <2>2. QED BY <1>1, <2>1, KindUnchanged
<1>3. CASE ~(ch[c].lclose \/ socket_state = "DISCONNECTED")
  <2>1. PICK ok \in SendResults : Close(c, ok)
    BY <1>3 DEF free
  <2>2. QED BY <1>1, <2>1, KindClosing
<1>4. QED BY <1>2, <1>3

\* A flush picks what it is not for.
LEMMA ShrinksPicked ==
    ASSUME TypeOK, NEW at, brigade' = Picked(brigade, at)
    PROVE  Shrinks
<1>1. brigade \in Seq(Packets)
  BY DEF TypeOK
<1>2. /\ Picked(brigade, at) \in Seq(Packets)
      /\ \A j \in 1 .. Len(Picked(brigade, at)) :
            \E i \in 1 .. Len(brigade) : i \in at /\ Picked(brigade, at)[j] = brigade[i]
  <2>1. ASSUME NEW packets \in Seq(Packets)
        PROVE  /\ Picked(packets, at) \in Seq(Packets)
               /\ \A j \in 1 .. Len(Picked(packets, at)) :
                     \E i \in 1 .. Len(packets) : i \in at /\ Picked(packets, at)[j] = packets[i]
    <3>1. Picked(packets, at) \in Seq(Packets)
      BY PickedType
    <3>2. ASSUME NEW k \in 1 .. Len(Picked(packets, at))
          PROVE  \E i \in 1 .. Len(packets) : i \in at /\ Picked(packets, at)[k] = packets[i]
      BY PickedType
    <3>3. QED BY <3>1, <3>2
  <2>2. QED BY <1>1, <2>1
<1>3. \A i \in DOMAIN brigade : Len(brigade[i].bytes) \in Nat
  BY <1>1 DEF Packets
<1>4. \A j \in DOMAIN brigade' : \E i \in DOMAIN brigade : brigade'[j] = brigade[i]
  BY <1>1, <1>2
<1>5. QED BY <1>2, <1>3, <1>4 DEF Shrinks, Same

\* Granting, without an assumption on what was written to ch.
LEMMA GrantingIs ==
    ASSUME NEW c \in Mine, NEW mode \in Modes, NEW n \in Nat, NEW chans,
           chans = [ch EXCEPT ![c].mode = mode],
           \/ AdjustStep(chans, c, n)
           \/ n = 0 /\ ch' = chans /\ UNCHANGED <<outq, wrapped>>,
           Refunded(c, n), Shrinks,
           UNCHANGED <<next_channel, inq, tcp, peer, noise, ignored>>
    PROVE  Kinds
<1>1. Granting
  BY DEF Granting
<1>2. QED BY <1>1 DEF Kinds

\* A mode that is set leaves the rest of the channel's record.
LEMMA ModeSet ==
    ASSUME TypeOK, NEW c \in Mine, NEW mode \in Modes
    PROVE  /\ [ch EXCEPT ![c].mode = mode] \in [DOMAIN ch -> ChannelRecords]
           /\ c \in DOMAIN ch /\ c \in Ids
           /\ ch[c].mode \in Modes
           /\ ch = [ch EXCEPT ![c].mode = ch[c].mode]
<1>1. c \in DOMAIN ch /\ ch \in [DOMAIN ch -> ChannelRecords] /\ c \in Ids
  BY DEF Mine, TypeOK
<1>2. ch[c] \in ChannelRecords
  BY <1>1
<1>3. [ch[c] EXCEPT !.mode = mode] \in ChannelRecords /\ ch[c].mode \in Modes
      /\ [ch[c] EXCEPT !.mode = ch[c].mode] = ch[c]
  BY <1>2 DEF ChannelRecords
<1>4. /\ [ch EXCEPT ![c].mode = mode] = [ch EXCEPT ![c] = [ch[c] EXCEPT !.mode = mode]]
      /\ [ch EXCEPT ![c].mode = ch[c].mode] = [ch EXCEPT ![c] = ch[c]]
  BY <1>1, <1>3
<1>5. [ch EXCEPT ![c] = [ch[c] EXCEPT !.mode = mode]] \in [DOMAIN ch -> ChannelRecords]
  BY <1>1, <1>3
<1>6. [ch EXCEPT ![c] = ch[c]] = ch
  BY <1>1
<1>7. QED BY <1>1, <1>3, <1>4, <1>5, <1>6

\* channel_flush_ex grants what it picks.
LEMMA KindFlush ==
    ASSUME TypeOK, NEW c \in Mine, NEW mode \in Modes, NEW chans,
           chans = [ch EXCEPT ![c].mode = mode], NEW which, Flush(chans, c, which)
    PROVE  Kinds
<1> DEFINE flushed == {i \in DOMAIN brigade : Flushes(brigade[i], c, which)}
           refunds == [i \in DOMAIN brigade |->
                         IF i \in flushed THEN FlushRefund(brigade[i]) ELSE 0]
           refund == SumOf(refunds) % Word
<1>1. chans \in [DOMAIN ch -> ChannelRecords] /\ DOMAIN chans = DOMAIN ch /\ c \in DOMAIN chans
      /\ c \in Ids
  BY ModeSet
<1>2. /\ brigade' = Picked(brigade, DOMAIN brigade \ flushed)
      /\ IF refund = 0 THEN ch' = chans /\ UNCHANGED <<outq, wrapped>>
         ELSE receive_window_adjust(chans, c, refund, FALSE)
      /\ UNCHANGED <<next_channel, inq, tcp, peer, noise, ignored>>
      /\ uneven' = IF \E i \in flushed : refunds[i] # brigade[i].n
                   THEN uneven \cup {c} ELSE uneven
  BY DEF Flush
<1>3. refund \in Nat
  <2>1. brigade \in Seq(Packets)
    BY DEF TypeOK
  <2>2. \A p \in Packets : FlushRefund(p) \in Int
    <3>1. \A p \in Packets : p.n \in Nat
      BY DEF Packets
    <3> HIDE DEF Packets
    <3>2. QED BY <3>1, Constants DEF FlushRefund
  <2>3. refunds \in Seq(Int)
    BY <2>1, <2>2
  <2> HIDE DEF refunds
  <2>4. SumOf(refunds) \in Int
    BY <2>3, SumType
  <2>5. SumOf(refunds) % Word \in 0 .. Word - 1 /\ Word \in Nat
    BY <2>4, Modulo, Constants
  <2>6. QED BY <2>5
<1>7. Refunded(c, refund)
  <2>1. brigade \in Seq(Packets)
    BY DEF TypeOK
  <2>2. /\ brigade' \in Seq(Packets)
        /\ \A d : /\ SumOf(Masked(brigade, DataWeight(d), flushed)) \in Int
                  /\ DataOf(brigade, d) = DataOf(brigade', d)
                                          + SumOf(Masked(brigade, DataWeight(d), flushed))
    <3> DEFINE left == DOMAIN brigade \ flushed
    <3>1. ASSUME NEW packets \in Seq(Packets), NEW at, NEW d
          PROVE  /\ Picked(packets, DOMAIN packets \ at) \in Seq(Packets)
                 /\ SumOf(Masked(packets, DataWeight(d), at)) \in Int
                 /\ DataOf(packets, d) = DataOf(Picked(packets, DOMAIN packets \ at), d)
                                         + SumOf(Masked(packets, DataWeight(d), at))
      <4>1. Picked(packets, DOMAIN packets \ at) \in Seq(Packets)
        <5> DEFINE B == DOMAIN packets \ at
        <5> HIDE DEF B
        <5>1. Picked(packets, B) \in Seq(Packets)
          BY PickedType
        <5>2. QED BY <5>1 DEF B
      <4>2. DataWeight(d) \in [Packets -> Int]
        BY Weights
      <4>3. /\ SumOf(Masked(packets, DataWeight(d), at)) \in Int
            /\ Weigh(packets, DataWeight(d)) =
                  Weigh(Picked(packets, DOMAIN packets \ at), DataWeight(d))
                  + SumOf(Masked(packets, DataWeight(d), at))
        BY <4>2, WeighParts
      <4>4. QED BY <4>1, <4>3, SumsWeigh
    <3> HIDE DEF flushed
    <3>2. brigade' = Picked(brigade, DOMAIN brigade \ flushed)
      BY <1>2
    <3>3. QED BY <2>1, <3>1, <3>2
  <2>3. \A d : DataOf(brigade, d) \in Nat /\ DataOf(brigade', d) \in Nat
    BY <2>1, <2>2, SumsType
  <2>4. /\ \A i \in DOMAIN brigade : brigade[i] \in Packets
        /\ DOMAIN brigade = 1 .. Len(brigade)
    BY <2>1
  <2>5. ASSUME NEW d, d # c PROVE Keeps(d)
    <3> DEFINE m == Masked(brigade, DataWeight(d), flushed)
    <3>1. \A i \in DOMAIN brigade : i \in flushed => ~IsData(brigade[i], d)
      BY <2>5 DEF Flushes, IsData
    <3>2. m = [i \in DOMAIN brigade |-> 0]
      BY <2>4, <3>1, Weights DEF Masked
    <3> HIDE DEF m
    <3>3. m \in Seq(Int) /\ \A i \in 1 .. Len(m) : m[i] = 0
      BY <2>1, <3>2
    <3>4. SumOf(m) = 0
      BY <3>3, SumType
    <3>5. QED BY <2>2, <2>3, <3>4 DEF Keeps, m
  <2>6. ASSUME c \notin uneven'
        PROVE  \E R \in Nat : /\ DataOf(brigade, c) = DataOf(brigade', c) + R
                              /\ refund \in {R, R % Word}
    <3>1. \A i \in flushed : refunds[i] = brigade[i].n
      BY <1>2, <2>6
    <3>2. \A i \in flushed : IsData(brigade[i], c)
      BY DEF Flushes
    <3>3. Masked(brigade, DataWeight(c), flushed) = refunds
      BY <2>4, <3>1, <3>2, Weights DEF Masked
    <3> DEFINE R == SumOf(refunds)
    <3>4. refund = R % Word
      OBVIOUS
    <3>5. R \in Int /\ DataOf(brigade, c) = DataOf(brigade', c) + R
      BY <2>2, <3>3
    <3>6. R >= 0
      <4>1. \A i \in DOMAIN brigade : refunds[i] \in Nat
        <5>1. \A i \in DOMAIN brigade : brigade[i].n \in Nat
          BY <2>4 DEF Packets
        <5>2. QED BY <3>1, <5>1
      <4>2. refunds \in Seq(Int) /\ \A i \in 1 .. Len(refunds) : refunds[i] >= 0
        BY <2>1, <4>1
      <4> HIDE DEF refunds
      <4>3. QED BY <4>2, SumType
    <3> HIDE DEF R, refund
    <3>7. QED BY <3>4, <3>5, <3>6
  <2>7. uneven' \in {uneven, uneven \cup {c}}
    BY <1>2
  <2>8. QED BY <2>5, <2>6, <2>7 DEF Refunded
<1> HIDE DEF refund
<1>4. Shrinks
  BY <1>2, ShrinksPicked
<1>5. \/ AdjustStep(chans, c, refund)
      \/ refund = 0 /\ ch' = chans /\ UNCHANGED <<outq, wrapped>>
  BY <1>1, <1>2, <1>3, AdjustEffect
<1>6. QED BY <1>2, <1>3, <1>4, <1>5, <1>7, GrantingIs

\* As it is called by the program.
LEMMA KindFlushEx ==
    ASSUME TypeOK, NEW c \in Mine, NEW which, flush_ex(c, which)
    PROVE  Kinds
<1>1. ch[c].mode \in Modes /\ ch = [ch EXCEPT ![c].mode = ch[c].mode]
  <2>1. "NORMAL" \in Modes
    BY DEF Modes
  <2>2. QED BY <2>1, ModeSet
<1>2. Flush(ch, c, which)
  BY DEF flush_ex
<1>3. QED BY <1>1, <1>2, KindFlush

\* channel_handle_extended_data sets the mode and may flush.
LEMMA KindExtended ==
    ASSUME TypeOK, NEW c \in Mine, NEW mode \in Modes, handle_extended_data(c, mode)
    PROVE  Kinds
<1> DEFINE chans == [ch EXCEPT ![c].mode = mode]
<1>1. CASE mode = "IGNORE"
  <2>1. Flush(chans, c, "EXTENDED_DATA")
    BY <1>1 DEF handle_extended_data
  <2> HIDE DEF chans
  <2>2. chans = [ch EXCEPT ![c].mode = mode]
    BY DEF chans
  <2>3. QED BY <2>1, <2>2, KindFlush
<1>2. CASE mode # "IGNORE"
  <2>1. /\ ch' = chans
        /\ UNCHANGED <<next_channel, brigade, outq, inq, tcp, peer, noise, history>>
    BY <1>2 DEF handle_extended_data
  <2>2. UNCHANGED <<outq, wrapped>> /\ UNCHANGED <<next_channel, inq, tcp, peer, noise, ignored>>
    BY <2>1 DEF history
  <2>3. Shrinks /\ Refunded(c, 0)
    <3>1. c \in Ids /\ brigade' = brigade /\ uneven' = uneven
      BY <2>1, ModeSet DEF history
    <3>2. QED BY <3>1, ShrinksNot, KeepsSame
  <2>4. chans = [ch EXCEPT ![c].mode = mode] /\ 0 \in Nat
    OBVIOUS
  <2> HIDE DEF chans
  <2>5. QED BY <2>1, <2>2, <2>3, <2>4, GrantingIs
<1>3. QED BY <1>1, <1>2

\* channel_receive_window_adjust, called with force, grants what is queued.
LEMMA KindForceAdjust ==
    ASSUME TypeOK, NEW c \in Mine, force_adjust(c)
    PROVE  Kinds
<1>1. /\ ch[c].mode \in Modes /\ ch = [ch EXCEPT ![c].mode = ch[c].mode] /\ c \in DOMAIN ch
      /\ ch \in [DOMAIN ch -> ChannelRecords]
  <2>1. "NORMAL" \in Modes
    BY DEF Modes
  <2>2. QED BY <2>1, ModeSet DEF TypeOK
<1>2. receive_window_adjust(ch, c, 0, TRUE)
  BY DEF force_adjust
<1>3. AdjustStep(ch, c, 0)
  BY <1>1, <1>2, AdjustEffect
<1>4. /\ brigade' = brigade /\ uneven' = uneven
      /\ UNCHANGED <<next_channel, inq, tcp, peer, noise, ignored>>
  BY DEF force_adjust
<1>5. Shrinks /\ Refunded(c, 0)
  <2>1. c \in Ids
    BY <1>1 DEF TypeOK
  <2>2. QED BY <1>4, <2>1, ShrinksNot, KeepsSame
<1>6. QED BY <1>1, <1>3, <1>4, <1>5, GrantingIs

\* The answers there are, and the one that is taken.
LEMMA AnswersAre ==
    ASSUME TypeOK
    PROVE  /\ Answers \subseteq DOMAIN brigade
           /\ \A i \in Answers : brigade[i].ch = call.c /\ brigade[i].type \in RepliesTo(call.op)
           /\ \A i \in DOMAIN brigade :
                 brigade[i].ch = call.c /\ brigade[i].type \in RepliesTo(call.op) => Answers # {}
           /\ Answers # {} => Asked \in Answers
<1>1. brigade \in Seq(Packets)
  BY DEF TypeOK
<1>2. DOMAIN brigade \subseteq Nat
  BY <1>1
<1>3. \/ /\ call.op = "open"
         /\ Replies(call.op)[1] = "OPEN_CONFIRMATION" /\ Replies(call.op)[2] = "OPEN_FAILURE"
         /\ RepliesTo(call.op) = {"OPEN_CONFIRMATION", "OPEN_FAILURE"}
      \/ /\ call.op # "open"
         /\ Replies(call.op)[1] = "SUCCESS" /\ Replies(call.op)[2] = "FAILURE"
         /\ RepliesTo(call.op) = {"SUCCESS", "FAILURE"}
  BY DEF Replies, RepliesTo
<1> DEFINE a == Replies(call.op)[1]
           b == Replies(call.op)[2]
<1>4. RepliesTo(call.op) = {a, b}
  BY <1>3
<1>5. Answers = IF Found(a, call.c) # {} THEN Found(a, call.c) ELSE Found(b, call.c)
  BY DEF Answers
<1> HIDE DEF a, b
<1>6. \A t : Found(t, call.c) = {i \in DOMAIN brigade : brigade[i].type = t /\ brigade[i].ch = call.c}
  BY DEF Found
<1>7. /\ Answers \subseteq DOMAIN brigade
      /\ \A i \in Answers : brigade[i].ch = call.c /\ brigade[i].type \in {a, b}
      /\ \A i \in DOMAIN brigade :
            brigade[i].ch = call.c /\ brigade[i].type \in {a, b} => Answers # {}
  BY <1>5, <1>6
<1>8. ASSUME Answers # {} PROVE Asked \in Answers
  <2> DEFINE T == Answers
  <2>1. T \in SUBSET Nat /\ T # {}
    BY <1>2, <1>7, <1>8
  <2> HIDE DEF T
  <2>2. (CHOOSE i \in T : \A j \in T : i <= j) \in T
    BY <2>1, FirstOf
  <2>3. QED BY <2>2 DEF T, Asked
<1>9. QED BY <1>4, <1>7, <1>8

\* What it takes to be the second kind.
LEMMA KindForget ==
    ASSUME TypeOK,
           ch' = ch \/ \E c \in Ids : ch' = Unlinked(c),
           Shrinks, \A c \in DOMAIN ch' : <<call.op, call.c>> # <<"free", c>> => Keeps(c),
           UNCHANGED <<next_channel, outq, inq, tcp, peer, noise, history>>
    PROVE  Kinds
  BY DEF Kinds, Forget

\* The answer that is taken is forgotten, or confirms a channel.
LEMMA KindAnswered ==
    ASSUME TypeOK, Places, Answered
    PROVE  Kinds
<1>1. Asked \in DOMAIN brigade /\ brigade[Asked].ch = call.c
      /\ brigade[Asked].type \in RepliesTo(call.op)
  BY AnswersAre DEF Answered
<1>2. /\ brigade[Asked].type # "OPEN_FAILURE"
      /\ brigade' = Without(brigade, Asked)
      /\ ch' = IF call.op = "open"
               THEN [ch EXCEPT ![call.c].lwin = brigade[Asked].n, ![call.c].confirmed = TRUE]
               ELSE ch
      /\ UNCHANGED <<next_channel, outq, inq, tcp, peer, noise, history>>
  BY DEF Answered
<1>3. Waits
  BY DEF Answered, Waits
<1>4. CASE call.op = "open"
  <2>1. brigade[Asked].type = "OPEN_CONFIRMATION"
    BY <1>1, <1>2, <1>4 DEF RepliesTo
  <2>2. call.c \in DOMAIN ch /\ ~ch[call.c].confirmed
    BY <1>3, <1>4 DEF Places
  <2>3. ch' = [ch EXCEPT ![brigade[Asked].ch].lwin = brigade[Asked].n,
                         ![brigade[Asked].ch].confirmed = TRUE]
    BY <1>1, <1>2, <1>4
  <2>4. Confirming
    BY <1>1, <1>2, <2>1, <2>2, <2>3 DEF Confirming
  <2>5. QED BY <2>4 DEF Kinds
<1>5. CASE call.op # "open"
  <2>1. Shrinks
    BY <1>1, <1>2, ShrinksWithout
  <2>2. \A d : Keeps(d)
    <3>1. \A d : ~IsData(brigade[Asked], d)
      BY <1>1, <1>5 DEF RepliesTo, IsData, Types
    <3>2. QED BY <1>1, <1>2, <3>1, KeepsWithout
  <2>3. QED BY <1>2, <1>5, <2>1, <2>2, KindForget
<1>6. QED BY <1>4, <1>5

\* The refusal that is taken is forgotten.
LEMMA KindOpenFailed ==
    ASSUME TypeOK, Places, OpenFailed
    PROVE  Kinds
<1>1. Asked \in DOMAIN brigade
  BY AnswersAre DEF OpenFailed
<1>2. /\ brigade' = Without(brigade, Asked) /\ ch' = Unlinked(call.c)
      /\ UNCHANGED <<next_channel, outq, inq, tcp, peer, noise, history>>
  BY DEF OpenFailed
<1>3. Shrinks
  BY <1>1, <1>2, ShrinksWithout
<1>4. call.c \in Ids
  BY PlaceOps
<1>5. \A d : Keeps(d)
  <2>1. \A d : ~IsData(brigade[Asked], d)
    BY DEF OpenFailed, IsData, Types
  <2>2. QED BY <1>1, <1>2, <2>1, KeepsWithout
<1>6. QED BY <1>2, <1>3, <1>4, <1>5, KindForget

\* A call that gives up forgets the channel it was opening, or nothing.
LEMMA KindGiveUp ==
    ASSUME TypeOK, Places, GiveUp,
           UNCHANGED <<next_channel, brigade, outq, inq, tcp, peer, noise, history>>
    PROVE  Kinds
<1>1. ch' = ch \/ ch' = Unlinked(call.c)
  BY DEF GiveUp
<1>2. call.c \in Ids
  BY PlaceOps
<1>3. Shrinks /\ \A d : Keeps(d)
  BY <1>2, ShrinksNot, KeepsSame
<1>4. QED BY <1>1, <1>2, <1>3, KindForget

\* channel_free forgets the data of the channel it frees.
LEMMA KindClear ==
    ASSUME TypeOK, Places, Clear
    PROVE  Kinds
<1> DEFINE found == Found(IF call.pc = "scanData" THEN "DATA" ELSE "EXTENDED_DATA", call.c)
           first == CHOOSE i \in found : \A j \in found : i <= j
<1>1. /\ brigade' = IF found = {} THEN brigade ELSE Without(brigade, first)
      /\ UNCHANGED <<ch, next_channel, outq, inq, tcp, peer, noise, history>>
  BY DEF Clear
<1>2. found \subseteq DOMAIN brigade
  BY DEF Found
<1>3. DOMAIN brigade \subseteq Nat
  BY DEF TypeOK
<1> HIDE DEF found
<1>4. found # {} => first \in DOMAIN brigade
  BY <1>2, <1>3, FirstOf
<1>5. Shrinks
  BY <1>1, <1>4, ShrinksNot, ShrinksWithout
<1>6. ASSUME NEW d, d # call.c PROVE Keeps(d)
  <2>1. CASE found = {}
    BY <1>1, <2>1 DEF Keeps
  <2>2. CASE found # {}
    <3>1. first \in found
      BY <1>2, <1>3, <2>2, FirstOf
    <3>2. ~IsData(brigade[first], d)
      BY <1>6, <3>1 DEF found, Found, IsData
    <3>3. QED BY <1>1, <1>4, <2>2, <3>2, KeepsWithout
  <2>3. QED BY <2>1, <2>2
<1>7. call.op = "open" => call.c \notin DOMAIN ch
  BY DEF Clear, Places, Waits
<1>8. call.op \in {"open", "free"}
  BY PlaceOps DEF Clear
<1>9. QED BY <1>1, <1>5, <1>6, <1>7, <1>8, KindForget

\* What a read takes: its channel's data.
LEMMA ReadIs ==
    ASSUME TypeOK, Readable # {}
    PROVE  /\ ReadNext \in DOMAIN brigade
           /\ brigade[ReadNext] \in Packets
           /\ IsData(brigade[ReadNext], call.c)
           /\ \A j \in Readable : ReadNext <= j
           /\ ReadNext \in Readable
<1> DEFINE T == Readable
<1>1. /\ T \subseteq DOMAIN brigade /\ DOMAIN brigade \subseteq Nat
      /\ \A i \in DOMAIN brigade : brigade[i] \in Packets
      /\ \A i \in T : IsData(brigade[i], call.c)
  BY DEF Readable, TypeOK
<1> HIDE DEF T
<1>2. T # {}
  BY DEF T
<1>3. /\ (CHOOSE i \in T : \A j \in T : i <= j) \in T
      /\ \A j \in T : (CHOOSE i \in T : \A k \in T : i <= k) <= j
  BY <1>1, <1>2, FirstOf
<1>4. ReadNext \in T /\ \A j \in T : ReadNext <= j
  BY <1>3 DEF ReadNext, T
<1>5. QED BY <1>1, <1>4 DEF T

\* The end of a sequence.
LEMMA EndIs ==
    ASSUME NEW s \in Seq(Nat), NEW n \in Nat, n < Len(s)
    PROVE  /\ SubSeq(s, n + 1, Len(s)) \in Seq(Nat)
           /\ Len(SubSeq(s, n + 1, Len(s))) = Len(s) - n
<1>1. \A i \in n + 1 .. Len(s) : s[i] \in Nat
  OBVIOUS
<1>2. QED BY <1>1

\* The numbers of a call.
LEMMA CallFields ==
    ASSUME TypeOK
    PROVE  /\ call.n \in Nat /\ call.k \in Nat /\ call.k <= call.n
           /\ call.s \in {0, 1} /\ call.c \in Ids
  BY DEF TypeOK, Calls

\* channel_read_ex grants what it has read.
LEMMA KindTake ==
    ASSUME TypeOK, Places, Take
    PROVE  Kinds
<1> DEFINE p == brigade[ReadNext]
           want == call.n - call.k
           refund == ReadRefund(p, call.s)
<1>1. /\ ReadNext \in DOMAIN brigade /\ p \in Packets /\ IsData(p, call.c)
  BY ReadIs DEF Take
<1>2. /\ UNCHANGED <<next_channel, inq, tcp, peer, noise, ignored>>
      /\ \/ /\ brigade' = Without(brigade, ReadNext)
            /\ receive_window_adjust(ch, call.c, refund, FALSE)
            /\ uneven' = IF refund = p.n THEN uneven ELSE uneven \cup {call.c}
         \/ /\ uneven' = uneven
            /\ want < Len(p.bytes)
            /\ brigade' = [brigade EXCEPT ![ReadNext].bytes = SubSeq(@, want + 1, Len(@))]
            /\ UNCHANGED <<ch, outq, wrapped>>
  <2>1. want \in Nat /\ Len(p.bytes) \in Nat
    <3>1. p.bytes \in Seq(Nat)
      BY <1>1 DEF Packets
    <3>2. want \in Nat
      BY CallFields
    <3>3. QED BY <3>1, <3>2
  <2>2. CASE want >= Len(p.bytes)
    <3>1. brigade' = Without(brigade, ReadNext)
      BY <2>2 DEF Take
    <3>2. receive_window_adjust(ch, call.c, refund, FALSE)
      BY <2>2 DEF Take
    <3>3. UNCHANGED <<next_channel, inq, tcp, peer, noise, ignored>>
      BY DEF Take
    <3>4. uneven' = IF refund = p.n THEN uneven ELSE uneven \cup {call.c}
      BY <2>2 DEF Take
    <3>5. QED BY <3>1, <3>2, <3>3, <3>4
  <2>3. CASE ~(want >= Len(p.bytes))
    <3>1. brigade' = [brigade EXCEPT ![ReadNext].bytes = SubSeq(@, want + 1, Len(@))]
      BY <2>3 DEF Take
    <3>2. UNCHANGED <<ch, outq, wrapped, uneven>>
      BY <2>3 DEF Take
    <3>3. UNCHANGED <<next_channel, inq, tcp, peer, noise, ignored>>
      BY DEF Take
    <3>4. want < Len(p.bytes)
      BY <2>1, <2>3
    <3>5. QED BY <3>1, <3>2, <3>3, <3>4
  <2>4. QED BY <2>2, <2>3
<1>3. call.c \in Mine
  BY PlaceOps DEF Take
<1>4. /\ ch[call.c].mode \in Modes /\ ch = [ch EXCEPT ![call.c].mode = ch[call.c].mode]
      /\ call.c \in DOMAIN ch /\ ch \in [DOMAIN ch -> ChannelRecords]
  <2>1. "NORMAL" \in Modes
    BY DEF Modes
  <2>2. QED BY <1>3, <2>1, ModeSet DEF TypeOK
<1>5. refund \in Nat
  BY <1>1, Constants DEF ReadRefund, Packets
<1>6. CASE /\ brigade' = Without(brigade, ReadNext)
           /\ receive_window_adjust(ch, call.c, refund, FALSE)
           /\ uneven' = IF refund = p.n THEN uneven ELSE uneven \cup {call.c}
  <2> HIDE DEF refund
  <2>1. AdjustStep(ch, call.c, refund)
    BY <1>4, <1>5, <1>6, AdjustEffect
  <2>2. Shrinks
    BY <1>1, <1>6, ShrinksWithout
  <2>3. Refunded(call.c, refund)
    <3>1. \A d : d # call.c => ~IsData(p, d)
      BY <1>1 DEF IsData
    <3>2. \A d : d # call.c => Keeps(d)
      BY <1>1, <1>6, <3>1, KeepsWithout
    <3>3. brigade \in Seq(Packets)
      BY DEF TypeOK
    <3>4. DataOf(brigade, call.c) = DataOf(brigade', call.c) +
             IF IsData(p, call.c) THEN p.n ELSE 0
      BY <1>1, <1>6, <3>3, SumsWithout
    <3>5. uneven' \in {uneven, uneven \cup {call.c}}
      BY <1>6
    <3>6. call.c \notin uneven' => refund = p.n
      BY <1>6
    <3>7. p.n \in Nat /\ IsData(p, call.c)
      BY <1>1 DEF Packets
    <3> HIDE DEF p
    <3>8. QED BY <3>2, <3>4, <3>5, <3>6, <3>7 DEF Refunded
  <2>4. QED BY <1>2, <1>3, <1>4, <1>5, <2>1, <2>2, <2>3, GrantingIs
<1>7. CASE /\ uneven' = uneven
           /\ want < Len(p.bytes)
           /\ brigade' = [brigade EXCEPT ![ReadNext].bytes = SubSeq(@, want + 1, Len(@))]
           /\ UNCHANGED <<ch, outq, wrapped>>
  <2> DEFINE q == [p EXCEPT !.bytes = SubSeq(@, want + 1, Len(@))]
  <2>1. want \in Nat /\ p.bytes \in Seq(Nat)
    <3>1. p.bytes \in Seq(Nat)
      BY <1>1 DEF Packets
    <3>2. want \in Nat
      BY CallFields
    <3>3. QED BY <3>1, <3>2
  <2>2. SubSeq(p.bytes, want + 1, Len(p.bytes)) \in Seq(Nat)
        /\ Len(SubSeq(p.bytes, want + 1, Len(p.bytes))) <= Len(p.bytes)
    <3>1. want < Len(p.bytes)
      BY <1>7
    <3> HIDE DEF want, p
    <3>2. Len(SubSeq(p.bytes, want + 1, Len(p.bytes))) = Len(p.bytes) - want
          /\ SubSeq(p.bytes, want + 1, Len(p.bytes)) \in Seq(Nat)
      BY <2>1, <3>1, EndIs
    <3>3. QED BY <2>1, <3>2
  <2>3. q \in Packets /\ Same(q, p) /\ Len(q.bytes) <= Len(p.bytes)
    BY <1>1, <2>2 DEF Packets, Same
  <2>4. brigade \in Seq(Packets)
    BY DEF TypeOK
  <2>5. brigade' = [brigade EXCEPT ![ReadNext] = q]
    BY <1>7
  <2> HIDE DEF q, p
  <2>6. brigade' \in Seq(Packets) /\ DOMAIN brigade' = DOMAIN brigade
        /\ \A j \in DOMAIN brigade : brigade'[j] = IF j = ReadNext THEN q ELSE brigade[j]
    BY <1>1, <2>3, <2>4, <2>5
  <2>7. \A i \in DOMAIN brigade :
           Same(brigade[i], brigade[i]) /\ Len(brigade[i].bytes) <= Len(brigade[i].bytes)
    <3>1. \A i \in DOMAIN brigade : Len(brigade[i].bytes) \in Nat
      BY <2>4 DEF Packets
    <3>2. QED BY <3>1 DEF Same
  <2>8. Shrinks
    BY <2>3, <2>6, <2>7 DEF Shrinks, p
  <2>9. UNCHANGED <<outq, wrapped>> /\ ch' = ch
    BY <1>7
  <2>10. \A d : Keeps(d)
    <3>1. ASSUME NEW d PROVE Keeps(d)
      <4>1. /\ DOMAIN brigade' = DOMAIN brigade
            /\ \A i \in DOMAIN brigade : Same(brigade'[i], brigade[i])
        BY <2>3, <2>6, <2>7 DEF p
      <4>2. [i \in DOMAIN brigade' |-> IF IsData(brigade'[i], d) THEN brigade'[i].n ELSE 0] =
               [i \in DOMAIN brigade |-> IF IsData(brigade[i], d) THEN brigade[i].n ELSE 0]
        BY <4>1 DEF IsData, Same
      <4>3. QED BY <4>2 DEF Keeps, DataOf
    <3>2. QED BY <3>1
  <2>11. Refunded(call.c, 0)
    <3>1. DataOf(brigade, call.c) \in Nat
      BY <2>4, SumsType
    <3>2. DataOf(brigade, call.c) = DataOf(brigade', call.c) + 0
      BY <2>10, <3>1 DEF Keeps
    <3>3. uneven' = uneven /\ 0 \in Nat
      BY <1>7
    <3>4. QED BY <2>10, <3>2, <3>3 DEF Refunded
  <2>12. 0 \in Nat
    OBVIOUS
  <2>13. QED BY <1>2, <1>3, <1>4, <2>8, <2>9, <2>11, <2>12, GrantingIs
<1>8. QED BY <1>2, <1>6, <1>7

\* channel_write_ex sends what the window lets it.
LEMMA KindWriteData ==
    ASSUME TypeOK, Places, WriteData
    PROVE  Kinds
<1>1. call.c \in Mine
  BY PlaceOps DEF WriteData
<1>2. call.n \in Nat /\ ch[call.c].lwin \in Nat /\ PeerPacket \in Nat
  <2>1. ch[call.c] \in ChannelRecords
    BY <1>1 DEF TypeOK, Mine
  <2>2. PeerPacket \in Nat
    BY Constants
  <2>3. call.n \in Nat
    BY DEF TypeOK, Calls
  <2>4. ch[call.c].lwin \in Nat
    BY <2>1, Constants DEF ChannelRecords
  <2>5. QED BY <2>2, <2>3, <2>4
<1>3. bufwrite \in Nat /\ bufwrite <= ch[call.c].lwin /\ bufwrite <= call.n
  <2> DEFINE limits == {call.n, ch[call.c].lwin, PeerPacket}
  <2>1. limits \in SUBSET Nat /\ limits # {} /\ call.n \in limits /\ ch[call.c].lwin \in limits
    BY <1>2
  <2>2. bufwrite = CHOOSE n \in limits : \A m \in limits : n <= m
    BY DEF bufwrite
  <2> HIDE DEF limits
  <2>3. bufwrite \in limits /\ \A m \in limits : bufwrite <= m
    BY <2>1, <2>2, FirstOf
  <2>4. QED BY <2>1, <2>3
<1>4. PICK ok \in SendResults :
         /\ outq' = Out(Data(0, call.c, [i \in 1 .. bufwrite |-> 0]), ok)
         /\ ch' = IF ok THEN [ch EXCEPT ![call.c].lwin = @ - bufwrite] ELSE ch
  BY DEF WriteData
<1>5. /\ ok \in BOOLEAN /\ ~ok => tcp # "up"
      /\ Out(Data(0, call.c, [i \in 1 .. bufwrite |-> 0]), ok) =
            IF ok /\ tcp = "up" THEN Append(outq, Data(0, call.c, [i \in 1 .. bufwrite |-> 0]))
            ELSE outq
  BY SendingOk
<1>6. UNCHANGED <<next_channel, brigade, inq, tcp, peer, noise, history>>
  BY DEF WriteData
<1>7. Writing
  BY <1>1, <1>3, <1>4, <1>5, <1>6 DEF Writing, Sent
<1>8. QED BY <1>7 DEF Kinds

\* The calls of a program have arguments of the right type.
LEMMA CommandArgs ==
    ASSUME TypeOK, todo # <<>>
    PROVE  LET o == Head(todo) IN
           /\ o.c \in Ids
           /\ o.op = "blocking" => o.arg \in BOOLEAN
           /\ o.op = "extended" => o.arg \in Modes
           /\ o.op \in {"read", "read_stderr", "write"} => o.arg \in Nat
           /\ Tail(todo) \in Seq(Commands)
<1>1. todo \in Seq(Commands)
  BY DEF TypeOK
<1>2. Head(todo) \in Commands /\ Tail(todo) \in Seq(Commands)
  BY <1>1
<1>3. QED BY <1>2 DEF Commands

\* Every call that begins is of a kind.
LEMMA KindBegin ==
    ASSUME TypeOK, Connection, todo # <<>>, Begin(Head(todo))
    PROVE  Kinds
<1> DEFINE o == Head(todo)
<1>1. /\ o.c \in Ids
      /\ o.op = "blocking" => o.arg \in BOOLEAN
      /\ o.op = "extended" => o.arg \in Modes
  BY CommandArgs
<1> HIDE DEF o
<1>2. CASE Returns(o)
  <2>1. UNCHANGED <<ch, next_channel, brigade, outq, inq, tcp, peer, noise, history>>
    BY <1>2 DEF Returns, clientVars
  <2>2. QED BY <2>1, KindUnchanged
<1>3. CASE open_ex
  BY <1>3, KindOpen
<1>4. CASE setenv_ex(o.c) \/ request_pty_ex(o.c) \/ x11_req_ex(o.c) \/ process_startup(o.c)
  BY <1>1, <1>4, KindRequest DEF setenv_ex, request_pty_ex, x11_req_ex, process_startup
<1>5. CASE o.c \in Mine /\ o.op = "blocking" /\ set_blocking(o.c, o.arg)
  BY <1>1, <1>5, KindSetBlocking
<1>6. CASE o.c \in Mine /\ flush_ex(o.c, o.arg)
  BY <1>6, KindFlushEx
<1>7. CASE o.c \in Mine /\ o.op = "extended" /\ handle_extended_data(o.c, o.arg)
  BY <1>1, <1>7, KindExtended
<1>8. CASE o.c \in Mine /\ force_adjust(o.c)
  BY <1>8, KindForceAdjust
<1>9. CASE read_ex(o.c, 0, o.arg) \/ read_ex(o.c, 1, o.arg) \/ write_ex(o.c, o.arg)
           \/ wait_closed(o.c)
  <2>1. UNCHANGED <<ch, next_channel, brigade, outq, inq, tcp, peer, noise, history>>
    BY <1>9 DEF read_ex, write_ex, wait_closed, clientVars
  <2>2. QED BY <2>1, KindUnchanged
<1>10. CASE o.c \in Mine /\ send_eof(o.c)
  BY <1>10, KindSendEof
<1>11. CASE o.c \in Mine /\ close(o.c)
  BY <1>11, KindClose
<1>12. CASE o.c \in Mine /\ free(o.c)
  BY <1>12, KindFree
<1>13. Begin(o)
  BY DEF o
<1>14. QED
  BY <1>2, <1>3, <1>4, <1>5, <1>6, <1>7, <1>8, <1>9, <1>10, <1>11, <1>12, <1>13 DEF Begin

\* Every step of a call is of a kind, or reads a packet.
LEMMA KindGoes ==
    ASSUME TypeOK, Places, Goes
    PROVE  Kinds \/ Receive
<1>1. CASE Answered
  BY <1>1, KindAnswered
<1>2. CASE OpenFailed
  BY <1>2, KindOpenFailed
<1>3. CASE AwaitPacket \/ ReadPacket \/ WriteWaits \/ WaitPacket \/ PollPacket
  BY <1>3 DEF AwaitPacket, ReadPacket, WriteWaits, WaitPacket, PollPacket
<1>4. CASE NoAnswer \/ AwaitError
  BY <1>4, KindGiveUp DEF NoAnswer, AwaitError
<1>5. CASE NotThere \/ ReadNothing \/ ReadFails \/ ReadEnds \/ WriteFails \/ WaitEnds
           \/ WaitFails \/ PollNothing
  <2>1. UNCHANGED <<ch, next_channel, brigade, outq, inq, tcp, peer, noise, history>>
    BY <1>5 DEF NotThere, ReadNothing, ReadFails, ReadEnds, WriteFails, WaitEnds, WaitFails,
                PollNothing, NothingYet, ReadError, clientVars
  <2>2. QED BY <2>1, KindUnchanged
<1>6. CASE Take
  BY <1>6, KindTake
<1>7. CASE WriteData
  BY <1>7, KindWriteData
<1>8. CASE Clear
  BY <1>8, KindClear
<1>9. CASE Unlink
  <2>1. /\ ch' = Unlinked(call.c)
        /\ UNCHANGED <<next_channel, brigade, outq, inq, tcp, peer, noise, history>>
    BY <1>9 DEF Unlink
  <2>2. call.c \in Ids
    BY PlaceOps
  <2>3. Shrinks /\ \A d : Keeps(d)
    BY <2>1, <2>2, ShrinksNot, KeepsSame
  <2>4. QED BY <2>1, <2>2, <2>3, KindForget
<1>10. QED
  BY <1>1, <1>2, <1>3, <1>4, <1>5, <1>6, <1>7, <1>8, <1>9 DEF Goes

\* What all the kinds have in common: a packet that is sent is for a channel the program
\* has, or opens one; a channel stays what it is but for its windows, and these move
\* together with what was sent.
Fits(p) ==
    /\ Begins(p)
    /\ p.type \in Types \cup {"WINDOW_ADJUST"} => p.ch \in Mine
    /\ p.type = "OPEN" => /\ p.ch = next_channel /\ next_channel' = next_channel + 1
                          /\ p.n = WindowDefault
\* A channel that is new, confirmed, or granted a larger window, and one that goes on.
Fresh(c) == ch'[c] = NewChannel /\ c = next_channel /\ next_channel' = next_channel + 1
Confirms(c) ==
    /\ outq' = outq
    /\ \E k \in DOMAIN brigade : /\ brigade[k].type = "OPEN_CONFIRMATION" /\ brigade[k].ch = c
                                 /\ ch'[c].lwin = brigade[k].n
Grants(c) ==
    \E T \in Nat : /\ ch'[c].rwin = ch[c].rwin + T
                   /\ Adjusts(outq', c) = Adjusts(outq, c) + T \/ tcp # "up"
Moves(c) ==
    /\ ch'[c].reof = ch[c].reof /\ ch'[c].rclose = ch[c].rclose
    /\ ch[c].confirmed =>
          /\ ch'[c].confirmed
          /\ ch'[c].lwin + DataOf(outq', c) <= ch[c].lwin + DataOf(outq, c)
    /\ ~ch[c].confirmed =>
          /\ ch'[c].rwin = ch[c].rwin
          /\ ch'[c].confirmed => Confirms(c)
    /\ c \notin wrapped' => Grants(c)
\* What the program does in one step, apart from reading packets.
Local ==
    /\ UNCHANGED <<inq, tcp, peer, noise, ignored>>
    /\ Shrinks
    /\ DOMAIN ch' \subseteq Ids /\ ch' \in [DOMAIN ch' -> ChannelRecords]
    /\ next_channel' \in 0 .. MaxChannels /\ next_channel <= next_channel'
    /\ outq' = outq \/ \E p \in Packets : Sent(p) /\ Fits(p)
    /\ \A c \in DOMAIN ch' : IF c \in DOMAIN ch THEN Moves(c) ELSE Fresh(c)
    /\ wrapped \subseteq wrapped' /\ wrapped' \subseteq Ids

\* The records of channels hold numbers.
LEMMA ChannelFields ==
    ASSUME TypeOK, NEW c \in DOMAIN ch
    PROVE  /\ ch[c] \in ChannelRecords /\ c \in Ids
           /\ ch[c].lwin \in Nat /\ ch[c].rwin \in Nat /\ ch[c].adjust_queue \in Nat
           /\ ch[c].lwin < Word /\ ch[c].rwin < Word /\ ch[c].adjust_queue < Word
           /\ {ch[c].confirmed, ch[c].reof, ch[c].rclose} \subseteq BOOLEAN
<1>1. ch[c] \in ChannelRecords /\ c \in Ids
  BY DEF TypeOK
<1>2. QED BY <1>1, Constants DEF ChannelRecords

\* The sums are natural numbers.
LEMMA ShrinksType ==
    ASSUME TypeOK
    PROVE  /\ outq \in Seq(Packets) /\ inq \in Seq(Packets) /\ brigade \in Seq(Packets)
           /\ \A c : /\ DataOf(outq, c) \in Nat /\ Adjusts(outq, c) \in Nat
                     /\ DataOf(inq, c) \in Nat /\ Adjusts(inq, c) \in Nat
                     /\ DataOf(brigade, c) \in Nat
<1>1. outq \in Seq(Packets) /\ inq \in Seq(Packets) /\ brigade \in Seq(Packets)
  BY DEF TypeOK
<1>2. QED BY <1>1, SumsType

\* A channel of which nothing changes but flags moves.
LEMMA MovesNot ==
    ASSUME TypeOK, NEW c \in DOMAIN ch, Alike(ch'[c], ch[c]),
           Adjusts(outq', c) = Adjusts(outq, c), DataOf(outq', c) = DataOf(outq, c)
    PROVE  Moves(c)
<1>1. /\ ch[c].lwin \in Nat /\ ch[c].rwin \in Nat
      /\ DataOf(outq, c) \in Nat /\ Adjusts(outq, c) \in Nat
  BY ChannelFields, ShrinksType
<1>2. Grants(c)
  <2>1. /\ ch'[c].rwin = ch[c].rwin + 0
        /\ Adjusts(outq', c) = Adjusts(outq, c) + 0
    BY <1>1 DEF Alike
  <2>2. QED BY <2>1 DEF Grants
<1>3. QED BY <1>1, <1>2 DEF Moves, Alike

\* Each kind is local: the first,
LEMMA LocalPlain ==
    ASSUME TypeOK, Plain
    PROVE  Local
<1>1. /\ UNCHANGED <<inq, tcp, peer, noise, ignored>>
      /\ next_channel' = next_channel /\ wrapped' = wrapped
      /\ DOMAIN ch' = DOMAIN ch /\ ch' \in [DOMAIN ch' -> ChannelRecords]
  BY DEF Plain, history
<1>2. Shrinks
  BY ShrinksNot DEF Plain
<1>3. /\ outq' = outq \/ \E p \in Packets : Sent(p) /\ Fits(p)
      /\ \A c : Adjusts(outq', c) = Adjusts(outq, c) /\ DataOf(outq', c) = DataOf(outq, c)
  <2>1. CASE outq' = outq
    BY <2>1
  <2>2. CASE \E p \in Packets :
               p.type \in {"REQUEST", "EXEC", "EOF", "CLOSE"} /\ Sent(p) /\ Begins(p)
    <3>1. PICK p \in Packets :
             p.type \in {"REQUEST", "EXEC", "EOF", "CLOSE"} /\ Sent(p) /\ Begins(p)
      BY <2>2
    <3>2. Fits(p)
      BY <3>1 DEF Fits, Types
    <3>3. ASSUME NEW c
          PROVE  Adjusts(outq', c) = Adjusts(outq, c) /\ DataOf(outq', c) = DataOf(outq, c)
      <4>1. outq \in Seq(Packets) /\ Adjusts(outq, c) \in Nat /\ DataOf(outq, c) \in Nat
        BY ShrinksType
      <4>2. ~IsData(p, c) /\ p.type # "WINDOW_ADJUST"
        BY <3>1 DEF IsData, Types
      <4>3. outq' = Append(outq, p)
        BY <3>1 DEF Sent
      <4>4. /\ Adjusts(Append(outq, p), c) =
                  Adjusts(outq, c) + IF p.type = "WINDOW_ADJUST" /\ p.ch = c THEN p.n ELSE 0
            /\ DataOf(Append(outq, p), c) = DataOf(outq, c) + IF IsData(p, c) THEN p.n ELSE 0
        BY <4>1, SumsAppend
      <4>5. QED BY <4>1, <4>2, <4>3, <4>4
    <3>4. QED BY <3>1, <3>2, <3>3
  <2>3. QED BY <2>1, <2>2 DEF Plain
<1>4. \A c \in DOMAIN ch : Moves(c)
  BY <1>3, MovesNot DEF Plain
<1>5. QED
  BY <1>1, <1>2, <1>3, <1>4 DEF Local, TypeOK

\* the second,
LEMMA LocalForget ==
    ASSUME TypeOK, Forget
    PROVE  Local
<1>1. /\ UNCHANGED <<inq, tcp, peer, noise, ignored>> /\ outq' = outq /\ Shrinks
      /\ next_channel' = next_channel /\ wrapped' = wrapped
  BY DEF Forget, history
<1>2. /\ ch \in [DOMAIN ch -> ChannelRecords] /\ DOMAIN ch \subseteq Ids
      /\ next_channel \in 0 .. MaxChannels /\ wrapped \subseteq Ids
  BY DEF TypeOK
<1>3. /\ DOMAIN ch' \subseteq DOMAIN ch /\ ch' \in [DOMAIN ch' -> ChannelRecords]
      /\ \A c \in DOMAIN ch' : ch'[c] = ch[c]
  <2>1. CASE ch' = ch
    BY <1>2, <2>1
  <2>2. ASSUME NEW c \in Ids, ch' = Unlinked(c)
        PROVE  /\ DOMAIN ch' \subseteq DOMAIN ch /\ ch' \in [DOMAIN ch' -> ChannelRecords]
               /\ \A d \in DOMAIN ch' : ch'[d] = ch[d]
    <3>1. ch' = [d \in DOMAIN ch \ {c} |-> ch[d]]
      BY <2>2 DEF Unlinked
    <3>2. QED BY <1>2, <3>1
  <2>3. QED BY <2>1, <2>2 DEF Forget
<1>4. \A c \in DOMAIN ch' : Alike(ch'[c], ch[c])
  BY <1>3 DEF Alike
<1>5. \A c \in DOMAIN ch' : c \in DOMAIN ch /\ Moves(c)
  BY <1>1, <1>3, <1>4, MovesNot
<1>6. QED
  BY <1>1, <1>2, <1>3, <1>5, Constants DEF Local

\* The packet that grants a window.
LEMMA GrantSums ==
    ASSUME TypeOK, NEW c \in Ids, NEW T \in Nat, Sent(Packet("WINDOW_ADJUST", c, T))
    PROVE  /\ Packet("WINDOW_ADJUST", c, T) \in Packets
           /\ c \in Mine => Fits(Packet("WINDOW_ADJUST", c, T))
           /\ \A d : /\ DataOf(outq', d) = DataOf(outq, d)
                     /\ Adjusts(outq', d) = Adjusts(outq, d) + IF d = c THEN T ELSE 0
<1> DEFINE p == Packet("WINDOW_ADJUST", c, T)
<1>1. p \in Packets /\ p.type = "WINDOW_ADJUST" /\ p.ch = c /\ p.n = T
  <2>1. "WINDOW_ADJUST" \in PacketTypes
    BY DEF PacketTypes
  <2>2. QED BY <2>1, PacketFields
<1>2. outq' = Append(outq, p)
  BY DEF Sent
<1> HIDE DEF p
<1>3. ASSUME NEW d
      PROVE  /\ DataOf(outq', d) = DataOf(outq, d)
             /\ Adjusts(outq', d) = Adjusts(outq, d) + IF d = c THEN T ELSE 0
  <2>1. outq \in Seq(Packets) /\ DataOf(outq, d) \in Nat
    BY ShrinksType
  <2>2. /\ Adjusts(Append(outq, p), d) =
              Adjusts(outq, d) + IF p.type = "WINDOW_ADJUST" /\ p.ch = d THEN p.n ELSE 0
        /\ DataOf(Append(outq, p), d) = DataOf(outq, d) + IF IsData(p, d) THEN p.n ELSE 0
    BY <1>1, <2>1, SumsAppend
  <2>3. ~IsData(p, d)
    BY <1>1 DEF IsData, Types
  <2>4. QED BY <1>1, <1>2, <2>1, <2>2, <2>3
<1>4. c \in Mine => Fits(p)
  BY <1>1 DEF Fits, Begins, Asks
<1>5. QED BY <1>1, <1>3, <1>4 DEF p

\* What receive_window_adjust does to the channels and to what is sent, whether the channel
\* is the program's or data is ignored for it.
LEMMA AdjustMoves ==
    ASSUME TypeOK, NEW c \in DOMAIN ch, NEW mode \in Modes, NEW n \in Nat, NEW chans,
           chans = [ch EXCEPT ![c].mode = mode], AdjustStep(chans, c, n)
    PROVE  /\ DOMAIN ch' = DOMAIN ch /\ ch' \in [DOMAIN ch -> ChannelRecords]
           /\ outq' = outq \/ \E p \in Packets : Sent(p) /\ p.type = "WINDOW_ADJUST" /\ p.ch = c
           /\ \A d \in DOMAIN ch : d # c => Alike(ch'[d], ch[d])
           /\ \A d : /\ DataOf(outq', d) = DataOf(outq, d)
                     /\ d # c => Adjusts(outq', d) = Adjusts(outq, d)
           /\ ch'[c].lwin = ch[c].lwin /\ ch'[c].confirmed = ch[c].confirmed
           /\ ch'[c].reof = ch[c].reof /\ ch'[c].rclose = ch[c].rclose
           /\ wrapped \subseteq wrapped' /\ wrapped' \subseteq wrapped \cup {c}
           /\ c \notin wrapped' => Grants(c)
<1> DEFINE T == (n + chans[c].adjust_queue) % Word
           r == chans[c].rwin
<1>1. /\ ch \in [DOMAIN ch -> ChannelRecords] /\ ch[c] \in ChannelRecords /\ c \in Ids
      /\ chans[c].adjust_queue = ch[c].adjust_queue /\ r = ch[c].rwin
      /\ ch[c].adjust_queue \in Nat /\ ch[c].rwin \in Nat /\ r \in Nat
  <2>1. ch \in [DOMAIN ch -> ChannelRecords] /\ ch[c] \in ChannelRecords /\ c \in Ids
    BY ChannelFields DEF TypeOK
  <2>2. chans[c].adjust_queue = ch[c].adjust_queue /\ r = ch[c].rwin
    BY <2>1 DEF ChannelRecords
  <2>3. QED BY <2>1, <2>2, ChannelFields
<1>2. T \in 0 .. Word - 1 /\ T \in Nat
  <2>1. n + chans[c].adjust_queue \in Int
    BY <1>1
  <2>2. T \in 0 .. Word - 1
    BY <2>1, Modulo
  <2> HIDE DEF T
  <2>3. QED BY <2>2, Constants
<1>3. (r + T) % Word \in 0 .. Word - 1 /\ (r + T < Word => (r + T) % Word = r + T)
  <2>1. r + T \in Int /\ r + T >= 0
    BY <1>1, <1>2
  <2>2. QED BY <2>1, Modulo
<1>4. /\ \A d \in DOMAIN ch : d # c => chans[d] = ch[d]
      /\ chans[c] = [ch[c] EXCEPT !.mode = mode]
      /\ DOMAIN chans = DOMAIN ch
  BY <1>1
<1> DEFINE queued == [ch[c] EXCEPT !.mode = mode, !.adjust_queue = T]
           granted == [ch[c] EXCEPT !.mode = mode, !.adjust_queue = 0,
                                    !.rwin = (r + T) % Word]
<1>5. queued \in ChannelRecords /\ granted \in ChannelRecords
  <2>1. T \in 0 .. Word - 1 /\ 0 \in 0 .. Word - 1 /\ (r + T) % Word \in 0 .. Word - 1
    BY <1>2, <1>3, Constants
  <2> HIDE DEF T, r
  <2>2. QED BY <1>1, <2>1 DEF ChannelRecords
<1>6. /\ queued.lwin = ch[c].lwin /\ queued.confirmed = ch[c].confirmed
      /\ queued.reof = ch[c].reof /\ queued.rclose = ch[c].rclose /\ queued.rwin = r
      /\ granted.lwin = ch[c].lwin /\ granted.confirmed = ch[c].confirmed
      /\ granted.reof = ch[c].reof /\ granted.rclose = ch[c].rclose
      /\ granted.rwin = (r + T) % Word
  BY <1>1 DEF ChannelRecords
<1>7. \/ /\ ch' = [ch EXCEPT ![c] = queued]
         /\ UNCHANGED <<outq, wrapped>>
      \/ /\ ch' = [ch EXCEPT ![c] = granted]
         /\ \/ Sent(Packet("WINDOW_ADJUST", c, T))
            \/ outq' = outq /\ (tcp # "up" \/ T = 0)
         /\ wrapped' = IF r + T >= Word THEN wrapped \cup {c} ELSE wrapped
  <2>1. [chans EXCEPT ![c].adjust_queue = T] = [ch EXCEPT ![c] = queued]
    BY <1>1, <1>4 DEF ChannelRecords
  <2>2. [chans EXCEPT ![c].adjust_queue = 0, ![c].rwin = (@ + T) % Word] =
           [ch EXCEPT ![c] = granted]
    BY <1>1, <1>4 DEF ChannelRecords
  <2>3. QED BY <2>1, <2>2 DEF AdjustStep
<1> HIDE DEF T, r, queued, granted
<1>8. CASE ch' = [ch EXCEPT ![c] = queued] /\ UNCHANGED <<outq, wrapped>>
  <2>1. /\ ch' \in [DOMAIN ch -> ChannelRecords] /\ ch'[c] = queued
        /\ \A d \in DOMAIN ch : d # c => ch'[d] = ch[d]
    BY <1>1, <1>5, <1>8
  <2>2. Grants(c)
    <3>1. ch'[c].rwin = ch[c].rwin + 0 /\ Adjusts(outq', c) = Adjusts(outq, c) + 0
      BY <1>1, <1>6, <1>8, <2>1, ShrinksType
    <3>2. QED BY <3>1 DEF Grants
  <2>3. QED BY <1>6, <1>8, <2>1, <2>2 DEF Alike
<1>9. CASE /\ ch' = [ch EXCEPT ![c] = granted]
           /\ \/ Sent(Packet("WINDOW_ADJUST", c, T))
              \/ outq' = outq /\ (tcp # "up" \/ T = 0)
           /\ wrapped' = IF r + T >= Word THEN wrapped \cup {c} ELSE wrapped
  <2>1. /\ ch' \in [DOMAIN ch -> ChannelRecords] /\ ch'[c] = granted
        /\ \A d \in DOMAIN ch : d # c => ch'[d] = ch[d]
    BY <1>1, <1>5, <1>9
  <2>2. wrapped \subseteq wrapped' /\ wrapped' \subseteq wrapped \cup {c}
        /\ (c \notin wrapped' => ch'[c].rwin = ch[c].rwin + T)
    <3>1. c \notin wrapped' => r + T < Word
      BY <1>1, <1>2, <1>9, Constants
    <3>2. QED BY <1>1, <1>3, <1>6, <1>9, <2>1, <3>1
  <2>3. CASE outq' = outq /\ (tcp # "up" \/ T = 0)
    <3>1. c \notin wrapped' => Grants(c)
      <4>1. T = 0 => Adjusts(outq', c) = Adjusts(outq, c) + T
        BY <2>3, ShrinksType
      <4>2. QED BY <1>2, <2>2, <2>3, <4>1 DEF Grants
    <3>2. QED BY <1>6, <2>1, <2>2, <2>3, <3>1 DEF Alike
  <2>4. CASE Sent(Packet("WINDOW_ADJUST", c, T))
    <3>1. /\ Packet("WINDOW_ADJUST", c, T) \in Packets
          /\ \A d : /\ DataOf(outq', d) = DataOf(outq, d)
                    /\ Adjusts(outq', d) = Adjusts(outq, d) + IF d = c THEN T ELSE 0
      BY <1>1, <1>2, <2>4, GrantSums
    <3>2. c \notin wrapped' => Grants(c)
      BY <1>2, <2>2, <3>1 DEF Grants
    <3>3. Packet("WINDOW_ADJUST", c, T).type = "WINDOW_ADJUST"
          /\ Packet("WINDOW_ADJUST", c, T).ch = c
      BY DEF Packet
    <3>4. \A d : d # c => Adjusts(outq', d) = Adjusts(outq, d)
      BY <3>1, ShrinksType
    <3>5. QED BY <1>6, <2>1, <2>2, <2>4, <3>1, <3>2, <3>3, <3>4 DEF Alike
  <2>5. QED BY <1>9, <2>3, <2>4
<1>10. QED BY <1>7, <1>8, <1>9

\* the third,
LEMMA LocalGranting ==
    ASSUME TypeOK, Granting
    PROVE  Local
<1>1. PICK c \in Mine, mode \in Modes, n \in Nat :
         LET chans == [ch EXCEPT ![c].mode = mode]
         IN  /\ \/ AdjustStep(chans, c, n)
                \/ ch' = chans /\ UNCHANGED <<outq, wrapped>>
             /\ Shrinks
             /\ UNCHANGED <<next_channel, inq, tcp, peer, noise, ignored>>
  BY DEF Granting
<1> DEFINE chans == [ch EXCEPT ![c].mode = mode]
<1>2. /\ AdjustStep(chans, c, n) \/ (ch' = chans /\ UNCHANGED <<outq, wrapped>>)
      /\ Shrinks
      /\ UNCHANGED <<next_channel, inq, tcp, peer, noise, ignored>>
  BY <1>1
<1>3. /\ ch \in [DOMAIN ch -> ChannelRecords] /\ DOMAIN ch \subseteq Ids
      /\ next_channel \in 0 .. MaxChannels /\ wrapped \subseteq Ids
      /\ c \in DOMAIN ch /\ ch[c].confirmed /\ c \in Ids
  BY DEF TypeOK, Mine
<1>4. chans \in [DOMAIN ch -> ChannelRecords]
  BY ModeSet
<1>5. CASE ch' = chans /\ UNCHANGED <<outq, wrapped>>
  <2>1. ASSUME NEW d \in DOMAIN ch PROVE Alike(ch'[d], ch[d])
    <3>1. ch[d] \in ChannelRecords
      BY <1>3
    <3>2. CASE d = c
      <4>1. ch'[d] = [ch[d] EXCEPT !.mode = mode]
        BY <1>3, <1>5, <3>2
      <4>2. QED BY <3>1, <4>1 DEF Alike, ChannelRecords
    <3>3. CASE d # c
      BY <1>3, <1>5, <3>3 DEF Alike
    <3>4. QED BY <3>2, <3>3
  <2>2. \A d \in DOMAIN ch : Moves(d)
    BY <1>5, <2>1, MovesNot
  <2>3. QED BY <1>2, <1>3, <1>4, <1>5, <2>2, Constants DEF Local
<1>6. CASE AdjustStep(chans, c, n)
  <2>1. chans = [ch EXCEPT ![c].mode = mode]
    OBVIOUS
  <2> HIDE DEF chans
  <2>2. /\ DOMAIN ch' = DOMAIN ch /\ ch' \in [DOMAIN ch -> ChannelRecords]
        /\ outq' = outq \/ \E p \in Packets : Sent(p) /\ p.type = "WINDOW_ADJUST" /\ p.ch = c
        /\ \A d \in DOMAIN ch : d # c => Alike(ch'[d], ch[d])
        /\ \A d : /\ DataOf(outq', d) = DataOf(outq, d)
                  /\ d # c => Adjusts(outq', d) = Adjusts(outq, d)
        /\ ch'[c].lwin = ch[c].lwin /\ ch'[c].confirmed = ch[c].confirmed
        /\ ch'[c].reof = ch[c].reof /\ ch'[c].rclose = ch[c].rclose
        /\ wrapped \subseteq wrapped' /\ wrapped' \subseteq wrapped \cup {c}
        /\ c \notin wrapped' => Grants(c)
    BY <1>3, <1>6, <2>1, AdjustMoves
  <2>3. outq' = outq \/ \E p \in Packets : Sent(p) /\ Fits(p)
    <3>1. \A p : p.type = "WINDOW_ADJUST" /\ p.ch = c => Fits(p)
      BY DEF Fits, Begins, Asks
    <3>2. QED BY <2>2, <3>1
  <2>4. Moves(c)
    <3>1. ch[c].lwin \in Nat /\ DataOf(outq, c) \in Nat
      BY <1>3, ChannelFields, ShrinksType
    <3>2. QED BY <1>3, <2>2, <3>1 DEF Moves
  <2>5. \A d \in DOMAIN ch : d # c => Moves(d)
    BY <2>2, MovesNot
  <2>6. \A d \in DOMAIN ch' : d \in DOMAIN ch /\ Moves(d)
    BY <2>2, <2>4, <2>5
  <2>7. wrapped' \subseteq Ids /\ wrapped \subseteq wrapped'
    BY <1>3, <2>2
  <2>8. next_channel' \in 0 .. MaxChannels /\ next_channel <= next_channel'
    BY <1>2, <1>3, Constants
  <2>9. UNCHANGED <<inq, tcp, peer, noise, ignored>>
    BY <1>2
  <2>10. DOMAIN ch' \subseteq Ids /\ ch' \in [DOMAIN ch' -> ChannelRecords]
    BY <1>3, <2>2
  <2>11. QED BY <1>2, <2>3, <2>6, <2>7, <2>8, <2>9, <2>10 DEF Local
<1>7. QED BY <1>2, <1>5, <1>6

\* the fourth,
LEMMA LocalOpening ==
    ASSUME TypeOK, Connection, Opening
    PROVE  Local
<1>1. /\ next_channel \in Ids /\ next_channel' = next_channel + 1
      /\ UNCHANGED <<brigade, inq, tcp, peer, noise, history>>
  BY DEF Opening
<1>2. /\ ch \in [DOMAIN ch -> ChannelRecords] /\ DOMAIN ch \subseteq Ids /\ wrapped \subseteq Ids
      /\ next_channel \notin DOMAIN ch
  BY <1>1, Constants DEF TypeOK, Connection
<1>3. Shrinks
  BY <1>1, ShrinksNot
<1>4. next_channel' \in 0 .. MaxChannels /\ next_channel <= next_channel'
  BY <1>1, Constants DEF Ids
<1>5. UNCHANGED <<inq, tcp, peer, noise, ignored>> /\ wrapped' = wrapped
  BY <1>1 DEF history
<1>6. NewChannel \in ChannelRecords
  <2>1. WindowDefault \in 0 .. Word - 1 /\ 0 \in 0 .. Word - 1
    BY Constants
  <2>2. "NORMAL" \in Modes
    BY DEF Modes
  <2>3. QED BY <2>1, <2>2 DEF NewChannel, ChannelRecords
<1> DEFINE p == Packet("OPEN", next_channel, WindowDefault)
<1>7. p \in Packets /\ p.type = "OPEN" /\ p.ch = next_channel /\ p.n = WindowDefault
  <2>1. "OPEN" \in PacketTypes /\ WindowDefault \in Nat
    BY Constants DEF PacketTypes
  <2>2. QED BY <1>1, <2>1, PacketFields
<1>8. Begins(p) => Fits(p)
  BY <1>1, <1>7 DEF Fits, Types
<1>9. outq' = outq \/ (Sent(p) /\ Begins(p))
  BY DEF Opening
<1>10. /\ DOMAIN ch' \subseteq Ids /\ ch' \in [DOMAIN ch' -> ChannelRecords]
       /\ \A c \in DOMAIN ch' : IF c \in DOMAIN ch THEN ch'[c] = ch[c]
                                ELSE ch'[c] = NewChannel /\ c = next_channel
  BY <1>1, <1>2, <1>6 DEF Opening
<1> HIDE DEF p
<1>11. \A c : Adjusts(outq', c) = Adjusts(outq, c) /\ DataOf(outq', c) = DataOf(outq, c)
  <2>1. CASE outq' = outq
    BY <2>1
  <2>2. CASE Sent(p)
    <3>1. TAKE c
    <3>2. outq \in Seq(Packets) /\ Adjusts(outq, c) \in Nat /\ DataOf(outq, c) \in Nat
      BY ShrinksType
    <3>3. outq' = Append(outq, p)
      BY <2>2 DEF Sent
    <3>4. /\ Adjusts(Append(outq, p), c) =
                Adjusts(outq, c) + IF p.type = "WINDOW_ADJUST" /\ p.ch = c THEN p.n ELSE 0
          /\ DataOf(Append(outq, p), c) = DataOf(outq, c) + IF IsData(p, c) THEN p.n ELSE 0
      BY <1>7, <3>2, SumsAppend
    <3>5. ~IsData(p, c) /\ p.type # "WINDOW_ADJUST"
      BY <1>7 DEF IsData, Types
    <3>6. QED BY <3>2, <3>3, <3>4, <3>5
  <2>3. QED BY <1>9, <2>1, <2>2
<1>12. ASSUME NEW c \in DOMAIN ch'
       PROVE  IF c \in DOMAIN ch THEN Moves(c) ELSE Fresh(c)
  <2>1. CASE c \in DOMAIN ch
    <3>1. Alike(ch'[c], ch[c])
      BY <1>10, <2>1 DEF Alike
    <3>2. QED BY <1>11, <2>1, <3>1, MovesNot
  <2>2. CASE c \notin DOMAIN ch
    BY <1>1, <1>10, <2>2 DEF Fresh
  <2>3. QED BY <2>1, <2>2
<1>13. QED
  BY <1>2, <1>3, <1>4, <1>5, <1>7, <1>8, <1>9, <1>10, <1>12 DEF Local

\* the fifth,
LEMMA LocalConfirming ==
    ASSUME TypeOK, Confirming,
           \A i \in DOMAIN brigade :
              brigade[i].type = "OPEN_CONFIRMATION" => brigade[i].n = PeerWindow
    PROVE  Local
<1>1. PICK k \in DOMAIN brigade :
         /\ brigade[k].type = "OPEN_CONFIRMATION" /\ brigade[k].ch \in DOMAIN ch
         /\ ~ch[brigade[k].ch].confirmed
         /\ brigade' = Without(brigade, k)
         /\ ch' = [ch EXCEPT ![brigade[k].ch].lwin = brigade[k].n,
                             ![brigade[k].ch].confirmed = TRUE]
         /\ UNCHANGED <<next_channel, outq, inq, tcp, peer, noise, history>>
  BY DEF Confirming
<1> DEFINE c == brigade[k].ch
           r == [ch[c] EXCEPT !.lwin = PeerWindow, !.confirmed = TRUE]
<1>2. /\ ch \in [DOMAIN ch -> ChannelRecords] /\ DOMAIN ch \subseteq Ids /\ wrapped \subseteq Ids
      /\ next_channel \in 0 .. MaxChannels /\ c \in DOMAIN ch /\ ch[c] \in ChannelRecords
  BY <1>1 DEF TypeOK
<1>3. ch' = [ch EXCEPT ![c] = r] /\ ~ch[c].confirmed
  BY <1>1, <1>2
<1>4. /\ r \in ChannelRecords /\ r.rwin = ch[c].rwin /\ r.reof = ch[c].reof
      /\ r.rclose = ch[c].rclose /\ r.lwin = PeerWindow
  <2>1. PeerWindow \in 0 .. Word - 1
    BY Constants
  <2> HIDE DEF c
  <2>2. QED BY <1>2, <2>1 DEF ChannelRecords
<1>5. brigade[k].type = "OPEN_CONFIRMATION" /\ brigade[k].ch = c /\ brigade[k].n = PeerWindow
  BY <1>1
<1>6. Shrinks
  BY <1>1, ShrinksWithout
<1> HIDE DEF c, r
<1>7. /\ ch' \in [DOMAIN ch -> ChannelRecords] /\ ch'[c] = r
      /\ \A d \in DOMAIN ch : d # c => ch'[d] = ch[d]
  BY <1>2, <1>3, <1>4
<1>8. outq' = outq /\ UNCHANGED <<inq, tcp, peer, noise, ignored>> /\ wrapped' = wrapped
      /\ next_channel' = next_channel
  BY <1>1 DEF history
<1>9. Moves(c)
  <2>1. ch'[c].rwin = ch[c].rwin + 0 /\ Adjusts(outq', c) = Adjusts(outq, c) + 0
    BY <1>2, <1>4, <1>7, <1>8, ShrinksType, ChannelFields
  <2>2. Grants(c)
    BY <2>1 DEF Grants
  <2>3. Confirms(c)
    BY <1>4, <1>5, <1>7, <1>8 DEF Confirms
  <2>4. QED BY <1>3, <1>4, <1>7, <2>2, <2>3 DEF Moves
<1>10. ASSUME NEW d \in DOMAIN ch, d # c PROVE Moves(d)
  <2>1. Alike(ch'[d], ch[d])
    BY <1>7, <1>10 DEF Alike
  <2>2. QED BY <1>8, <2>1, MovesNot
<1>11. DOMAIN ch' \subseteq Ids /\ ch' \in [DOMAIN ch' -> ChannelRecords]
       /\ \A d \in DOMAIN ch' : d \in DOMAIN ch /\ Moves(d)
  BY <1>2, <1>7, <1>9, <1>10
<1>12. QED
  BY <1>2, <1>6, <1>8, <1>11, Constants DEF Local

\* the sixth,
LEMMA LocalWriting ==
    ASSUME TypeOK, Writing
    PROVE  Local
<1>1. PICK c \in Mine, n \in Nat :
         /\ n <= ch[c].lwin
         /\ \/ ch' = ch /\ outq' = outq
            \/ /\ ch' = [ch EXCEPT ![c].lwin = @ - n]
               /\ outq' = outq \/ Sent(Data(0, c, [i \in 1 .. n |-> 0]))
         /\ UNCHANGED <<next_channel, brigade, inq, tcp, peer, noise, history>>
  BY DEF Writing
<1> DEFINE p == Data(0, c, [i \in 1 .. n |-> 0])
           r == [ch[c] EXCEPT !.lwin = @ - n]
<1>2. /\ ch \in [DOMAIN ch -> ChannelRecords] /\ DOMAIN ch \subseteq Ids /\ wrapped \subseteq Ids
      /\ next_channel \in 0 .. MaxChannels /\ c \in DOMAIN ch /\ ch[c] \in ChannelRecords
      /\ ch[c].confirmed /\ c \in Ids
  BY DEF TypeOK, Mine
<1>3. ch[c].lwin \in Nat /\ ch[c].lwin < Word /\ ch[c].rwin \in Nat
  BY <1>2, ChannelFields
<1>4. /\ r \in ChannelRecords /\ r.rwin = ch[c].rwin /\ r.reof = ch[c].reof
      /\ r.rclose = ch[c].rclose /\ r.lwin = ch[c].lwin - n /\ r.confirmed = ch[c].confirmed
      /\ r.adjust_queue = ch[c].adjust_queue
  <2>1. ch[c].lwin - n \in 0 .. Word - 1
    BY <1>1, <1>3, Constants
  <2>2. QED BY <1>2, <2>1 DEF ChannelRecords
<1>5. /\ p \in Packets /\ p.type = "DATA" /\ p.ch = c /\ p.n = n
  <2>1. [i \in 1 .. n |-> 0] \in Seq(Nat) /\ Len([i \in 1 .. n |-> 0]) = n
    OBVIOUS
  <2> DEFINE zeros == [i \in 1 .. n |-> 0]
  <2> HIDE DEF zeros
  <2>2. zeros \in Seq(Nat) /\ Len(zeros) = n
    BY <2>1 DEF zeros
  <2>3. /\ Data(0, c, zeros) \in Packets
        /\ Data(0, c, zeros).type = "DATA" /\ Data(0, c, zeros).ch = c
        /\ Data(0, c, zeros).n = n
    BY <1>2, <2>2, DataFields
  <2>4. QED BY <2>3 DEF zeros
<1>6. Shrinks
  BY <1>1, ShrinksNot
<1>7. UNCHANGED <<inq, tcp, peer, noise, ignored>> /\ wrapped' = wrapped
      /\ next_channel' = next_channel
  BY <1>1 DEF history
<1>8. CASE ch' = ch /\ outq' = outq
  <2>1. \A d \in DOMAIN ch : Alike(ch'[d], ch[d])
    BY <1>8 DEF Alike
  <2>2. \A d \in DOMAIN ch : Moves(d)
    BY <1>8, <2>1, MovesNot
  <2>3. QED BY <1>2, <1>6, <1>7, <1>8, <2>2, Constants DEF Local
<1>9. CASE /\ ch' = [ch EXCEPT ![c].lwin = @ - n]
           /\ outq' = outq \/ Sent(p)
  <2>1. ch' = [ch EXCEPT ![c] = r]
    BY <1>9
  <2> HIDE DEF p, r
  <2>2. /\ ch' \in [DOMAIN ch -> ChannelRecords] /\ ch'[c] = r
        /\ \A d \in DOMAIN ch : d # c => ch'[d] = ch[d]
    BY <1>2, <1>4, <2>1
  <2>3. ASSUME NEW d
        PROVE  /\ Adjusts(outq', d) = Adjusts(outq, d)
               /\ d # c => DataOf(outq', d) = DataOf(outq, d)
               /\ DataOf(outq', d) <= DataOf(outq, d) + n
    <3>1. outq \in Seq(Packets) /\ Adjusts(outq, d) \in Nat /\ DataOf(outq, d) \in Nat
      BY ShrinksType
    <3>2. /\ Adjusts(Append(outq, p), d) =
                Adjusts(outq, d) + IF p.type = "WINDOW_ADJUST" /\ p.ch = d THEN p.n ELSE 0
          /\ DataOf(Append(outq, p), d) = DataOf(outq, d) + IF IsData(p, d) THEN p.n ELSE 0
      BY <1>5, <3>1, SumsAppend
    <3>3. p.type # "WINDOW_ADJUST" /\ (IsData(p, d) => d = c)
      BY <1>5 DEF IsData
    <3>4. outq' = outq \/ outq' = Append(outq, p)
      BY <1>9 DEF Sent
    <3>5. CASE outq' = outq
      BY <3>1, <3>5
    <3>6. CASE outq' = Append(outq, p) /\ IsData(p, d)
      <4>1. DataOf(outq', d) = DataOf(outq, d) + n /\ d = c
        BY <1>5, <3>2, <3>3, <3>6
      <4>2. Adjusts(outq', d) = Adjusts(outq, d) + 0
        BY <3>2, <3>3, <3>6
      <4>3. QED BY <3>1, <4>1, <4>2
    <3>7. CASE outq' = Append(outq, p) /\ ~IsData(p, d)
      <4>1. DataOf(outq', d) = DataOf(outq, d) + 0 /\ Adjusts(outq', d) = Adjusts(outq, d) + 0
        BY <3>2, <3>3, <3>7
      <4>2. QED BY <3>1, <4>1
    <3>8. QED BY <3>4, <3>5, <3>6, <3>7
  <2>4. Moves(c)
    <3>1. ch'[c].rwin = ch[c].rwin + 0 /\ Adjusts(outq', c) = Adjusts(outq, c) + 0
      BY <1>3, <1>4, <2>2, <2>3, ShrinksType
    <3>2. Grants(c)
      BY <3>1 DEF Grants
    <3>3. ch'[c].lwin + DataOf(outq', c) <= ch[c].lwin + DataOf(outq, c)
      <4>1. ch'[c].lwin = ch[c].lwin - n
        BY <1>4, <2>2
      <4>2. /\ DataOf(outq', c) <= DataOf(outq, c) + n /\ DataOf(outq, c) \in Nat
            /\ DataOf(outq', c) \in Nat
        <5>1. outq' \in Seq(Packets)
          <6>1. outq \in Seq(Packets) /\ Append(outq, p) \in Seq(Packets)
            BY <1>5, ShrinksType
          <6>2. QED BY <1>9, <6>1 DEF Sent
        <5>2. QED BY <2>3, <5>1, ShrinksType, SumsType
      <4>3. QED BY <1>3, <4>1, <4>2
    <3>4. QED BY <1>2, <1>4, <2>2, <3>2, <3>3 DEF Moves
  <2>5. ASSUME NEW d \in DOMAIN ch, d # c PROVE Moves(d)
    <3>1. Alike(ch'[d], ch[d])
      BY <2>2, <2>5 DEF Alike
    <3>2. QED BY <2>3, <2>5, <3>1, MovesNot
  <2>6. DOMAIN ch' \subseteq Ids /\ ch' \in [DOMAIN ch' -> ChannelRecords]
        /\ \A d \in DOMAIN ch' : d \in DOMAIN ch /\ Moves(d)
    BY <1>2, <2>2, <2>4, <2>5
  <2>7. outq' = outq \/ \E q \in Packets : Sent(q) /\ Fits(q)
    <3>1. Fits(p)
      BY <1>5 DEF Fits, Begins, Asks
    <3>2. QED BY <1>5, <1>9, <3>1
  <2>8. QED BY <1>2, <1>6, <1>7, <2>6, <2>7, Constants DEF Local
<1>10. QED BY <1>1, <1>8, <1>9

\* and so all of them.
LEMMA LocalKinds ==
    ASSUME TypeOK, Connection, Kinds,
           \A i \in DOMAIN brigade :
              brigade[i].type = "OPEN_CONFIRMATION" => brigade[i].n = PeerWindow
    PROVE  Local
  BY LocalPlain, LocalForget, LocalGranting, LocalOpening, LocalConfirming, LocalWriting
     DEF Kinds

----------------------------------------------------------------------------
(* What packet_add does                                                    *)

\* A packet more, a packet less.
LEMMA AppendIs ==
    ASSUME NEW packets \in Seq(Packets), NEW p \in Packets
    PROVE  /\ Append(packets, p) \in Seq(Packets)
           /\ Len(Append(packets, p)) = Len(packets) + 1 /\ Len(packets) \in Nat
           /\ DOMAIN packets = 1 .. Len(packets)
           /\ DOMAIN Append(packets, p) = 1 .. Len(packets) + 1
           /\ \A i \in DOMAIN Append(packets, p) :
                 \/ i \in DOMAIN packets /\ Append(packets, p)[i] = packets[i]
                 \/ i = Len(packets) + 1 /\ Append(packets, p)[i] = p
           /\ \A i \in DOMAIN packets : packets[i] \in Packets
  OBVIOUS

\* Taken from the head.
LEMMA TailIs ==
    ASSUME NEW packets \in Seq(Packets), packets # <<>>
    PROVE  /\ Tail(packets) \in Seq(Packets) /\ Head(packets) \in Packets
           /\ 1 \in DOMAIN packets /\ Head(packets) = packets[1]
           /\ DOMAIN packets \subseteq Nat
           /\ \A i \in DOMAIN Tail(packets) :
                 i + 1 \in DOMAIN packets /\ Tail(packets)[i] = packets[i + 1]
  OBVIOUS

\* The channel is not concerned; or takes n bytes of data.
Still(c) ==
    /\ ch'[c].rwin = ch[c].rwin /\ ch'[c].adjust_queue = ch[c].adjust_queue
    /\ Keeps(c) /\ Adjusts(outq', c) = Adjusts(outq, c)
Takes(c, n) ==
    /\ ch'[c].rwin = ch[c].rwin - n /\ ch'[c].adjust_queue = ch[c].adjust_queue
    /\ DataOf(brigade', c) = DataOf(brigade, c) + n /\ Adjusts(outq', c) = Adjusts(outq, c)
\* What a packet does to a channel, to the brigade, and what is sent for it.
Hears(c, p) ==
    /\ ch'[c].confirmed = ch[c].confirmed
    /\ ch'[c].reof => ch[c].reof \/ (p.type = "EOF" /\ p.ch = c)
    /\ ch[c].rclose => ch'[c].rclose
    /\ ch'[c].rclose => ch[c].rclose \/ (p.type = "CLOSE" /\ p.ch = c)
    /\ ch'[c].lwin <= ch[c].lwin + IF p.type = "WINDOW_ADJUST" /\ p.ch = c THEN p.n ELSE 0
    /\ ~IsData(p, c) => Still(c)
    /\ IsData(p, c) => \/ c \in ignored' /\ (c \notin wrapped' => Grants(c))
                       \/ p.n <= PacketDefault /\ p.n <= ch[c].rwin => Takes(c, p.n)

\* What is put into the brigade is the packet, or what the window leaves of its data.
Files(p) ==
    \/ brigade' = brigade /\ p.type \notin Answering
    \/ \E q \in Packets :
          /\ brigade' = Append(brigade, q)
          /\ q.type = p.type /\ q.ch = p.ch
          /\ IF q.type \in Types THEN q.n <= PacketDefault /\ Len(q.bytes) <= q.n ELSE q = p
Replied(p) ==
    \/ outq' = outq
    \/ \E q \in Packets : /\ Sent(q) /\ q.type \in {"WINDOW_ADJUST", "OPEN_FAILURE"}
                          /\ q.type = "WINDOW_ADJUST" => IsData(p, q.ch) /\ q.ch \in DOMAIN ch
\* packet_add.
Filed(p) ==
    /\ socket_state' = IF p.type = "DISCONNECT" THEN "DISCONNECTED" ELSE socket_state
    /\ DOMAIN ch' = DOMAIN ch /\ ch' \in [DOMAIN ch -> ChannelRecords]
    /\ Files(p)
    /\ Replied(p)
    /\ \A c : DataOf(outq', c) = DataOf(outq, c)
    /\ wrapped \subseteq wrapped' /\ ignored \subseteq ignored'
    /\ wrapped' \cup ignored' \subseteq Ids
    /\ \A c \in DOMAIN ch : Hears(c, p)

\* Nothing is put into the brigade, and no channel changes.
LEMMA FiledNothing ==
    ASSUME TypeOK, NEW p \in Packets, AddDisconnect(p) \/ AddNothing(p)
    PROVE  Filed(p)
<1>1. /\ ch' = ch /\ brigade' = brigade /\ outq' = outq /\ ignored' = ignored
      /\ wrapped' = wrapped
      /\ socket_state' = IF p.type = "DISCONNECT" THEN "DISCONNECTED" ELSE socket_state
      /\ p.type \notin Answering
  BY DEF AddDisconnect, AddNothing, Types, Answering
<1>2. ASSUME NEW c \in DOMAIN ch PROVE ~IsData(p, c)
  BY DEF AddDisconnect, AddNothing, IsData, Known, Types
<1>3. \A c \in DOMAIN ch : Still(c)
  BY <1>1 DEF Still, Keeps
<1>4. ASSUME NEW c \in DOMAIN ch PROVE Hears(c, p)
  <2>1. ch[c].lwin \in Nat /\ p.n \in Nat
    BY ChannelFields DEF Packets
  <2>2. ch'[c].lwin <= ch[c].lwin + IF p.type = "WINDOW_ADJUST" /\ p.ch = c THEN p.n ELSE 0
    BY <1>1, <2>1
  <2>3. QED BY <1>1, <1>2, <1>3, <2>2 DEF Hears
<1>5. ch \in [DOMAIN ch -> ChannelRecords] /\ wrapped \cup ignored \subseteq Ids
  BY DEF TypeOK
<1>6. QED BY <1>1, <1>4, <1>5 DEF Filed, Files, Replied

\* packet_add answers a channel the server wants to open.
LEMMA FiledOpen ==
    ASSUME TypeOK, NEW p \in Packets, AddOpen(p)
    PROVE  Filed(p)
<1>1. /\ ch' = ch /\ brigade' = brigade /\ ignored' = ignored
      /\ wrapped' = wrapped /\ socket_state' = socket_state
      /\ p.type = "OPEN_FORWARDED"
  BY DEF AddOpen
<1> DEFINE q == Packet("OPEN_FAILURE", p.ch, 0)
<1>2. q \in Packets /\ q.type = "OPEN_FAILURE"
  <2>1. "OPEN_FAILURE" \in PacketTypes /\ p.ch \in Ids /\ 0 \in Nat
    BY DEF PacketTypes, Packets
  <2>2. QED BY <2>1, PacketFields
<1>3. outq' = outq \/ Sent(q)
  <2>1. PICK ok \in SendResults : outq' = Out(q, ok)
    BY DEF AddOpen
  <2>2. QED BY <2>1 DEF Out, Sent
<1> HIDE DEF q
<1>4. ASSUME NEW c
      PROVE  DataOf(outq', c) = DataOf(outq, c) /\ Adjusts(outq', c) = Adjusts(outq, c)
  <2>1. outq \in Seq(Packets) /\ Adjusts(outq, c) \in Nat /\ DataOf(outq, c) \in Nat
    BY ShrinksType
  <2>2. /\ Adjusts(Append(outq, q), c) =
              Adjusts(outq, c) + IF q.type = "WINDOW_ADJUST" /\ q.ch = c THEN q.n ELSE 0
        /\ DataOf(Append(outq, q), c) = DataOf(outq, c) + IF IsData(q, c) THEN q.n ELSE 0
    BY <1>2, <2>1, SumsAppend
  <2>3. ~IsData(q, c) /\ q.type # "WINDOW_ADJUST"
    BY <1>2 DEF IsData, Types
  <2>4. DataOf(Append(outq, q), c) = DataOf(outq, c) /\ Adjusts(Append(outq, q), c) = Adjusts(outq, c)
    BY <2>1, <2>2, <2>3
  <2>5. QED BY <1>3, <2>4 DEF Sent
<1>5. ASSUME NEW c \in DOMAIN ch PROVE Hears(c, p)
  <2>1. ch[c].lwin \in Nat /\ ch'[c].lwin = ch[c].lwin
    BY <1>1, ChannelFields
  <2>2. ch'[c].lwin <= ch[c].lwin + IF p.type = "WINDOW_ADJUST" /\ p.ch = c THEN p.n ELSE 0
    BY <1>1, <2>1
  <2>3. ~IsData(p, c) /\ Still(c)
    BY <1>1, <1>4 DEF IsData, Types, Still, Keeps
  <2>4. QED BY <1>1, <2>2, <2>3 DEF Hears
<1>6. ch \in [DOMAIN ch -> ChannelRecords] /\ wrapped \cup ignored \subseteq Ids
  BY DEF TypeOK
<1>7. p.type \notin Answering /\ p.type # "DISCONNECT"
  BY <1>1 DEF Answering
<1>8. Replied(p)
  BY <1>2, <1>3 DEF Replied
<1>9. QED BY <1>1, <1>4, <1>5, <1>6, <1>7, <1>8 DEF Filed, Files

\* A channel hears of the end of the data, of the exit status, of the end, or of a window.
LEMMA FiledChannel ==
    ASSUME TypeOK, NEW p \in Packets,
           AddEof(p) \/ AddExitStatus(p) \/ AddClose(p) \/ AddWindowAdjust(p)
    PROVE  Filed(p)
<1> DEFINE c == p.ch
           T == (ch[c].lwin + p.n) % Word
<1>1. /\ brigade' = brigade /\ outq' = outq /\ ignored' = ignored /\ wrapped' = wrapped
      /\ socket_state' = socket_state /\ c \in DOMAIN ch
      /\ p.type \in {"EOF", "EXIT_STATUS", "CLOSE", "WINDOW_ADJUST"}
  BY DEF AddEof, AddExitStatus, AddClose, AddWindowAdjust, Known
<1>2. /\ ch \in [DOMAIN ch -> ChannelRecords] /\ ch[c] \in ChannelRecords
      /\ ch[c].lwin \in Nat /\ p.n \in Nat
  BY <1>1, ChannelFields DEF TypeOK, Packets
<1>3. T \in 0 .. Word - 1 /\ T <= ch[c].lwin + p.n
  <2>1. ch[c].lwin + p.n \in Int /\ ch[c].lwin + p.n >= 0
    BY <1>2
  <2>2. QED BY <2>1, Modulo
<1> HIDE DEF T
<1> DEFINE r == CASE p.type = "EOF" -> [ch[c] EXCEPT !.reof = TRUE]
                  [] p.type = "EXIT_STATUS" -> [ch[c] EXCEPT !.exit_status = p.n]
                  [] p.type = "CLOSE" -> [ch[c] EXCEPT !.rclose = TRUE]
                  [] p.type = "WINDOW_ADJUST" -> [ch[c] EXCEPT !.lwin = T]
<1>4. /\ r \in ChannelRecords
      /\ r.confirmed = ch[c].confirmed /\ r.rwin = ch[c].rwin
      /\ r.adjust_queue = ch[c].adjust_queue
      /\ r.reof => ch[c].reof \/ p.type = "EOF"
      /\ ch[c].rclose => r.rclose
      /\ r.rclose => ch[c].rclose \/ p.type = "CLOSE"
      /\ r.lwin <= ch[c].lwin + IF p.type = "WINDOW_ADJUST" THEN p.n ELSE 0
  <2> HIDE DEF c
  <2>1. CASE p.type = "EOF"
    <3>1. r = [ch[c] EXCEPT !.reof = TRUE]
      BY <2>1
    <3> HIDE DEF r
    <3>2. ch[c].lwin <= ch[c].lwin + 0
      BY <1>2
    <3>3. QED BY <1>2, <2>1, <3>1, <3>2 DEF ChannelRecords
  <2>2. CASE p.type = "EXIT_STATUS"
    <3>1. r = [ch[c] EXCEPT !.exit_status = p.n]
      BY <2>2
    <3> HIDE DEF r
    <3>2. ch[c].lwin <= ch[c].lwin + 0
      BY <1>2
    <3>3. QED BY <1>2, <2>2, <3>1, <3>2 DEF ChannelRecords
  <2>3. CASE p.type = "CLOSE"
    <3>1. r = [ch[c] EXCEPT !.rclose = TRUE]
      BY <2>3
    <3> HIDE DEF r
    <3>2. ch[c].lwin <= ch[c].lwin + 0
      BY <1>2
    <3>3. QED BY <1>2, <2>3, <3>1, <3>2 DEF ChannelRecords
  <2>4. CASE p.type = "WINDOW_ADJUST"
    <3>1. r = [ch[c] EXCEPT !.lwin = T]
      BY <2>4
    <3> HIDE DEF r
    <3>2. QED BY <1>2, <1>3, <2>4, <3>1 DEF ChannelRecords
  <2>5. QED BY <1>1, <2>1, <2>2, <2>3, <2>4
<1>5. ch' = [ch EXCEPT ![c] = r]
  <2>1. CASE AddEof(p)
    BY <2>1 DEF AddEof
  <2>2. CASE AddExitStatus(p)
    BY <2>2 DEF AddExitStatus
  <2>3. CASE AddClose(p)
    BY <2>3 DEF AddClose
  <2>4. CASE AddWindowAdjust(p)
    BY <2>4 DEF AddWindowAdjust, T
  <2>5. QED BY <2>1, <2>2, <2>3, <2>4
<1> HIDE DEF r
<1>6. /\ ch' \in [DOMAIN ch -> ChannelRecords] /\ ch'[c] = r
      /\ \A d \in DOMAIN ch : d # c => ch'[d] = ch[d]
  BY <1>1, <1>2, <1>4, <1>5
<1>7. ASSUME NEW d \in DOMAIN ch PROVE Hears(d, p)
  <2>1. ~IsData(p, d)
    BY <1>1 DEF IsData, Types
  <2>2. Still(d)
    BY <1>1, <1>4, <1>6 DEF Still, Keeps
  <2>3. CASE d = c
    BY <1>4, <1>6, <2>1, <2>2, <2>3 DEF Hears
  <2>4. CASE d # c
    <3>1. ch'[d] = ch[d] /\ ch[d].lwin \in Nat
      BY <1>6, <2>4, ChannelFields
    <3>2. ch'[d].lwin <= ch[d].lwin + IF p.type = "WINDOW_ADJUST" /\ p.ch = d THEN p.n ELSE 0
      BY <2>4, <3>1
    <3>3. QED BY <2>1, <2>2, <3>1, <3>2 DEF Hears
  <2>5. QED BY <2>3, <2>4
<1>8. p.type \notin Answering /\ p.type # "DISCONNECT"
  BY <1>1 DEF Answering
<1>9. wrapped \cup ignored \subseteq Ids
  BY DEF TypeOK
<1>10. QED BY <1>1, <1>6, <1>7, <1>8, <1>9 DEF Filed, Files, Replied

\* Anything else that is waited for is put into the brigade as it is.
LEMMA FiledToBrigade ==
    ASSUME TypeOK, NEW p \in Packets, AddToBrigade(p)
    PROVE  Filed(p)
<1>1. /\ ch' = ch /\ brigade' = Append(brigade, p) /\ ignored' = ignored
      /\ wrapped' = wrapped /\ socket_state' = socket_state /\ outq' = outq
      /\ p.type \in {"OPEN_CONFIRMATION", "OPEN_FAILURE", "SUCCESS", "FAILURE", "OPEN_OTHER"}
  BY DEF AddToBrigade
<1>2. \A c : Keeps(c)
  <2>1. TAKE c
  <2>2. brigade \in Seq(Packets) /\ DataOf(brigade, c) \in Nat
    BY ShrinksType
  <2>3. DataOf(Append(brigade, p), c) = DataOf(brigade, c) + IF IsData(p, c) THEN p.n ELSE 0
    BY <2>2, SumsAppend
  <2>4. ~IsData(p, c)
    BY <1>1 DEF IsData, Types
  <2>5. QED BY <1>1, <2>2, <2>3, <2>4 DEF Keeps
<1>3. ASSUME NEW c \in DOMAIN ch PROVE Hears(c, p)
  <2>1. ch[c].lwin \in Nat /\ ch'[c].lwin = ch[c].lwin
    BY <1>1, ChannelFields
  <2>2. ch'[c].lwin <= ch[c].lwin + IF p.type = "WINDOW_ADJUST" /\ p.ch = c THEN p.n ELSE 0
    BY <1>1, <2>1
  <2>3. ~IsData(p, c) /\ Still(c)
    BY <1>1, <1>2 DEF IsData, Types, Still
  <2>4. QED BY <1>1, <2>2, <2>3 DEF Hears
<1>4. ch \in [DOMAIN ch -> ChannelRecords] /\ wrapped \cup ignored \subseteq Ids
  BY DEF TypeOK
<1>5. p.type \notin Types /\ p.type # "DISCONNECT"
  BY <1>1 DEF Types
<1>6. QED BY <1>1, <1>3, <1>4, <1>5 DEF Filed, Files, Replied

\* Data for a stream that is ignored is refunded.
LEMMA FiledIgnored ==
    ASSUME TypeOK, NEW p \in Packets, AddIgnored(p)
    PROVE  Filed(p)
<1> DEFINE c == p.ch
<1>1. /\ brigade' = brigade /\ ignored' = ignored \cup {c} /\ socket_state' = socket_state
      /\ c \in DOMAIN ch /\ p.type = "EXTENDED_DATA"
      /\ receive_window_adjust(ch, c, p.n, FALSE)
  BY DEF AddIgnored, Known
<1>2. /\ ch \in [DOMAIN ch -> ChannelRecords] /\ p.n \in Nat /\ c \in Ids
      /\ ch[c].mode \in Modes /\ ch = [ch EXCEPT ![c].mode = ch[c].mode]
  <2>1. ch \in [DOMAIN ch -> ChannelRecords] /\ p.n \in Nat /\ c \in Ids /\ ch[c] \in ChannelRecords
    BY <1>1, ChannelFields DEF TypeOK, Packets
  <2>2. ch[c].mode \in Modes /\ [ch[c] EXCEPT !.mode = ch[c].mode] = ch[c]
    BY <2>1 DEF ChannelRecords
  <2>3. [ch EXCEPT ![c].mode = ch[c].mode] = [ch EXCEPT ![c] = ch[c]]
    BY <2>2
  <2>4. QED BY <1>1, <2>1, <2>2, <2>3
<1>3. AdjustStep(ch, c, p.n)
  BY <1>1, <1>2, AdjustEffect
<1> HIDE DEF c
<1>4. /\ DOMAIN ch' = DOMAIN ch /\ ch' \in [DOMAIN ch -> ChannelRecords]
      /\ outq' = outq \/ \E q \in Packets : Sent(q) /\ q.type = "WINDOW_ADJUST" /\ q.ch = c
      /\ \A d \in DOMAIN ch : d # c => Alike(ch'[d], ch[d])
      /\ \A d : /\ DataOf(outq', d) = DataOf(outq, d)
                /\ d # c => Adjusts(outq', d) = Adjusts(outq, d)
      /\ ch'[c].lwin = ch[c].lwin /\ ch'[c].confirmed = ch[c].confirmed
      /\ ch'[c].reof = ch[c].reof /\ ch'[c].rclose = ch[c].rclose
      /\ wrapped \subseteq wrapped' /\ wrapped' \subseteq wrapped \cup {c}
      /\ c \notin wrapped' => Grants(c)
  BY <1>1, <1>2, <1>3, AdjustMoves
<1>5. \A d \in DOMAIN ch : ch'[d].lwin = ch[d].lwin /\ ch[d].lwin \in Nat
  BY <1>4, ChannelFields DEF Alike
<1>6. ASSUME NEW d \in DOMAIN ch PROVE Hears(d, p)
  <2>1. ch'[d].lwin <= ch[d].lwin + IF p.type = "WINDOW_ADJUST" /\ p.ch = d THEN p.n ELSE 0
    BY <1>1, <1>5
  <2>2. CASE d = c
    <3>1. IsData(p, d) /\ d \in ignored'
      BY <1>1, <2>2 DEF IsData, Types, c
    <3>2. QED BY <1>4, <2>1, <2>2, <3>1 DEF Hears
  <2>3. CASE d # c
    <3>1. ~IsData(p, d) /\ Still(d)
      BY <1>1, <1>4, <2>3 DEF IsData, Still, Keeps, Alike, c
    <3>2. QED BY <1>4, <2>1, <2>3, <3>1 DEF Hears, Alike
  <2>4. QED BY <2>2, <2>3
<1>7. \A q \in Packets : q.ch = c => IsData(p, q.ch) /\ q.ch \in DOMAIN ch
  BY <1>1 DEF IsData, Types, c
<1>8. p.type # "DISCONNECT" /\ p.type \notin Answering
  BY <1>1 DEF Answering
<1>9. wrapped' \cup ignored' \subseteq Ids
  BY <1>1, <1>2, <1>4 DEF TypeOK
<1>10. Replied(p)
  BY <1>4, <1>7 DEF Replied
<1>11. QED BY <1>1, <1>4, <1>6, <1>8, <1>9, <1>10 DEF Filed, Files

\* Data for a channel is cut to the window and put into the brigade.
LEMMA FiledData ==
    ASSUME TypeOK, NEW p \in Packets, AddData(p), Len(p.bytes) = p.n
    PROVE  Filed(p)
<1> DEFINE c == p.ch
           n == IF p.n > PacketDefault THEN PacketDefault ELSE p.n
           kept == IF n > ch[c].rwin THEN ch[c].rwin ELSE n
           q == [p EXCEPT !.bytes = SubSeq(@, 1, kept), !.n = kept]
           r == [ch[c] EXCEPT !.reof = FALSE,
                              !.rwin = IF n > ch[c].rwin THEN @ ELSE @ - n]
<1>1. /\ outq' = outq /\ ignored' = ignored /\ wrapped' = wrapped /\ socket_state' = socket_state
      /\ c \in DOMAIN ch /\ p.type \in Types
      /\ IF ch[c].rwin = 0 THEN ch' = ch /\ brigade' = brigade
         ELSE /\ ch' = [ch EXCEPT ![c].reof = FALSE,
                                  ![c].rwin = IF n > ch[c].rwin THEN @ ELSE @ - n]
              /\ brigade' = Append(brigade, q)
  BY DEF AddData, Known
<1>2. /\ ch \in [DOMAIN ch -> ChannelRecords] /\ ch[c] \in ChannelRecords
      /\ ch[c].rwin \in Nat /\ ch[c].rwin < Word
      /\ p.n \in Nat /\ p.bytes \in Seq(Nat) /\ p.ch \in Ids /\ p.type \in PacketTypes
      /\ PacketDefault \in Nat
  BY <1>1, ChannelFields, Constants DEF TypeOK, Packets
<1>3. n \in Nat /\ n <= p.n /\ n <= PacketDefault /\ (p.n <= PacketDefault => n = p.n)
  BY <1>2
<1> HIDE DEF n
<1>4. kept \in Nat /\ kept <= n /\ kept <= ch[c].rwin /\ (n <= ch[c].rwin => kept = n)
  BY <1>2, <1>3
<1> HIDE DEF kept
<1>5. q \in Packets /\ q.type = p.type /\ q.ch = p.ch /\ q.n = kept /\ Len(q.bytes) = kept
  <2>1. SubSeq(p.bytes, 1, kept) \in Seq(Nat) /\ Len(SubSeq(p.bytes, 1, kept)) = kept
    <3>1. kept <= Len(p.bytes)
      BY <1>2, <1>3, <1>4
    <3>2. \A i \in 1 .. kept : p.bytes[i] \in Nat
      BY <1>2, <1>4, <3>1
    <3>3. QED BY <1>2, <1>4, <3>1, <3>2
  <2>2. p \in [type : PacketTypes, ch : Ids, bytes : Seq(Nat), n : Nat]
    BY DEF Packets
  <2>3. QED BY <1>4, <2>1, <2>2 DEF Packets
<1>6. /\ r \in ChannelRecords /\ r.lwin = ch[c].lwin /\ r.confirmed = ch[c].confirmed
      /\ r.reof = FALSE /\ r.rclose = ch[c].rclose /\ r.adjust_queue = ch[c].adjust_queue
      /\ r.rwin = IF n > ch[c].rwin THEN ch[c].rwin ELSE ch[c].rwin - n
  <2> DEFINE w == IF n > ch[c].rwin THEN ch[c].rwin ELSE ch[c].rwin - n
  <2>1. w \in 0 .. Word - 1
    <3>1. \A a, b \in Nat : a < Word => (IF b > a THEN a ELSE a - b) \in 0 .. Word - 1
      BY Constants
    <3>2. QED BY <1>2, <1>3, <3>1
  <2>2. r = [ch[c] EXCEPT !.reof = FALSE, !.rwin = w]
    OBVIOUS
  <2> HIDE DEF w, r, c
  <2>3. /\ r \in ChannelRecords /\ r.lwin = ch[c].lwin /\ r.confirmed = ch[c].confirmed
        /\ r.reof = FALSE /\ r.rclose = ch[c].rclose /\ r.adjust_queue = ch[c].adjust_queue
        /\ r.rwin = w
    BY <1>2, <2>1, <2>2 DEF ChannelRecords
  <2>4. QED BY <2>3 DEF w
<1>7. \/ ch[c].rwin = 0 /\ ch' = ch /\ brigade' = brigade
      \/ /\ ch' = [ch EXCEPT ![c] = r]
         /\ brigade' = Append(brigade, q)
  BY <1>1
<1> HIDE DEF q, r, c
<1>8. /\ DOMAIN ch' = DOMAIN ch /\ ch' \in [DOMAIN ch -> ChannelRecords]
      /\ \A d \in DOMAIN ch : d # c => ch'[d] = ch[d]
      /\ ch'[c] \in {ch[c], r}
  BY <1>1, <1>2, <1>6, <1>7
<1>9. ASSUME NEW d
      PROVE  DataOf(Append(brigade, q), d) = DataOf(brigade, d) + IF d = c THEN kept ELSE 0
  <2>1. brigade \in Seq(Packets) /\ DataOf(brigade, d) \in Nat
    BY ShrinksType
  <2>2. DataOf(Append(brigade, q), d) = DataOf(brigade, d) + IF IsData(q, d) THEN q.n ELSE 0
    BY <1>5, <2>1, SumsAppend
  <2>3. IsData(q, d) <=> d = c
    BY <1>1, <1>5 DEF IsData, c
  <2>4. QED BY <1>5, <2>2, <2>3
<1>10. \A d : DataOf(brigade, d) \in Nat /\ Adjusts(outq, d) \in Nat
  BY ShrinksType
<1>11. ASSUME NEW d \in DOMAIN ch PROVE Hears(d, p)
  <2>1. ch'[d].lwin = ch[d].lwin /\ ch[d].lwin \in Nat
    BY <1>6, <1>8, ChannelFields
  <2>2. ch'[d].lwin <= ch[d].lwin + IF p.type = "WINDOW_ADJUST" /\ p.ch = d THEN p.n ELSE 0
    BY <1>1, <2>1 DEF Types
  <2>3. IsData(p, d) <=> d = c
    BY <1>1 DEF IsData, c
  <2>4. CASE d # c
    <3>1. Keeps(d)
      <4>1. DataOf(Append(brigade, q), d) = DataOf(brigade, d) + 0
        BY <1>9, <2>4
      <4>2. DataOf(brigade, d) \in Nat
        BY <1>10
      <4>3. brigade' = brigade \/ brigade' = Append(brigade, q)
        BY <1>7
      <4>4. DataOf(Append(brigade, q), d) = DataOf(brigade, d)
        BY <4>1, <4>2
      <4>5. CASE brigade' = brigade
        BY <4>5 DEF Keeps
      <4>6. CASE brigade' = Append(brigade, q)
        <5>1. DataOf(brigade', d) = DataOf(Append(brigade, q), d)
          BY <4>6
        <5>2. QED BY <4>4, <5>1 DEF Keeps
      <4>7. QED BY <4>3, <4>5, <4>6
    <3>2. Still(d)
      BY <1>1, <1>8, <2>4, <3>1 DEF Still
    <3>3. QED BY <1>8, <2>2, <2>3, <2>4, <3>2 DEF Hears
  <2>5. CASE d = c
    <3>1. ASSUME p.n <= PacketDefault, p.n <= ch[c].rwin PROVE Takes(c, p.n)
      <4>1. n = p.n /\ kept = p.n /\ r.rwin = ch[c].rwin - p.n
        BY <1>2, <1>3, <1>4, <1>6, <3>1
      <4>2. CASE ch[c].rwin = 0 /\ ch' = ch /\ brigade' = brigade
        <5>0. p.n = 0 /\ DataOf(brigade, c) \in Nat
          BY <1>2, <1>10, <3>1, <4>2
        <5>1. ch'[c].rwin = ch[c].rwin - p.n /\ DataOf(brigade', c) = DataOf(brigade, c) + p.n
          <6> DEFINE N == p.n
          <6>1. N = 0
            BY <5>0
          <6> HIDE DEF N
          <6>2. ch'[c].rwin = ch[c].rwin - N /\ DataOf(brigade', c) = DataOf(brigade, c) + N
            BY <4>2, <5>0, <6>1
          <6>3. QED BY <6>2 DEF N
        <5>2. QED BY <1>1, <4>2, <5>1 DEF Takes
      <4>3. CASE ch' = [ch EXCEPT ![c] = r] /\ brigade' = Append(brigade, q)
        <5>1. ch'[c] = r
          BY <1>1, <4>3 DEF c
        <5>2. QED BY <1>1, <1>6, <1>9, <4>1, <4>3, <5>1 DEF Takes
      <4>4. QED BY <1>7, <4>2, <4>3
    <3>2. /\ ch'[d].confirmed = ch[d].confirmed /\ (ch'[d].reof => ch[d].reof)
          /\ ch'[d].rclose = ch[d].rclose
      BY <1>6, <1>8, <2>5
    <3>3. QED BY <2>2, <2>3, <2>5, <3>1, <3>2 DEF Hears
  <2>6. QED BY <2>4, <2>5
<1>12. p.type # "DISCONNECT" /\ p.type \notin Answering
  BY <1>1 DEF Types, Answering
<1>13. wrapped \cup ignored \subseteq Ids
  BY DEF TypeOK
<1>14. Files(p)
  <2>1. q.n <= PacketDefault /\ Len(q.bytes) <= q.n
    BY <1>2, <1>3, <1>4, <1>5
  <2>2. QED BY <1>1, <1>5, <1>7, <1>12, <2>1 DEF Files
<1>15. QED BY <1>1, <1>8, <1>11, <1>12, <1>13, <1>14 DEF Filed, Replied

\* The packet that is read is taken from those that have arrived, and filed.
Arrives ==
    /\ socket_state = "CONNECTED" /\ inq # <<>> /\ Head(inq) \in Packets
    /\ inq' = Tail(inq)
    /\ UNCHANGED <<next_channel, tcp, peer, noise, delivered, uneven>>
    /\ Filed(Head(inq))

\* transport_read reads and files the packet at the head.
LEMMA ReceiveArrives ==
    ASSUME TypeOK, Sized, Receive
    PROVE  Arrives
<1>1. inq \in Seq(Packets) /\ inq # <<>>
  BY DEF TypeOK, Receive
<1>2. Head(inq) \in Packets /\ 1 \in DOMAIN inq /\ Head(inq) = inq[1]
  BY <1>1, TailIs
<1>3. Head(inq).type \in Types => Len(Head(inq).bytes) = Head(inq).n
  BY <1>2 DEF Sized
<1>4. packet_add(Head(inq))
  BY DEF Receive
<1>5. CASE AddData(Head(inq))
  <2>1. Head(inq).type \in Types
    BY <1>5 DEF AddData
  <2>2. QED BY <1>2, <1>3, <1>5, <2>1, FiledData DEF Arrives, Receive
<1>6. CASE ~AddData(Head(inq))
  <2>1. Filed(Head(inq))
    BY <1>2, <1>4, <1>6, FiledNothing, FiledIgnored, FiledChannel, FiledOpen, FiledToBrigade
       DEF packet_add
  <2>2. QED BY <1>2, <2>1 DEF Arrives, Receive
<1>7. QED BY <1>5, <1>6

----------------------------------------------------------------------------
(* What the server does                                                    *)

\* What it does of a channel: the other channels are left alone.
Becomes(c, st, win, credit, owes, done) ==
    /\ peer' \in [Ids -> PeerRecords]
    /\ \A d \in Ids : d # c => peer'[d] = peer[d]
    /\ peer'[c].st = st /\ peer'[c].win = win /\ peer'[c].credit = credit
    /\ peer'[c].owes = owes /\ peer'[c].eof = done

\* It takes a packet off the connection, and has a channel in sight.
Serves(p) == outq # <<>> /\ p = Head(outq) /\ outq' = Tail(outq)
Quiet == outq' = outq

\* It ignores a packet, answers, accepts a channel, takes data or a grant; closes a
\* channel, sends data, a grant, or the end of the data; or says something else.
Drops ==
    \E p \in Packets : /\ Serves(p) /\ p.type \notin Types \cup {"OPEN"}
                       /\ p.type = "WINDOW_ADJUST" => peer[p.ch].st # "open"
                       /\ UNCHANGED <<inq, peer>>
Responds ==
    \E p \in Packets, type \in {"OPEN_FAILURE", "SUCCESS", "FAILURE"} : LET c == p.ch IN
        /\ Serves(p) /\ p.type \in Asks /\ (type = "OPEN_FAILURE" <=> p.type = "OPEN")
        /\ Sends(Packet(type, c, 0))
        /\ Becomes(c, peer[c].st, peer[c].win, peer[c].credit, peer[c].owes, peer[c].eof)
Accepts ==
    \E p \in Packets : LET c == p.ch IN
        /\ Serves(p) /\ p.type = "OPEN"
        /\ Sends(Packet("OPEN_CONFIRMATION", c, PeerWindow))
        /\ Becomes(c, "open", p.n, PeerWindow, peer[c].owes, peer[c].eof)
Consumes ==
    \E p \in Packets : LET c == p.ch IN
        /\ Serves(p) /\ p.type = "DATA" /\ inq' = inq
        /\ Becomes(c, peer[c].st, peer[c].win, peer[c].credit - p.n, peer[c].owes + p.n,
                   peer[c].eof)
Widens ==
    \E p \in Packets : LET c == p.ch IN
        /\ Serves(p) /\ p.type = "WINDOW_ADJUST" /\ inq' = inq /\ peer[c].st = "open"
        /\ Becomes(c, "open", peer[c].win + p.n, peer[c].credit, peer[c].owes, peer[c].eof)
Shuts ==
    \E c \in Ids :
        /\ Quiet \/ \E p \in Packets : Serves(p) /\ p.type = "CLOSE"
        /\ peer[c].st = "open"
        /\ Sends(Packet("CLOSE", c, 0))
        /\ Becomes(c, "closed", peer[c].win, peer[c].credit, peer[c].owes, peer[c].eof)
Produces ==
    \E c \in Ids, p \in Packets :
        /\ Quiet /\ peer[c].st = "open" /\ ~peer[c].eof
        /\ IsData(p, c) /\ Len(p.bytes) = p.n /\ p.n <= PacketDefault /\ p.n <= peer[c].win
        /\ Sends(p)
        /\ Becomes(c, "open", peer[c].win - p.n, peer[c].credit, peer[c].owes, peer[c].eof)
Repays ==
    \E c \in Ids :
        /\ Quiet /\ peer[c].st = "open" /\ peer[c].owes > 0
        /\ Sends(Packet("WINDOW_ADJUST", c, peer[c].owes))
        /\ Becomes(c, "open", peer[c].win, peer[c].credit + peer[c].owes, 0, peer[c].eof)
Finishes ==
    \E c \in Ids :
        /\ Quiet /\ peer[c].st = "open" /\ ~peer[c].eof
        /\ inq' = Append(Append(inq, Packet("EXIT_STATUS", c, 1)), Packet("EOF", c, 0))
        /\ Becomes(c, "open", peer[c].win, peer[c].credit, peer[c].owes, TRUE)
Chatters ==
    \E type \in {"IGNORE", "OPEN_FORWARDED", "OPEN_OTHER"} :
        Quiet /\ peer' = peer /\ Sends(Packet(type, 0, 0))

\* The connection is lost.
Leaves ==
    /\ tcp # "reset" /\ tcp' \in {"fin", "reset"} /\ peer' = peer
    /\ outq' = <<>> \/ (outq # <<>> /\ outq' = Tail(outq))
    /\ inq' \in {<<>>, inq} \/ \E c \in Ids : Sends(Packet("DISCONNECT", c, 0))
    /\ tcp' = "reset" => inq' = <<>> /\ outq' = <<>>

\* What it does in one step.
ServerKinds ==
    /\ UNCHANGED <<clientVars, todo, call, history>> /\ noise' \in Nat
    /\ \/ Leaves
       \/ /\ tcp = "up" /\ tcp' = "up"
          /\ \/ Drops \/ Responds \/ Accepts \/ Consumes \/ Widens \/ Shuts \/ Produces
             \/ Repays \/ Finishes \/ Chatters

\* What the server knows of a channel.
LEMMA PeerFields ==
    ASSUME TypeOK, NEW c \in Ids
    PROVE  /\ peer \in [Ids -> PeerRecords] /\ peer[c] \in PeerRecords
           /\ peer[c].win \in Nat /\ peer[c].credit \in Int /\ peer[c].owes \in Nat
           /\ peer[c].eof \in BOOLEAN /\ peer[c].runs \in BOOLEAN
           /\ peer[c].st \in {"none", "open", "closed"}
<1>1. peer \in [Ids -> PeerRecords] /\ peer[c] \in PeerRecords
  BY DEF TypeOK
<1>2. QED BY <1>1 DEF PeerRecords

\* A record of the server is replaced.
LEMMA BecomesIs ==
    ASSUME TypeOK, NEW c \in Ids, NEW r \in PeerRecords, peer' = [peer EXCEPT ![c] = r]
    PROVE  Becomes(c, r.st, r.win, r.credit, r.owes, r.eof)
<1>1. peer \in [Ids -> PeerRecords]
  BY PeerFields
<1>2. peer' \in [Ids -> PeerRecords] /\ peer'[c] = r /\ \A d \in Ids : d # c => peer'[d] = peer[d]
  BY <1>1
<1>3. QED BY <1>2 DEF Becomes

\* What the server does with a packet is of a kind.
LEMMA ServeKinds ==
    ASSUME TypeOK, Serve
    PROVE  ServerKinds
<1> DEFINE p == Head(outq)
           c == p.ch
<1>1. /\ outq \in Seq(Packets) /\ outq # <<>>
      /\ tcp = "up" /\ outq' = Tail(outq) /\ noise' = noise
      /\ UNCHANGED <<clientVars, todo, call, history>>
  BY ShrinksType DEF Serve, ServerOnly
<1>2. p \in Packets /\ c \in Ids /\ p.n \in Nat
  <2>1. p \in Packets
    BY <1>1, TailIs
  <2>2. QED BY <2>1 DEF Packets
<1>3. noise' \in Nat
  BY <1>1 DEF TypeOK
<1>4. Serves(p)
  BY <1>1 DEF Serves
<1>5. /\ peer \in [Ids -> PeerRecords] /\ peer[c] \in PeerRecords
      /\ peer[c].win \in Nat /\ peer[c].credit \in Int /\ peer[c].owes \in Nat
      /\ peer[c].runs \in BOOLEAN
  BY <1>2, PeerFields
<1>6. CASE /\ p.type = "OPEN"
           /\ peer' = [peer EXCEPT ![c].st = "open", ![c].win = p.n, ![c].credit = PeerWindow]
           /\ Sends(Packet("OPEN_CONFIRMATION", c, PeerWindow))
           /\ UNCHANGED tcp
  <2> DEFINE r == [peer[c] EXCEPT !.st = "open", !.win = p.n, !.credit = PeerWindow]
  <2>1. peer' = [peer EXCEPT ![c] = r]
    BY <1>5, <1>6
  <2>2. /\ r \in PeerRecords /\ r.st = "open" /\ r.win = p.n /\ r.credit = PeerWindow
        /\ r.owes = peer[c].owes /\ r.eof = peer[c].eof
    <3>1. p.n \in Nat /\ PeerWindow \in Int
      BY <1>2, Constants
    <3> HIDE DEF p, c
    <3>2. QED BY <1>5, <3>1 DEF PeerRecords
  <2> HIDE DEF r
  <2>3. Becomes(c, "open", p.n, PeerWindow, peer[c].owes, peer[c].eof)
    <3>1. Becomes(c, r.st, r.win, r.credit, r.owes, r.eof)
      BY <1>2, <2>1, <2>2, BecomesIs
    <3>2. QED BY <2>2, <3>1
  <2> HIDE DEF p
  <2>4. Accepts
    BY <1>2, <1>4, <1>6, <2>3 DEF Accepts
  <2>5. QED BY <1>1, <1>3, <1>6, <2>4 DEF ServerKinds
<1>7. CASE /\ p.type = "OPEN"
           /\ Sends(Packet("OPEN_FAILURE", c, 0))
           /\ UNCHANGED <<peer, tcp>>
  <2>1. Becomes(c, peer[c].st, peer[c].win, peer[c].credit, peer[c].owes, peer[c].eof)
    BY <1>5, <1>7 DEF Becomes
  <2> HIDE DEF p
  <2>2. Responds
    BY <1>2, <1>4, <1>7, <2>1 DEF Responds, Asks
  <2>3. QED BY <1>1, <1>3, <1>7, <2>2 DEF ServerKinds
<1>8. CASE /\ p.type \in {"REQUEST", "EXEC"} /\ peer[c].st = "open"
           /\ \E type \in {"SUCCESS", "FAILURE"} :
                 /\ Sends(Packet(type, c, 0))
                 /\ peer' = [peer EXCEPT ![c].runs =
                                @ \/ <<p.type, type>> = <<"EXEC", "SUCCESS">>]
           /\ UNCHANGED tcp
  <2>1. PICK type \in {"SUCCESS", "FAILURE"} :
                 /\ Sends(Packet(type, c, 0))
                 /\ peer' = [peer EXCEPT ![c].runs =
                                @ \/ <<p.type, type>> = <<"EXEC", "SUCCESS">>]
    BY <1>8
  <2> DEFINE runs == peer[c].runs \/ <<p.type, type>> = <<"EXEC", "SUCCESS">>
             r == [peer[c] EXCEPT !.runs = runs]
  <2>2. runs \in BOOLEAN
    OBVIOUS
  <2>3. peer' = [peer EXCEPT ![c] = r]
    BY <1>5, <2>1
  <2> HIDE DEF runs
  <2>4. /\ r \in PeerRecords /\ r.st = peer[c].st /\ r.win = peer[c].win
        /\ r.credit = peer[c].credit /\ r.owes = peer[c].owes /\ r.eof = peer[c].eof
    <3> HIDE DEF p, c
    <3>1. QED BY <1>5, <2>2 DEF PeerRecords
  <2> HIDE DEF r
  <2>5. Becomes(c, peer[c].st, peer[c].win, peer[c].credit, peer[c].owes, peer[c].eof)
    <3>1. Becomes(c, r.st, r.win, r.credit, r.owes, r.eof)
      BY <1>2, <2>3, <2>4, BecomesIs
    <3>2. QED BY <2>4, <3>1
  <2> HIDE DEF p
  <2>6. Responds
    BY <1>2, <1>4, <1>8, <2>1, <2>5 DEF Responds, Asks
  <2>7. QED BY <1>1, <1>3, <1>8, <2>6 DEF ServerKinds
<1>9. CASE /\ \/ p.type \in {"REQUEST", "EXEC", "CLOSE"} /\ peer[c].st # "open"
              \/ p.type \in {"EOF", "OPEN_FAILURE"}
           /\ UNCHANGED <<inq, peer, tcp>>
  <2> HIDE DEF p
  <2>1. Drops
    BY <1>2, <1>4, <1>9 DEF Drops, Types
  <2>2. QED BY <1>1, <1>3, <1>9, <2>1 DEF ServerKinds
<1>10. CASE /\ p.type = "DATA"
            /\ peer' = [peer EXCEPT ![c].credit = @ - p.n, ![c].owes = @ + p.n]
            /\ UNCHANGED <<inq, tcp>>
  <2> DEFINE r == [peer[c] EXCEPT !.credit = @ - p.n, !.owes = @ + p.n]
  <2>1. peer' = [peer EXCEPT ![c] = r]
    BY <1>5, <1>10
  <2>2. /\ r \in PeerRecords /\ r.st = peer[c].st /\ r.win = peer[c].win
        /\ r.credit = peer[c].credit - p.n /\ r.owes = peer[c].owes + p.n
        /\ r.eof = peer[c].eof
    <3>1. peer[c].credit - p.n \in Int /\ peer[c].owes + p.n \in Nat
      BY <1>2, <1>5
    <3> HIDE DEF p, c
    <3>2. QED BY <1>5, <3>1 DEF PeerRecords
  <2> HIDE DEF r
  <2>3. Becomes(c, peer[c].st, peer[c].win, peer[c].credit - p.n, peer[c].owes + p.n,
                peer[c].eof)
    <3>1. Becomes(c, r.st, r.win, r.credit, r.owes, r.eof)
      BY <1>2, <2>1, <2>2, BecomesIs
    <3>2. QED BY <2>2, <3>1
  <2> HIDE DEF p
  <2>4. Consumes
    BY <1>2, <1>4, <1>10, <2>3 DEF Consumes
  <2>5. QED BY <1>1, <1>3, <1>10, <2>4 DEF ServerKinds
<1>11. CASE /\ p.type = "WINDOW_ADJUST"
            /\ IF peer[c].st = "open" /\ peer[c].win + p.n >= Word
               THEN Sends(Packet("DISCONNECT", c, 0)) /\ tcp' = "fin" /\ UNCHANGED peer
               ELSE /\ peer' = [peer EXCEPT ![c].win =
                                  IF peer[c].st = "open" THEN @ + p.n ELSE @]
                    /\ UNCHANGED <<inq, tcp>>
  <2>1. CASE peer[c].st = "open" /\ peer[c].win + p.n >= Word
    <3>1. Leaves
      BY <1>1, <1>2, <1>11, <2>1 DEF Leaves
    <3>2. QED BY <1>1, <1>3, <3>1 DEF ServerKinds
  <2>2. CASE peer[c].st = "open" /\ ~(peer[c].win + p.n >= Word)
    <3> DEFINE r == [peer[c] EXCEPT !.win = @ + p.n]
    <3>1. peer' = [peer EXCEPT ![c] = r]
      BY <1>5, <1>11, <2>2
    <3>2. /\ r \in PeerRecords /\ r.st = "open" /\ r.win = peer[c].win + p.n
          /\ r.credit = peer[c].credit /\ r.owes = peer[c].owes /\ r.eof = peer[c].eof
      <4>1. peer[c].win + p.n \in Nat
        BY <1>2, <1>5
      <4> HIDE DEF p, c
      <4>2. QED BY <1>5, <2>2, <4>1 DEF PeerRecords
    <3> HIDE DEF r
    <3>3. Becomes(c, "open", peer[c].win + p.n, peer[c].credit, peer[c].owes, peer[c].eof)
      <4>1. Becomes(c, r.st, r.win, r.credit, r.owes, r.eof)
        BY <1>2, <3>1, <3>2, BecomesIs
      <4>2. QED BY <3>2, <4>1
    <3> HIDE DEF p
    <3>4. Widens
      BY <1>2, <1>4, <1>11, <2>2, <3>3 DEF Widens
    <3>5. QED BY <1>1, <1>3, <1>11, <2>2, <3>4 DEF ServerKinds
  <2>3. CASE peer[c].st # "open"
    <3>1. [peer[c] EXCEPT !.win = peer[c].win] = peer[c]
      BY <1>5 DEF PeerRecords
    <3>2. peer' = [peer EXCEPT ![c] = [peer[c] EXCEPT !.win = peer[c].win]]
      BY <1>11, <2>3
    <3>3. peer' = peer /\ UNCHANGED <<inq, tcp>>
      BY <1>5, <1>11, <2>3, <3>1, <3>2
    <3> HIDE DEF p
    <3>4. Drops
      BY <1>2, <1>4, <1>11, <2>3, <3>3 DEF Drops, Types
    <3>5. QED BY <1>1, <1>3, <3>3, <3>4 DEF ServerKinds
  <2>4. QED BY <2>1, <2>2, <2>3
<1>12. CASE /\ p.type = "CLOSE" /\ peer[c].st = "open"
            /\ Sends(Packet("CLOSE", c, 0))
            /\ peer' = [peer EXCEPT ![c].st = "closed"]
            /\ UNCHANGED tcp
  <2> DEFINE r == [peer[c] EXCEPT !.st = "closed"]
  <2>1. peer' = [peer EXCEPT ![c] = r]
    BY <1>5, <1>12
  <2>2. /\ r \in PeerRecords /\ r.st = "closed" /\ r.win = peer[c].win
        /\ r.credit = peer[c].credit /\ r.owes = peer[c].owes /\ r.eof = peer[c].eof
    <3> HIDE DEF p, c
    <3>1. QED BY <1>5 DEF PeerRecords
  <2> HIDE DEF r
  <2>3. Becomes(c, "closed", peer[c].win, peer[c].credit, peer[c].owes, peer[c].eof)
    <3>1. Becomes(c, r.st, r.win, r.credit, r.owes, r.eof)
      BY <1>2, <2>1, <2>2, BecomesIs
    <3>2. QED BY <2>2, <3>1
  <2> HIDE DEF p
  <2>4. Shuts
    BY <1>2, <1>4, <1>12, <2>3 DEF Shuts
  <2>5. QED BY <1>1, <1>3, <1>12, <2>4 DEF ServerKinds
<1>13. QED
  BY <1>6, <1>7, <1>8, <1>9, <1>10, <1>11, <1>12 DEF Serve

\* Everything the server does is of a kind.
LEMMA ServerIs ==
    ASSUME TypeOK, Server
    PROVE  ServerKinds
<1>1. noise \in Nat
  BY DEF TypeOK
<1>2. CASE Serve
  BY <1>2, ServeKinds
<1>3. ASSUME NEW c \in Ids, NEW s \in {0, 1}, ServerData(c, s)
      PROVE  ServerKinds
  <2>1. PICK n \in 1 .. PacketDefault :
          /\ n <= peer[c].win
          /\ Sends(Data(s, c, [i \in 1 .. n |-> peer[c].sent[s] + i]))
          /\ peer' = [peer EXCEPT ![c].win = @ - n, ![c].sent[s] = @ + n]
    BY <1>3 DEF ServerData
  <2> DEFINE bytes == [i \in 1 .. n |-> peer[c].sent[s] + i]
             p == Data(s, c, bytes)
             r == [peer[c] EXCEPT !.win = @ - n, !.sent[s] = @ + n]
  <2>2. /\ peer \in [Ids -> PeerRecords] /\ peer[c] \in PeerRecords /\ peer[c].win \in Nat
        /\ peer[c].sent \in [{0, 1} -> Nat] /\ n \in Nat /\ n <= PacketDefault
    BY PeerFields, Constants DEF PeerRecords
  <2>3. bytes \in Seq(Nat) /\ Len(bytes) = n
    BY <2>2
  <2> HIDE DEF bytes
  <2>4. p \in Packets /\ IsData(p, c) /\ p.n = n /\ Len(p.bytes) = p.n
    BY <2>3, DataFields DEF IsData, Types
  <2>5. peer' = [peer EXCEPT ![c] = r]
    BY <2>1, <2>2
  <2>6. /\ r \in PeerRecords /\ r.st = peer[c].st /\ r.win = peer[c].win - n
        /\ r.credit = peer[c].credit /\ r.owes = peer[c].owes /\ r.eof = peer[c].eof
    <3>1. peer[c].win - n \in Nat
      BY <2>1, <2>2
    <3>2. [peer[c].sent EXCEPT ![s] = @ + n] \in [{0, 1} -> Nat]
      BY <2>2
    <3>3. QED BY <2>2, <3>1, <3>2 DEF PeerRecords
  <2> HIDE DEF r
  <2>7. peer[c].st = "open" /\ ~peer[c].eof /\ tcp = "up"
    BY <1>3 DEF ServerData, Ready
  <2>8. Becomes(c, "open", peer[c].win - p.n, peer[c].credit, peer[c].owes, peer[c].eof)
    <3>1. Becomes(c, r.st, r.win, r.credit, r.owes, r.eof)
      BY <2>5, <2>6, BecomesIs
    <3>2. QED BY <2>4, <2>6, <2>7, <3>1
  <2>9. Sends(p) /\ p.n <= PacketDefault /\ p.n <= peer[c].win
    BY <2>1, <2>2, <2>4 DEF bytes
  <2> HIDE DEF p
  <2>10. UNCHANGED <<outq, tcp, noise>> /\ UNCHANGED <<clientVars, todo, call, history>>
    BY <1>3 DEF ServerData, ServerOnly
  <2>11. Produces
    BY <2>4, <2>7, <2>8, <2>9, <2>10 DEF Produces, Quiet
  <2>12. QED BY <1>1, <2>7, <2>10, <2>11 DEF ServerKinds
<1>4. ASSUME NEW c \in Ids, ServerCredit(c)
      PROVE  ServerKinds
  <2>1. /\ tcp = "up" /\ peer[c].st = "open" /\ peer[c].owes > 0
        /\ Sends(Packet("WINDOW_ADJUST", c, peer[c].owes))
        /\ peer' = [peer EXCEPT ![c].credit = @ + peer[c].owes, ![c].owes = 0]
        /\ UNCHANGED <<outq, tcp, noise>> /\ UNCHANGED <<clientVars, todo, call, history>>
    BY <1>4 DEF ServerCredit, Ready, ServerOnly
  <2> DEFINE r == [peer[c] EXCEPT !.credit = @ + peer[c].owes, !.owes = 0]
  <2>2. /\ peer \in [Ids -> PeerRecords] /\ peer[c] \in PeerRecords
        /\ peer[c].credit \in Int /\ peer[c].owes \in Nat
    BY PeerFields
  <2>3. peer' = [peer EXCEPT ![c] = r]
    BY <2>1, <2>2
  <2>4. /\ r \in PeerRecords /\ r.st = peer[c].st /\ r.win = peer[c].win
        /\ r.credit = peer[c].credit + peer[c].owes /\ r.owes = 0 /\ r.eof = peer[c].eof
    <3>1. peer[c].credit + peer[c].owes \in Int
      BY <2>2
    <3>2. QED BY <2>2, <3>1 DEF PeerRecords
  <2> HIDE DEF r
  <2>5. Becomes(c, "open", peer[c].win, peer[c].credit + peer[c].owes, 0, peer[c].eof)
    <3>1. Becomes(c, r.st, r.win, r.credit, r.owes, r.eof)
      BY <2>3, <2>4, BecomesIs
    <3>2. QED BY <2>1, <2>4, <3>1
  <2>6. Repays
    BY <2>1, <2>5 DEF Repays, Quiet
  <2>7. QED BY <1>1, <2>1, <2>6 DEF ServerKinds
<1>5. ASSUME NEW c \in Ids, ServerEof(c)
      PROVE  ServerKinds
  <2>1. /\ tcp = "up" /\ peer[c].st = "open" /\ ~peer[c].eof
        /\ inq' = inq \o <<Packet("EXIT_STATUS", c, 1), Packet("EOF", c, 0)>>
        /\ peer' = [peer EXCEPT ![c].eof = TRUE]
        /\ UNCHANGED <<outq, tcp, noise>> /\ UNCHANGED <<clientVars, todo, call, history>>
    BY <1>5 DEF ServerEof, Ready, ServerOnly
  <2> DEFINE r == [peer[c] EXCEPT !.eof = TRUE]
  <2>2. peer \in [Ids -> PeerRecords] /\ peer[c] \in PeerRecords /\ inq \in Seq(Packets)
    BY PeerFields, ShrinksType
  <2>3. peer' = [peer EXCEPT ![c] = r]
    BY <2>1, <2>2
  <2>4. /\ r \in PeerRecords /\ r.st = peer[c].st /\ r.win = peer[c].win
        /\ r.credit = peer[c].credit /\ r.owes = peer[c].owes /\ r.eof = TRUE
    BY <2>2 DEF PeerRecords
  <2> HIDE DEF r
  <2>5. Becomes(c, "open", peer[c].win, peer[c].credit, peer[c].owes, TRUE)
    <3>1. Becomes(c, r.st, r.win, r.credit, r.owes, r.eof)
      BY <2>3, <2>4, BecomesIs
    <3>2. QED BY <2>1, <2>4, <3>1
  <2>6. inq' = Append(Append(inq, Packet("EXIT_STATUS", c, 1)), Packet("EOF", c, 0))
    <3>1. \A x, y \in Packets : inq \o <<x, y>> = Append(Append(inq, x), y)
      BY <2>2
    <3>2. Packet("EXIT_STATUS", c, 1) \in Packets /\ Packet("EOF", c, 0) \in Packets
      <4>1. {"EXIT_STATUS", "EOF"} \subseteq PacketTypes /\ 0 \in Nat /\ 1 \in Nat
        BY DEF PacketTypes
      <4>2. QED BY <4>1, PacketFields
    <3>3. QED BY <2>1, <3>1, <3>2
  <2>7. Finishes
    BY <2>1, <2>5, <2>6 DEF Finishes, Quiet
  <2>8. QED BY <1>1, <2>1, <2>7 DEF ServerKinds
<1>6. ASSUME NEW c \in Ids, ServerClose(c)
      PROVE  ServerKinds
  <2>1. /\ tcp = "up" /\ peer[c].st = "open"
        /\ Sends(Packet("CLOSE", c, 0))
        /\ peer' = [peer EXCEPT ![c].st = "closed"]
        /\ UNCHANGED <<outq, tcp, noise>> /\ UNCHANGED <<clientVars, todo, call, history>>
    BY <1>6 DEF ServerClose, Ready, ServerOnly
  <2> DEFINE r == [peer[c] EXCEPT !.st = "closed"]
  <2>2. peer \in [Ids -> PeerRecords] /\ peer[c] \in PeerRecords
    BY PeerFields
  <2>3. peer' = [peer EXCEPT ![c] = r]
    BY <2>1, <2>2
  <2>4. /\ r \in PeerRecords /\ r.st = "closed" /\ r.win = peer[c].win
        /\ r.credit = peer[c].credit /\ r.owes = peer[c].owes /\ r.eof = peer[c].eof
    BY <2>2 DEF PeerRecords
  <2> HIDE DEF r
  <2>5. Becomes(c, "closed", peer[c].win, peer[c].credit, peer[c].owes, peer[c].eof)
    <3>1. Becomes(c, r.st, r.win, r.credit, r.owes, r.eof)
      BY <2>3, <2>4, BecomesIs
    <3>2. QED BY <2>4, <3>1
  <2>6. Shuts
    BY <2>1, <2>5 DEF Shuts, Quiet
  <2>7. QED BY <1>1, <2>1, <2>6 DEF ServerKinds
<1>7. CASE ServerNoise
  <2>1. /\ tcp = "up" /\ noise' = noise + 1
        /\ UNCHANGED <<outq, tcp, peer>> /\ UNCHANGED <<clientVars, todo, call, history>>
        /\ \E type \in {"IGNORE", "OPEN_FORWARDED", "OPEN_OTHER"} : Sends(Packet(type, 0, 0))
    BY <1>7 DEF ServerNoise, Ready, ServerOnly
  <2>2. Chatters
    BY <2>1 DEF Chatters, Quiet
  <2>3. noise' \in Nat
    BY <1>1, <2>1
  <2>4. QED BY <2>1, <2>2, <2>3 DEF ServerKinds
<1>8. CASE ServerQuits \/ Reset
  <2>1. Leaves
    BY <1>8, Constants DEF ServerQuits, Reset, Leaves, Sends
  <2>2. UNCHANGED <<noise, clientVars, todo, call, history>>
    BY <1>8 DEF ServerQuits, Reset, ServerOnly
  <2>3. QED BY <1>1, <2>1, <2>2 DEF ServerKinds
<1>9. QED
  BY <1>2, <1>3, <1>4, <1>5, <1>6, <1>7, <1>8 DEF Server

----------------------------------------------------------------------------
(* The state is well formed                                                *)

\* What of TypeOK does not concern the program and its calls.
Shape ==
    /\ DOMAIN ch \subseteq Ids
    /\ ch \in [DOMAIN ch -> ChannelRecords]
    /\ next_channel \in 0 .. MaxChannels
    /\ {brigade, outq, inq} \subseteq Seq(Packets)
    /\ socket_state \in {"CONNECTED", "DISCONNECTED"}
    /\ tcp \in {"up", "fin", "reset"}
    /\ peer \in [Ids -> PeerRecords]
    /\ noise \in Nat
    /\ \A i \in DOMAIN brigade : brigade[i].type \in Types =>
          brigade[i].n <= PacketDefault /\ Len(brigade[i].bytes) <= brigade[i].n
    /\ ignored \cup wrapped \subseteq Ids

\* It follows from TypeOK.
LEMMA ShapeIs ==
    ASSUME TypeOK
    PROVE  Shape
<1>1. \A i \in DOMAIN brigade : brigade[i].type \in Types =>
         brigade[i].n <= PacketDefault /\ Len(brigade[i].bytes) <= brigade[i].n
  BY DEF TypeOK, Range
<1>2. QED BY <1>1 DEF Shape, TypeOK

\* A call may find the connection lost, and only after a reset.
Socket ==
    \/ socket_state' = socket_state
    \/ /\ tcp = "reset" /\ socket_state = "CONNECTED"
       /\ socket_state' \in {"CONNECTED", "DISCONNECTED"}

\* A call that begins does not touch it.
LEMMA SocketBegin ==
    ASSUME NEW o, Begin(o)
    PROVE  socket_state' = socket_state
<1>1. ASSUME NEW chans, NEW c, NEW which, Flush(chans, c, which)
      PROVE  socket_state' = socket_state
  BY <1>1 DEF Flush
<1>2. CASE Returns(o) \/ open_ex \/ free(o.c) \/ wait_closed(o.c) \/ close(o.c) \/ send_eof(o.c)
           \/ write_ex(o.c, o.arg) \/ read_ex(o.c, 0, o.arg) \/ read_ex(o.c, 1, o.arg)
           \/ force_adjust(o.c) \/ set_blocking(o.c, o.arg)
  BY <1>2 DEF Returns, open_ex, free, wait_closed, close, send_eof, write_ex, read_ex,
              force_adjust, set_blocking, clientVars
<1>3. CASE setenv_ex(o.c) \/ request_pty_ex(o.c) \/ x11_req_ex(o.c) \/ process_startup(o.c)
  BY <1>3 DEF setenv_ex, request_pty_ex, x11_req_ex, process_startup, Request, clientVars
<1>4. CASE flush_ex(o.c, o.arg) \/ handle_extended_data(o.c, o.arg)
  BY <1>1, <1>4 DEF flush_ex, handle_extended_data
<1>5. QED BY <1>2, <1>3, <1>4 DEF Begin

\* A step of a call that reads no packet finds it lost at most.
LEMMA SocketGoes ==
    ASSUME Goes
    PROVE  Receive \/ Socket
<1>1. CASE AwaitPacket \/ ReadPacket \/ WriteWaits \/ WaitPacket \/ PollPacket
  BY <1>1 DEF AwaitPacket, ReadPacket, WriteWaits, WaitPacket, PollPacket
<1>2. CASE Answered \/ OpenFailed \/ NotThere \/ NoAnswer \/ ReadNothing \/ Take \/ ReadEnds
           \/ WriteData \/ WaitEnds \/ PollNothing \/ Clear \/ Unlink
  BY <1>2 DEF Answered, OpenFailed, NotThere, NoAnswer, ReadNothing, Take, ReadEnds, WriteData,
              WaitEnds, PollNothing, Clear, Unlink, NothingYet, clientVars, Socket
<1>3. CASE AwaitError \/ ReadFails \/ WriteFails \/ WaitFails
  BY <1>3 DEF AwaitError, ReadFails, WriteFails, WaitFails, ReadError, Socket
<1>4. QED BY <1>1, <1>2, <1>3 DEF Goes

\* The invariant without the calls.
Base == Shape /\ Connection /\ Sized

\* The program keeps it,
LEMMA BaseLocal ==
    ASSUME TypeOK, Connection, Sized, Local, Socket
    PROVE  Base'
<1>1. /\ inq' = inq /\ tcp' = tcp /\ peer' = peer /\ noise' = noise /\ ignored' = ignored
      /\ DOMAIN ch' \subseteq Ids /\ ch' \in [DOMAIN ch' -> ChannelRecords]
      /\ next_channel' \in 0 .. MaxChannels /\ next_channel <= next_channel'
      /\ wrapped' \subseteq Ids /\ brigade' \in Seq(Packets)
      /\ outq' = outq \/ \E p \in Packets : Sent(p)
  BY DEF Local, Shrinks
<1>2. \A j \in DOMAIN brigade' : \E i \in DOMAIN brigade :
         Same(brigade'[j], brigade[i]) /\ Len(brigade'[j].bytes) <= Len(brigade[i].bytes)
  BY DEF Local, Shrinks
<1>3. Shape
  BY ShapeIs
<1>4. outq' \in Seq(Packets)
  <2>1. outq \in Seq(Packets) /\ \A p \in Packets : Append(outq, p) \in Seq(Packets)
    BY <1>3 DEF Shape
  <2>2. QED BY <1>1, <2>1 DEF Sent
<1>5. \A i \in DOMAIN brigade' : brigade'[i].type \in Types =>
         brigade'[i].n <= PacketDefault /\ Len(brigade'[i].bytes) <= brigade'[i].n
  <2>1. TAKE j \in DOMAIN brigade'
  <2>2. PICK i \in DOMAIN brigade :
           Same(brigade'[j], brigade[i]) /\ Len(brigade'[j].bytes) <= Len(brigade[i].bytes)
    BY <1>2
  <2>3. brigade[i] \in Packets /\ brigade'[j] \in Packets
    BY <1>1, <1>3 DEF Shape
  <2>4. brigade[i].type \in Types =>
           brigade[i].n <= PacketDefault /\ Len(brigade[i].bytes) <= brigade[i].n
    BY <1>3 DEF Shape
  <2>5. /\ Len(brigade[i].bytes) \in Nat /\ Len(brigade'[j].bytes) \in Nat
        /\ brigade[i].n \in Nat
    BY <2>3 DEF Packets
  <2>6. QED BY <2>2, <2>4, <2>5 DEF Same
<1>6. Shape'
  BY <1>1, <1>3, <1>4, <1>5 DEF Shape, Socket
<1>7. \A c \in DOMAIN ch' : c < next_channel'
  <2>1. TAKE c \in DOMAIN ch'
  <2>2. IF c \in DOMAIN ch THEN c < next_channel
        ELSE c = next_channel /\ next_channel' = next_channel + 1
    BY DEF Local, Fresh, Connection
  <2>3. next_channel \in Nat /\ next_channel' \in Nat /\ c \in Nat
    BY <1>1, <1>3, Constants DEF Shape
  <2>4. QED BY <1>1, <2>2, <2>3
<1>8. \A i \in DOMAIN brigade' : brigade'[i].type = "OPEN_CONFIRMATION" => brigade'[i].n = PeerWindow
  BY <1>2 DEF Same, Connection
<1>9. /\ tcp' = "up" => socket_state' = "CONNECTED"
      /\ tcp' = "reset" => inq' = <<>> /\ outq' = <<>>
  BY <1>1 DEF Connection, Socket, Sent
<1>10. Connection'
  BY <1>1, <1>7, <1>8, <1>9 DEF Connection
<1>11. Sized'
  BY <1>1 DEF Sized
<1>12. QED BY <1>6, <1>10, <1>11 DEF Base

\* and so does a packet that arrives.
LEMMA BaseArrives ==
    ASSUME TypeOK, Connection, Sized, Arrives
    PROVE  Base'
<1> DEFINE p == Head(inq)
<1>1. /\ socket_state = "CONNECTED" /\ inq # <<>> /\ p \in Packets
      /\ inq' = Tail(inq)
      /\ UNCHANGED <<next_channel, tcp, peer, noise, delivered, uneven>>
      /\ Filed(p)
  BY DEF Arrives
<1>2. Shape
  BY ShapeIs
<1>3. /\ inq \in Seq(Packets) /\ inq' \in Seq(Packets) /\ p = inq[1] /\ 1 \in DOMAIN inq
      /\ DOMAIN inq \subseteq Nat
      /\ \A i \in DOMAIN inq' : i + 1 \in DOMAIN inq /\ inq'[i] = inq[i + 1]
  <2>1. inq \in Seq(Packets)
    BY <1>2 DEF Shape
  <2>2. QED BY <1>1, <2>1, TailIs
<1>4. p.type = "DISCONNECT" => tcp # "up"
  BY <1>3 DEF Connection
<1>5. p.type = "OPEN_CONFIRMATION" => p.n = PeerWindow
  BY <1>3 DEF Connection
<1> HIDE DEF p
<1>6. /\ socket_state' = IF p.type = "DISCONNECT" THEN "DISCONNECTED" ELSE socket_state
      /\ DOMAIN ch' = DOMAIN ch /\ ch' \in [DOMAIN ch -> ChannelRecords]
      /\ Files(p) /\ wrapped' \cup ignored' \subseteq Ids /\ Replied(p)
  BY <1>1 DEF Filed
<1>7. outq' = outq \/ \E q \in Packets : outq' = Append(outq, q) /\ tcp = "up"
  BY <1>6 DEF Replied, Sent
<1>8. outq' \in Seq(Packets)
  <2>1. outq \in Seq(Packets) /\ \A q \in Packets : Append(outq, q) \in Seq(Packets)
    BY <1>2 DEF Shape
  <2>2. QED BY <1>7, <2>1
<1>9. /\ brigade' \in Seq(Packets)
      /\ \A i \in DOMAIN brigade' : brigade'[i].type \in Types =>
            brigade'[i].n <= PacketDefault /\ Len(brigade'[i].bytes) <= brigade'[i].n
      /\ \A i \in DOMAIN brigade' :
            brigade'[i].type = "OPEN_CONFIRMATION" => brigade'[i].n = PeerWindow
  <2>1. /\ brigade \in Seq(Packets)
        /\ \A i \in DOMAIN brigade : brigade[i].type \in Types =>
              brigade[i].n <= PacketDefault /\ Len(brigade[i].bytes) <= brigade[i].n
        /\ \A i \in DOMAIN brigade :
              brigade[i].type = "OPEN_CONFIRMATION" => brigade[i].n = PeerWindow
    BY <1>2 DEF Shape, Connection
  <2>2. CASE brigade' = brigade
    BY <2>1, <2>2
  <2>3. ASSUME NEW q \in Packets, brigade' = Append(brigade, q), q.type = p.type,
               IF q.type \in Types THEN q.n <= PacketDefault /\ Len(q.bytes) <= q.n ELSE q = p
        PROVE  /\ brigade' \in Seq(Packets)
               /\ \A i \in DOMAIN brigade' : brigade'[i].type \in Types =>
                     brigade'[i].n <= PacketDefault /\ Len(brigade'[i].bytes) <= brigade'[i].n
               /\ \A i \in DOMAIN brigade' :
                     brigade'[i].type = "OPEN_CONFIRMATION" => brigade'[i].n = PeerWindow
    <3>1. /\ brigade' \in Seq(Packets)
          /\ \A i \in DOMAIN brigade' : \/ i \in DOMAIN brigade /\ brigade'[i] = brigade[i]
                                        \/ brigade'[i] = q
      BY <2>1, <2>3, AppendIs
    <3>2. q.type = "OPEN_CONFIRMATION" => q.n = PeerWindow
      BY <1>5, <2>3 DEF Types
    <3>3. QED BY <2>1, <2>3, <3>1, <3>2
  <2>4. QED BY <1>6, <2>2, <2>3 DEF Files
<1>10. Shape'
  BY <1>1, <1>2, <1>3, <1>6, <1>8, <1>9 DEF Shape
<1>11. Connection'
  <2>1. \A c \in DOMAIN ch' : c < next_channel'
    BY <1>1, <1>6 DEF Connection
  <2>2. tcp' = "up" => socket_state' = "CONNECTED"
    BY <1>1, <1>4, <1>6
  <2>3. tcp # "reset"
    BY <1>1 DEF Connection
  <2>4. \A i \in DOMAIN inq' : /\ inq'[i].type = "DISCONNECT" => tcp # "up"
                               /\ inq'[i].type = "OPEN_CONFIRMATION" => inq'[i].n = PeerWindow
    BY <1>3 DEF Connection
  <2>5. QED BY <1>1, <1>9, <2>1, <2>2, <2>3, <2>4 DEF Connection
<1>12. Sized'
  BY <1>3 DEF Sized
<1>13. QED BY <1>10, <1>11, <1>12 DEF Base

\* What the server sends.
LEMMA SendsIs ==
    ASSUME TypeOK, NEW q \in Packets, Sends(q)
    PROVE  /\ inq \in Seq(Packets) /\ inq' \in Seq(Packets)
           /\ Len(inq) \in Nat /\ DOMAIN inq = 1 .. Len(inq) /\ DOMAIN inq' = 1 .. Len(inq) + 1
           /\ \A i \in DOMAIN inq' : \/ i \in DOMAIN inq /\ inq'[i] = inq[i]
                                     \/ i = Len(inq) + 1 /\ inq'[i] = q
           /\ \A d : /\ Adjusts(inq', d) = Adjusts(inq, d) +
                           IF q.type = "WINDOW_ADJUST" /\ q.ch = d THEN q.n ELSE 0
                     /\ DataOf(inq', d) = DataOf(inq, d) + IF IsData(q, d) THEN q.n ELSE 0
<1>1. inq \in Seq(Packets) /\ inq' = Append(inq, q)
  BY ShrinksType DEF Sends
<1>2. QED BY <1>1, AppendIs, SumsAppend

\* What it takes.
LEMMA ServesIs ==
    ASSUME TypeOK, NEW p, Serves(p)
    PROVE  /\ outq \in Seq(Packets) /\ outq' \in Seq(Packets) /\ p \in Packets
           /\ 1 \in DOMAIN outq /\ p = outq[1] /\ DOMAIN outq \subseteq Nat
           /\ \A i \in DOMAIN outq' : i + 1 \in DOMAIN outq /\ outq'[i] = outq[i + 1]
           /\ \A d : /\ Adjusts(outq, d) = Adjusts(outq', d) +
                           IF p.type = "WINDOW_ADJUST" /\ p.ch = d THEN p.n ELSE 0
                     /\ DataOf(outq, d) = DataOf(outq', d) + IF IsData(p, d) THEN p.n ELSE 0
<1>1. outq \in Seq(Packets) /\ outq # <<>> /\ p = Head(outq) /\ outq' = Tail(outq)
  BY ShrinksType DEF Serves
<1>2. QED BY <1>1, TailIs, SumsTail

\* The packets of the server on a connection that is up.
Proper(q) ==
    /\ q.type # "DISCONNECT"
    /\ q.type = "OPEN_CONFIRMATION" => q.n = PeerWindow
    /\ q.type \in Types => q.n <= PacketDefault /\ Len(q.bytes) = q.n

\* The types of packets, and numbers they carry.
LEMMA PacketTypesAre ==
    /\ {"OPEN_CONFIRMATION", "OPEN_FAILURE", "SUCCESS", "FAILURE", "WINDOW_ADJUST",
        "EXIT_STATUS", "EOF", "CLOSE", "DISCONNECT", "IGNORE", "OPEN_FORWARDED",
        "OPEN_OTHER"} \subseteq PacketTypes \ Types
    /\ 0 \in Nat /\ 1 \in Nat /\ 0 \in Ids /\ PeerWindow \in Nat
  BY Constants DEF PacketTypes, Types

\* What the server takes and sends, whatever it does.
LEMMA ServerSent ==
    ASSUME TypeOK, ServerKinds, ~Leaves
    PROVE  /\ tcp = "up" /\ tcp' = "up" /\ peer' \in [Ids -> PeerRecords]
           /\ outq' = outq \/ \E p \in Packets : Serves(p)
           /\ \/ inq' = inq
              \/ \E q \in Packets : Sends(q) /\ Proper(q)
              \/ \E q, x \in Packets : /\ inq' = Append(Append(inq, q), x)
                                       /\ Proper(q) /\ Proper(x)
<1>1. tcp = "up" /\ tcp' = "up" /\ peer \in [Ids -> PeerRecords]
  BY DEF ServerKinds, TypeOK
<1>2. \A p \in Packets : p.ch \in Ids
  BY DEF Packets
<1>3. ASSUME NEW type \in {"OPEN_FAILURE", "SUCCESS", "FAILURE", "WINDOW_ADJUST", "EXIT_STATUS",
                           "EOF", "CLOSE", "IGNORE", "OPEN_FORWARDED", "OPEN_OTHER"},
             NEW c \in Ids, NEW n \in Nat
      PROVE  Packet(type, c, n) \in Packets /\ Proper(Packet(type, c, n))
  <2>1. type \in PacketTypes
    BY PacketTypesAre
  <2>2. Packet(type, c, n) \in Packets /\ Packet(type, c, n).type = type
    BY <2>1, PacketFields
  <2>3. QED BY <2>2 DEF Proper, Types
<1>4. CASE Drops
  BY <1>1, <1>4 DEF Drops
<1>5. CASE Responds
  <2>1. PICK p \in Packets, type \in {"OPEN_FAILURE", "SUCCESS", "FAILURE"} :
           Serves(p) /\ Sends(Packet(type, p.ch, 0)) /\ peer' \in [Ids -> PeerRecords]
    BY <1>5 DEF Responds, Becomes
  <2>2. QED BY <1>1, <1>2, <1>3, <2>1, PacketTypesAre
<1>6. CASE Accepts
  <2>1. PICK p \in Packets :
           /\ Serves(p) /\ Sends(Packet("OPEN_CONFIRMATION", p.ch, PeerWindow))
           /\ peer' \in [Ids -> PeerRecords]
    BY <1>6 DEF Accepts, Becomes
  <2> DEFINE q == Packet("OPEN_CONFIRMATION", p.ch, PeerWindow)
  <2>2. q \in Packets /\ q.type = "OPEN_CONFIRMATION" /\ q.n = PeerWindow
    <3>1. "OPEN_CONFIRMATION" \in PacketTypes /\ p.ch \in Ids /\ PeerWindow \in Nat
      BY <1>2, PacketTypesAre
    <3>2. QED BY <3>1, PacketFields
  <2>3. Proper(q)
    BY <2>2 DEF Proper, Types
  <2>4. QED BY <1>1, <2>1, <2>2, <2>3
<1>7. CASE Consumes \/ Widens
  <2>1. /\ inq' = inq /\ peer' \in [Ids -> PeerRecords]
        /\ \E p \in Packets : Serves(p)
    BY <1>7 DEF Consumes, Widens, Becomes
  <2>2. QED BY <1>1, <2>1
<1>8. CASE Shuts
  <2>1. PICK c \in Ids : /\ Quiet \/ \E p \in Packets : Serves(p) /\ p.type = "CLOSE"
                         /\ Sends(Packet("CLOSE", c, 0)) /\ peer' \in [Ids -> PeerRecords]
    BY <1>8 DEF Shuts, Becomes
  <2>2. QED BY <1>1, <1>3, <2>1, PacketTypesAre DEF Quiet
<1>9. CASE Produces
  <2>1. PICK c \in Ids, p \in Packets :
          /\ Quiet /\ IsData(p, c) /\ Len(p.bytes) = p.n /\ p.n <= PacketDefault /\ Sends(p)
          /\ peer' \in [Ids -> PeerRecords]
    BY <1>9 DEF Produces, Becomes
  <2>2. Proper(p)
    BY <2>1 DEF Proper, IsData, Types
  <2>3. QED BY <1>1, <2>1, <2>2 DEF Quiet
<1>10. CASE Repays
  <2>1. PICK c \in Ids : /\ Quiet /\ Sends(Packet("WINDOW_ADJUST", c, peer[c].owes))
                         /\ peer' \in [Ids -> PeerRecords]
    BY <1>10 DEF Repays, Becomes
  <2>2. peer[c].owes \in Nat
    BY PeerFields
  <2>3. QED BY <1>1, <1>3, <2>1, <2>2 DEF Quiet
<1>11. CASE Finishes
  <2>1. PICK c \in Ids :
          /\ Quiet /\ inq' = Append(Append(inq, Packet("EXIT_STATUS", c, 1)), Packet("EOF", c, 0))
          /\ peer' \in [Ids -> PeerRecords]
    BY <1>11 DEF Finishes, Becomes
  <2>2. /\ Packet("EXIT_STATUS", c, 1) \in Packets /\ Proper(Packet("EXIT_STATUS", c, 1))
        /\ Packet("EOF", c, 0) \in Packets /\ Proper(Packet("EOF", c, 0))
    BY <1>3, PacketTypesAre
  <2>3. QED BY <1>1, <2>1, <2>2 DEF Quiet
<1>12. CASE Chatters
  <2>1. PICK type \in {"IGNORE", "OPEN_FORWARDED", "OPEN_OTHER"} :
           Quiet /\ peer' = peer /\ Sends(Packet(type, 0, 0))
    BY <1>12 DEF Chatters
  <2>2. QED BY <1>1, <1>3, <2>1, PacketTypesAre DEF Quiet
<1>13. QED
  BY <1>4, <1>5, <1>6, <1>7, <1>8, <1>9, <1>10, <1>11, <1>12 DEF ServerKinds

\* On either wire there is what was there, and what the server sends.
LEMMA ServerWires ==
    ASSUME TypeOK, ServerKinds
    PROVE  /\ outq' \in Seq(Packets) /\ inq' \in Seq(Packets) /\ peer' \in [Ids -> PeerRecords]
           /\ \A j \in DOMAIN outq' : \E i \in DOMAIN outq : outq'[j] = outq[i]
           /\ tcp' = "up" => tcp = "up" /\ \A i \in DOMAIN inq' :
                                 (i \in DOMAIN inq /\ inq'[i] = inq[i]) \/ Proper(inq'[i])
           /\ \A i \in DOMAIN inq' :
                 (i \in DOMAIN inq /\ inq'[i] = inq[i]) \/ Proper(inq'[i])
                                                      \/ inq'[i].type = "DISCONNECT"
           /\ tcp' \in {"up", "fin", "reset"}
           /\ tcp' = "reset" => inq' = <<>> /\ outq' = <<>>
<1>1. outq \in Seq(Packets) /\ inq \in Seq(Packets)
  BY ShrinksType
<1>2. CASE Leaves
  <2>1. /\ tcp' \in {"fin", "reset"} /\ peer' = peer
        /\ outq' = <<>> \/ (outq # <<>> /\ outq' = Tail(outq))
        /\ inq' \in {<<>>, inq} \/ \E c \in Ids : Sends(Packet("DISCONNECT", c, 0))
        /\ tcp' = "reset" => inq' = <<>> /\ outq' = <<>>
    BY <1>2 DEF Leaves
  <2>2. outq' \in Seq(Packets) /\ \A j \in DOMAIN outq' : \E i \in DOMAIN outq : outq'[j] = outq[i]
    <3>1. CASE outq' = <<>>
      BY <3>1
    <3>2. CASE outq # <<>> /\ outq' = Tail(outq)
      BY <1>1, <3>2, TailIs
    <3>3. QED BY <2>1, <3>1, <3>2
  <2>3. /\ inq' \in Seq(Packets)
        /\ \A i \in DOMAIN inq' : (i \in DOMAIN inq /\ inq'[i] = inq[i])
                                  \/ inq'[i].type = "DISCONNECT"
    <3>1. CASE inq' \in {<<>>, inq}
      <4>1. CASE inq' = <<>>
        BY <4>1
      <4>2. CASE inq' = inq
        BY <1>1, <4>2
      <4>3. QED BY <3>1, <4>1, <4>2
    <3>2. ASSUME NEW c \in Ids, Sends(Packet("DISCONNECT", c, 0))
          PROVE  /\ inq' \in Seq(Packets)
                 /\ \A i \in DOMAIN inq' : (i \in DOMAIN inq /\ inq'[i] = inq[i])
                                           \/ inq'[i].type = "DISCONNECT"
      <4>1. Packet("DISCONNECT", c, 0) \in Packets /\ Packet("DISCONNECT", c, 0).type = "DISCONNECT"
        BY PacketTypesAre, PacketFields
      <4>2. QED BY <3>2, <4>1, SendsIs
    <3>3. QED BY <2>1, <3>1, <3>2
  <2>4. peer' \in [Ids -> PeerRecords]
    BY <2>1 DEF TypeOK
  <2>5. QED BY <2>1, <2>2, <2>3, <2>4
<1>3. CASE ~Leaves
  <2>1. /\ tcp = "up" /\ tcp' = "up" /\ peer' \in [Ids -> PeerRecords]
        /\ outq' = outq \/ \E p \in Packets : Serves(p)
        /\ \/ inq' = inq
           \/ \E q \in Packets : Sends(q) /\ Proper(q)
           \/ \E q, x \in Packets : /\ inq' = Append(Append(inq, q), x)
                                    /\ Proper(q) /\ Proper(x)
    BY <1>3, ServerSent
  <2>2. outq' \in Seq(Packets) /\ \A j \in DOMAIN outq' : \E i \in DOMAIN outq : outq'[j] = outq[i]
    BY <1>1, <2>1, ServesIs
  <2>3. /\ inq' \in Seq(Packets)
        /\ \A i \in DOMAIN inq' : (i \in DOMAIN inq /\ inq'[i] = inq[i]) \/ Proper(inq'[i])
    <3>1. CASE inq' = inq
      BY <1>1, <3>1
    <3>2. ASSUME NEW q \in Packets, Sends(q), Proper(q)
          PROVE  /\ inq' \in Seq(Packets)
                 /\ \A i \in DOMAIN inq' : (i \in DOMAIN inq /\ inq'[i] = inq[i]) \/ Proper(inq'[i])
      BY <3>2, SendsIs
    <3>3. ASSUME NEW q \in Packets, NEW x \in Packets, inq' = Append(Append(inq, q), x),
                 Proper(q), Proper(x)
          PROVE  /\ inq' \in Seq(Packets)
                 /\ \A i \in DOMAIN inq' : (i \in DOMAIN inq /\ inq'[i] = inq[i]) \/ Proper(inq'[i])
      <4> DEFINE some == Append(inq, q)
      <4>1. /\ some \in Seq(Packets)
            /\ \A i \in DOMAIN some : (i \in DOMAIN inq /\ some[i] = inq[i]) \/ some[i] = q
        BY <1>1, AppendIs
      <4> HIDE DEF some
      <4>2. /\ Append(some, x) \in Seq(Packets)
            /\ \A i \in DOMAIN Append(some, x) :
                  (i \in DOMAIN some /\ Append(some, x)[i] = some[i]) \/ Append(some, x)[i] = x
        BY <4>1, AppendIs
      <4>3. inq' = Append(some, x)
        BY <3>3 DEF some
      <4>4. QED BY <3>3, <4>1, <4>2, <4>3
    <3>4. QED BY <2>1, <3>1, <3>2, <3>3
  <2>4. QED BY <2>1, <2>2, <2>3
<1>4. QED BY <1>2, <1>3

\* The server keeps it.
LEMMA BaseServer ==
    ASSUME TypeOK, Connection, Sized, ServerKinds
    PROVE  Base'
<1>1. /\ outq' \in Seq(Packets) /\ inq' \in Seq(Packets) /\ peer' \in [Ids -> PeerRecords]
      /\ tcp' = "up" => tcp = "up" /\ \A i \in DOMAIN inq' :
                            (i \in DOMAIN inq /\ inq'[i] = inq[i]) \/ Proper(inq'[i])
      /\ \A i \in DOMAIN inq' :
            (i \in DOMAIN inq /\ inq'[i] = inq[i]) \/ Proper(inq'[i])
                                                 \/ inq'[i].type = "DISCONNECT"
      /\ tcp' \in {"up", "fin", "reset"}
      /\ tcp' = "reset" => inq' = <<>> /\ outq' = <<>>
  BY ServerWires
<1>2. Shape
  BY ShapeIs
<1>3. /\ UNCHANGED <<ch, next_channel, brigade, socket_state, ignored, wrapped>>
      /\ noise' \in Nat
  BY DEF ServerKinds, clientVars, history
<1>4. Shape'
  BY <1>1, <1>2, <1>3 DEF Shape
<1>5. \A i \in DOMAIN inq' : inq'[i].type = "DISCONNECT" => tcp' # "up"
  BY <1>1 DEF Connection, Proper
<1>6. \A i \in DOMAIN inq' : inq'[i].type = "OPEN_CONFIRMATION" => inq'[i].n = PeerWindow
  BY <1>1 DEF Connection, Proper
<1>7. Connection'
  BY <1>1, <1>3, <1>5, <1>6 DEF Connection
<1>8. \A i \in DOMAIN inq' : inq'[i].type \in Types =>
         inq'[i].n <= PacketDefault /\ Len(inq'[i].bytes) = inq'[i].n
  BY <1>1 DEF Sized, Proper, Types
<1>9. Sized'
  BY <1>8 DEF Sized
<1>10. QED BY <1>4, <1>7, <1>9 DEF Base

\* What of TypeOK concerns the program and its calls.
CallOK ==
    /\ call \in Calls /\ call.k <= call.n
    /\ call.op \notin {"none", "open"} => call.c \in Mine
Program ==
    /\ todo \in Seq(Commands)
    /\ delivered \in [Streams -> Seq(Nat)]
    /\ uneven \subseteq Ids

\* The call is over.
LEMMA CallIdle ==
    ASSUME call' = Idle
    PROVE  CallOK' /\ Places'
<1>1. /\ Idle \in Calls /\ Idle.k <= Idle.n /\ Idle.op = "none" /\ Idle.pc = "idle"
  BY Constants DEF Idle, Calls
<1>2. CallOK'
  BY <1>1 DEF CallOK
<1>3. Places'
  BY <1>1 DEF Places, PlacesOf, Waits
<1>4. QED BY <1>2, <1>3

\* The call goes from one place to another.
LEMMA CallGoesTo ==
    ASSUME TypeOK, Places, NEW pc \in PlacesOf(call.op), call' = [call EXCEPT !.pc = pc],
           call.op \notin {"none", "open"} => call.c \in Mine',
           call.op = "open" /\ pc \in {"first", "again", "wait"} =>
              call.c \in DOMAIN ch' /\ ~ch'[call.c].confirmed,
           call.op = "open" /\ pc \notin {"first", "again", "wait"} => call.c \notin DOMAIN ch'
    PROVE  CallOK' /\ Places'
<1>1. /\ call \in Calls /\ call.k <= call.n
      /\ call.op \in {"none", "open", "request", "read", "write", "wait_closed", "free"}
  BY DEF TypeOK, Calls
<1>2. pc \in {"idle", "first", "again", "wait", "drain", "block", "take", "write", "closing",
              "pollData", "scanData", "pollExt", "scanExt", "unlink"}
  BY <1>1 DEF PlacesOf
<1>3. /\ call' \in Calls
      /\ call'.op = call.op /\ call'.pc = pc /\ call'.c = call.c /\ call'.n = call.n
      /\ call'.k = call.k
  BY <1>1, <1>2 DEF Calls
<1>4. CallOK'
  BY <1>1, <1>3 DEF CallOK
<1>5. Places'
  BY <1>3 DEF Places, Waits
<1>6. QED BY <1>4, <1>5

\* The channels there are stay, and whether the server has confirmed them.
Steady ==
    /\ DOMAIN ch' = DOMAIN ch
    /\ \A c \in DOMAIN ch : ch'[c].confirmed = ch[c].confirmed

\* It goes on to another place while the channels stay.
LEMMA CallStays ==
    ASSUME TypeOK, Places, Steady, NEW pc \in PlacesOf(call.op),
           call' = [call EXCEPT !.pc = pc], call.op = "open" => (Waits <=> pc \in {"first", "again", "wait"})
    PROVE  CallOK' /\ Places'
<1>1. call.op \notin {"none", "open"} => call.c \in Mine'
  BY DEF TypeOK, Mine, Steady
<1>2. call.op = "open" /\ pc \in {"first", "again", "wait"} =>
         call.c \in DOMAIN ch' /\ ~ch'[call.c].confirmed
  BY DEF Places, Steady
<1>3. call.op = "open" /\ pc \notin {"first", "again", "wait"} => call.c \notin DOMAIN ch'
  BY DEF Places, Steady
<1>4. QED BY <1>1, <1>2, <1>3, CallGoesTo

\* The call stays where it is.
LEMMA CallSame ==
    ASSUME TypeOK, Places, Steady, call' = call
    PROVE  CallOK' /\ Places'
<1>1. call' = [call EXCEPT !.pc = call.pc]
  BY DEF TypeOK, Calls
<1>2. call.pc \in PlacesOf(call.op)
  BY DEF Places
<1>3. QED BY <1>1, <1>2, CallStays DEF Waits

\* A packet that arrives opens and closes no channel.
LEMMA ArrivesSteady ==
    ASSUME Arrives
    PROVE  Steady
  BY DEF Arrives, Filed, Hears, Steady

\* The records of calls.
MadeOf(op, pc, c, s, n, over) ==
    [op |-> op, pc |-> pc, c |-> c, s |-> s, n |-> n, k |-> 0, over |-> over]

\* A call that begins.
LEMMA CallIs ==
    ASSUME NEW op \in {"open", "request", "read", "write", "wait_closed", "free"},
           NEW pc \in {"first", "drain", "write", "closing", "pollData"},
           NEW c \in Ids, NEW s \in {0, 1}, NEW n \in Nat, NEW over \in BOOLEAN
    PROVE  LET r == [op |-> op, pc |-> pc, c |-> c, s |-> s, n |-> n, k |-> 0, over |-> over]
           IN  /\ r \in Calls
               /\ r.op = op /\ r.pc = pc /\ r.c = c /\ r.n = n /\ r.k = 0
  BY DEF Calls

\* Such a record is where the call may be.
LEMMA CallBegins ==
    ASSUME NEW op, NEW pc, NEW c \in Ids, NEW s \in {0, 1}, NEW n \in Nat, NEW over \in BOOLEAN,
           \/ op = "open" /\ pc \in {"first", "pollData"}
           \/ op = "request" /\ pc = "first"
           \/ op = "read" /\ pc = "drain"
           \/ op = "write" /\ pc = "write"
           \/ op = "wait_closed" /\ pc = "closing"
           \/ op = "free" /\ pc = "pollData",
           call' = MadeOf(op, pc, c, s, n, over),
           op # "open" => c \in Mine',
           pc = "first" /\ op = "open" => c \in DOMAIN ch' /\ ~ch'[c].confirmed,
           pc = "pollData" /\ op = "open" => c \notin DOMAIN ch'
    PROVE  CallOK' /\ Places'
<1>1. /\ op \in {"open", "request", "read", "write", "wait_closed", "free"}
      /\ pc \in {"first", "drain", "write", "closing", "pollData"}
      /\ pc \in PlacesOf(op)
      /\ op = "open" => pc \in {"first", "pollData"}
  BY DEF PlacesOf
<1> DEFINE r == [op |-> op, pc |-> pc, c |-> c, s |-> s, n |-> n, k |-> 0, over |-> over]
<1>2. call' = r
  BY DEF MadeOf
<1>0. r \in Calls /\ r.op = op /\ r.pc = pc /\ r.c = c /\ r.n = n /\ r.k = 0
  BY <1>1, CallIs
<1> HIDE DEF r
<1>3. /\ call' \in Calls
      /\ call'.op = op /\ call'.pc = pc /\ call'.c = c /\ call'.n = n /\ call'.k = 0
  BY <1>2, <1>0
<1>4. CallOK'
  BY <1>1, <1>3 DEF CallOK
<1>5. Places'
  BY <1>1, <1>3 DEF Places, Waits
<1>6. QED BY <1>4, <1>5

\* Each of the calls begins where it may be.
LEMMA CallBegin ==
    ASSUME TypeOK, Connection, Places, NEW o, o.op # "none", o.c \in Ids,
           o.op \in {"read", "read_stderr", "write"} => o.arg \in Nat,
           Begin(o), Local
    PROVE  CallOK' /\ Places'
<1>1. CASE Returns(o) \/ set_blocking(o.c, o.arg) \/ flush_ex(o.c, o.arg)
           \/ handle_extended_data(o.c, o.arg) \/ force_adjust(o.c) \/ send_eof(o.c) \/ close(o.c)
  <2>1. call' = Idle
    BY <1>1 DEF Returns, set_blocking, flush_ex, handle_extended_data, Flush, force_adjust,
                send_eof, close
  <2>2. QED BY <2>1, CallIdle
<1>2. CASE open_ex
  <2>1. nextid = next_channel /\ next_channel \in Ids /\ next_channel \notin DOMAIN ch
    <3>1. nextid = next_channel
      BY NextId
    <3>2. next_channel \in Nat /\ next_channel < MaxChannels /\ MaxChannels \in Nat
      BY <1>2, <3>1, Constants DEF open_ex, TypeOK
    <3>3. ~(next_channel < next_channel)
      BY <3>2
    <3>4. QED BY <3>1, <3>2, <3>3 DEF Ids, Connection
  <2>2. PICK ok \in SendResults :
           /\ ch' = IF ok THEN [c \in DOMAIN ch \cup {nextid} |->
                                  IF c = nextid THEN NewChannel ELSE ch[c]]
                    ELSE ch
           /\ call' = Call("open", IF ok THEN "first" ELSE "pollData", nextid)
    BY <1>2 DEF open_ex
  <2>3. call' = MadeOf("open", IF ok THEN "first" ELSE "pollData", nextid, 0, 0, FALSE)
    BY <2>2 DEF Call, Idle, MadeOf
  <2>4. CASE ok
    <3>1. nextid \in DOMAIN ch' /\ ~ch'[nextid].confirmed
      BY <2>2, <2>4 DEF NewChannel
    <3>2. QED BY <2>1, <2>3, <2>4, <3>1, CallBegins
  <2>5. CASE ~ok
    <3>1. nextid \notin DOMAIN ch'
      BY <2>1, <2>2, <2>5
    <3>2. QED BY <2>1, <2>3, <2>5, <3>1, CallBegins
  <2>6. QED BY <2>4, <2>5
<1>3. CASE o.c \in Mine /\ (setenv_ex(o.c) \/ request_pty_ex(o.c) \/ x11_req_ex(o.c)
                            \/ process_startup(o.c))
  <2>1. ch' = ch /\ call' \in {Idle, Call("request", "first", o.c)}
    BY <1>3 DEF setenv_ex, request_pty_ex, x11_req_ex, process_startup, Request, clientVars
  <2>2. o.c \in Mine'
    BY <1>3, <2>1 DEF Mine
  <2>3. CASE call' = Call("request", "first", o.c)
    <3>1. call' = MadeOf("request", "first", o.c, 0, 0, FALSE)
      BY <2>3 DEF Call, Idle, MadeOf
    <3>2. QED BY <2>2, <3>1, CallBegins
  <2>4. CASE call' = Idle
    BY <2>4, CallIdle
  <2>5. QED BY <2>1, <2>3, <2>4
<1>4. CASE o.c \in Mine /\ o.arg \in Nat /\ \E s \in {0, 1} : read_ex(o.c, s, o.arg)
  <2>1. PICK s \in {0, 1} : read_ex(o.c, s, o.arg)
    BY <1>4
  <2>2. call' = MadeOf("read", "drain", o.c, s, o.arg, FALSE)
    BY <2>1 DEF read_ex, Call, Idle, MadeOf
  <2>3. o.c \in Mine'
    BY <1>4, <2>1 DEF Mine, read_ex, clientVars
  <2>4. QED BY <1>4, <2>2, <2>3, CallBegins
<1>5. CASE o.c \in Mine /\ o.arg \in Nat /\ write_ex(o.c, o.arg)
  <2>1. call' = MadeOf("write", "write", o.c, 0, o.arg, FALSE)
    BY <1>5 DEF write_ex, Call, Idle, MadeOf
  <2>2. o.c \in Mine'
    BY <1>5 DEF Mine, write_ex, clientVars
  <2>3. QED BY <1>5, <2>1, <2>2, CallBegins
<1>6. CASE o.c \in Mine /\ wait_closed(o.c)
  <2>1. call' = MadeOf("wait_closed", "closing", o.c, 0, 0, FALSE)
    BY <1>6 DEF wait_closed, Call, Idle, MadeOf
  <2>2. o.c \in Mine'
    BY <1>6 DEF Mine, wait_closed, clientVars
  <2>3. QED BY <1>6, <2>1, <2>2, CallBegins
<1>7. CASE o.c \in Mine /\ free(o.c)
  <2>1. o.c \in DOMAIN ch /\ ch[o.c].confirmed /\ ch[o.c].rclose \in BOOLEAN
    BY <1>7, ChannelFields DEF Mine
  <2>2. call' = Idle \/ call' = [Call("free", "pollData", o.c) EXCEPT !.over = ch[o.c].rclose]
    BY <1>7 DEF free
  <2>3. ch' = ch \/ ch' = [ch EXCEPT ![o.c].lclose = TRUE]
    BY <1>7 DEF free, Close
  <2>4. o.c \in Mine'
    <3>1. o.c \in DOMAIN ch'
      BY <2>1, <2>3
    <3>2. ch'[o.c].confirmed
      BY <2>1, <3>1 DEF Local, Moves
    <3>3. QED BY <3>1, <3>2 DEF Mine
  <2>5. CASE call' = Idle
    BY <2>5, CallIdle
  <2>6. CASE call' = [Call("free", "pollData", o.c) EXCEPT !.over = ch[o.c].rclose]
    <3> DEFINE over == ch[o.c].rclose
    <3>1. call' = [Call("free", "pollData", o.c) EXCEPT !.over = over] /\ over \in BOOLEAN
      BY <2>1, <2>6
    <3> HIDE DEF over
    <3>2. call' = MadeOf("free", "pollData", o.c, 0, 0, over)
      BY <3>1 DEF Call, Idle, MadeOf
    <3>3. QED BY <2>4, <3>1, <3>2, CallBegins
  <2>7. QED BY <2>2, <2>5, <2>6
<1>8. QED
  BY <1>1, <1>2, <1>3, <1>4, <1>5, <1>6, <1>7 DEF Begin

\* The call in progress goes on.
LEMMA CallTake ==
    ASSUME TypeOK, Places, Take, Local
    PROVE  CallOK' /\ Places'
<1> DEFINE p == brigade[ReadNext]
           left == call.n - call.k
<1>1. call.op = "read" /\ call.c \in Mine
  BY PlaceOps DEF Take
<1>2. left \in Nat /\ Len(p.bytes) \in Nat /\ call.k \in Nat /\ call.n \in Nat
  <2>1. p \in Packets
    BY ReadIs DEF Take
  <2>2. p.bytes \in Seq(Nat)
    BY <2>1 DEF Packets
  <2>3. left \in Nat
    BY CallFields
  <2>4. QED BY <2>2, <2>3, CallFields
<1>3. PICK want \in Nat : want <= left /\ call' = [call EXCEPT !.k = @ + want]
  <2>1. CASE left >= Len(p.bytes)
    <3>1. call' = [call EXCEPT !.k = @ + Len(p.bytes)]
      BY <2>1 DEF Take
    <3>2. QED BY <1>2, <2>1, <3>1
  <2>2. CASE ~(left >= Len(p.bytes))
    <3>1. call' = [call EXCEPT !.k = @ + left]
      BY <2>2 DEF Take
    <3>2. QED BY <1>2, <3>1
  <2>3. QED BY <2>1, <2>2
<1>4. call.k + want \in Nat /\ call.k + want <= call.n
  BY <1>2, <1>3
<1>5. /\ call' \in Calls /\ call'.op = "read" /\ call'.pc = call.pc /\ call'.c = call.c
      /\ call'.k <= call'.n
  BY <1>1, <1>3, <1>4 DEF TypeOK, Calls
<1>6. call.c \in DOMAIN ch'
  <2>1. ch' = ch \/ \E n, f : receive_window_adjust(ch, call.c, n, f)
    BY DEF Take
  <2>2. DOMAIN ch' = DOMAIN ch
    BY <2>1 DEF receive_window_adjust, TypeOK
  <2>3. QED BY <1>1, <2>2 DEF Mine
<1>7. call.c \in Mine'
  BY <1>1, <1>6 DEF Local, Moves, Mine
<1>8. CallOK'
  BY <1>5, <1>7 DEF CallOK
<1>9. Places'
  BY <1>1, <1>5 DEF Places, PlacesOf, Take
<1>10. QED BY <1>8, <1>9

\* channel_write_ex goes on, or is over.
LEMMA CallWriteData ==
    ASSUME TypeOK, Places, WriteData, Local
    PROVE  CallOK' /\ Places'
<1>1. call.op = "write" /\ call.c \in Mine
  BY PlaceOps DEF WriteData
<1>2. call.n \in Nat /\ ch[call.c].lwin \in Nat /\ PeerPacket \in Nat
  BY <1>1, CallFields, ChannelFields, Constants DEF Mine
<1>3. bufwrite \in Nat /\ bufwrite <= call.n
  <2> DEFINE limits == {call.n, ch[call.c].lwin, PeerPacket}
  <2>1. limits \in SUBSET Nat /\ limits # {} /\ call.n \in limits
    BY <1>2
  <2>2. bufwrite = CHOOSE n \in limits : \A m \in limits : n <= m
    BY DEF bufwrite
  <2> HIDE DEF limits
  <2>3. bufwrite \in limits /\ \A m \in limits : bufwrite <= m
    BY <2>1, <2>2, FirstOf
  <2>4. QED BY <2>1, <2>3
<1>4. call' = Idle \/ call' = [call EXCEPT !.n = @ - bufwrite]
  BY DEF WriteData
<1>5. ch' = ch \/ ch' = [ch EXCEPT ![call.c].lwin = @ - bufwrite]
  BY DEF WriteData
<1>6. DOMAIN ch' = DOMAIN ch
  BY <1>5 DEF TypeOK
<1>7. call.c \in Mine'
  BY <1>1, <1>6 DEF Local, Moves, Mine
<1>8. CASE call' = [call EXCEPT !.n = @ - bufwrite]
  <2> DEFINE left == call.n - bufwrite
  <2>1. /\ left \in Nat /\ 0 <= left /\ call.k = 0 /\ call \in Calls
        /\ call' = [call EXCEPT !.n = left]
    BY <1>1, <1>2, <1>3, <1>8 DEF Places, TypeOK
  <2> HIDE DEF left
  <2>2. /\ call' \in Calls /\ call'.op = "write" /\ call'.pc = call.pc /\ call'.c = call.c
        /\ call'.k = 0 /\ call'.k <= call'.n
    BY <1>1, <2>1 DEF Calls
  <2>3. CallOK'
    BY <1>7, <2>2 DEF CallOK
  <2>4. Places'
    BY <2>2 DEF Places, PlacesOf, WriteData
  <2>5. QED BY <2>3, <2>4
<1>9. QED
  BY <1>4, <1>8, CallIdle

\* Each step of a call leaves it where it may be.
LEMMA CallGoes ==
    ASSUME TypeOK, Connection, Places, Goes, Local \/ Arrives, Receive => Arrives
    PROVE  CallOK' /\ Places'
<1>0. /\ call.pc \in PlacesOf(call.op)
      /\ call.op \in {"none", "open", "request", "read", "write", "wait_closed", "free"}
  BY DEF Places, TypeOK, Calls
<1>1. CASE Answered \/ WriteFails \/ WaitEnds \/ WaitFails \/ Unlink
  <2>1. call' = Idle
    BY <1>1 DEF Answered, WriteFails, WaitEnds, WaitFails, Unlink
  <2>2. QED BY <2>1, CallIdle
<1>2. CASE OpenFailed \/ NoAnswer \/ AwaitError
  <2>1. call' = Idle \/ (ch' = Unlinked(call.c) /\ call' = [call EXCEPT !.pc = "pollData"]
                         /\ call.op = "open")
    BY <1>2 DEF OpenFailed, NoAnswer, AwaitError, GiveUp
  <2>2. CASE /\ ch' = Unlinked(call.c) /\ call' = [call EXCEPT !.pc = "pollData"]
             /\ call.op = "open"
    <3>1. call.c \notin DOMAIN ch'
      BY <2>2 DEF Unlinked
    <3>2. "pollData" \in PlacesOf(call.op)
      BY <2>2 DEF PlacesOf
    <3>3. QED BY <2>2, <3>1, <3>2, CallGoesTo
  <2>3. QED BY <2>1, <2>2, CallIdle
<1>3. CASE NotThere
  <2>1. Steady /\ call' = [call EXCEPT !.pc = "wait"] /\ Waits
    BY <1>3 DEF NotThere, Steady, clientVars, Waits
  <2>2. "wait" \in PlacesOf(call.op)
    BY <2>1, PlaceOps DEF PlacesOf
  <2>3. QED BY <2>1, <2>2, CallStays
<1>4. CASE AwaitPacket
  <2>1. PICK pc \in {"again", "wait"} : call' = [call EXCEPT !.pc = pc]
    BY <1>4 DEF AwaitPacket
  <2>2. Steady /\ Waits
    BY <1>4, ArrivesSteady DEF AwaitPacket, Waits
  <2>3. pc \in PlacesOf(call.op)
    BY <2>2, PlaceOps DEF PlacesOf
  <2>4. QED BY <2>1, <2>2, <2>3, CallStays
<1>5. CASE ReadPacket \/ ReadNothing \/ ReadFails \/ ReadEnds
  <2>1. Steady
    <3>1. CASE ReadPacket
      BY <3>1, ArrivesSteady DEF ReadPacket
    <3>2. CASE ReadNothing \/ ReadFails \/ ReadEnds
      BY <3>2 DEF ReadNothing, ReadFails, ReadEnds, ReadError, NothingYet, clientVars, Steady
    <3>3. QED BY <1>5, <3>1, <3>2
  <2>2. /\ call.op = "read"
        /\ call' = Idle \/ \E pc \in {"drain", "take", "block"} : call' = [call EXCEPT !.pc = pc]
    BY <1>5, PlaceOps DEF ReadPacket, ReadNothing, ReadFails, ReadEnds
  <2>3. \A pc \in {"drain", "take", "block"} : pc \in PlacesOf(call.op)
    BY <2>2 DEF PlacesOf
  <2>4. QED BY <2>1, <2>2, <2>3, CallStays, CallIdle
<1>6. CASE Take \/ WriteData
  <2>1. Local
    <3>1. Arrives => inq' # inq
      <4>1. inq \in Seq(Packets)
        BY ShrinksType
      <4>2. inq # <<>> => Tail(inq) # inq
        BY <4>1
      <4>3. QED BY <4>2 DEF Arrives
    <3>2. inq' = inq
      BY <1>6 DEF Take, WriteData
    <3>3. QED BY <3>1, <3>2
  <2>2. QED BY <1>6, <2>1, CallTake, CallWriteData
<1>7. CASE WriteWaits \/ WaitPacket
  <2>1. Steady /\ call' = call
    BY <1>7, ArrivesSteady DEF WriteWaits, WaitPacket
  <2>2. QED BY <2>1, CallSame
<1>8. CASE PollPacket \/ PollNothing \/ Clear
  <2>1. Steady
    <3>1. CASE PollPacket
      BY <3>1, ArrivesSteady DEF PollPacket
    <3>2. CASE PollNothing \/ Clear
      BY <3>2 DEF PollNothing, Clear, NothingYet, clientVars, Steady
    <3>3. QED BY <1>8, <3>1, <3>2
  <2>2. /\ call.op \in {"open", "free"} /\ ~Waits
        /\ call.pc \in {"pollData", "pollExt", "scanData", "scanExt"}
    BY <1>8, PlaceOps DEF PollPacket, PollNothing, Clear, Waits
  <2>3. PICK pc \in {"pollData", "scanData", "pollExt", "scanExt", "unlink"} :
           call' = [call EXCEPT !.pc = pc]
    <3>1. CASE PollPacket
      BY <2>2, <3>1 DEF PollPacket, Scan, Miss
    <3>2. CASE PollNothing
      BY <2>2, <3>2 DEF PollNothing, Scan, Miss
    <3>3. CASE Clear
      BY <2>2, <3>3 DEF Clear, Miss
    <3>4. QED BY <1>8, <3>1, <3>2, <3>3
  <2>4. pc \in PlacesOf(call.op) /\ pc \notin {"first", "again", "wait"}
    BY <2>2 DEF PlacesOf
  <2>5. QED BY <2>1, <2>2, <2>3, <2>4, CallStays
<1>9. QED
  BY <1>1, <1>2, <1>3, <1>4, <1>5, <1>6, <1>7, <1>8 DEF Goes

----------------------------------------------------------------------------
(* Each step is of one of these kinds                                      *)

\* The steps: a call begins, it goes on, a packet arrives, or the server does something.
Begun == todo # <<>> /\ Begin(Head(todo)) /\ todo' = Tail(todo)
Gone == Goes /\ todo' = todo
Steps ==
    \/ (Begun \/ (Gone /\ ~Receive)) /\ Kinds /\ Local /\ Socket
    \/ Gone /\ Receive /\ Arrives
    \/ ServerKinds

\* A step of the specification is one of the three.
LEMMA StepIs ==
    ASSUME TypeOK, Places, Connection, Sized, Next
    PROVE  Steps
<1>1. \A i \in DOMAIN brigade : brigade[i].type = "OPEN_CONFIRMATION" => brigade[i].n = PeerWindow
  BY DEF Connection
<1>2. CASE todo # <<>> /\ Begin(Head(todo)) /\ todo' = Tail(todo)
  <2>1. Kinds
    BY <1>2, KindBegin
  <2>2. Socket
    BY <1>2, SocketBegin DEF Socket
  <2>3. Local
    BY <1>1, <2>1, LocalKinds
  <2>4. QED BY <1>2, <2>1, <2>2, <2>3 DEF Steps, Begun
<1>3. CASE Goes /\ UNCHANGED todo
  <2>1. CASE Receive
    BY <1>3, <2>1, ReceiveArrives DEF Steps, Gone
  <2>2. CASE ~Receive
    <3>1. Kinds /\ Socket
      BY <1>3, <2>2, KindGoes, SocketGoes
    <3>2. Local
      BY <1>1, <3>1, LocalKinds
    <3>3. QED BY <1>3, <2>2, <3>1, <3>2 DEF Steps, Gone
  <2>3. QED BY <2>1, <2>2
<1>4. CASE Server
  BY <1>4, ServerIs DEF Steps
<1>5. QED
  BY <1>2, <1>3, <1>4 DEF Next, Client

\* What is read is appended to what was read.
LEMMA Delivers ==
    ASSUME TypeOK, \E o : Begin(o) \/ Goes
    PROVE  delivered' \in [Streams -> Seq(Nat)]
<1>0. delivered \in [Streams -> Seq(Nat)]
  BY DEF TypeOK
<1>1. ASSUME NEW o, Begin(o) PROVE delivered' = delivered
  <2>1. CASE Returns(o) \/ open_ex \/ read_ex(o.c, 0, o.arg) \/ read_ex(o.c, 1, o.arg)
             \/ write_ex(o.c, o.arg) \/ send_eof(o.c) \/ close(o.c) \/ wait_closed(o.c)
             \/ free(o.c) \/ force_adjust(o.c) \/ set_blocking(o.c, o.arg)
    BY <2>1 DEF Returns, open_ex, free, wait_closed, close, send_eof, write_ex, read_ex,
                force_adjust, set_blocking, history
  <2>2. CASE setenv_ex(o.c) \/ request_pty_ex(o.c) \/ x11_req_ex(o.c) \/ process_startup(o.c)
    BY <2>2 DEF setenv_ex, request_pty_ex, x11_req_ex, process_startup, Request, history
  <2>3. CASE flush_ex(o.c, o.arg) \/ handle_extended_data(o.c, o.arg)
    <3>1. ASSUME NEW chans, NEW which, Flush(chans, o.c, which) PROVE delivered' = delivered
      BY <3>1 DEF Flush
    <3>2. QED BY <2>3, <3>1 DEF flush_ex, handle_extended_data, history
  <2>4. QED BY <1>1, <2>1, <2>2, <2>3 DEF Begin
<1>2. CASE Goes /\ ~Take
  <2>1. CASE AwaitPacket \/ ReadPacket \/ WriteWaits \/ WaitPacket \/ PollPacket
    <3>1. Receive
      BY <2>1 DEF AwaitPacket, ReadPacket, WriteWaits, WaitPacket, PollPacket
    <3>2. delivered' = delivered
      BY <3>1 DEF Receive
    <3>3. QED BY <1>0, <3>2
  <2>2. CASE Answered \/ OpenFailed \/ NotThere \/ NoAnswer \/ ReadNothing \/ ReadEnds
             \/ WriteData \/ WaitEnds \/ PollNothing \/ Clear \/ Unlink
    BY <1>0, <2>2 DEF Answered, OpenFailed, NotThere, NoAnswer, ReadNothing, ReadEnds, WriteData,
                WaitEnds, PollNothing, Clear, Unlink, NothingYet, history
  <2>3. CASE AwaitError \/ ReadFails \/ WriteFails \/ WaitFails
    BY <1>0, <2>3 DEF AwaitError, ReadFails, WriteFails, WaitFails, ReadError, history
  <2>4. QED BY <1>2, <2>1, <2>2, <2>3 DEF Goes
<1>3. CASE Take
  <2> DEFINE p == brigade[ReadNext]
             all == call.n - call.k >= Len(p.bytes)
             want == IF all THEN Len(p.bytes) ELSE call.n - call.k
             d == <<call.c, Stream(p)>>
             read == SubSeq(p.bytes, 1, want)
  <2>1. delivered' = [delivered EXCEPT ![d] = @ \o read]
    BY <1>3 DEF Take
  <2>2. p.bytes \in Seq(Nat)
    BY <1>3, ReadIs DEF Take, Packets
  <2>3. want \in Nat /\ want <= Len(p.bytes)
    <3>1. call.n - call.k \in Nat /\ Len(p.bytes) \in Nat
      BY <2>2, CallFields
    <3>2. QED BY <3>1
  <2> HIDE DEF want
  <2>4. read \in Seq(Nat)
    BY <2>2, <2>3
  <2> HIDE DEF read
  <2>5. \A s \in Streams : delivered[s] \o read \in Seq(Nat)
    BY <1>0, <2>4
  <2>6. QED BY <1>0, <2>1, <2>5
<1>4. QED BY <1>0, <1>1, <1>2, <1>3

\* The history of short refunds holds ids.
LEMMA UnevenKinds ==
    ASSUME TypeOK, Kinds \/ Arrives \/ ServerKinds
    PROVE  uneven' \subseteq Ids
<1>1. uneven \subseteq Ids /\ Mine \subseteq Ids
  BY DEF TypeOK, Mine
<1>2. CASE Plain \/ Forget \/ Opening \/ Confirming \/ Writing
  BY <1>1, <1>2 DEF Plain, Forget, Opening, Confirming, Writing, history
<1>3. CASE Granting
  <2>1. PICK c \in Mine : uneven' \in {uneven, uneven \cup {c}}
    BY <1>3 DEF Granting, Refunded
  <2>2. QED BY <1>1, <2>1
<1>4. CASE Arrives \/ ServerKinds
  BY <1>1, <1>4 DEF Arrives, ServerKinds, history
<1>5. QED BY <1>2, <1>3, <1>4 DEF Kinds

\* The state stays well formed.
LEMMA TypeStep ==
    ASSUME TypeOK, Places, Connection, Sized, [Next]_vars
    PROVE  (TypeOK /\ Places /\ Connection /\ Sized)'
<1>1. CASE UNCHANGED vars
  <2>1. /\ UNCHANGED <<ch, next_channel, brigade, socket_state, todo, call, outq, inq, tcp, peer,
                       noise, delivered, uneven, ignored, wrapped>>
    BY <1>1 DEF vars, clientVars, history
  <2>2. TypeOK'
    BY <2>1 DEF TypeOK, Mine
  <2>3. Places'
    BY <2>1 DEF Places, Waits
  <2>4. Connection'
    BY <2>1 DEF Connection
  <2>5. Sized'
    BY <2>1 DEF Sized
  <2>6. QED BY <2>2, <2>3, <2>4, <2>5
<1>2. CASE Next
  <2>1. Steps
    BY <1>2, StepIs
  <2>2. Base'
    BY <2>1, BaseLocal, BaseArrives, BaseServer DEF Steps
  <2>3. CallOK' /\ Places'
    <3>1. CASE Begun /\ Local
      <4> DEFINE o == Head(todo)
      <4>1. o.c \in Ids /\ (o.op \in {"read", "read_stderr", "write"} => o.arg \in Nat)
        BY <3>1, CommandArgs DEF Begun
      <4>2. Begin(o) /\ Local
        BY <3>1 DEF Begun
      <4>3. o.op # "none"
        <5>1. o \in Commands
          BY <3>1 DEF Begun, TypeOK
        <5>2. QED BY <5>1 DEF Commands
      <4> HIDE DEF o
      <4>4. QED BY <4>1, <4>2, <4>3, CallBegin
    <3>2. CASE Gone /\ (Local \/ Arrives)
      BY <3>2, CallGoes, ReceiveArrives DEF Gone
    <3>3. CASE ServerKinds
      <4>1. call' = call /\ Steady
        BY <3>3 DEF ServerKinds, clientVars, Steady
      <4>2. QED BY <4>1, CallSame
    <3>4. QED BY <2>1, <3>1, <3>2, <3>3 DEF Steps
  <2>4. Program'
    <3>1. todo' \in Seq(Commands)
      <4>1. todo \in Seq(Commands)
        BY DEF TypeOK
      <4>2. CASE Begun
        BY <4>2, CommandArgs DEF Begun
      <4>3. CASE Gone \/ ServerKinds
        BY <4>1, <4>3 DEF Gone, ServerKinds
      <4>4. QED BY <2>1, <4>2, <4>3 DEF Steps
    <3>2. delivered' \in [Streams -> Seq(Nat)]
      <4>1. CASE Begun \/ Gone
        BY <4>1, Delivers DEF Begun, Gone
      <4>2. CASE ServerKinds
        BY <4>2 DEF ServerKinds, history, TypeOK
      <4>3. QED BY <2>1, <4>1, <4>2 DEF Steps
    <3>3. uneven' \subseteq Ids
      BY <2>1, UnevenKinds DEF Steps
    <3>4. QED BY <3>1, <3>2, <3>3 DEF Program
  <2>5. TypeOK'
    BY <2>2, <2>3, <2>4 DEF Base, Shape, CallOK, Program, TypeOK, Range
  <2>6. QED BY <2>2, <2>3, <2>5 DEF Base
<1>3. QED BY <1>1, <1>2

\* The state is well formed at first.
LEMMA TypeInit ==
    ASSUME Init
    PROVE  TypeOK /\ Places /\ Connection /\ Sized
<1>1. /\ ch = <<>> /\ DOMAIN ch = {} /\ next_channel = 0 /\ brigade = <<>> /\ outq = <<>>
      /\ inq = <<>> /\ socket_state = "CONNECTED" /\ tcp = "up" /\ noise = 0 /\ call = Idle
      /\ uneven = {} /\ ignored = {} /\ wrapped = {}
  BY DEF Init
<1>2. todo \in Seq(Commands)
  BY Constants DEF Init
<1>3. peer \in [Ids -> PeerRecords]
  <2> DEFINE none == [s \in {0, 1} |-> 0]
             r == [st |-> "none", win |-> 0, credit |-> 0, owes |-> 0,
                   runs |-> FALSE, eof |-> FALSE, sent |-> none]
  <2>1. none \in [{0, 1} -> Nat]
    OBVIOUS
  <2>2. peer = [c \in Ids |-> r]
    BY DEF Init
  <2> HIDE DEF none
  <2>3. r \in PeerRecords
    BY <2>1 DEF PeerRecords
  <2> HIDE DEF r
  <2>4. QED BY <2>2, <2>3
<1>4. delivered \in [Streams -> Seq(Nat)]
  BY DEF Init
<1>5. /\ Idle \in Calls /\ Idle.k <= Idle.n /\ Idle.op = "none" /\ Idle.pc = "idle"
  BY Constants DEF Idle, Calls
<1>6. ch \in [DOMAIN ch -> ChannelRecords]
  BY <1>1
<1>7. TypeOK
  <2>1. next_channel \in 0 .. MaxChannels
    BY <1>1, Constants
  <2>2. {brigade, outq, inq} \subseteq Seq(Packets) /\ Range(brigade) = {}
    BY <1>1 DEF Range
  <2>3. QED BY <1>1, <1>2, <1>3, <1>4, <1>5, <1>6, <2>1, <2>2 DEF TypeOK
<1>8. Places
  BY <1>1, <1>5 DEF Places, PlacesOf, Waits
<1>9. Connection /\ Sized
  BY <1>1 DEF Connection, Sized
<1>10. QED BY <1>7, <1>8, <1>9

----------------------------------------------------------------------------
(* A channel the server has not heard of                                   *)

\* Windows are granted past their width only of channels there are.
LEMMA WrappedKinds ==
    ASSUME TypeOK, Kinds
    PROVE  wrapped' \subseteq wrapped \cup DOMAIN ch
<1>1. CASE Plain \/ Forget \/ Opening \/ Confirming \/ Writing
  BY <1>1 DEF Plain, Forget, Opening, Confirming, Writing, history
<1>2. CASE Granting
  <2>1. PICK c \in Mine, mode \in Modes, n \in Nat :
           AdjustStep([ch EXCEPT ![c].mode = mode], c, n) \/ UNCHANGED wrapped
    BY <1>2 DEF Granting
  <2>2. c \in DOMAIN ch
    BY DEF Mine
  <2>3. CASE AdjustStep([ch EXCEPT ![c].mode = mode], c, n)
    BY <2>2, <2>3, AdjustMoves
  <2>4. QED BY <2>1, <2>3
<1>3. QED BY <1>1, <1>2 DEF Kinds

\* Nor does a packet that arrives, but for a stream that is ignored.
LEMMA WrappedReceive ==
    ASSUME Receive
    PROVE  wrapped' \subseteq wrapped \cup (DOMAIN ch \cap ignored')
<1> DEFINE p == Head(inq)
<1>1. packet_add(p)
  BY DEF Receive
<1> HIDE DEF p
<1>2. CASE AddIgnored(p)
  <2>1. receive_window_adjust(ch, p.ch, p.n, FALSE) /\ p.ch \in DOMAIN ch /\ p.ch \in ignored'
    BY <1>2 DEF AddIgnored, Known
  <2>2. wrapped' \in {wrapped, wrapped \cup {p.ch}}
    BY <2>1 DEF receive_window_adjust
  <2>3. QED BY <2>1, <2>2
<1>3. CASE ~AddIgnored(p)
  BY <1>1, <1>3 DEF packet_add, AddDisconnect, AddNothing, AddData, AddEof, AddExitStatus,
                    AddClose, AddOpen, AddWindowAdjust, AddToBrigade
<1>4. QED BY <1>2, <1>3

\* What is sent and what is served.
LEMMA SentIs ==
    ASSUME TypeOK, NEW p \in Packets, Sent(p)
    PROVE  /\ outq \in Seq(Packets) /\ outq' \in Seq(Packets) /\ tcp = "up"
           /\ Len(outq) \in Nat /\ DOMAIN outq = 1 .. Len(outq)
           /\ DOMAIN outq' = 1 .. Len(outq) + 1
           /\ \A i \in DOMAIN outq' : \/ i \in DOMAIN outq /\ outq'[i] = outq[i]
                                      \/ i = Len(outq) + 1 /\ outq'[i] = p
           /\ \A d : /\ Adjusts(outq', d) = Adjusts(outq, d) +
                           IF p.type = "WINDOW_ADJUST" /\ p.ch = d THEN p.n ELSE 0
                     /\ DataOf(outq', d) = DataOf(outq, d) + IF IsData(p, d) THEN p.n ELSE 0
<1>1. outq \in Seq(Packets) /\ outq' = Append(outq, p) /\ tcp = "up"
  BY ShrinksType DEF Sent
<1>2. QED BY <1>1, AppendIs, SumsAppend

\* What arrives is the first of what was on the wire.
LEMMA HeadIs ==
    ASSUME TypeOK, Arrives
    PROVE  /\ inq \in Seq(Packets) /\ inq' \in Seq(Packets) /\ Head(inq) \in Packets
           /\ 1 \in DOMAIN inq /\ Head(inq) = inq[1] /\ DOMAIN inq \subseteq Nat
           /\ \A i \in DOMAIN inq' : i + 1 \in DOMAIN inq /\ inq'[i] = inq[i + 1]
           /\ \A d : /\ Adjusts(inq, d) = Adjusts(inq', d) +
                           IF Head(inq).type = "WINDOW_ADJUST" /\ Head(inq).ch = d
                           THEN Head(inq).n ELSE 0
                     /\ DataOf(inq, d) = DataOf(inq', d) +
                           IF IsData(Head(inq), d) THEN Head(inq).n ELSE 0
           /\ tcp # "reset" \/ ~Connection
<1>1. inq \in Seq(Packets) /\ inq # <<>> /\ inq' = Tail(inq)
  BY ShrinksType DEF Arrives
<1>2. tcp # "reset" \/ ~Connection
  BY <1>1 DEF Connection
<1>3. QED BY <1>1, <1>2, TailIs, SumsTail

\* The program keeps that: it says nothing of such a channel but OPEN,
LEMMA UnheardLocal ==
    ASSUME TypeOK, Connection, Unheard, Kinds, Local
    PROVE  Unheard'
<1>1. /\ UNCHANGED <<inq, tcp, peer>>
      /\ next_channel \in Nat /\ next_channel' \in Nat /\ next_channel <= next_channel'
      /\ DOMAIN ch' \subseteq Ids /\ Mine \subseteq DOMAIN ch /\ DOMAIN ch \subseteq Ids
      /\ \A c \in DOMAIN ch' : IF c \in DOMAIN ch THEN Moves(c) ELSE Fresh(c)
      /\ \A c \in DOMAIN ch : c < next_channel
      /\ Ids \subseteq Nat
  BY Constants DEF Local, TypeOK, Mine, Connection
<1>2. \A j \in DOMAIN brigade' : \E i \in DOMAIN brigade :
         brigade'[j].type = brigade[i].type /\ brigade'[j].ch = brigade[i].ch
  BY DEF Local, Shrinks, Same
<1>3. \/ outq' = outq
      \/ \E p \in Packets : /\ tcp = "up" /\ Fits(p) /\ Len(outq) \in Nat
                            /\ DOMAIN outq = 1 .. Len(outq)
                            /\ \A i \in DOMAIN outq' : \/ i \in DOMAIN outq /\ outq'[i] = outq[i]
                                                       \/ i = Len(outq) + 1 /\ outq'[i] = p
  BY SentIs DEF Local
<1>4. \A c \in Mine : peer[c].st # "none" /\ ch[c].confirmed
  BY <1>1 DEF Unheard, Silent, Mine
<1>5. UnheardIds'
  <2>1. \A c \in Ids : c >= next_channel' => c >= next_channel
    BY <1>1
  <2>2. \A c \in wrapped' : c < next_channel'
    <3>1. \A c \in wrapped' : c \in Nat /\ c < next_channel
      BY <1>1, WrappedKinds DEF Unheard, UnheardIds, TypeOK
    <3>2. QED BY <1>1, <3>1
  <2>3. QED BY <1>1, <2>1, <2>2 DEF Unheard, UnheardIds
<1>6. Opens'
  <2>1. CASE outq' = outq
    <3>1. \A i \in DOMAIN outq : tcp = "up" /\ outq[i].type = "OPEN" => outq[i].ch < next_channel'
      <4>1. \A i \in DOMAIN outq : outq[i].ch \in Nat
        <5>1. \A i \in DOMAIN outq : outq[i] \in Packets
          BY ShrinksType
        <5>2. QED BY <1>1, <5>1 DEF Packets
      <4>2. QED BY <1>1, <4>1 DEF Unheard, Opens
    <3>2. QED BY <1>1, <2>1, <3>1 DEF Unheard, Opens
  <2>2. ASSUME NEW p \in Packets, tcp = "up", Fits(p), Len(outq) \in Nat,
               DOMAIN outq = 1 .. Len(outq),
               \A i \in DOMAIN outq' : \/ i \in DOMAIN outq /\ outq'[i] = outq[i]
                                       \/ i = Len(outq) + 1 /\ outq'[i] = p
        PROVE  Opens'
    <3>1. p.type = "OPEN" => /\ p.ch = next_channel /\ next_channel' = next_channel + 1
                             /\ p.n = WindowDefault /\ p.ch \in Ids
      BY <2>2 DEF Fits, Packets
    <3>2. \A i \in DOMAIN outq : outq[i].type = "OPEN" =>
             /\ peer[outq[i].ch].st = "none" /\ outq[i].ch < next_channel /\ outq[i].ch \in Nat
             /\ outq[i].n = WindowDefault
      <4>1. \A i \in DOMAIN outq : outq[i].ch \in Nat
        <5>1. \A i \in DOMAIN outq : outq[i] \in Packets
          BY ShrinksType
        <5>2. QED BY <1>1, <5>1 DEF Packets
      <4>2. QED BY <2>2, <4>1 DEF Unheard, Opens
    <3>3. p.type = "OPEN" => peer[p.ch].st = "none"
      BY <1>1, <3>1 DEF Unheard, UnheardIds
    <3>4. \A i \in DOMAIN outq' : outq'[i].type = "OPEN" =>
             /\ peer[outq'[i].ch].st = "none" /\ outq'[i].ch < next_channel'
             /\ outq'[i].n = WindowDefault
      <4>1. TAKE i \in DOMAIN outq'
      <4>2. CASE i \in DOMAIN outq /\ outq'[i] = outq[i]
        BY <1>1, <3>2, <4>2
      <4>3. CASE i = Len(outq) + 1 /\ outq'[i] = p
        BY <1>1, <3>1, <3>3, <4>3
      <4>4. QED BY <2>2, <4>2, <4>3
    <3>5. \A i, j \in DOMAIN outq' :
             outq'[i].type = "OPEN" /\ outq'[j].type = "OPEN" /\ outq'[i].ch = outq'[j].ch => i = j
      <4>1. \A i \in DOMAIN outq : outq[i].type = "OPEN" => outq[i].ch # next_channel
        BY <1>1, <3>2
      <4>2. \A i, j \in DOMAIN outq :
               outq[i].type = "OPEN" /\ outq[j].type = "OPEN" /\ outq[i].ch = outq[j].ch => i = j
        BY DEF Unheard, Opens
      <4>3. QED BY <2>2, <3>1, <4>1, <4>2
    <3>6. QED BY <1>1, <3>4, <3>5 DEF Opens
  <2>3. QED BY <1>3, <2>1, <2>2
<1>7. ASSUME NEW c \in Ids, peer'[c].st = "none" PROVE Silent(c)'
  <2>1. peer[c].st = "none" /\ Silent(c) /\ c \notin Mine
    BY <1>1, <1>4, <1>7 DEF Unheard
  <2>2. c \in DOMAIN ch' => ~ch'[c].confirmed /\ ch'[c].rwin = WindowDefault
    <3>1. CASE c \in DOMAIN ch
      <4>1. c \in DOMAIN ch' => Moves(c) /\ ~Confirms(c)
        BY <1>1, <2>1, <3>1 DEF Silent, Confirms
      <4>2. QED BY <2>1, <3>1, <4>1 DEF Silent, Moves
    <3>2. CASE c \notin DOMAIN ch
      BY <1>1, <3>2 DEF Fresh, NewChannel
    <3>3. QED BY <3>1, <3>2
  <2>3. \A i \in DOMAIN outq' :
           outq'[i].ch = c => outq'[i].type \notin Types \cup {"WINDOW_ADJUST"}
    BY <1>3, <2>1 DEF Silent, Fits
  <2>4. \A i \in DOMAIN brigade' :
           brigade'[i].ch = c => brigade'[i].type \notin Types \cup {"OPEN_CONFIRMATION"}
    BY <1>2, <2>1 DEF Silent
  <2>5. QED BY <1>1, <2>1, <2>2, <2>3, <2>4 DEF Silent
<1>8. ASSUME NEW c \in DOMAIN ch', ~ch'[c].confirmed PROVE Untouched(c)'
  <2>1. Untouched(c) /\ c \notin Mine
    <3>1. CASE c \in DOMAIN ch
      BY <1>1, <1>8, <3>1 DEF Moves, Unheard, Mine
    <3>2. CASE c \notin DOMAIN ch
      <4>1. c \in Ids /\ c >= next_channel
        BY <1>1, <3>2 DEF Fresh
      <4>2. peer[c].st = "none" /\ Silent(c)
        BY <4>1 DEF Unheard, UnheardIds
      <4>3. QED BY <1>1, <3>2, <4>2 DEF Silent, Untouched, IsData
    <3>3. QED BY <3>1, <3>2
  <2>2. \A i \in DOMAIN outq' : ~IsData(outq'[i], c)
    BY <1>3, <2>1 DEF Untouched, Fits, IsData
  <2>3. QED BY <1>1, <2>1, <2>2 DEF Untouched
<1>9. QED BY <1>5, <1>6, <1>7, <1>8 DEF Unheard

\* so does a packet that arrives,
LEMMA UnheardArrives ==
    ASSUME TypeOK, Connection, Unheard, Receive, Arrives
    PROVE  Unheard'
<1> DEFINE p == Head(inq)
<1>1. /\ p = inq[1] /\ 1 \in DOMAIN inq /\ p \in Packets
      /\ \A i \in DOMAIN inq' : i + 1 \in DOMAIN inq /\ inq'[i] = inq[i + 1]
  BY HeadIs
<1>2. /\ UNCHANGED <<next_channel, tcp, peer>> /\ Filed(p)
  BY DEF Arrives
<1> HIDE DEF p
<1>3. /\ DOMAIN ch' = DOMAIN ch /\ DOMAIN ch \subseteq Ids
      /\ \A c \in DOMAIN ch : Hears(c, p)
      /\ Files(p) /\ Replied(p)
  BY <1>2 DEF Filed, TypeOK
<1>4. /\ next_channel \in Nat /\ Ids \subseteq Nat
      /\ \A c \in DOMAIN ch : c < next_channel
  BY Constants DEF TypeOK, Connection
<1>5. \/ outq' = outq
      \/ \E q \in Packets :
            /\ q.type \in {"WINDOW_ADJUST", "OPEN_FAILURE"}
            /\ q.type = "WINDOW_ADJUST" => IsData(p, q.ch) /\ q.ch \in DOMAIN ch
            /\ Len(outq) \in Nat /\ DOMAIN outq = 1 .. Len(outq)
            /\ \A i \in DOMAIN outq' : \/ i \in DOMAIN outq /\ outq'[i] = outq[i]
                                       \/ i = Len(outq) + 1 /\ outq'[i] = q
  BY <1>3, SentIs DEF Replied
<1>6. \A i \in DOMAIN outq' :
         \/ i \in DOMAIN outq /\ outq'[i] = outq[i]
         \/ outq'[i].type = "OPEN_FAILURE"
         \/ outq'[i].type = "WINDOW_ADJUST" /\ IsData(p, outq'[i].ch)
  BY <1>5
<1>7. \A i \in DOMAIN brigade' :
         \/ i \in DOMAIN brigade /\ brigade'[i] = brigade[i]
         \/ brigade'[i].type = p.type /\ brigade'[i].ch = p.ch
  <2>1. brigade \in Seq(Packets)
    BY ShrinksType
  <2>2. CASE brigade' = brigade
    BY <2>2
  <2>3. ASSUME NEW q \in Packets, brigade' = Append(brigade, q), q.type = p.type, q.ch = p.ch
        PROVE  \A i \in DOMAIN brigade' :
                  \/ i \in DOMAIN brigade /\ brigade'[i] = brigade[i]
                  \/ brigade'[i].type = p.type /\ brigade'[i].ch = p.ch
    BY <2>1, <2>3, AppendIs
  <2>4. QED BY <1>3, <2>2, <2>3 DEF Files
<1>8. UnheardIds'
  BY <1>2, <1>4, WrappedReceive DEF Unheard, UnheardIds
<1>9. Opens'
  BY <1>2, <1>6 DEF Unheard, Opens
<1>10. ASSUME NEW c \in Ids, peer'[c].st = "none" PROVE Silent(c)'
  <2>1. peer[c].st = "none" /\ Silent(c) /\ ~IsData(p, c)
        /\ (p.ch = c => p.type \notin Types \cup {"WINDOW_ADJUST", "OPEN_CONFIRMATION"})
    BY <1>1, <1>2, <1>10 DEF Unheard, Silent, IsData
  <2>2. c \in DOMAIN ch' => ~ch'[c].confirmed /\ ch'[c].rwin = WindowDefault
    BY <1>3, <2>1 DEF Silent, Hears, Still
  <2>3. \A i \in DOMAIN outq' :
           outq'[i].ch = c => outq'[i].type \notin Types \cup {"WINDOW_ADJUST"}
    BY <1>6, <2>1 DEF Silent, Types
  <2>4. \A i \in DOMAIN brigade' :
           brigade'[i].ch = c => brigade'[i].type \notin Types \cup {"OPEN_CONFIRMATION"}
    BY <1>7, <2>1 DEF Silent
  <2>5. \A i \in DOMAIN inq' :
           inq'[i].ch = c => inq'[i].type \notin Types \cup {"WINDOW_ADJUST", "OPEN_CONFIRMATION"}
    BY <1>1, <2>1 DEF Silent
  <2>6. QED BY <1>2, <2>1, <2>2, <2>3, <2>4, <2>5 DEF Silent
<1>11. ASSUME NEW c \in DOMAIN ch', ~ch'[c].confirmed PROVE Untouched(c)'
  <2>1. Untouched(c)
    BY <1>3, <1>11 DEF Unheard, Hears
  <2>2. \A i \in DOMAIN outq' : ~IsData(outq'[i], c)
    BY <1>6, <2>1 DEF Untouched, IsData, Types
  <2>3. \A i \in DOMAIN inq' : inq'[i].ch = c => inq'[i].type # "WINDOW_ADJUST"
    BY <1>1, <2>1 DEF Untouched
  <2>4. QED BY <1>2, <2>1, <2>2, <2>3 DEF Untouched
<1>12. QED BY <1>8, <1>9, <1>10, <1>11 DEF Unheard

\* What becomes of a channel on a connection that is up, and what is sent of it.
Opened(c) ==
    /\ peer[c].st = "none" /\ peer'[c].st = "open" /\ peer'[c].credit = PeerWindow
    /\ \E p \in Packets : Serves(p) /\ p.type = "OPEN" /\ p.ch = c
Turns(c) ==
    /\ \/ peer'[c].st = peer[c].st
       \/ Opened(c)
       \/ peer[c].st = "open" /\ peer'[c].st = "closed"
    /\ peer[c].eof => peer'[c].eof
    /\ \/ peer'[c].owes = peer[c].owes /\ (peer'[c].credit = peer[c].credit \/ Opened(c))
       \/ \E p \in Packets : Serves(p) /\ IsData(p, c)
       \/ peer[c].owes > 0
Adds(x) ==
    /\ x.type \in Types => peer[x.ch].st = "open" /\ ~peer[x.ch].eof
    /\ x.type = "WINDOW_ADJUST" => peer[x.ch].st = "open" /\ peer[x.ch].owes > 0
    /\ x.type = "OPEN_CONFIRMATION" => peer'[x.ch].st = "open"
    /\ x.type = "EOF" => peer'[x.ch].eof
    /\ x.type = "CLOSE" => peer'[x.ch].st = "closed"

\* The channels it does nothing of.
LEMMA TurnsNot ==
    ASSUME NEW c, peer'[c] = peer[c]
    PROVE  Turns(c)
  BY DEF Turns

\* A packet that is no data, no grant, no confirmation and no end.
LEMMA AddsPlain ==
    ASSUME NEW q,
           q.type \notin Types \cup {"WINDOW_ADJUST", "OPEN_CONFIRMATION", "EOF", "CLOSE"}
    PROVE  Adds(q)
  BY DEF Adds

\* What the server does is that.
LEMMA ServerTurns ==
    ASSUME TypeOK, Unheard, ServerKinds, ~Leaves
    PROVE  /\ \A c \in Ids : Turns(c)
           /\ \/ inq' = inq
              \/ \E q \in Packets : Sends(q) /\ Adds(q)
              \/ \E q, x \in Packets : /\ inq' = Append(Append(inq, q), x)
                                       /\ Adds(q) /\ Adds(x) /\ x.type \notin Types
<1>1. /\ \A p \in Packets : p.type \in PacketTypes /\ p.ch \in Ids /\ p.n \in Nat
      /\ \A c \in Ids : /\ peer[c].owes \in Nat /\ peer[c].credit \in Int
                        /\ peer[c].st \in {"none", "open", "closed"}
      /\ tcp = "up"
  BY PeerFields DEF Packets, ServerKinds
<1>2. ASSUME NEW type \in PacketTypes, NEW c \in Ids, NEW n \in Nat
      PROVE  /\ Packet(type, c, n) \in Packets /\ Packet(type, c, n).type = type
             /\ Packet(type, c, n).ch = c /\ Packet(type, c, n).n = n
  BY <1>2, PacketFields
<1>3. "DATA" \in Types /\ "WINDOW_ADJUST" \notin Types
  BY DEF Types
<1>4. CASE Drops \/ Chatters
  <2>1. peer' = peer
    BY <1>4 DEF Drops, Chatters
  <2>2. inq' = inq \/ \E q \in Packets : Sends(q) /\ Adds(q)
    <3>1. CASE Drops
      BY <3>1 DEF Drops
    <3>2. CASE Chatters
      <4>1. PICK type \in {"IGNORE", "OPEN_FORWARDED", "OPEN_OTHER"} : Sends(Packet(type, 0, 0))
        BY <3>2 DEF Chatters
      <4>2. type \in PacketTypes \ Types /\ 0 \in Ids /\ 0 \in Nat
        BY PacketTypesAre
      <4>3. Packet(type, 0, 0) \in Packets /\ Packet(type, 0, 0).type = type
        BY <1>2, <4>2
      <4>4. Adds(Packet(type, 0, 0))
        BY <4>2, <4>3, AddsPlain
      <4>5. QED BY <4>1, <4>3, <4>4
    <3>3. QED BY <1>4, <3>1, <3>2
  <2>3. QED BY <2>1, <2>2, TurnsNot
<1>5. CASE Responds
  <2>1. PICK p \in Packets, type \in {"OPEN_FAILURE", "SUCCESS", "FAILURE"} :
           /\ Sends(Packet(type, p.ch, 0))
           /\ Becomes(p.ch, peer[p.ch].st, peer[p.ch].win, peer[p.ch].credit, peer[p.ch].owes,
                      peer[p.ch].eof)
    BY <1>5 DEF Responds
  <2>2. type \in PacketTypes \ Types /\ p.ch \in Ids /\ 0 \in Nat
    BY <1>1, PacketTypesAre
  <2>3. Packet(type, p.ch, 0) \in Packets /\ Packet(type, p.ch, 0).type = type
    BY <1>2, <2>2
  <2>4. Adds(Packet(type, p.ch, 0))
    BY <2>2, <2>3, AddsPlain
  <2>5. \A c \in Ids : Turns(c)
    BY <2>1, TurnsNot DEF Becomes, Turns
  <2>6. QED BY <2>1, <2>3, <2>4, <2>5
<1>6. CASE Accepts
  <2>1. PICK p \in Packets :
           /\ Serves(p) /\ p.type = "OPEN" /\ Sends(Packet("OPEN_CONFIRMATION", p.ch, PeerWindow))
           /\ Becomes(p.ch, "open", p.n, PeerWindow, peer[p.ch].owes, peer[p.ch].eof)
    BY <1>6 DEF Accepts
  <2>2. "OPEN_CONFIRMATION" \in PacketTypes \ Types /\ p.ch \in Ids /\ PeerWindow \in Nat
    BY <1>1, PacketTypesAre
  <2> DEFINE q == Packet("OPEN_CONFIRMATION", p.ch, PeerWindow)
  <2>3. q \in Packets /\ q.type = "OPEN_CONFIRMATION" /\ q.ch = p.ch
    BY <1>2, <2>2
  <2>4. Sends(q)
    BY <2>1
  <2> HIDE DEF q
  <2>5. Adds(q)
    BY <2>1, <2>2, <2>3 DEF Adds, Becomes
  <2>6. peer[p.ch].st = "none"
    BY <1>1, <2>1, ServesIs DEF Unheard, Opens
  <2>7. Turns(p.ch)
    BY <2>1, <2>6 DEF Becomes, Turns, Opened
  <2>8. \A c \in Ids : Turns(c)
    BY <2>1, <2>7, TurnsNot DEF Becomes
  <2>9. QED BY <2>3, <2>4, <2>5, <2>8
<1>7. CASE Consumes
  <2>1. PICK p \in Packets :
           /\ Serves(p) /\ p.type = "DATA" /\ inq' = inq
           /\ Becomes(p.ch, peer[p.ch].st, peer[p.ch].win, peer[p.ch].credit - p.n,
                      peer[p.ch].owes + p.n, peer[p.ch].eof)
    BY <1>7 DEF Consumes
  <2>2. Turns(p.ch)
    BY <1>3, <2>1 DEF Becomes, Turns, IsData
  <2>3. \A c \in Ids : Turns(c)
    BY <2>1, <2>2, TurnsNot DEF Becomes
  <2>4. QED BY <2>1, <2>3
<1>8. CASE Widens
  <2>1. PICK p \in Packets :
           /\ inq' = inq /\ peer[p.ch].st = "open"
           /\ Becomes(p.ch, "open", peer[p.ch].win + p.n, peer[p.ch].credit, peer[p.ch].owes,
                      peer[p.ch].eof)
    BY <1>8 DEF Widens
  <2>2. Turns(p.ch)
    BY <2>1 DEF Becomes, Turns
  <2>3. \A c \in Ids : Turns(c)
    BY <2>1, <2>2, TurnsNot DEF Becomes
  <2>4. QED BY <2>1, <2>3
<1>9. CASE Shuts
  <2>1. PICK c \in Ids :
          /\ peer[c].st = "open" /\ Sends(Packet("CLOSE", c, 0))
          /\ Becomes(c, "closed", peer[c].win, peer[c].credit, peer[c].owes, peer[c].eof)
    BY <1>9 DEF Shuts
  <2>2. "CLOSE" \in PacketTypes \ Types /\ 0 \in Nat
    BY PacketTypesAre
  <2> DEFINE q == Packet("CLOSE", c, 0)
  <2>3. q \in Packets /\ q.type = "CLOSE" /\ q.ch = c
    BY <1>2, <2>2
  <2>4. Sends(q)
    BY <2>1
  <2> HIDE DEF q
  <2>5. Adds(q)
    BY <2>1, <2>2, <2>3 DEF Adds, Becomes
  <2>6. Turns(c)
    BY <2>1 DEF Becomes, Turns
  <2>7. \A d \in Ids : Turns(d)
    BY <2>1, <2>6, TurnsNot DEF Becomes
  <2>8. QED BY <2>3, <2>4, <2>5, <2>7
<1>10. CASE Produces
  <2>1. PICK c \in Ids, p \in Packets :
          /\ peer[c].st = "open" /\ ~peer[c].eof /\ IsData(p, c) /\ Sends(p)
          /\ Becomes(c, "open", peer[c].win - p.n, peer[c].credit, peer[c].owes, peer[c].eof)
    BY <1>10 DEF Produces
  <2>2. Adds(p)
    BY <2>1 DEF Adds, IsData, Types
  <2>3. Turns(c)
    BY <2>1 DEF Becomes, Turns
  <2>4. \A d \in Ids : Turns(d)
    BY <2>1, <2>3, TurnsNot DEF Becomes
  <2>5. QED BY <2>1, <2>2, <2>4
<1>11. CASE Repays
  <2>1. PICK c \in Ids :
          /\ peer[c].st = "open" /\ peer[c].owes > 0
          /\ Sends(Packet("WINDOW_ADJUST", c, peer[c].owes))
          /\ Becomes(c, "open", peer[c].win, peer[c].credit + peer[c].owes, 0, peer[c].eof)
    BY <1>11 DEF Repays
  <2>2. "WINDOW_ADJUST" \in PacketTypes \ Types /\ peer[c].owes \in Nat
    BY <1>1, PacketTypesAre
  <2> DEFINE q == Packet("WINDOW_ADJUST", c, peer[c].owes)
  <2>3. q \in Packets /\ q.type = "WINDOW_ADJUST" /\ q.ch = c
    BY <1>2, <2>2
  <2>4. Sends(q)
    BY <2>1
  <2> HIDE DEF q
  <2>5. Adds(q)
    BY <2>1, <2>2, <2>3 DEF Adds
  <2>6. Turns(c)
    BY <2>1 DEF Becomes, Turns
  <2>7. \A d \in Ids : Turns(d)
    BY <2>1, <2>6, TurnsNot DEF Becomes
  <2>8. QED BY <2>3, <2>4, <2>5, <2>7
<1>12. CASE Finishes
  <2>1. PICK c \in Ids :
          /\ peer[c].st = "open"
          /\ inq' = Append(Append(inq, Packet("EXIT_STATUS", c, 1)), Packet("EOF", c, 0))
          /\ Becomes(c, "open", peer[c].win, peer[c].credit, peer[c].owes, TRUE)
    BY <1>12 DEF Finishes
  <2>2. "EXIT_STATUS" \in PacketTypes \ Types /\ "EOF" \in PacketTypes \ Types /\ 0 \in Nat /\ 1 \in Nat
    BY PacketTypesAre
  <2> DEFINE q == Packet("EXIT_STATUS", c, 1)
             x == Packet("EOF", c, 0)
  <2>3. /\ q \in Packets /\ q.type = "EXIT_STATUS" /\ x \in Packets /\ x.type = "EOF" /\ x.ch = c
        /\ x.type \notin Types
    BY <1>2, <2>2
  <2>4. inq' = Append(Append(inq, q), x)
    BY <2>1
  <2> HIDE DEF q, x
  <2>5. Adds(q) /\ Adds(x)
    BY <2>1, <2>2, <2>3 DEF Adds, Becomes
  <2>6. Turns(c)
    BY <2>1 DEF Becomes, Turns
  <2>7. \A d \in Ids : Turns(d)
    BY <2>1, <2>6, TurnsNot DEF Becomes
  <2>8. QED BY <2>3, <2>4, <2>5, <2>7
<1>13. QED
  BY <1>4, <1>5, <1>6, <1>7, <1>8, <1>9, <1>10, <1>11, <1>12 DEF ServerKinds

\* What is new on the wire comes after what was there.
LEMMA ServerAdds ==
    ASSUME TypeOK, Unheard, ServerKinds, ~Leaves
    PROVE  /\ \A i \in DOMAIN inq' :
                 \/ i \in DOMAIN inq /\ inq'[i] = inq[i]
                 \/ i \notin DOMAIN inq /\ Adds(inq'[i])
           /\ DOMAIN inq \subseteq DOMAIN inq' /\ DOMAIN inq' \subseteq Nat
           /\ \A i \in DOMAIN inq', j \in DOMAIN inq : i < j => i \in DOMAIN inq
           /\ \A i, j \in DOMAIN inq' :
                 i \notin DOMAIN inq /\ i < j => inq'[j].type \notin Types
<1>1. inq \in Seq(Packets) /\ DOMAIN inq = 1 .. Len(inq) /\ Len(inq) \in Nat
  BY ShrinksType
<1>2. CASE inq' = inq
  BY <1>1, <1>2
<1>3. ASSUME NEW q \in Packets, Sends(q), Adds(q)
      PROVE  /\ \A i \in DOMAIN inq' :
                   \/ i \in DOMAIN inq /\ inq'[i] = inq[i]
                   \/ i \notin DOMAIN inq /\ Adds(inq'[i])
             /\ \E n \in Nat : n >= Len(inq) /\ DOMAIN inq' = 1 .. n
             /\ \A i, j \in DOMAIN inq' :
                   i \notin DOMAIN inq /\ i < j => inq'[j].type \notin Types
  BY <1>1, <1>3, SendsIs
<1>4. ASSUME NEW q \in Packets, NEW x \in Packets, inq' = Append(Append(inq, q), x),
             Adds(q), Adds(x), x.type \notin Types
      PROVE  /\ \A i \in DOMAIN inq' :
                   \/ i \in DOMAIN inq /\ inq'[i] = inq[i]
                   \/ i \notin DOMAIN inq /\ Adds(inq'[i])
             /\ \E n \in Nat : n >= Len(inq) /\ DOMAIN inq' = 1 .. n
             /\ \A i, j \in DOMAIN inq' :
                   i \notin DOMAIN inq /\ i < j => inq'[j].type \notin Types
  <2> DEFINE some == Append(inq, q)
  <2>1. /\ some \in Seq(Packets) /\ Len(some) = Len(inq) + 1
        /\ DOMAIN some = 1 .. Len(inq) + 1
        /\ \A i \in DOMAIN some : \/ i \in DOMAIN inq /\ some[i] = inq[i]
                                  \/ i = Len(inq) + 1 /\ some[i] = q
    BY <1>1, AppendIs
  <2> HIDE DEF some
  <2>2. /\ DOMAIN Append(some, x) = 1 .. Len(inq) + 2
        /\ \A i \in DOMAIN Append(some, x) : \/ i \in DOMAIN some /\ Append(some, x)[i] = some[i]
                                             \/ i = Len(inq) + 2 /\ Append(some, x)[i] = x
    BY <1>1, <2>1, AppendIs
  <2>3. inq' = Append(some, x)
    BY <1>4 DEF some
  <2>4. QED BY <1>1, <1>4, <2>1, <2>2, <2>3
<1>5. /\ \A i \in DOMAIN inq' :
            \/ i \in DOMAIN inq /\ inq'[i] = inq[i]
            \/ i \notin DOMAIN inq /\ Adds(inq'[i])
      /\ \E n \in Nat : n >= Len(inq) /\ DOMAIN inq' = 1 .. n
      /\ \A i, j \in DOMAIN inq' :
            i \notin DOMAIN inq /\ i < j => inq'[j].type \notin Types
  BY <1>1, <1>2, <1>3, <1>4, ServerTurns
<1>6. /\ DOMAIN inq \subseteq DOMAIN inq' /\ DOMAIN inq' \subseteq Nat
      /\ \A i \in DOMAIN inq', j \in DOMAIN inq : i < j => i \in DOMAIN inq
  <2>1. DOMAIN inq' \subseteq Nat /\ DOMAIN inq \subseteq DOMAIN inq'
    BY <1>1, <1>5
  <2>2. ASSUME NEW i \in DOMAIN inq', NEW j \in DOMAIN inq, i < j PROVE i \in DOMAIN inq
    <3>1. i \in Nat /\ i >= 1
      BY <1>1, <1>5
    <3>2. QED BY <1>1, <2>2, <3>1
  <2>3. QED BY <2>1, <2>2
<1>7. QED BY <1>5, <1>6

\* The server takes the packet at the head, or none, or is gone.
LEMMA ServerTakes ==
    ASSUME TypeOK, ServerKinds
    PROVE  /\ \A i \in DOMAIN outq' : \E k \in {0, 1} :
                 /\ i + k \in DOMAIN outq /\ outq'[i] = outq[i + k]
                 /\ \A p : Serves(p) => k = 1
           /\ DOMAIN outq \subseteq Nat /\ DOMAIN outq' \subseteq Nat
           /\ \A i, j \in DOMAIN outq' : \E k \in {0, 1} :
                 /\ i + k \in DOMAIN outq /\ outq'[i] = outq[i + k]
                 /\ j + k \in DOMAIN outq /\ outq'[j] = outq[j + k]
<1>1. outq \in Seq(Packets) /\ DOMAIN outq \subseteq Nat
  <2>1. outq \in Seq(Packets)
    BY ShrinksType
  <2>2. QED BY <2>1
<1>2. \/ outq' = <<>>
      \/ outq # <<>> /\ outq' = Tail(outq)
      \/ outq' = outq /\ ~\E p : Serves(p)
  <2>1. CASE Leaves
    BY <2>1 DEF Leaves
  <2>2. CASE ~Leaves
    BY <2>2, ServerSent DEF Serves
  <2>3. QED BY <2>1, <2>2
<1>3. CASE outq' = <<>>
  BY <1>1, <1>3
<1>4. CASE outq # <<>> /\ outq' = Tail(outq)
  <2>1. /\ \A i \in DOMAIN outq' : i + 1 \in DOMAIN outq /\ outq'[i] = outq[i + 1]
        /\ outq' \in Seq(Packets)
    BY <1>1, <1>4, TailIs
  <2>2. DOMAIN outq' \subseteq Nat
    BY <2>1
  <2>3. \A i, j \in DOMAIN outq' :
           /\ i + 1 \in DOMAIN outq /\ outq'[i] = outq[i + 1]
           /\ j + 1 \in DOMAIN outq /\ outq'[j] = outq[j + 1]
    BY <2>1
  <2>4. 1 \in {0, 1}
    OBVIOUS
  <2>5. QED BY <1>1, <2>1, <2>2, <2>3, <2>4
<1>5. CASE outq' = outq /\ ~\E p : Serves(p)
  <2>1. \A i \in DOMAIN outq : i + 0 = i
    BY <1>1
  <2>2. QED BY <1>1, <1>5, <2>1
<1>6. QED BY <1>2, <1>3, <1>4, <1>5

\* and so does the server: it has heard of a channel when it has taken the OPEN.
LEMMA UnheardServer ==
    ASSUME TypeOK, Connection, Unheard, ServerKinds
    PROVE  Unheard'
<1>1. /\ ch' = ch /\ brigade' = brigade /\ next_channel' = next_channel /\ wrapped' = wrapped
  BY DEF ServerKinds, clientVars, history
<1>2. /\ \A i \in DOMAIN outq' : \E k \in DOMAIN outq : outq'[i] = outq[k]
      /\ \A i, j \in DOMAIN outq' :
            outq'[i].type = "OPEN" /\ outq'[j].type = "OPEN" /\ outq'[i].ch = outq'[j].ch => i = j
  <2>1. \A i \in DOMAIN outq' : \E k \in DOMAIN outq : outq'[i] = outq[k]
    BY ServerTakes
  <2>2. ASSUME NEW i \in DOMAIN outq', NEW j \in DOMAIN outq',
               outq'[i].type = "OPEN" /\ outq'[j].type = "OPEN" /\ outq'[i].ch = outq'[j].ch
        PROVE  i = j
    <3>1. PICK k \in {0, 1} : /\ i + k \in DOMAIN outq /\ outq'[i] = outq[i + k]
                              /\ j + k \in DOMAIN outq /\ outq'[j] = outq[j + k]
      BY ServerTakes
    <3>2. i + k = j + k
      BY <2>2, <3>1 DEF Unheard, Opens
    <3>3. i \in Nat /\ j \in Nat /\ k \in Nat
      BY ServerTakes
    <3>4. QED BY <3>2, <3>3
  <2>3. QED BY <2>1, <2>2
<1>3. CASE Leaves
  <2>1. peer' = peer /\ tcp' # "up"
    BY <1>3 DEF Leaves
  <2>2. \A i \in DOMAIN inq' :
           (i \in DOMAIN inq /\ inq'[i] = inq[i]) \/ inq'[i].type = "DISCONNECT"
    <3>1. CASE inq' = <<>>
      BY <3>1
    <3>2. CASE inq' = inq
      BY <3>2
    <3>3. ASSUME NEW c \in Ids, Sends(Packet("DISCONNECT", c, 0))
          PROVE  \A i \in DOMAIN inq' :
                    (i \in DOMAIN inq /\ inq'[i] = inq[i]) \/ inq'[i].type = "DISCONNECT"
      <4>1. Packet("DISCONNECT", c, 0) \in Packets /\ Packet("DISCONNECT", c, 0).type = "DISCONNECT"
        BY PacketTypesAre, PacketFields
      <4>2. QED BY <3>3, <4>1, SendsIs
    <3>4. QED BY <1>3, <3>1, <3>2, <3>3 DEF Leaves
  <2>3. UnheardIds' /\ Opens'
    BY <1>1, <1>2, <2>1 DEF Unheard, UnheardIds, Opens
  <2>4. \A c \in Ids : peer[c].st = "none" => Silent(c)'
    <3>1. ASSUME NEW c \in Ids, Silent(c) PROVE Silent(c)'
      <4>1. \A i \in DOMAIN inq' : inq'[i].ch = c =>
               inq'[i].type \notin Types \cup {"WINDOW_ADJUST", "OPEN_CONFIRMATION"}
        BY <2>2, <3>1 DEF Silent, Types
      <4>2. \A i \in DOMAIN outq' :
               outq'[i].ch = c => outq'[i].type \notin Types \cup {"WINDOW_ADJUST"}
        BY <1>2, <3>1 DEF Silent
      <4>3. QED BY <1>1, <2>1, <3>1, <4>1, <4>2 DEF Silent
    <3>2. QED BY <3>1 DEF Unheard
  <2>5. \A c \in DOMAIN ch : ~ch[c].confirmed => Untouched(c)'
    <3>1. ASSUME NEW c \in DOMAIN ch, Untouched(c) PROVE Untouched(c)'
      <4>1. \A i \in DOMAIN inq' : inq'[i].ch = c => inq'[i].type # "WINDOW_ADJUST"
        BY <2>2, <3>1 DEF Untouched
      <4>2. \A i \in DOMAIN outq' : ~IsData(outq'[i], c)
        BY <1>2, <3>1 DEF Untouched
      <4>3. QED BY <2>1, <3>1, <4>1, <4>2 DEF Untouched
    <3>2. QED BY <3>1 DEF Unheard
  <2>6. QED BY <1>1, <2>1, <2>3, <2>4, <2>5 DEF Unheard
<1>4. CASE ~Leaves
  <2>1. /\ \A c \in Ids : Turns(c)
        /\ \A i \in DOMAIN inq' : \/ i \in DOMAIN inq /\ inq'[i] = inq[i]
                                  \/ i \notin DOMAIN inq /\ Adds(inq'[i])
        /\ tcp = "up" /\ tcp' = "up"
    BY <1>4, ServerTurns, ServerAdds, ServerSent
  <2>2. \A p : Serves(p) => 1 \in DOMAIN outq /\ p = outq[1]
    BY ServesIs
  <2>3. \A c \in Ids : Opened(c) => \E p : Serves(p) /\ p.type = "OPEN" /\ p.ch = c
    BY DEF Opened
  <2>4. UnheardIds'
    <3>1. ASSUME NEW c \in Ids, c >= next_channel PROVE peer'[c].st = "none"
      <4>1. peer[c].st = "none" /\ Turns(c)
        BY <2>1, <3>1 DEF Unheard, UnheardIds
      <4>2. ~Opened(c)
        <5>1. ASSUME Opened(c) PROVE c < next_channel
          BY <2>1, <2>2, <2>3, <5>1 DEF Unheard, Opens
        <5>2. c \in Nat /\ next_channel \in Nat
          BY Constants DEF TypeOK
        <5>3. QED BY <3>1, <5>1, <5>2
      <4>3. QED BY <4>1, <4>2 DEF Turns
    <3>2. QED BY <1>1, <3>1 DEF Unheard, UnheardIds
  <2>5. Opens'
    <3>1. ASSUME NEW i \in DOMAIN outq', outq'[i].type = "OPEN"
          PROVE  /\ peer'[outq'[i].ch].st = "none" /\ outq'[i].ch < next_channel
                 /\ outq'[i].n = WindowDefault
      <4> DEFINE c == outq'[i].ch
      <4>1. PICK k \in {0, 1} : /\ i + k \in DOMAIN outq /\ outq'[i] = outq[i + k]
                                /\ \A p : Serves(p) => k = 1
        BY ServerTakes
      <4>2. /\ peer[c].st = "none" /\ c < next_channel /\ outq'[i].n = WindowDefault
        BY <2>1, <3>1, <4>1 DEF Unheard, Opens
      <4>3. c \in Ids
        <5>1. outq[i + k] \in Packets
          BY <4>1, ShrinksType
        <5>2. QED BY <4>1, <5>1 DEF Packets
      <4>4. ~Opened(c)
        <5>1. ASSUME Opened(c) PROVE i + k = 1 /\ k = 1
          BY <2>2, <2>3, <3>1, <4>1, <4>3, <5>1 DEF Unheard, Opens
        <5>2. i \in Nat /\ i # 0
          <6>1. outq' \in Seq(Packets)
            BY ServerWires
          <6>2. QED BY <6>1
        <5>3. QED BY <5>1, <5>2
      <4>5. Turns(c)
        BY <2>1, <4>3
      <4> HIDE DEF c
      <4>6. peer'[c].st = "none"
        BY <4>2, <4>4, <4>5 DEF Turns
      <4>7. QED BY <4>2, <4>6 DEF c
    <3>2. QED BY <1>1, <1>2, <3>1 DEF Opens
  <2>6. ASSUME NEW c \in Ids, peer'[c].st = "none" PROVE Silent(c)'
    <3>1. peer[c].st = "none" /\ Turns(c)
      BY <2>1, <2>6 DEF Turns, Opened
    <3>2. Silent(c)
      BY <3>1 DEF Unheard
    <3>3. peer'[c].owes = 0
      <4>1. \A p : Serves(p) => ~IsData(p, c)
        BY <2>2, <3>2 DEF Silent, IsData
      <4>2. peer[c].owes = 0
        BY <3>2 DEF Silent
      <4>3. QED BY <3>1, <4>1, <4>2 DEF Turns
    <3>4. \A i \in DOMAIN outq' :
             outq'[i].ch = c => outq'[i].type \notin Types \cup {"WINDOW_ADJUST"}
      BY <1>2, <3>2 DEF Silent
    <3>5. \A i \in DOMAIN inq' : inq'[i].ch = c =>
             inq'[i].type \notin Types \cup {"WINDOW_ADJUST", "OPEN_CONFIRMATION"}
      BY <2>1, <2>6, <3>1, <3>2 DEF Silent, Adds
    <3>6. QED BY <1>1, <3>2, <3>3, <3>4, <3>5 DEF Silent
  <2>7. ASSUME NEW c \in DOMAIN ch, ~ch[c].confirmed PROVE Untouched(c)'
    <3>1. Untouched(c) /\ Turns(c)
      BY <2>1, <2>7 DEF Unheard, TypeOK
    <3>2. peer'[c].owes = 0 /\ (peer'[c].credit = peer[c].credit \/ Opened(c))
      <4>1. \A p : Serves(p) => ~IsData(p, c)
        BY <2>2, <3>1 DEF Untouched
      <4>2. peer[c].owes = 0
        BY <3>1 DEF Untouched
      <4>3. QED BY <3>1, <4>1, <4>2 DEF Turns
    <3>3. peer'[c].st # "none" => peer'[c].credit = PeerWindow
      <4>1. CASE Opened(c)
        BY <4>1 DEF Opened
      <4>2. CASE ~Opened(c)
        <5>1. peer'[c].st # "none" => peer[c].st # "none"
          BY <3>1, <4>2 DEF Turns
        <5>2. QED BY <3>1, <3>2, <4>2, <5>1 DEF Untouched
      <4>3. QED BY <4>1, <4>2
    <3>4. \A i \in DOMAIN outq' : ~IsData(outq'[i], c)
      BY <1>2, <3>1 DEF Untouched
    <3>5. \A i \in DOMAIN inq' : inq'[i].ch = c => inq'[i].type # "WINDOW_ADJUST"
      BY <2>1, <3>1 DEF Untouched, Adds
    <3>6. QED BY <3>2, <3>3, <3>4, <3>5 DEF Untouched
  <2>8. QED BY <1>1, <2>4, <2>5, <2>6, <2>7 DEF Unheard
<1>5. QED BY <1>3, <1>4

----------------------------------------------------------------------------
(* The end of the data                                                     *)

\* The program does not touch what the server has said of the end,
LEMMA EndsLocal ==
    ASSUME TypeOK, Ends, Local
    PROVE  Ends'
<1>1. /\ UNCHANGED <<inq, peer>>
      /\ \A c \in DOMAIN ch' : IF c \in DOMAIN ch THEN Moves(c) ELSE Fresh(c)
  BY DEF Local
<1>2. \A c \in DOMAIN ch' : /\ ch'[c].reof => c \in DOMAIN ch /\ ch[c].reof
                            /\ ch'[c].rclose => c \in DOMAIN ch /\ ch[c].rclose
  BY <1>1 DEF Moves, Fresh, NewChannel
<1>3. QED BY <1>1, <1>2 DEF Ends

\* the packet that says it has no data behind it,
LEMMA EndsArrives ==
    ASSUME TypeOK, Ends, Arrives
    PROVE  Ends'
<1> DEFINE p == Head(inq)
<1>1. /\ p = inq[1] /\ 1 \in DOMAIN inq /\ p \in Packets /\ DOMAIN inq \subseteq Nat
      /\ \A i \in DOMAIN inq' : i + 1 \in DOMAIN inq /\ inq'[i] = inq[i + 1]
      /\ DOMAIN inq' \subseteq Nat \ {0}
  <2>1. inq' \in Seq(Packets)
    BY HeadIs
  <2>2. DOMAIN inq' \subseteq Nat \ {0}
    BY <2>1
  <2>3. QED BY <2>2, HeadIs
<1>2. /\ peer' = peer /\ DOMAIN ch' = DOMAIN ch
      /\ \A c \in DOMAIN ch : Hears(c, p)
  BY DEF Arrives, Filed
<1> HIDE DEF p
<1>3. \A i \in DOMAIN inq' : p.type \in {"EOF", "CLOSE"} => ~IsData(inq'[i], p.ch)
  <2>1. \A i \in DOMAIN inq' : 1 < i + 1
    BY <1>1
  <2>2. QED BY <1>1, <2>1 DEF Ends
<1>4. \A c \in DOMAIN ch' : ch'[c].reof => peer[c].eof
  BY <1>1, <1>2 DEF Hears, Ends
<1>5. \A c \in DOMAIN ch' : ch'[c].rclose => peer[c].st = "closed"
  BY <1>1, <1>2 DEF Hears, Ends
<1>6. \A c \in DOMAIN ch' : ch'[c].reof \/ ch'[c].rclose =>
         \A j \in DOMAIN inq' : ~IsData(inq'[j], c)
  <2>1. TAKE c \in DOMAIN ch'
  <2>2. CASE ch[c].reof \/ ch[c].rclose
    BY <1>1, <1>2, <2>2 DEF Ends
  <2>3. CASE ~(ch[c].reof \/ ch[c].rclose)
    BY <1>2, <1>3, <2>3 DEF Hears
  <2>4. QED BY <2>2, <2>3
<1>7. \A i, j \in DOMAIN inq' :
         i < j /\ inq'[i].type \in {"EOF", "CLOSE"} => ~IsData(inq'[j], inq'[i].ch)
  <2>1. \A i, j \in DOMAIN inq' : i < j => i + 1 < j + 1
    BY <1>1
  <2>2. QED BY <1>1, <2>1 DEF Ends
<1>8. QED BY <1>1, <1>2, <1>4, <1>5, <1>6, <1>7 DEF Ends

\* and the server sends none after it.
LEMMA EndsServer ==
    ASSUME TypeOK, Unheard, Ends, ServerKinds
    PROVE  Ends'
<1>1. ch' = ch /\ DOMAIN ch \subseteq Ids
  BY DEF ServerKinds, clientVars, TypeOK
<1>2. inq \in Seq(Packets) /\ \A i \in DOMAIN inq : inq[i].ch \in Ids
  <2>1. inq \in Seq(Packets)
    BY ShrinksType
  <2>2. \A i \in DOMAIN inq : inq[i] \in Packets
    BY <2>1
  <2>3. QED BY <2>1, <2>2 DEF Packets
<1>3. CASE Leaves
  <2>1. peer' = peer
    BY <1>3 DEF Leaves
  <2>2. CASE inq' = <<>> \/ inq' = inq
    BY <1>1, <2>1, <2>2 DEF Ends
  <2>3. ASSUME NEW c \in Ids, Sends(Packet("DISCONNECT", c, 0)) PROVE Ends'
    <3> DEFINE q == Packet("DISCONNECT", c, 0)
    <3>1. q \in Packets /\ q.type = "DISCONNECT"
      BY PacketTypesAre, PacketFields
    <3>2. Sends(q)
      BY <2>3
    <3> HIDE DEF q
    <3>3. /\ Len(inq) \in Nat /\ DOMAIN inq = 1 .. Len(inq) /\ DOMAIN inq' = 1 .. Len(inq) + 1
          /\ \A i \in DOMAIN inq' : \/ i \in DOMAIN inq /\ inq'[i] = inq[i]
                                    \/ i = Len(inq) + 1 /\ inq'[i] = q
      BY <3>1, <3>2, SendsIs
    <3>4. \A d : ~IsData(q, d)
      BY <3>1 DEF IsData, Types
    <3>5. \A i, j \in DOMAIN inq' :
             i < j /\ inq'[i].type \in {"EOF", "CLOSE"} => ~IsData(inq'[j], inq'[i].ch)
      BY <3>1, <3>3, <3>4 DEF Ends
    <3>6. \A c1 \in DOMAIN ch' : ch'[c1].reof \/ ch'[c1].rclose =>
             \A j \in DOMAIN inq' : ~IsData(inq'[j], c1)
      BY <1>1, <3>3, <3>4 DEF Ends
    <3>7. QED BY <1>1, <2>1, <3>1, <3>3, <3>5, <3>6 DEF Ends
  <2>4. QED BY <1>3, <2>2, <2>3 DEF Leaves
<1>4. CASE ~Leaves
  <2>1. /\ \A c \in Ids : Turns(c)
        /\ \A i \in DOMAIN inq' : \/ i \in DOMAIN inq /\ inq'[i] = inq[i]
                                  \/ i \notin DOMAIN inq /\ Adds(inq'[i])
        /\ \A i, j \in DOMAIN inq' :
              i \notin DOMAIN inq /\ i < j => inq'[j].type \notin Types
    BY <1>4, ServerTurns, ServerAdds
  <2>2. \A c \in Ids : /\ peer[c].eof => peer'[c].eof
                       /\ peer[c].st = "closed" => peer'[c].st = "closed"
    BY <2>1 DEF Turns, Opened
  <2>3. \A c \in Ids : peer[c].eof \/ peer[c].st = "closed" =>
           \A j \in DOMAIN inq' : IsData(inq'[j], c) => j \in DOMAIN inq /\ inq'[j] = inq[j]
    BY <2>1 DEF Adds, IsData
  <2>4. \A c \in DOMAIN ch' : ch'[c].reof => peer'[c].eof
    BY <1>1, <2>2 DEF Ends
  <2>5. \A c \in DOMAIN ch' : ch'[c].rclose => peer'[c].st = "closed"
    BY <1>1, <2>2 DEF Ends
  <2>6. \A c \in DOMAIN ch' : ch'[c].reof \/ ch'[c].rclose =>
           \A j \in DOMAIN inq' : ~IsData(inq'[j], c)
    BY <1>1, <2>3 DEF Ends
  <2>7. \A i \in DOMAIN inq' : inq'[i].type = "EOF" => peer'[inq'[i].ch].eof
    BY <1>2, <2>1, <2>2 DEF Ends, Adds
  <2>8. \A i \in DOMAIN inq' : inq'[i].type = "CLOSE" => peer'[inq'[i].ch].st = "closed"
    BY <1>2, <2>1, <2>2 DEF Ends, Adds
  <2>9. \A i, j \in DOMAIN inq' :
           i < j /\ inq'[i].type \in {"EOF", "CLOSE"} => ~IsData(inq'[j], inq'[i].ch)
    <3>1. SUFFICES ASSUME NEW i \in DOMAIN inq', NEW j \in DOMAIN inq',
                          i < j, inq'[i].type \in {"EOF", "CLOSE"}, IsData(inq'[j], inq'[i].ch)
                   PROVE  FALSE
      OBVIOUS
    <3>2. CASE i \in DOMAIN inq /\ inq'[i] = inq[i]
      <4>1. peer[inq'[i].ch].eof \/ peer[inq'[i].ch].st = "closed"
        BY <3>1, <3>2 DEF Ends
      <4>2. j \in DOMAIN inq /\ inq'[j] = inq[j]
        BY <1>2, <2>3, <3>1, <3>2, <4>1
      <4>3. QED BY <3>1, <3>2, <4>2 DEF Ends
    <3>3. CASE i \notin DOMAIN inq
      BY <2>1, <3>1, <3>3 DEF IsData
    <3>4. QED BY <2>1, <3>1, <3>2, <3>3
  <2>10. QED BY <2>4, <2>5, <2>6, <2>7, <2>8, <2>9 DEF Ends
<1>5. QED BY <1>3, <1>4

----------------------------------------------------------------------------
(* The windows                                                             *)

\* Of a channel the server has not heard of there is no data and no grant on the way.
LEMMA SilentSums ==
    ASSUME TypeOK, NEW c, Silent(c)
    PROVE  DataOf(inq, c) = 0 /\ DataOf(brigade, c) = 0 /\ DataOf(outq, c) = 0
           /\ Adjusts(outq, c) = 0 /\ Adjusts(inq, c) = 0
<1>1. outq \in Seq(Packets) /\ inq \in Seq(Packets) /\ brigade \in Seq(Packets)
  BY ShrinksType
<1>2. /\ \A i \in DOMAIN inq : ~IsData(inq[i], c)
      /\ \A i \in DOMAIN brigade : ~IsData(brigade[i], c)
      /\ \A i \in DOMAIN outq : ~IsData(outq[i], c)
      /\ \A i \in DOMAIN outq : outq[i].ch = c => outq[i].type # "WINDOW_ADJUST"
      /\ \A i \in DOMAIN inq : inq[i].ch = c => inq[i].type # "WINDOW_ADJUST"
  BY DEF Silent, IsData
<1>3. QED BY <1>1, <1>2, SumsType

\* The program: what it grants is on the wire.
LEMMA WindowsLocal ==
    ASSUME TypeOK, Connection, Unheard, Windows, Local
    PROVE  Windows'
<1>1. SUFFICES ASSUME NEW c \in DOMAIN ch', c \notin wrapped' PROVE WindowOf(c)'
  BY DEF Windows
<1>2. /\ UNCHANGED <<inq, tcp, peer, ignored>> /\ c \notin wrapped
      /\ IF c \in DOMAIN ch THEN Moves(c) ELSE Fresh(c)
      /\ c \in Ids
  BY <1>1 DEF Local
<1>3. /\ DataOf(inq, c) \in Nat /\ Adjusts(outq, c) \in Nat
      /\ peer[c].win \in Nat
  BY <1>2, ShrinksType, PeerFields
<1>4. CASE c \in DOMAIN ch
  <2>1. WindowOf(c) /\ ch[c].rwin \in Nat
    BY <1>2, <1>4, ChannelFields DEF Windows
  <2>2. PICK T \in Nat : /\ ch'[c].rwin = ch[c].rwin + T
                         /\ Adjusts(outq', c) = Adjusts(outq, c) + T \/ tcp # "up"
    BY <1>1, <1>2, <1>4 DEF Moves, Grants
  <2>3. DataOf(inq, c) <= ch'[c].rwin
    BY <1>3, <2>1, <2>2 DEF WindowOf
  <2>4. tcp = "up" /\ peer[c].st = "open" =>
           LET granted == peer[c].win + Adjusts(outq', c) + DataOf(inq, c)
           IN  ch'[c].rwin >= granted /\ (c \notin ignored => ch'[c].rwin = granted)
    BY <1>3, <2>1, <2>2 DEF WindowOf
  <2>5. QED BY <1>2, <2>3, <2>4 DEF WindowOf
<1>5. CASE c \notin DOMAIN ch
  <2>1. ch'[c].rwin = WindowDefault /\ c = next_channel /\ WindowDefault \in Nat
    BY <1>2, <1>5, Constants DEF Fresh, NewChannel
  <2>2. peer[c].st = "none"
    <3>1. c >= next_channel
      BY <2>1 DEF TypeOK
    <3>2. QED BY <1>2, <3>1 DEF Unheard, UnheardIds
  <2>3. DataOf(inq, c) = 0
    BY <1>2, <2>2, SilentSums DEF Unheard
  <2>4. QED BY <1>2, <2>1, <2>2, <2>3 DEF WindowOf
<1>6. QED BY <1>4, <1>5

\* packet_add: data that arrives uses up the window on this side.
LEMMA WindowsArrives ==
    ASSUME TypeOK, Connection, Sized, Windows, Arrives
    PROVE  Windows'
<1> DEFINE p == Head(inq)
<1>1. SUFFICES ASSUME NEW c \in DOMAIN ch', c \notin wrapped' PROVE WindowOf(c)'
  BY DEF Windows
<1>2. /\ p = inq[1] /\ 1 \in DOMAIN inq /\ p \in Packets
      /\ DataOf(inq, c) = DataOf(inq', c) + IF IsData(p, c) THEN p.n ELSE 0
      /\ inq' \in Seq(Packets)
  BY HeadIs
<1>3. /\ UNCHANGED <<tcp, peer>> /\ c \in DOMAIN ch /\ Hears(c, p) /\ c \notin wrapped
      /\ ignored \subseteq ignored' /\ c \in Ids
  BY <1>1 DEF Arrives, Filed, TypeOK
<1>4. IsData(p, c) => p.n <= PacketDefault
  BY <1>2 DEF Sized, IsData
<1> HIDE DEF p
<1>5. /\ DataOf(inq, c) \in Nat /\ DataOf(inq', c) \in Nat /\ Adjusts(outq, c) \in Nat
      /\ peer[c].win \in Nat /\ ch[c].rwin \in Nat /\ WindowOf(c) /\ p.n \in Nat
  BY <1>2, <1>3, ShrinksType, SumsType, PeerFields, ChannelFields DEF Windows, Packets
<1>6. CASE ~IsData(p, c)
  <2>1. DataOf(inq', c) = DataOf(inq, c)
    BY <1>2, <1>5, <1>6
  <2>2. ch'[c].rwin = ch[c].rwin /\ Adjusts(outq', c) = Adjusts(outq, c)
    BY <1>3, <1>6 DEF Hears, Still
  <2>3. QED BY <1>3, <1>5, <2>1, <2>2 DEF WindowOf
<1>7. CASE IsData(p, c)
  <2>1. DataOf(inq, c) = DataOf(inq', c) + p.n
    BY <1>2, <1>5, <1>7
  <2>2. p.n <= PacketDefault /\ p.n <= ch[c].rwin
    BY <1>4, <1>5, <1>7, <2>1 DEF WindowOf
  <2>3. CASE c \in ignored' /\ Grants(c)
    <3>1. PICK T \in Nat : /\ ch'[c].rwin = ch[c].rwin + T
                           /\ Adjusts(outq', c) = Adjusts(outq, c) + T \/ tcp # "up"
      BY <2>3 DEF Grants
    <3>2. DataOf(inq', c) <= ch'[c].rwin
      BY <1>5, <2>1, <3>1 DEF WindowOf
    <3>3. tcp = "up" /\ peer[c].st = "open" =>
             ch'[c].rwin >= peer[c].win + Adjusts(outq', c) + DataOf(inq', c)
      BY <1>5, <2>1, <3>1 DEF WindowOf
    <3>4. QED BY <1>3, <2>3, <3>2, <3>3 DEF WindowOf
  <2>4. CASE Takes(c, p.n)
    <3>1. ch'[c].rwin = ch[c].rwin - p.n /\ Adjusts(outq', c) = Adjusts(outq, c)
      BY <2>4 DEF Takes
    <3>2. DataOf(inq', c) <= ch'[c].rwin
      BY <1>5, <2>1, <3>1 DEF WindowOf
    <3>3. tcp = "up" /\ peer[c].st = "open" =>
           LET granted == peer[c].win + Adjusts(outq', c) + DataOf(inq', c)
           IN  ch'[c].rwin >= granted /\ (c \notin ignored => ch'[c].rwin = granted)
      BY <1>5, <2>1, <3>1 DEF WindowOf
    <3>4. QED BY <1>3, <3>2, <3>3 DEF WindowOf
  <2>5. QED BY <1>1, <1>3, <1>7, <2>2, <2>3, <2>4 DEF Hears
<1>8. QED BY <1>6, <1>7

\* What is no data and no grant for a channel does not count for it.
Counts(p, c) == IsData(p, c) \/ (p.type = "WINDOW_ADJUST" /\ p.ch = c)

\* A packet taken off the wire to the server takes away what it weighs.
LEMMA ServesSums ==
    ASSUME TypeOK, NEW p, Serves(p), NEW c
    PROVE  /\ DataOf(outq, c) \in Nat /\ DataOf(outq', c) \in Nat
           /\ Adjusts(outq, c) \in Nat /\ Adjusts(outq', c) \in Nat /\ p.n \in Nat
           /\ ~Counts(p, c) => /\ DataOf(outq', c) = DataOf(outq, c)
                               /\ Adjusts(outq', c) = Adjusts(outq, c)
           /\ IsData(p, c) => /\ DataOf(outq, c) = DataOf(outq', c) + p.n
                              /\ Adjusts(outq', c) = Adjusts(outq, c)
           /\ p.type = "WINDOW_ADJUST" /\ p.ch = c =>
                 /\ DataOf(outq', c) = DataOf(outq, c)
                 /\ Adjusts(outq, c) = Adjusts(outq', c) + p.n
<1>1. /\ outq \in Seq(Packets) /\ outq' \in Seq(Packets) /\ p \in Packets
      /\ Adjusts(outq, c) = Adjusts(outq', c) +
            IF p.type = "WINDOW_ADJUST" /\ p.ch = c THEN p.n ELSE 0
      /\ DataOf(outq, c) = DataOf(outq', c) + IF IsData(p, c) THEN p.n ELSE 0
  BY ServesIs
<1>2. /\ DataOf(outq, c) \in Nat /\ DataOf(outq', c) \in Nat
      /\ Adjusts(outq, c) \in Nat /\ Adjusts(outq', c) \in Nat /\ p.n \in Nat
  BY <1>1, SumsType DEF Packets
<1>3. ~(IsData(p, c) /\ p.type = "WINDOW_ADJUST")
  BY DEF IsData, Types
<1>4. CASE IsData(p, c)
  BY <1>1, <1>2, <1>3, <1>4 DEF Counts
<1>5. CASE p.type = "WINDOW_ADJUST" /\ p.ch = c
  BY <1>1, <1>2, <1>3, <1>5 DEF Counts
<1>6. CASE ~Counts(p, c)
  BY <1>1, <1>2, <1>6 DEF Counts
<1>7. QED BY <1>2, <1>4, <1>5, <1>6 DEF Counts

\* A packet put on the wire to the program adds what it weighs.
LEMMA SendsSums ==
    ASSUME TypeOK, NEW p \in Packets, Sends(p), NEW c
    PROVE  /\ DataOf(inq, c) \in Nat /\ DataOf(inq', c) \in Nat
           /\ Adjusts(inq, c) \in Nat /\ Adjusts(inq', c) \in Nat /\ p.n \in Nat
           /\ ~Counts(p, c) => /\ DataOf(inq', c) = DataOf(inq, c)
                               /\ Adjusts(inq', c) = Adjusts(inq, c)
           /\ IsData(p, c) => /\ DataOf(inq', c) = DataOf(inq, c) + p.n
                              /\ Adjusts(inq', c) = Adjusts(inq, c)
           /\ p.type = "WINDOW_ADJUST" /\ p.ch = c =>
                 /\ DataOf(inq', c) = DataOf(inq, c)
                 /\ Adjusts(inq', c) = Adjusts(inq, c) + p.n
<1>1. /\ inq \in Seq(Packets) /\ inq' \in Seq(Packets)
      /\ Adjusts(inq', c) = Adjusts(inq, c) +
            IF p.type = "WINDOW_ADJUST" /\ p.ch = c THEN p.n ELSE 0
      /\ DataOf(inq', c) = DataOf(inq, c) + IF IsData(p, c) THEN p.n ELSE 0
  BY SendsIs
<1>2. /\ DataOf(inq, c) \in Nat /\ DataOf(inq', c) \in Nat
      /\ Adjusts(inq, c) \in Nat /\ Adjusts(inq', c) \in Nat /\ p.n \in Nat
  BY <1>1, SumsType DEF Packets
<1>3. ~(IsData(p, c) /\ p.type = "WINDOW_ADJUST")
  BY DEF IsData, Types
<1>4. CASE IsData(p, c)
  BY <1>1, <1>2, <1>3, <1>4 DEF Counts
<1>5. CASE p.type = "WINDOW_ADJUST" /\ p.ch = c
  BY <1>1, <1>2, <1>3, <1>5 DEF Counts
<1>6. CASE ~Counts(p, c)
  BY <1>1, <1>2, <1>6 DEF Counts
<1>7. QED BY <1>2, <1>4, <1>5, <1>6 DEF Counts

\* What the server has granted and what it has left move together.
Balanced(c) ==
    /\ \/ peer'[c].st # "open" /\ DataOf(inq', c) = DataOf(inq, c)
       \/ /\ Opened(c) /\ peer'[c].win = WindowDefault
          /\ Adjusts(outq', c) = Adjusts(outq, c) /\ DataOf(inq', c) = DataOf(inq, c)
       \/ /\ peer[c].st = "open"
          /\ peer'[c].win + Adjusts(outq', c) + DataOf(inq', c) =
                peer[c].win + Adjusts(outq, c) + DataOf(inq, c)
    /\ \/ Opened(c)
       \/ peer'[c].credit - DataOf(outq', c) - Adjusts(inq', c) =
             peer[c].credit - DataOf(outq, c) - Adjusts(inq, c)

\* Of a channel that nothing is taken or sent for, and nothing becomes.
LEMMA BalancedNot ==
    ASSUME TypeOK, NEW c \in Ids, peer[c].st = "open" \/ peer'[c].st # "open",
           peer'[c].win = peer[c].win, peer'[c].credit = peer[c].credit,
           DataOf(outq', c) = DataOf(outq, c), Adjusts(outq', c) = Adjusts(outq, c),
           DataOf(inq', c) = DataOf(inq, c), Adjusts(inq', c) = Adjusts(inq, c)
    PROVE  Balanced(c)
  BY DEF Balanced

\* The server keeps the balance.
LEMMA ServerBalance ==
    ASSUME TypeOK, Unheard, ServerKinds, ~Leaves, NEW c \in Ids
    PROVE  Balanced(c)
<1>1. /\ peer[c].win \in Nat /\ peer[c].credit \in Int /\ peer[c].owes \in Nat
      /\ DataOf(outq, c) \in Nat /\ Adjusts(outq, c) \in Nat
      /\ DataOf(inq, c) \in Nat /\ Adjusts(inq, c) \in Nat /\ tcp = "up"
  BY PeerFields, ShrinksType DEF ServerKinds
<1>2. \A p \in Packets : p.ch \in Ids /\ p.n \in Nat
  BY DEF Packets
<1>3. ASSUME Quiet
      PROVE  DataOf(outq', c) = DataOf(outq, c) /\ Adjusts(outq', c) = Adjusts(outq, c)
  BY <1>3 DEF Quiet
<1>4. ASSUME inq' = inq
      PROVE  DataOf(inq', c) = DataOf(inq, c) /\ Adjusts(inq', c) = Adjusts(inq, c)
  BY <1>4
<1>5. ASSUME NEW p, Serves(p), p.type \notin Types, p.type # "WINDOW_ADJUST"
      PROVE  DataOf(outq', c) = DataOf(outq, c) /\ Adjusts(outq', c) = Adjusts(outq, c)
  BY <1>5, ServesSums DEF Counts, IsData
<1>6. ASSUME NEW type \in PacketTypes \ Types, NEW d \in Ids, NEW n \in Nat,
             type # "WINDOW_ADJUST", Sends(Packet(type, d, n))
      PROVE  DataOf(inq', c) = DataOf(inq, c) /\ Adjusts(inq', c) = Adjusts(inq, c)
  <2> DEFINE q == Packet(type, d, n)
  <2>1. q \in Packets /\ q.type = type
    BY <1>6, PacketFields
  <2>2. Sends(q)
    BY <1>6
  <2> HIDE DEF q
  <2>3. ~Counts(q, c)
    BY <1>6, <2>1 DEF Counts, IsData
  <2>4. QED BY <2>1, <2>2, <2>3, SendsSums
<1>7. ASSUME NEW d \in Ids, NEW st, NEW win, NEW credit, NEW owes, NEW done,
             Becomes(d, st, win, credit, owes, done), c # d
      PROVE  peer'[c] = peer[c]
  BY <1>7 DEF Becomes
<1>8. CASE Drops
  <2>1. PICK p \in Packets :
           /\ Serves(p) /\ p.type \notin Types
           /\ p.type = "WINDOW_ADJUST" => peer[p.ch].st # "open"
           /\ inq' = inq /\ peer' = peer
    BY <1>8 DEF Drops
  <2>2. DataOf(inq', c) = DataOf(inq, c) /\ Adjusts(inq', c) = Adjusts(inq, c)
    BY <1>4, <2>1
  <2>3. ~IsData(p, c)
    BY <2>1 DEF IsData
  <2>4. CASE Counts(p, c)
    <3>1. peer'[c].st # "open" /\ DataOf(outq', c) = DataOf(outq, c)
      BY <2>1, <2>3, <2>4, ServesSums DEF Counts
    <3>2. QED BY <2>1, <2>2, <3>1 DEF Balanced
  <2>5. CASE ~Counts(p, c)
    <3>1. DataOf(outq', c) = DataOf(outq, c) /\ Adjusts(outq', c) = Adjusts(outq, c)
      BY <2>1, <2>5, ServesSums
    <3>2. QED BY <2>1, <2>2, <3>1, BalancedNot
  <2>6. QED BY <2>4, <2>5
<1>9. CASE Responds
  <2>1. PICK p \in Packets, type \in {"OPEN_FAILURE", "SUCCESS", "FAILURE"} :
           /\ Serves(p) /\ p.type \in Asks /\ Sends(Packet(type, p.ch, 0))
           /\ Becomes(p.ch, peer[p.ch].st, peer[p.ch].win, peer[p.ch].credit, peer[p.ch].owes,
                      peer[p.ch].eof)
    BY <1>9 DEF Responds
  <2>2. p.type \notin Types /\ p.type # "WINDOW_ADJUST"
    BY <2>1 DEF Asks, Types
  <2>3. DataOf(outq', c) = DataOf(outq, c) /\ Adjusts(outq', c) = Adjusts(outq, c)
    BY <1>5, <2>1, <2>2
  <2>4. DataOf(inq', c) = DataOf(inq, c) /\ Adjusts(inq', c) = Adjusts(inq, c)
    <3>1. type \in PacketTypes \ Types /\ p.ch \in Ids /\ 0 \in Nat /\ type # "WINDOW_ADJUST"
      BY <1>2, PacketTypesAre
    <3>2. QED BY <1>6, <2>1, <3>1
  <2>5. /\ peer'[c].st = peer[c].st /\ peer'[c].win = peer[c].win
        /\ peer'[c].credit = peer[c].credit
    BY <1>2, <1>7, <2>1 DEF Becomes
  <2>6. QED BY <2>3, <2>4, <2>5, BalancedNot
<1>10. CASE Accepts
  <2>1. PICK p \in Packets :
           /\ Serves(p) /\ p.type = "OPEN" /\ Sends(Packet("OPEN_CONFIRMATION", p.ch, PeerWindow))
           /\ Becomes(p.ch, "open", p.n, PeerWindow, peer[p.ch].owes, peer[p.ch].eof)
    BY <1>10 DEF Accepts
  <2>2. p.type \notin Types /\ p.type # "WINDOW_ADJUST"
    BY <2>1 DEF Types
  <2>3. DataOf(outq', c) = DataOf(outq, c) /\ Adjusts(outq', c) = Adjusts(outq, c)
    BY <1>5, <2>1, <2>2
  <2>4. DataOf(inq', c) = DataOf(inq, c) /\ Adjusts(inq', c) = Adjusts(inq, c)
    <3>1. /\ "OPEN_CONFIRMATION" \in PacketTypes \ Types /\ p.ch \in Ids /\ PeerWindow \in Nat
          /\ "OPEN_CONFIRMATION" # "WINDOW_ADJUST"
      BY <1>2, PacketTypesAre
    <3>2. QED BY <1>6, <2>1, <3>1
  <2>5. CASE c = p.ch
    <3>1. peer[c].st = "none" /\ p.n = WindowDefault
      BY <1>1, <2>1, <2>5, ServesIs DEF Unheard, Opens
    <3>2. Opened(c) /\ peer'[c].win = WindowDefault
      BY <2>1, <2>5, <3>1 DEF Becomes, Opened
    <3>3. QED BY <2>3, <2>4, <3>2 DEF Balanced
  <2>6. CASE c # p.ch
    <3>1. peer'[c] = peer[c]
      BY <1>2, <1>7, <2>1, <2>6
    <3>2. QED BY <2>3, <2>4, <3>1, BalancedNot
  <2>7. QED BY <2>5, <2>6
<1>11. CASE Consumes
  <2>1. PICK p \in Packets :
           /\ Serves(p) /\ p.type = "DATA" /\ inq' = inq
           /\ Becomes(p.ch, peer[p.ch].st, peer[p.ch].win, peer[p.ch].credit - p.n,
                      peer[p.ch].owes + p.n, peer[p.ch].eof)
    BY <1>11 DEF Consumes
  <2>2. DataOf(inq', c) = DataOf(inq, c) /\ Adjusts(inq', c) = Adjusts(inq, c)
    BY <1>4, <2>1
  <2>3. CASE c = p.ch
    <3>1. IsData(p, c)
      BY <2>1, <2>3 DEF IsData, Types
    <3>2. /\ DataOf(outq, c) = DataOf(outq', c) + p.n /\ Adjusts(outq', c) = Adjusts(outq, c)
          /\ DataOf(outq', c) \in Nat /\ p.n \in Nat
      BY <2>1, <3>1, ServesSums
    <3>3. /\ peer'[c].st = peer[c].st /\ peer'[c].win = peer[c].win
          /\ peer'[c].credit = peer[c].credit - p.n
      BY <2>1, <2>3 DEF Becomes
    <3>4. peer'[c].credit - DataOf(outq', c) - Adjusts(inq', c) =
             peer[c].credit - DataOf(outq, c) - Adjusts(inq, c)
      BY <1>1, <2>2, <3>2, <3>3
    <3>5. QED BY <2>2, <3>2, <3>3, <3>4 DEF Balanced
  <2>4. CASE c # p.ch
    <3>1. ~Counts(p, c)
      BY <2>4 DEF Counts, IsData
    <3>2. DataOf(outq', c) = DataOf(outq, c) /\ Adjusts(outq', c) = Adjusts(outq, c)
      BY <2>1, <3>1, ServesSums
    <3>3. peer'[c] = peer[c]
      BY <1>2, <1>7, <2>1, <2>4
    <3>4. QED BY <2>2, <3>2, <3>3, BalancedNot
  <2>5. QED BY <2>3, <2>4
<1>12. CASE Widens
  <2>1. PICK p \in Packets :
           /\ Serves(p) /\ p.type = "WINDOW_ADJUST" /\ inq' = inq /\ peer[p.ch].st = "open"
           /\ Becomes(p.ch, "open", peer[p.ch].win + p.n, peer[p.ch].credit, peer[p.ch].owes,
                      peer[p.ch].eof)
    BY <1>12 DEF Widens
  <2>2. DataOf(inq', c) = DataOf(inq, c) /\ Adjusts(inq', c) = Adjusts(inq, c)
    BY <1>4, <2>1
  <2>3. CASE c = p.ch
    <3>1. /\ Adjusts(outq, c) = Adjusts(outq', c) + p.n /\ DataOf(outq', c) = DataOf(outq, c)
          /\ Adjusts(outq', c) \in Nat /\ p.n \in Nat
      BY <2>1, <2>3, ServesSums
    <3>2. /\ peer'[c].win = peer[c].win + p.n /\ peer'[c].credit = peer[c].credit
      BY <2>1, <2>3 DEF Becomes
    <3>3. peer'[c].win + Adjusts(outq', c) + DataOf(inq', c) =
             peer[c].win + Adjusts(outq, c) + DataOf(inq, c)
      BY <1>1, <2>2, <3>1, <3>2
    <3>4. QED BY <2>1, <2>2, <2>3, <3>1, <3>2, <3>3 DEF Balanced
  <2>4. CASE c # p.ch
    <3>1. ~Counts(p, c)
      BY <2>4 DEF Counts, IsData
    <3>2. DataOf(outq', c) = DataOf(outq, c) /\ Adjusts(outq', c) = Adjusts(outq, c)
      BY <2>1, <3>1, ServesSums
    <3>3. peer'[c] = peer[c]
      BY <1>2, <1>7, <2>1, <2>4
    <3>4. QED BY <2>2, <3>2, <3>3, BalancedNot
  <2>5. QED BY <2>3, <2>4
<1>13. CASE Shuts
  <2>1. PICK d \in Ids :
          /\ Quiet \/ \E p \in Packets : Serves(p) /\ p.type = "CLOSE"
          /\ Sends(Packet("CLOSE", d, 0))
          /\ Becomes(d, "closed", peer[d].win, peer[d].credit, peer[d].owes, peer[d].eof)
    BY <1>13 DEF Shuts
  <2>2. "CLOSE" \in PacketTypes \ Types /\ 0 \in Nat /\ "CLOSE" # "WINDOW_ADJUST"
    BY PacketTypesAre
  <2>3. DataOf(inq', c) = DataOf(inq, c) /\ Adjusts(inq', c) = Adjusts(inq, c)
    BY <1>6, <2>1, <2>2
  <2>4. DataOf(outq', c) = DataOf(outq, c) /\ Adjusts(outq', c) = Adjusts(outq, c)
    BY <1>3, <1>5, <2>1, <2>2
  <2>5. CASE c = d
    <3>1. /\ peer'[c].st # "open" /\ peer'[c].win = peer[c].win
          /\ peer'[c].credit = peer[c].credit
      BY <2>1, <2>5 DEF Becomes
    <3>2. QED BY <2>3, <2>4, <3>1, BalancedNot
  <2>6. CASE c # d
    <3>1. peer'[c] = peer[c]
      BY <1>7, <2>1, <2>6
    <3>2. QED BY <2>3, <2>4, <3>1, BalancedNot
  <2>7. QED BY <2>5, <2>6
<1>14. CASE Produces
  <2>1. PICK d \in Ids, p \in Packets :
          /\ Quiet /\ peer[d].st = "open" /\ IsData(p, d) /\ p.n <= peer[d].win /\ Sends(p)
          /\ Becomes(d, "open", peer[d].win - p.n, peer[d].credit, peer[d].owes, peer[d].eof)
    BY <1>14 DEF Produces
  <2>2. DataOf(outq', c) = DataOf(outq, c) /\ Adjusts(outq', c) = Adjusts(outq, c)
    BY <1>3, <2>1
  <2>3. CASE c = d
    <3>1. /\ DataOf(inq', c) = DataOf(inq, c) + p.n /\ Adjusts(inq', c) = Adjusts(inq, c)
          /\ p.n \in Nat
      BY <2>1, <2>3, SendsSums
    <3>2. /\ peer'[c].win = peer[c].win - p.n /\ peer'[c].credit = peer[c].credit
      BY <2>1, <2>3 DEF Becomes
    <3>3. peer'[c].win + Adjusts(outq', c) + DataOf(inq', c) =
             peer[c].win + Adjusts(outq, c) + DataOf(inq, c)
      BY <1>1, <2>2, <3>1, <3>2
    <3>4. QED BY <2>1, <2>2, <2>3, <3>1, <3>2, <3>3 DEF Balanced
  <2>4. CASE c # d
    <3>1. ~Counts(p, c)
      BY <2>1, <2>4 DEF Counts, IsData, Types
    <3>2. DataOf(inq', c) = DataOf(inq, c) /\ Adjusts(inq', c) = Adjusts(inq, c)
      BY <2>1, <3>1, SendsSums
    <3>3. peer'[c] = peer[c]
      BY <1>7, <2>1, <2>4
    <3>4. QED BY <2>2, <3>2, <3>3, BalancedNot
  <2>5. QED BY <2>3, <2>4
<1>15. CASE Repays
  <2>1. PICK d \in Ids :
          /\ Quiet /\ peer[d].st = "open" /\ Sends(Packet("WINDOW_ADJUST", d, peer[d].owes))
          /\ Becomes(d, "open", peer[d].win, peer[d].credit + peer[d].owes, 0, peer[d].eof)
    BY <1>15 DEF Repays
  <2>2. DataOf(outq', c) = DataOf(outq, c) /\ Adjusts(outq', c) = Adjusts(outq, c)
    BY <1>3, <2>1
  <2> DEFINE q == Packet("WINDOW_ADJUST", d, peer[d].owes)
  <2>3. q \in Packets /\ q.type = "WINDOW_ADJUST" /\ q.ch = d /\ q.n = peer[d].owes
    <3>1. "WINDOW_ADJUST" \in PacketTypes /\ peer[d].owes \in Nat
      BY PacketTypesAre, PeerFields
    <3>2. QED BY <3>1, PacketFields
  <2>4. Sends(q)
    BY <2>1
  <2> HIDE DEF q
  <2>5. CASE c = d
    <3>1. /\ Adjusts(inq', c) = Adjusts(inq, c) + q.n /\ DataOf(inq', c) = DataOf(inq, c)
      BY <2>3, <2>4, <2>5, SendsSums
    <3>2. /\ peer'[c].win = peer[c].win /\ peer'[c].credit = peer[c].credit + q.n
      BY <2>1, <2>3, <2>5 DEF Becomes
    <3>3. q.n \in Nat
      BY <1>1, <2>3, <2>5
    <3>4. peer'[c].credit - DataOf(outq', c) - Adjusts(inq', c) =
             peer[c].credit - DataOf(outq, c) - Adjusts(inq, c)
      BY <1>1, <2>2, <3>1, <3>2, <3>3
    <3>5. QED BY <2>1, <2>2, <2>5, <3>1, <3>2, <3>4 DEF Balanced
  <2>6. CASE c # d
    <3>1. ~Counts(q, c)
      BY <2>3, <2>6 DEF Counts, IsData
    <3>2. DataOf(inq', c) = DataOf(inq, c) /\ Adjusts(inq', c) = Adjusts(inq, c)
      BY <2>3, <2>4, <3>1, SendsSums
    <3>3. peer'[c] = peer[c]
      BY <1>7, <2>1, <2>6
    <3>4. QED BY <2>2, <3>2, <3>3, BalancedNot
  <2>7. QED BY <2>5, <2>6
<1>16. CASE Finishes
  <2>1. PICK d \in Ids :
          /\ Quiet /\ peer[d].st = "open"
          /\ inq' = Append(Append(inq, Packet("EXIT_STATUS", d, 1)), Packet("EOF", d, 0))
          /\ Becomes(d, "open", peer[d].win, peer[d].credit, peer[d].owes, TRUE)
    BY <1>16 DEF Finishes
  <2>2. DataOf(outq', c) = DataOf(outq, c) /\ Adjusts(outq', c) = Adjusts(outq, c)
    BY <1>3, <2>1
  <2> DEFINE q == Packet("EXIT_STATUS", d, 1)
             x == Packet("EOF", d, 0)
             some == Append(inq, q)
  <2>3. q \in Packets /\ q.type = "EXIT_STATUS" /\ x \in Packets /\ x.type = "EOF"
    <3>1. "EXIT_STATUS" \in PacketTypes /\ "EOF" \in PacketTypes /\ 0 \in Nat /\ 1 \in Nat
      BY PacketTypesAre
    <3>2. QED BY <3>1, PacketFields
  <2>4. inq' = Append(some, x)
    BY <2>1
  <2> HIDE DEF q, x
  <2>5. ~IsData(q, c) /\ ~IsData(x, c) /\ q.type # "WINDOW_ADJUST" /\ x.type # "WINDOW_ADJUST"
    BY <2>3 DEF IsData, Types
  <2>6. inq \in Seq(Packets) /\ some \in Seq(Packets)
    BY <2>3, ShrinksType
  <2>7. /\ Adjusts(some, c) = Adjusts(inq, c) /\ DataOf(some, c) = DataOf(inq, c)
    BY <1>1, <2>3, <2>5, <2>6, SumsAppend
  <2> HIDE DEF some
  <2>8. DataOf(inq', c) = DataOf(inq, c) /\ Adjusts(inq', c) = Adjusts(inq, c)
    BY <1>1, <2>3, <2>4, <2>5, <2>6, <2>7, SumsAppend
  <2>9. CASE c = d
    <3>1. peer'[c].win = peer[c].win /\ peer'[c].credit = peer[c].credit
      BY <2>1, <2>9 DEF Becomes
    <3>2. QED BY <2>1, <2>2, <2>8, <2>9, <3>1, BalancedNot
  <2>10. CASE c # d
    <3>1. peer'[c] = peer[c]
      BY <1>7, <2>1, <2>10
    <3>2. QED BY <2>2, <2>8, <3>1, BalancedNot
  <2>11. QED BY <2>9, <2>10
<1>17. CASE Chatters
  <2>1. PICK type \in {"IGNORE", "OPEN_FORWARDED", "OPEN_OTHER"} :
           Quiet /\ peer' = peer /\ Sends(Packet(type, 0, 0))
    BY <1>17 DEF Chatters
  <2>2. type \in PacketTypes \ Types /\ 0 \in Ids /\ 0 \in Nat /\ type # "WINDOW_ADJUST"
    BY PacketTypesAre
  <2>3. DataOf(inq', c) = DataOf(inq, c) /\ Adjusts(inq', c) = Adjusts(inq, c)
    BY <1>6, <2>1, <2>2
  <2>4. DataOf(outq', c) = DataOf(outq, c) /\ Adjusts(outq', c) = Adjusts(outq, c)
    BY <1>3, <2>1
  <2>5. QED BY <2>1, <2>3, <2>4, BalancedNot
<1>18. QED
  BY <1>8, <1>9, <1>10, <1>11, <1>12, <1>13, <1>14, <1>15, <1>16, <1>17 DEF ServerKinds

\* Of an empty wire.
LEMMA SumsNone ==
    ASSUME NEW c
    PROVE  DataOf(<<>>, c) = 0 /\ Adjusts(<<>>, c) = 0
<1>1. /\ <<>> \in Seq(Packets)
      /\ \A i \in DOMAIN <<>> : FALSE
  OBVIOUS
<1>2. QED BY ONLY <1>1, SumsType

\* A connection that is lost takes packets away.
LEMMA LeavesSums ==
    ASSUME TypeOK, Leaves, NEW c
    PROVE  /\ DataOf(inq, c) \in Nat /\ DataOf(inq', c) \in Nat
           /\ DataOf(inq', c) <= DataOf(inq, c)
           /\ DataOf(outq, c) \in Nat /\ DataOf(outq', c) \in Nat
           /\ DataOf(outq', c) <= DataOf(outq, c)
           /\ Adjusts(inq, c) \in Nat /\ Adjusts(inq', c) \in Nat
           /\ Adjusts(inq', c) <= Adjusts(inq, c)
<1>1. inq \in Seq(Packets) /\ outq \in Seq(Packets)
  BY DEF TypeOK
<1>2. /\ DataOf(inq, c) \in Nat /\ DataOf(outq, c) \in Nat /\ Adjusts(inq, c) \in Nat
  BY <1>1, SumsType
<1>3. /\ DataOf(inq', c) \in Nat /\ DataOf(inq', c) <= DataOf(inq, c)
      /\ Adjusts(inq', c) \in Nat /\ Adjusts(inq', c) <= Adjusts(inq, c)
  <2>1. CASE inq' = inq
    BY <1>2, <2>1
  <2>2. CASE inq' = <<>>
    BY <1>2, <2>2, SumsNone
  <2>3. ASSUME NEW d \in Ids, Sends(Packet("DISCONNECT", d, 0))
        PROVE  /\ DataOf(inq', c) = DataOf(inq, c) /\ Adjusts(inq', c) = Adjusts(inq, c)
    <3> DEFINE q == Packet("DISCONNECT", d, 0)
    <3>1. q \in Packets /\ q.type = "DISCONNECT" /\ Sends(q)
      <4>1. "DISCONNECT" \in PacketTypes /\ 0 \in Nat
        BY PacketTypesAre
      <4>2. QED BY <2>3, <4>1, PacketFields
    <3> HIDE DEF q
    <3>2. ~Counts(q, c)
      BY <3>1 DEF Counts, IsData, Types
    <3>3. QED BY <3>1, <3>2, SendsSums
  <2>4. QED BY <1>2, <2>1, <2>2, <2>3 DEF Leaves
<1>4. DataOf(outq', c) \in Nat /\ DataOf(outq', c) <= DataOf(outq, c)
  <2>1. CASE outq' = <<>>
    BY <1>2, <2>1, SumsNone
  <2>2. CASE outq # <<>> /\ outq' = Tail(outq)
    <3>1. Tail(outq) \in Seq(Packets)
      BY <1>1, <2>2
    <3>2. DataOf(Tail(outq), c) \in Nat
      BY <3>1, SumsType
    <3>3. Head(outq) \in Packets
      BY <1>1, <2>2
    <3>4. Head(outq).n \in Nat
      BY <3>3 DEF Packets
    <3>5. QED BY <1>1, <1>2, <2>2, <3>2, <3>4, SumsTail
  <2>3. QED BY <2>1, <2>2 DEF Leaves
<1>5. QED BY <1>2, <1>3, <1>4

\* The server: data uses up the window on its side, a grant that is heard enlarges it.
LEMMA WindowsServer ==
    ASSUME TypeOK, Connection, Unheard, Windows, ServerKinds
    PROVE  Windows'
<1>1. UNCHANGED <<ch, wrapped, ignored>>
  BY DEF ServerKinds, clientVars, history
<1>2. SUFFICES ASSUME NEW c \in DOMAIN ch, c \notin wrapped
               PROVE  WindowOf(c)'
  BY <1>1 DEF Windows
<1>3. c \in Ids /\ ch[c].rwin \in Nat
  BY ChannelFields
<1>4. WindowOf(c)
  BY <1>2 DEF Windows
<1>5. CASE Leaves
  <2>1. tcp' # "up"
    BY <1>5 DEF Leaves
  <2>2. DataOf(inq', c) <= DataOf(inq, c) /\ DataOf(inq', c) \in Nat /\ DataOf(inq, c) \in Nat
    BY <1>5, LeavesSums
  <2>3. DataOf(inq, c) <= ch[c].rwin
    BY <1>4 DEF WindowOf
  <2>4. DataOf(inq', c) <= ch'[c].rwin
    BY <1>1, <1>3, <2>2, <2>3
  <2>5. QED BY <2>1, <2>4 DEF WindowOf
<1>6. CASE ~Leaves
  <2>1. Balanced(c)
    BY <1>3, <1>6, ServerBalance
  <2>2. tcp = "up" /\ tcp' = "up"
    BY <1>6, ServerSent
  <2>3. /\ DataOf(inq, c) \in Nat /\ DataOf(inq', c) \in Nat
        /\ Adjusts(outq, c) \in Nat /\ Adjusts(outq', c) \in Nat
    <3>1. inq \in Seq(Packets) /\ outq \in Seq(Packets)
      BY DEF TypeOK
    <3>2. inq' \in Seq(Packets) /\ outq' \in Seq(Packets)
      BY ServerWires
    <3>3. QED BY <3>1, <3>2, SumsType
  <2>4. peer[c].win \in Nat /\ peer'[c].win \in Nat
    <3>1. peer' \in [Ids -> PeerRecords]
      BY ServerWires
    <3>2. peer'[c].win \in Nat
      BY <1>3, <3>1 DEF PeerRecords
    <3>3. QED BY <1>3, <3>2, PeerFields
  <2>5. CASE peer'[c].st # "open" /\ DataOf(inq', c) = DataOf(inq, c)
    BY <1>1, <1>4, <2>5 DEF WindowOf
  <2>6. CASE /\ Opened(c) /\ peer'[c].win = WindowDefault
             /\ Adjusts(outq', c) = Adjusts(outq, c) /\ DataOf(inq', c) = DataOf(inq, c)
    <3>1. Silent(c)
      BY <1>3, <2>6 DEF Opened, Unheard
    <3>2. DataOf(inq', c) = 0 /\ Adjusts(outq', c) = 0
      BY <2>6, <3>1, SilentSums
    <3>3. ch'[c].rwin = WindowDefault
      BY <1>1, <1>2, <3>1 DEF Silent
    <3>4. QED BY <2>4, <2>6, <3>2, <3>3, Constants DEF WindowOf
  <2>7. CASE /\ peer[c].st = "open"
             /\ peer'[c].win + Adjusts(outq', c) + DataOf(inq', c) =
                   peer[c].win + Adjusts(outq, c) + DataOf(inq, c)
    <3>1. /\ ch[c].rwin >= peer[c].win + Adjusts(outq, c) + DataOf(inq, c)
          /\ c \notin ignored => ch[c].rwin = peer[c].win + Adjusts(outq, c) + DataOf(inq, c)
      BY <1>4, <2>2, <2>7 DEF WindowOf
    <3>2. /\ ch'[c].rwin >= peer'[c].win + Adjusts(outq', c) + DataOf(inq', c)
          /\ c \notin ignored' => ch'[c].rwin = peer'[c].win + Adjusts(outq', c) + DataOf(inq', c)
      BY <1>1, <2>7, <3>1
    <3>3. DataOf(inq', c) <= ch'[c].rwin
      <4>1. ch'[c].rwin \in Nat
        BY <1>1, <1>3
      <4>2. QED BY <2>3, <2>4, <3>2, <4>1
    <3>4. QED BY <3>2, <3>3 DEF WindowOf
  <2>8. QED BY <2>1, <2>5, <2>6, <2>7 DEF Balanced
<1>7. QED BY <1>5, <1>6

----------------------------------------------------------------------------
(* What may be written                                                     *)

\* The windows of a channel's record.
LEMMA RecordFields ==
    ASSUME NEW r \in ChannelRecords
    PROVE  r.lwin \in Nat /\ r.rwin \in Nat /\ r.adjust_queue \in Nat /\ r.rwin < Word
  BY Constants DEF ChannelRecords

\* The program: channel_write_ex sends no more than the window.
LEMMA OverrunLocal ==
    ASSUME TypeOK, Connection, Unheard, NotOverrun, Local
    PROVE  NotOverrun'
<1>1. UNCHANGED <<inq, peer>>
  BY DEF Local
<1>2. SUFFICES ASSUME NEW c \in DOMAIN ch', ch'[c].confirmed
               PROVE  ch'[c].lwin + DataOf(outq', c) + Adjusts(inq', c) <= peer'[c].credit
  BY DEF NotOverrun, Mine, window_write
<1>3. /\ outq \in Seq(Packets) /\ inq \in Seq(Packets) /\ inq' \in Seq(Packets)
  BY <1>1 DEF TypeOK
<1>4. /\ c \in Ids /\ ch'[c] \in ChannelRecords
  BY DEF Local
<1>5. ch'[c].lwin \in Nat
  BY <1>4, RecordFields
<1>6. outq' \in Seq(Packets)
  <2>1. CASE outq' = outq
    BY <1>3, <2>1
  <2>2. CASE \E p \in Packets : Sent(p)
    BY <2>2, SentIs
  <2>3. QED BY <2>1, <2>2 DEF Local
<1>7. /\ DataOf(outq, c) \in Nat /\ DataOf(outq', c) \in Nat /\ Adjusts(inq, c) \in Nat
  BY <1>3, <1>6, SumsType
<1>8. peer[c].credit \in Int
  BY <1>4, PeerFields
<1>9. CASE c \in DOMAIN ch /\ ch[c].confirmed
  <2>1. ch'[c].lwin + DataOf(outq', c) <= ch[c].lwin + DataOf(outq, c)
    BY <1>2, <1>9 DEF Local, Moves
  <2>2. ch[c].lwin + DataOf(outq, c) + Adjusts(inq, c) <= peer[c].credit
    BY <1>9 DEF NotOverrun, Mine, window_write
  <2>3. ch[c].lwin \in Nat
    BY <1>9, ChannelFields
  <2>4. QED BY <1>1, <1>5, <1>7, <1>8, <2>1, <2>2, <2>3
<1>10. CASE c \in DOMAIN ch /\ ~ch[c].confirmed
  <2>1. Confirms(c) /\ Untouched(c)
    BY <1>2, <1>10 DEF Local, Moves, Unheard
  <2>2. PICK k \in DOMAIN brigade : /\ brigade[k].type = "OPEN_CONFIRMATION" /\ brigade[k].ch = c
                                    /\ ch'[c].lwin = brigade[k].n
    BY <2>1 DEF Confirms
  <2>3. ch'[c].lwin = PeerWindow
    BY <2>2 DEF Connection
  <2>4. ~Silent(c)
    BY <2>2 DEF Silent
  <2>5. peer[c].st # "none"
    BY <1>4, <2>4 DEF Unheard
  <2>6. /\ peer[c].credit = PeerWindow
        /\ \A i \in DOMAIN outq : ~IsData(outq[i], c)
        /\ \A i \in DOMAIN inq : inq[i].ch = c => inq[i].type # "WINDOW_ADJUST"
    BY <2>1, <2>5 DEF Untouched
  <2>7. DataOf(outq, c) = 0 /\ Adjusts(inq, c) = 0
    BY <1>3, <2>6, SumsType
  <2>8. outq' = outq
    BY <2>1 DEF Confirms
  <2>9. QED BY <1>1, <1>5, <2>3, <2>6, <2>7, <2>8, Constants
<1>11. CASE c \notin DOMAIN ch
  <2>1. Fresh(c)
    BY <1>11 DEF Local
  <2>2. QED BY <1>2, <2>1 DEF Fresh, NewChannel
<1>12. QED BY <1>9, <1>10, <1>11

\* packet_add: a grant that arrives enlarges the window by what it grants.
LEMMA OverrunArrives ==
    ASSUME TypeOK, NotOverrun, Arrives
    PROVE  NotOverrun'
<1> DEFINE p == Head(inq)
<1>1. UNCHANGED peer
  BY DEF Arrives
<1>2. Filed(p)
  BY DEF Arrives
<1>3. SUFFICES ASSUME NEW c \in DOMAIN ch, ch'[c].confirmed
               PROVE  ch'[c].lwin + DataOf(outq', c) + Adjusts(inq', c) <= peer'[c].credit
  BY <1>2 DEF NotOverrun, Mine, window_write, Filed
<1>4. /\ ch'[c].confirmed = ch[c].confirmed
      /\ ch'[c].lwin <= ch[c].lwin + IF p.type = "WINDOW_ADJUST" /\ p.ch = c THEN p.n ELSE 0
  BY <1>2 DEF Filed, Hears
<1>5. DataOf(outq', c) = DataOf(outq, c)
  BY <1>2 DEF Filed
<1>6. /\ inq' \in Seq(Packets) /\ outq \in Seq(Packets) /\ p \in Packets
      /\ Adjusts(inq, c) = Adjusts(inq', c) + IF p.type = "WINDOW_ADJUST" /\ p.ch = c THEN p.n ELSE 0
  BY HeadIs DEF TypeOK
<1>7. Adjusts(inq', c) \in Nat /\ DataOf(outq, c) \in Nat
  BY <1>6, SumsType
<1>8. p.n \in Nat
  BY <1>6 DEF Packets
<1>9. ch[c].lwin \in Nat /\ c \in Ids
  BY ChannelFields
<1>10. ch'[c].lwin \in Nat
  <2>1. ch'[c] \in ChannelRecords
    BY <1>2 DEF Filed
  <2>2. QED BY <2>1, RecordFields
<1>11. ch[c].lwin + DataOf(outq, c) + Adjusts(inq, c) <= peer[c].credit
  BY <1>3, <1>4 DEF NotOverrun, Mine, window_write
<1> HIDE DEF p
<1>12. peer[c].credit \in Int
  BY <1>9, PeerFields
<1>13. \E n \in Nat : /\ ch'[c].lwin <= ch[c].lwin + n
                      /\ Adjusts(inq, c) = Adjusts(inq', c) + n
  BY <1>4, <1>6, <1>8
<1>14. QED BY <1>1, <1>5, <1>7, <1>9, <1>10, <1>11, <1>12, <1>13

\* The server: what it takes it owes, and what it owes it grants.
LEMMA OverrunServer ==
    ASSUME TypeOK, Unheard, NotOverrun, ServerKinds
    PROVE  NotOverrun'
<1>1. UNCHANGED ch
  BY DEF ServerKinds, clientVars
<1>2. SUFFICES ASSUME NEW c \in DOMAIN ch, ch[c].confirmed
               PROVE  ch[c].lwin + DataOf(outq', c) + Adjusts(inq', c) <= peer'[c].credit
  BY <1>1 DEF NotOverrun, Mine, window_write
<1>3. ch[c].lwin \in Nat /\ c \in Ids
  BY ChannelFields
<1>4. ch[c].lwin + DataOf(outq, c) + Adjusts(inq, c) <= peer[c].credit
  BY <1>2 DEF NotOverrun, Mine, window_write
<1>5. peer[c].credit \in Int
  BY <1>3, PeerFields
<1>6. CASE Leaves
  <2>1. peer' = peer
    BY <1>6 DEF Leaves
  <2>2. QED BY <1>3, <1>4, <1>5, <1>6, <2>1, LeavesSums
<1>7. CASE ~Leaves
  <2>1. ~Opened(c)
    BY <1>2, <1>3 DEF Opened, Unheard, Silent
  <2>2. peer'[c].credit - DataOf(outq', c) - Adjusts(inq', c) =
           peer[c].credit - DataOf(outq, c) - Adjusts(inq, c)
    BY <1>3, <1>7, <2>1, ServerBalance DEF Balanced
  <2>3. inq \in Seq(Packets) /\ outq \in Seq(Packets)
    BY DEF TypeOK
  <2>4. inq' \in Seq(Packets) /\ outq' \in Seq(Packets) /\ peer' \in [Ids -> PeerRecords]
    BY ServerWires
  <2>5. /\ DataOf(outq, c) \in Nat /\ DataOf(outq', c) \in Nat
        /\ Adjusts(inq, c) \in Nat /\ Adjusts(inq', c) \in Nat
    BY <2>3, <2>4, SumsType
  <2>6. peer'[c].credit \in Int
    BY <1>3, <2>4 DEF PeerRecords
  <2>7. QED BY <1>3, <1>4, <1>5, <2>2, <2>5, <2>6
<1>8. QED BY <1>6, <1>7

----------------------------------------------------------------------------
(* What is given back                                                      *)

\* While a channel is freed nothing is granted, until it is gone.
LEMMA FreeSteps ==
    ASSUME TypeOK, Places, Begun \/ Gone, call.op = "free"
    PROVE  \/ call'.op = "free" /\ call'.c = call.c /\ (Receive \/ wrapped' = wrapped)
           \/ call.c \notin DOMAIN ch' /\ wrapped' = wrapped
<1>1. call.pc \in {"pollData", "scanData", "pollExt", "scanExt", "unlink"}
  BY DEF Places, PlacesOf
<1>2. call # Idle
  BY DEF Idle
<1>3. ~Begun
  <2>1. ASSUME NEW o, Begin(o) PROVE call = Idle
    BY <2>1 DEF Begin, Returns, open_ex, setenv_ex, request_pty_ex, x11_req_ex, process_startup,
       Request, set_blocking, flush_ex, handle_extended_data, force_adjust, read_ex, write_ex,
       send_eof, close, wait_closed, free
  <2>2. QED BY <1>2, <2>1 DEF Begun
<1>4. call \in Calls
  BY DEF TypeOK
<1>5. \A pc : call' = [call EXCEPT !.pc = pc] => call'.op = "free" /\ call'.c = call.c
  BY <1>4 DEF Calls
<1>6. PollPacket \/ PollNothing \/ Clear \/ Unlink
  <2>1. Goes
    BY <1>3 DEF Gone
  <2>2. ~(Answered \/ OpenFailed \/ NotThere \/ AwaitPacket \/ NoAnswer \/ AwaitError)
    BY <1>1 DEF Answered, OpenFailed, NotThere, AwaitPacket, NoAnswer, AwaitError
  <2>3. ~(ReadPacket \/ ReadNothing \/ ReadFails \/ Take \/ ReadEnds)
    BY <1>1 DEF ReadPacket, ReadNothing, ReadFails, Take, ReadEnds
  <2>4. ~(WriteData \/ WriteWaits \/ WriteFails \/ WaitPacket \/ WaitEnds \/ WaitFails)
    BY <1>1 DEF WriteData, WriteWaits, WriteFails, WaitPacket, WaitEnds, WaitFails
  <2>5. QED BY <2>1, <2>2, <2>3, <2>4 DEF Goes
<1>7. CASE PollPacket
  <2>1. Receive /\ \E pc : call' = [call EXCEPT !.pc = pc]
    BY <1>7 DEF PollPacket
  <2>2. QED BY <1>5, <2>1
<1>8. CASE PollNothing
  <2>1. wrapped' = wrapped /\ \E pc : call' = [call EXCEPT !.pc = pc]
    BY <1>8 DEF PollNothing, NothingYet, history
  <2>2. QED BY <1>5, <2>1
<1>9. CASE Clear
  <2>1. wrapped' = wrapped /\ \E pc : call' = [call EXCEPT !.pc = pc]
    BY <1>9 DEF Clear, history
  <2>2. QED BY <1>5, <2>1
<1>10. CASE Unlink
  BY <1>10 DEF Unlink, Unlinked, history
<1>11. QED BY <1>6, <1>7, <1>8, <1>9, <1>10

\* The refunds of a channel.
Even(c) == ch[c].rwin + ch[c].adjust_queue + DataOf(brigade, c) = WindowDefault

\* No number up to a window is cut.
LEMMA InWindow ==
    ASSUME NEW x \in Nat, x <= WindowDefault
    PROVE  x % Word = x /\ x < Word
<1>1. x \in Int /\ x >= 0 /\ x < Word
  BY Constants
<1>2. QED BY <1>1, Modulo

\* Granting: what is given back was taken out of the brigade.
LEMMA EvenGranting ==
    ASSUME TypeOK, Granting, NEW c \in DOMAIN ch, Even(c), c \notin uneven'
    PROVE  Even(c)' /\ (c \in wrapped' => c \in wrapped)
<1>1. PICK g \in Mine, mode \in Modes, n \in Nat :
         LET chans == [ch EXCEPT ![g].mode = mode]
         IN  /\ \/ AdjustStep(chans, g, n)
                \/ n = 0 /\ ch' = chans /\ UNCHANGED <<outq, wrapped>>
             /\ Refunded(g, n)
             /\ Shrinks
             /\ UNCHANGED <<next_channel, inq, tcp, peer, noise, ignored>>
  BY DEF Granting
<1> DEFINE chans == [ch EXCEPT ![g].mode = mode]
<1>2. chans \in [DOMAIN ch -> ChannelRecords] /\ DOMAIN chans = DOMAIN ch /\ g \in DOMAIN ch
  BY ModeSet
<1>3. ch \in [DOMAIN ch -> ChannelRecords]
  BY DEF TypeOK
<1>4. \A d \in DOMAIN ch : /\ chans[d].rwin = ch[d].rwin
                           /\ chans[d].adjust_queue = ch[d].adjust_queue
  BY <1>2, <1>3 DEF ChannelRecords
<1>5. /\ AdjustStep(chans, g, n) \/ (n = 0 /\ ch' = chans /\ wrapped' = wrapped)
      /\ Refunded(g, n) /\ Shrinks
  BY <1>1
<1>6. /\ ch[c].rwin \in Nat /\ ch[c].adjust_queue \in Nat
  BY ChannelFields
<1>7. DataOf(brigade, c) \in Nat /\ DataOf(brigade', c) \in Nat
  <2>1. brigade \in Seq(Packets) /\ brigade' \in Seq(Packets)
    BY <1>5 DEF TypeOK, Shrinks
  <2>2. QED BY <2>1, SumsType
<1> HIDE DEF chans
<1>8. CASE c # g
  <2>1. ch'[c] = chans[c] /\ (c \in wrapped' => c \in wrapped)
    BY <1>2, <1>5, <1>8 DEF AdjustStep
  <2>2. DataOf(brigade', c) = DataOf(brigade, c)
    BY <1>5, <1>8 DEF Refunded, Keeps
  <2>3. QED BY <1>4, <2>1, <2>2 DEF Even
<1>9. CASE c = g
  <2> DEFINE T == (n + chans[c].adjust_queue) % Word
  <2>1. PICK R \in Nat : DataOf(brigade, c) = DataOf(brigade', c) + R /\ n \in {R, R % Word}
    BY <1>5, <1>9 DEF Refunded
  <2>2. R <= WindowDefault /\ ch[c].rwin + ch[c].adjust_queue + R <= WindowDefault
    BY <1>6, <1>7, <2>1, Constants DEF Even
  <2>3. n = R
    <3>1. R % Word = R
      BY <2>2, InWindow
    <3>2. QED BY <2>1, <3>1
  <2>4. T = n + ch[c].adjust_queue
    <3> DEFINE V == n + ch[c].adjust_queue
    <3>1. V \in Nat /\ V <= WindowDefault
      BY <1>6, <2>2, <2>3, Constants
    <3> HIDE DEF V
    <3>2. V % Word = V
      BY <3>1, InWindow
    <3>3. T = V % Word
      BY <1>4 DEF V
    <3>4. QED BY <3>2, <3>3 DEF V
  <2>5. ch[c].rwin + T < Word /\ (ch[c].rwin + T) % Word = ch[c].rwin + T
    <3> DEFINE V == ch[c].rwin + T
    <3>1. V \in Nat /\ V <= WindowDefault
      BY <1>6, <2>2, <2>3, <2>4, Constants
    <3> HIDE DEF V
    <3>2. V % Word = V /\ V < Word
      BY <3>1, InWindow
    <3>3. QED BY <3>2 DEF V
  <2>6. CASE /\ ch' = [chans EXCEPT ![c].adjust_queue = T] /\ wrapped' = wrapped
    <3>1. ch'[c].rwin = ch[c].rwin /\ ch'[c].adjust_queue = T
      BY <1>2, <1>4, <2>6 DEF ChannelRecords
    <3>2. QED BY <1>6, <1>7, <2>1, <2>3, <2>4, <2>6, <3>1 DEF Even
  <2>7. CASE /\ ch' = [chans EXCEPT ![c].adjust_queue = 0, ![c].rwin = (@ + T) % Word]
             /\ wrapped' = IF chans[c].rwin + T >= Word THEN wrapped \cup {c} ELSE wrapped
    <3> HIDE DEF T
    <3>1. ch'[c].rwin = (ch[c].rwin + T) % Word /\ ch'[c].adjust_queue = 0
      BY <1>2, <1>4, <2>7 DEF ChannelRecords
    <3>2. ch'[c].rwin = ch[c].rwin + n + ch[c].adjust_queue
      BY <1>6, <2>4, <2>5, <3>1
    <3>3. wrapped' = wrapped
      BY <1>4, <1>6, <2>4, <2>5, <2>7, Constants
    <3>4. QED BY <1>6, <1>7, <2>1, <2>3, <3>1, <3>2, <3>3 DEF Even
  <2>8. CASE n = 0 /\ ch' = chans /\ wrapped' = wrapped
    <3>1. ch'[c].rwin = ch[c].rwin /\ ch'[c].adjust_queue = ch[c].adjust_queue
      BY <1>4, <2>8
    <3>2. QED BY <1>7, <2>1, <2>3, <2>8, <3>1 DEF Even
  <2>9. QED BY <1>5, <1>9, <2>6, <2>7, <2>8 DEF AdjustStep
<1>10. QED BY <1>8, <1>9

\* Of all the kinds only that and forgetting concern it.
LEMMA EvenKinds ==
    ASSUME TypeOK, Connection, Kinds, NEW c \in DOMAIN ch, c \in DOMAIN ch', Even(c), c \notin uneven',
           <<call.op, call.c>> # <<"free", c>>
    PROVE  Even(c)' /\ (c \in wrapped' => c \in wrapped)
<1>1. c \in Ids /\ brigade \in Seq(Packets)
  BY ChannelFields DEF TypeOK
<1>2. SUFFICES ~Granting => /\ ch'[c].rwin = ch[c].rwin
                            /\ ch'[c].adjust_queue = ch[c].adjust_queue
                            /\ Keeps(c) /\ wrapped' = wrapped
  BY EvenGranting DEF Even, Keeps
<1>3. brigade' = brigade => Keeps(c)
  BY DEF Keeps
<1>4. CASE Plain
  BY <1>3, <1>4 DEF Plain, Alike, history
<1>5. CASE Forget
  <2>1. ch'[c] = ch[c]
    BY <1>5 DEF Forget, Unlinked
  <2>2. QED BY <1>5, <2>1 DEF Forget, history
<1>6. CASE Opening
  <2>1. ch'[c] = ch[c]
    <3>1. CASE ch' = ch
      BY <3>1
    <3>2. CASE ch' = [d \in DOMAIN ch \cup {next_channel} |->
                         IF d = next_channel THEN NewChannel ELSE ch[d]]
      <4>1. next_channel # c
        BY DEF Connection, TypeOK, Ids
      <4>2. QED BY <3>2, <4>1
    <3>3. QED BY <1>6, <3>1, <3>2 DEF Opening
  <2>2. QED BY <1>3, <1>6, <2>1 DEF Opening, history
<1>7. CASE Confirming
  <2>1. PICK k \in DOMAIN brigade :
           /\ brigade[k].type = "OPEN_CONFIRMATION" /\ brigade' = Without(brigade, k)
           /\ ch' = [ch EXCEPT ![brigade[k].ch].lwin = brigade[k].n,
                               ![brigade[k].ch].confirmed = TRUE]
           /\ wrapped' = wrapped
    BY <1>7 DEF Confirming, history
  <2>2. ~IsData(brigade[k], c)
    BY <2>1 DEF IsData, Types
  <2>3. Keeps(c)
    BY <2>1, <2>2, KeepsWithout
  <2>4. ch'[c].rwin = ch[c].rwin /\ ch'[c].adjust_queue = ch[c].adjust_queue
    BY <2>1 DEF TypeOK, ChannelRecords
  <2>5. QED BY <2>1, <2>3, <2>4
<1>8. CASE Writing
  <2>1. PICK g \in Mine, n \in Nat : ch' = ch \/ ch' = [ch EXCEPT ![g].lwin = @ - n]
    BY <1>8 DEF Writing
  <2>2. ch'[c].rwin = ch[c].rwin /\ ch'[c].adjust_queue = ch[c].adjust_queue
    <3>1. CASE ch' = ch
      BY <3>1
    <3>2. CASE ch' = [ch EXCEPT ![g].lwin = @ - n]
      <4>1. ch \in [DOMAIN ch -> ChannelRecords]
        BY DEF TypeOK
      <4>2. CASE c = g
        <5>1. ch'[c] = [ch[c] EXCEPT !.lwin = @ - n]
          BY <3>2, <4>1, <4>2
        <5>2. ch[c] \in ChannelRecords
          BY <4>1
        <5>3. QED BY <5>1, <5>2 DEF ChannelRecords
      <4>3. CASE c # g
        BY <3>2, <4>3
      <4>4. QED BY <4>2, <4>3
    <3>3. QED BY <2>1, <3>1, <3>2
  <2>3. QED BY <1>3, <1>8, <2>2 DEF Writing, history
<1>9. QED BY <1>4, <1>5, <1>6, <1>7, <1>8 DEF Kinds

\* A channel that is new.
LEMMA EvenNew ==
    ASSUME TypeOK, Connection, Unheard, Kinds, Local, NEW c \in DOMAIN ch', c \notin DOMAIN ch
    PROVE  Even(c)' /\ c \notin wrapped'
<1>1. /\ c \in Ids /\ brigade \in Seq(Packets)
      /\ ch'[c] = NewChannel /\ c = next_channel
  BY DEF Local, Fresh, TypeOK
<1>2. Opening
  <2>1. ~Plain /\ ~Forget
    BY DEF Plain, Forget, Unlinked
  <2>2. ~Granting
    <3>1. ASSUME NEW g \in Mine, NEW mode \in Modes, NEW n \in Nat,
                 LET chans == [ch EXCEPT ![g].mode = mode]
                 IN  AdjustStep(chans, g, n) \/ ch' = chans
          PROVE  FALSE
      BY <3>1 DEF AdjustStep
    <3>2. QED BY <3>1 DEF Granting
  <2>3. ~Confirming /\ ~Writing
    BY DEF Confirming, Writing
  <2>4. QED BY <2>1, <2>2, <2>3 DEF Kinds
<1>3. brigade' = brigade /\ wrapped' = wrapped
  BY <1>2 DEF Opening, history
<1>4. c \notin wrapped
  BY <1>1 DEF Unheard, UnheardIds, TypeOK
<1>5. peer[c].st = "none"
  BY <1>1 DEF Unheard, UnheardIds, Ids, TypeOK
<1>6. DataOf(brigade', c) = 0
  BY <1>1, <1>3, <1>5, SilentSums DEF Unheard
<1>7. ch'[c].rwin = WindowDefault /\ ch'[c].adjust_queue = 0
  BY <1>1 DEF NewChannel
<1>8. QED BY <1>3, <1>4, <1>6, <1>7, Constants DEF Even

\* The program keeps them,
LEMMA RefundsKinds ==
    ASSUME TypeOK, Places, Connection, Unheard, Refunds, Begun \/ (Gone /\ ~Receive), Kinds, Local
    PROVE  Refunds'
<1>1. ignored' = ignored
  BY DEF Local
<1>2. uneven \subseteq uneven'
  <2>1. CASE Granting
    BY <2>1 DEF Granting, Refunded
  <2>2. CASE ~Granting
    BY <2>2 DEF Kinds, Plain, Forget, Opening, Confirming, Writing, history
  <2>3. QED BY <2>1, <2>2
<1>3. SUFFICES ASSUME NEW c \in DOMAIN ch', c \notin uneven' \cup ignored'
               PROVE  /\ c \notin wrapped'
                      /\ <<call'.op, call'.c>> # <<"free", c>> => Even(c)'
  BY DEF Refunds, Even
<1>4. CASE c \notin DOMAIN ch
  BY <1>4, EvenNew
<1>5. CASE c \in DOMAIN ch
  <2>1. /\ c \notin wrapped
        /\ <<call.op, call.c>> # <<"free", c>> => Even(c)
    BY <1>1, <1>2, <1>3, <1>5 DEF Refunds, Even
  <2>2. CASE <<call.op, call.c>> # <<"free", c>>
    BY <1>3, <1>5, <2>1, <2>2, EvenKinds
  <2>3. CASE <<call.op, call.c>> = <<"free", c>>
    <3>1. call'.op = "free" /\ call'.c = c /\ wrapped' = wrapped
      <4>1. ~Receive
        <5>1. CASE Begun
          <6>1. call = Idle
            <7>1. ASSUME NEW o, Begin(o) PROVE call = Idle
              BY <7>1 DEF Begin, Returns, open_ex, setenv_ex, request_pty_ex, x11_req_ex,
                 process_startup, Request, set_blocking, flush_ex, handle_extended_data,
                 force_adjust, read_ex, write_ex, send_eof, close, wait_closed, free
            <7>2. QED BY <5>1, <7>1 DEF Begun
          <6>2. QED BY <2>3, <6>1 DEF Idle
        <5>2. QED BY <5>1
      <4>2. QED BY <1>3, <2>3, <4>1, FreeSteps
    <3>2. QED BY <2>1, <3>1
  <2>4. QED BY <2>2, <2>3
<1>6. QED BY <1>4, <1>5

\* so does packet_add: what the window loses the brigade holds,
LEMMA RefundsArrives ==
    ASSUME TypeOK, Places, Sized, Windows, Refunds, Gone, Receive, Arrives
    PROVE  Refunds'
<1> DEFINE p == Head(inq)
<1>1. Filed(p)
  BY DEF Arrives
<1>2. ignored \subseteq ignored' /\ DOMAIN ch' = DOMAIN ch /\ uneven' = uneven
  BY <1>1 DEF Filed, Arrives
<1>3. SUFFICES ASSUME NEW c \in DOMAIN ch, c \notin uneven' \cup ignored'
               PROVE  /\ c \notin wrapped'
                      /\ <<call'.op, call'.c>> # <<"free", c>> => Even(c)'
  BY <1>2 DEF Refunds, Even
<1>4. /\ c \notin wrapped
      /\ <<call.op, call.c>> # <<"free", c>> => Even(c)
  BY <1>2, <1>3 DEF Refunds, Even
<1>5. c \notin wrapped'
  BY <1>3, <1>4, WrappedReceive
<1>6. CASE <<call.op, call.c>> = <<"free", c>>
  BY <1>2, <1>5, <1>6, FreeSteps
<1>7. CASE <<call.op, call.c>> # <<"free", c>>
  <2>1. Even(c) /\ Hears(c, p)
    BY <1>1, <1>4, <1>7 DEF Filed
  <2>2. CASE ~IsData(p, c)
    BY <1>5, <2>1, <2>2 DEF Hears, Still, Keeps, Even
  <2>3. CASE IsData(p, c)
    <3>1. /\ inq \in Seq(Packets) /\ 1 \in DOMAIN inq /\ p = inq[1]
      BY HeadIs
    <3>2. p.n <= PacketDefault
      BY <2>3, <3>1 DEF Sized, IsData
    <3>3. WindowOf(c)
      BY <1>4 DEF Windows
    <3>4. /\ DataOf(inq, c) \in Nat /\ p.n <= DataOf(inq, c)
      BY <2>3, <3>1, SumsType
    <3>5. p.n \in Nat /\ ch[c].rwin \in Nat /\ ch[c].adjust_queue \in Nat
      <4>1. p \in Packets
        BY HeadIs
      <4>2. p.n \in Nat
        BY <4>1 DEF Packets
      <4>3. QED BY <4>2, ChannelFields
    <3>6. p.n <= ch[c].rwin
      BY <3>3, <3>4, <3>5 DEF WindowOf
    <3>7. Takes(c, p.n)
      BY <1>3, <2>1, <2>3, <3>2, <3>6 DEF Hears
    <3>8. DataOf(brigade, c) \in Nat
      <4>1. brigade \in Seq(Packets)
        BY DEF TypeOK
      <4>2. QED BY <4>1, SumsType
    <3> HIDE DEF p
    <3>9. Even(c)'
      BY <2>1, <3>5, <3>7, <3>8 DEF Takes, Even
    <3>10. QED BY <1>5, <3>9
  <2>4. QED BY <2>2, <2>3
<1>8. QED BY <1>6, <1>7

\* and the server has no part in them.
LEMMA RefundsServer ==
    ASSUME Refunds, ServerKinds
    PROVE  Refunds'
  BY DEF Refunds, ServerKinds, clientVars, history

----------------------------------------------------------------------------
(* The end of the data, and flow control                                   *)

\* At first there is no channel.
LEMMA FlowInit ==
    ASSUME Init
    PROVE  Unheard /\ Ends /\ Windows /\ NotOverrun /\ Refunds
<1>1. /\ ch = <<>> /\ next_channel = 0 /\ brigade = <<>> /\ outq = <<>> /\ inq = <<>>
      /\ uneven = {} /\ ignored = {} /\ wrapped = {}
      /\ peer = [c \in Ids |-> [st |-> "none", win |-> 0, credit |-> 0, owes |-> 0,
                                runs |-> FALSE, eof |-> FALSE, sent |-> [s \in {0, 1} |-> 0]]]
  BY DEF Init
<1>2. DOMAIN ch = {} /\ DOMAIN brigade = {} /\ DOMAIN outq = {} /\ DOMAIN inq = {}
  BY <1>1
<1>3. \A c \in Ids : peer[c].st = "none" /\ peer[c].owes = 0
  BY <1>1
<1>4. Unheard
  <2>1. UnheardIds
    BY <1>1, <1>3 DEF UnheardIds
  <2>2. Opens
    BY <1>2 DEF Opens
  <2>3. \A c \in Ids : Silent(c)
    BY <1>2, <1>3 DEF Silent
  <2>4. QED BY <1>2, <2>1, <2>2, <2>3 DEF Unheard
<1>5. Ends
  BY <1>2 DEF Ends
<1>6. Windows
  BY <1>2 DEF Windows
<1>7. NotOverrun
  BY <1>2 DEF NotOverrun, Mine
<1>8. Refunds
  BY <1>2 DEF Refunds
<1>9. QED BY <1>4, <1>5, <1>6, <1>7, <1>8

\* The first part of the invariant.
Flowing == /\ TypeOK /\ Places /\ Connection /\ Sized
           /\ Unheard /\ Ends /\ Windows /\ NotOverrun /\ Refunds

\* This much is inductive.
LEMMA FlowStep ==
    ASSUME Flowing, [Next]_vars
    PROVE  Flowing'
<1>1. (TypeOK /\ Places /\ Connection /\ Sized)'
  BY TypeStep DEF Flowing
<1>2. CASE UNCHANGED vars
  <2>1. /\ UNCHANGED <<ch, next_channel, brigade, call, outq, inq, tcp, peer, uneven, ignored,
                       wrapped>>
    BY <1>2 DEF vars, clientVars, history
  <2>2. Unheard'
    BY <2>1 DEF Flowing, Unheard, UnheardIds, Opens, Silent, Untouched
  <2>3. Ends'
    BY <2>1 DEF Flowing, Ends
  <2>4. Windows'
    BY <2>1 DEF Flowing, Windows, WindowOf
  <2>5. NotOverrun'
    BY <2>1 DEF Flowing, NotOverrun, Mine, window_write
  <2>6. Refunds'
    BY <2>1 DEF Flowing, Refunds
  <2>7. QED BY <1>1, <2>2, <2>3, <2>4, <2>5, <2>6 DEF Flowing
<1>3. CASE Next
  <2>1. Steps
    BY <1>3, StepIs DEF Flowing
  <2>2. CASE (Begun \/ (Gone /\ ~Receive)) /\ Kinds /\ Local
    <3>1. Unheard' /\ Ends' /\ Windows' /\ NotOverrun' /\ Refunds'
      BY <2>2, UnheardLocal, EndsLocal, WindowsLocal, OverrunLocal, RefundsKinds DEF Flowing
    <3>2. QED BY <1>1, <3>1 DEF Flowing
  <2>3. CASE Gone /\ Receive /\ Arrives
    <3>1. Unheard' /\ Ends' /\ Windows' /\ NotOverrun' /\ Refunds'
      BY <2>3, UnheardArrives, EndsArrives, WindowsArrives, OverrunArrives, RefundsArrives
         DEF Flowing
    <3>2. QED BY <1>1, <3>1 DEF Flowing
  <2>4. CASE ServerKinds
    <3>1. Unheard' /\ Ends' /\ Windows' /\ NotOverrun' /\ Refunds'
      BY <2>4, UnheardServer, EndsServer, WindowsServer, OverrunServer, RefundsServer DEF Flowing
    <3>2. QED BY <1>1, <3>1 DEF Flowing
  <2>5. QED BY <2>1, <2>2, <2>3, <2>4 DEF Steps
<1>4. QED BY <1>2, <1>3

\* And so it holds.
LEMMA Flows == Spec => []Flowing
<1>1. Init => Flowing
  BY TypeInit, FlowInit DEF Flowing
<1>2. Flowing /\ [Next]_vars => Flowing'
  BY FlowStep
<1>3. QED BY <1>1, <1>2, PTL DEF Spec

\* Every variable has its type, whatever arrives and whatever the program asks for.
THEOREM TypeCorrect == Spec => []TypeOK
<1>1. Flowing => TypeOK
  BY DEF Flowing
<1>2. QED BY <1>1, Flows, PTL

\* Flow control (channel_receive_window_adjust, packet_add, channel_write_ex): the two ends
\* agree on what the server may send, no window leaks away, and the server is never sent
\* more than it granted.
THEOREM FlowsRight == Spec => []FlowControl
<1>1. Flowing => FlowControl
  <2>1. ASSUME Windows PROVE WindowsAgree
    BY <2>1 DEF Windows, WindowOf, WindowsAgree, Live, Mine, window_read
  <2>2. ASSUME Refunds PROVE RefundsExact
    BY <2>2 DEF Refunds, RefundsExact, Mine
  <2>3. QED BY <2>1, <2>2 DEF Flowing, FlowControl
<1>2. QED BY <1>1, Flows, PTL

\* When channel_eof reports the end, everything the server sent has been read.
THEOREM EndsRight == Spec => []EofMeansAll
<1>1. ASSUME Flowing PROVE EofMeansAll
  <2>1. SUFFICES ASSUME NEW c \in Mine, NEW s \in {0, 1}, eof(c) PROVE Pending(<<c, s>>) = <<>>
    BY DEF EofMeansAll
  <2>2. brigade \in Seq(Packets) /\ inq \in Seq(Packets)
    BY <1>1 DEF Flowing, TypeOK
  <2>3. c \in DOMAIN ch /\ ch[c].reof /\ \A i \in DOMAIN brigade : ~IsData(brigade[i], c)
    BY <2>1 DEF Mine, eof, Range
  <2>4. \A i \in DOMAIN inq : ~IsData(inq[i], c)
    BY <1>1, <2>3 DEF Flowing, Ends
  <2>5. ASSUME NEW packets \in Seq(Packets), \A i \in DOMAIN packets : ~IsData(packets[i], c)
        PROVE  Concat([i \in DOMAIN packets |->
                         IF IsData(packets[i], c) /\ Stream(packets[i]) = s
                         THEN packets[i].bytes ELSE <<>>]) = <<>>
    <3> DEFINE parts == [i \in DOMAIN packets |->
                           IF IsData(packets[i], c) /\ Stream(packets[i]) = s
                           THEN packets[i].bytes ELSE <<>>]
    <3>1. DOMAIN packets = 1 .. Len(packets) /\ Len(packets) \in Nat
      OBVIOUS
    <3>2. parts = [i \in 1 .. Len(packets) |-> <<>>]
      BY <2>5, <3>1
    <3> HIDE DEF parts
    <3>3. parts \in Seq(Seq(Nat)) /\ \A i \in 1 .. Len(parts) : parts[i] = <<>>
      BY <3>1, <3>2
    <3>4. Concat(parts) = <<>>
      BY <3>3, ConcatNothing
    <3>5. QED BY <3>4 DEF parts
  <2>6. Pending(<<c, s>>) = <<>> \o <<>>
    BY <2>2, <2>3, <2>4, <2>5 DEF Pending
  <2>7. QED BY <2>6
<1>2. QED BY <1>1, Flows, PTL

----------------------------------------------------------------------------
(* Answers                                                                 *)

\* What is asked, and what is answered, is counted.
LEMMA AskWeights ==
    ASSUME NEW packets \in Seq(Packets)
    PROVE  /\ AskWeight \in [Packets -> Int] /\ AnswerWeight \in [Packets -> Int]
           /\ Weigh(packets, AskWeight) \in Nat /\ Weigh(packets, AnswerWeight) \in Nat
           /\ (\A i \in DOMAIN packets : packets[i].type \notin Asks) =>
                 Weigh(packets, AskWeight) = 0
           /\ (\A i \in DOMAIN packets : packets[i].type \notin Answering) =>
                 Weigh(packets, AnswerWeight) = 0
           /\ Weigh(packets, AskWeight) = 0 =>
                 \A i \in DOMAIN packets : packets[i].type \notin Asks
           /\ Weigh(packets, AnswerWeight) = 0 =>
                 \A i \in DOMAIN packets : packets[i].type \notin Answering
<1>1. AskWeight \in [Packets -> Int] /\ AnswerWeight \in [Packets -> Int]
  BY DEF AskWeight, AnswerWeight
<1>2. /\ DOMAIN packets = 1 .. Len(packets)
      /\ \A i \in 1 .. Len(packets) : packets[i] \in Packets
  OBVIOUS
<1>3. \A i \in 1 .. Len(packets) :
         /\ AskWeight[packets[i]] = IF packets[i].type \in Asks THEN 1 ELSE 0
         /\ AnswerWeight[packets[i]] = IF packets[i].type \in Answering THEN 1 ELSE 0
  BY <1>2 DEF AskWeight, AnswerWeight
<1>4. /\ Weigh(packets, AskWeight) \in Nat
      /\ \A i \in 1 .. Len(packets) : AskWeight[packets[i]] <= Weigh(packets, AskWeight)
  <2>1. \A i \in 1 .. Len(packets) : AskWeight[packets[i]] >= 0
    BY <1>3
  <2>2. /\ Weigh(packets, AskWeight) \in Int /\ Weigh(packets, AskWeight) >= 0
        /\ \A i \in 1 .. Len(packets) : AskWeight[packets[i]] <= Weigh(packets, AskWeight)
    BY <1>1, <2>1, WeighType
  <2>3. QED BY <2>2
<1>5. /\ Weigh(packets, AnswerWeight) \in Nat
      /\ \A i \in 1 .. Len(packets) : AnswerWeight[packets[i]] <= Weigh(packets, AnswerWeight)
  <2>1. \A i \in 1 .. Len(packets) : AnswerWeight[packets[i]] >= 0
    BY <1>3
  <2>2. /\ Weigh(packets, AnswerWeight) \in Int /\ Weigh(packets, AnswerWeight) >= 0
        /\ \A i \in 1 .. Len(packets) : AnswerWeight[packets[i]] <= Weigh(packets, AnswerWeight)
    BY <1>1, <2>1, WeighType
  <2>3. QED BY <2>2
<1>6. (\A i \in DOMAIN packets : packets[i].type \notin Asks) => Weigh(packets, AskWeight) = 0
  BY <1>1, <1>2, <1>3, WeighType
<1>7. (\A i \in DOMAIN packets : packets[i].type \notin Answering) =>
         Weigh(packets, AnswerWeight) = 0
  BY <1>1, <1>2, <1>3, WeighType
<1>8. Weigh(packets, AskWeight) = 0 => \A i \in DOMAIN packets : packets[i].type \notin Asks
  BY <1>2, <1>3, <1>4
<1>9. Weigh(packets, AnswerWeight) = 0 =>
         \A i \in DOMAIN packets : packets[i].type \notin Answering
  BY <1>2, <1>3, <1>5
<1>10. QED BY <1>1, <1>4, <1>5, <1>6, <1>7, <1>8, <1>9

\* One packet more,
LEMMA AskAppend ==
    ASSUME NEW packets \in Seq(Packets), NEW p \in Packets
    PROVE  /\ Weigh(Append(packets, p), AskWeight) =
                 Weigh(packets, AskWeight) + IF p.type \in Asks THEN 1 ELSE 0
           /\ Weigh(Append(packets, p), AnswerWeight) =
                 Weigh(packets, AnswerWeight) + IF p.type \in Answering THEN 1 ELSE 0
<1>1. AskWeight \in [Packets -> Int] /\ AnswerWeight \in [Packets -> Int]
  BY AskWeights
<1>2. /\ AskWeight[p] = IF p.type \in Asks THEN 1 ELSE 0
      /\ AnswerWeight[p] = IF p.type \in Answering THEN 1 ELSE 0
  BY DEF AskWeight, AnswerWeight
<1>3. /\ Weigh(Append(packets, p), AskWeight) = Weigh(packets, AskWeight) + AskWeight[p]
      /\ Weigh(Append(packets, p), AnswerWeight) = Weigh(packets, AnswerWeight) + AnswerWeight[p]
  BY <1>1, WeighAppend
<1>4. QED BY <1>2, <1>3

\* and one packet less.
LEMMA AskTail ==
    ASSUME NEW packets \in Seq(Packets), packets # <<>>
    PROVE  /\ Tail(packets) \in Seq(Packets)
           /\ Weigh(packets, AskWeight) =
                 Weigh(Tail(packets), AskWeight) + IF Head(packets).type \in Asks THEN 1 ELSE 0
           /\ Weigh(packets, AnswerWeight) =
                 Weigh(Tail(packets), AnswerWeight) + IF Head(packets).type \in Answering THEN 1 ELSE 0
<1>1. AskWeight \in [Packets -> Int] /\ AnswerWeight \in [Packets -> Int]
  BY AskWeights
<1>2. Tail(packets) \in Seq(Packets) /\ packets[1] \in Packets /\ Head(packets) = packets[1]
  OBVIOUS
<1>3. /\ AskWeight[packets[1]] = IF packets[1].type \in Asks THEN 1 ELSE 0
      /\ AnswerWeight[packets[1]] = IF packets[1].type \in Answering THEN 1 ELSE 0
  BY <1>2 DEF AskWeight, AnswerWeight
<1>4. /\ Weigh(packets, AskWeight) = AskWeight[packets[1]] + Weigh(Tail(packets), AskWeight)
      /\ Weigh(packets, AnswerWeight) = AnswerWeight[packets[1]] + Weigh(Tail(packets), AnswerWeight)
  BY <1>1, WeighTail
<1>5. Weigh(Tail(packets), AskWeight) \in Nat /\ Weigh(Tail(packets), AnswerWeight) \in Nat
  BY <1>2, AskWeights
<1>6. QED BY <1>2, <1>3, <1>4, <1>5

\* Where nobody waits nothing is asked and nothing is answered.
LEMMA Unasked ==
    ASSUME TypeOK, Asking, ~Waits, socket_state = "CONNECTED"
    PROVE  /\ \A i \in DOMAIN outq : outq[i].type \notin Asks
           /\ \A i \in DOMAIN inq : inq[i].type \notin Answering
           /\ \A i \in DOMAIN brigade : brigade[i].type \notin Answering
           /\ Weigh(outq, AskWeight) = 0 /\ Weigh(inq, AnswerWeight) = 0
<1>1. /\ \A i \in DOMAIN outq : outq[i].type \notin Asks
      /\ \A i \in DOMAIN inq : inq[i].type \notin Answering
      /\ \A i \in DOMAIN brigade : brigade[i].type \notin Answering
  BY DEF Asking, AsksMine, AnswersMine
<1>2. outq \in Seq(Packets) /\ inq \in Seq(Packets)
  BY DEF TypeOK
<1>3. QED BY <1>1, <1>2, AskWeights

\* A state in which there is none.
LEMMA AskingNone ==
    ASSUME TypeOK', call'.pc \notin {"again"},
           socket_state' = "CONNECTED" =>
              /\ \A i \in DOMAIN outq' : outq'[i].type \notin Asks
              /\ \A i \in DOMAIN inq' : inq'[i].type \notin Answering
              /\ \A i \in DOMAIN brigade' : brigade'[i].type \notin Answering
    PROVE  Asking'
<1>1. outq' \in Seq(Packets) /\ inq' \in Seq(Packets) /\ brigade' \in Seq(Packets)
  BY DEF TypeOK
<1>2. CASE socket_state' = "CONNECTED"
  <2>1. /\ Weigh(outq', AskWeight) = 0 /\ Weigh(inq', AnswerWeight) = 0
        /\ Weigh(brigade', AnswerWeight) = 0
    BY <1>1, <1>2, AskWeights
  <2>2. Weigh(outq', AskWeight) + Weigh(inq', AnswerWeight) + Weigh(brigade', AnswerWeight) <= 1
    BY <2>1
  <2>3. QED BY <1>2, <2>2 DEF Asking
<1>3. CASE socket_state' # "CONNECTED"
  BY <1>3 DEF Asking
<1>4. QED BY <1>2, <1>3

\* While nobody waits, and when a call begins to.
LEMMA AskingQuiet ==
    ASSUME TypeOK, TypeOK', Asking, ~Waits, Local, call'.pc # "again",
           socket_state' = "CONNECTED" => socket_state = "CONNECTED"
    PROVE  Asking'
<1>1. CASE socket_state' # "CONNECTED"
  BY <1>1, AskingNone
<1>2. CASE socket_state' = "CONNECTED"
  <2>1. /\ \A i \in DOMAIN outq : outq[i].type \notin Asks
        /\ \A i \in DOMAIN inq : inq[i].type \notin Answering
        /\ \A i \in DOMAIN brigade : brigade[i].type \notin Answering
        /\ Weigh(outq, AskWeight) = 0 /\ Weigh(inq, AnswerWeight) = 0
    BY <1>2, Unasked
  <2>2. inq' = inq
    BY DEF Local
  <2>3. \A j \in DOMAIN brigade' : brigade'[j].type \notin Answering
    BY <2>1 DEF Local, Shrinks, Same
  <2>4. CASE outq' = outq
    BY <2>1, <2>2, <2>3, <2>4, AskingNone
  <2>5. ASSUME NEW p \in Packets, Sent(p), Fits(p)
        PROVE  Asking'
    <3>1. /\ Len(outq) \in Nat /\ DOMAIN outq = 1 .. Len(outq)
          /\ \A i \in DOMAIN outq' : \/ i \in DOMAIN outq /\ outq'[i] = outq[i]
                                     \/ i = Len(outq) + 1 /\ outq'[i] = p
      BY <2>5, SentIs
    <3>2. CASE p.type \notin Asks
      <4>1. \A i \in DOMAIN outq' : outq'[i].type \notin Asks
        BY <2>1, <3>1, <3>2
      <4>2. QED BY <2>1, <2>2, <2>3, <4>1, AskingNone
    <3>3. CASE p.type \in Asks
      <4>1. /\ call'.pc = "first" /\ call'.c = p.ch
            /\ call'.op = IF p.type = "OPEN" THEN "open" ELSE "request"
        BY <2>5, <3>3 DEF Fits, Begins
      <4>2. Waits'
        BY <4>1 DEF Waits
      <4>3. (\A i \in DOMAIN outq : outq[i].type \in Asks => AsksMine(outq[i]))'
        <5>1. ASSUME NEW i \in DOMAIN outq', outq'[i].type \in Asks
              PROVE  outq'[i].ch = call'.c /\ (outq'[i].type = "OPEN" <=> call'.op = "open")
          <6>1. outq'[i] = p
            BY <2>1, <3>1, <5>1
          <6>2. QED BY <4>1, <6>1
        <5>2. QED BY <4>2, <5>1 DEF AsksMine
      <4>4. Weigh(outq', AskWeight) = 1
        <5>1. outq \in Seq(Packets)
          BY DEF TypeOK
        <5>2. outq' = Append(outq, p)
          BY <2>5 DEF Sent
        <5>3. QED BY <2>1, <3>3, <5>1, <5>2, AskAppend
      <4>5. Weigh(inq', AnswerWeight) = 0 /\ Weigh(brigade', AnswerWeight) = 0
        <5>1. brigade' \in Seq(Packets)
          BY DEF TypeOK
        <5>2. QED BY <2>1, <2>2, <2>3, <5>1, AskWeights
      <4>6. Weigh(outq', AskWeight) + Weigh(inq', AnswerWeight) + Weigh(brigade', AnswerWeight) <= 1
        BY <4>4, <4>5
      <4>7. QED BY <2>1, <2>2, <2>3, <4>1, <4>3, <4>6 DEF Asking
    <3>4. QED BY <3>2, <3>3
  <2>6. QED BY <2>4, <2>5 DEF Local
<1>3. QED BY <1>1, <1>2

\* The answer is taken, and there is no other.
LEMMA AskingTaken ==
    ASSUME TypeOK, TypeOK', Asking, Answered \/ OpenFailed
    PROVE  Asking'
<1>1. /\ call.pc \in {"first", "again"} /\ Answers # {} /\ brigade' = Without(brigade, Asked)
      /\ UNCHANGED <<socket_state, outq, inq>> /\ call'.pc \in {"idle", "pollData"}
  <2>1. CASE Answered
    BY <2>1 DEF Answered, Idle
  <2>2. CASE OpenFailed
    BY <2>2 DEF OpenFailed, TypeOK, Calls
  <2>3. QED BY <2>1, <2>2
<1>2. CASE socket_state' # "CONNECTED"
  BY <1>1, <1>2, AskingNone
<1>3. CASE socket_state' = "CONNECTED"
  <2>1. Asked \in DOMAIN brigade /\ brigade[Asked].type \in Answering
    <3>1. Asked \in Answers /\ Answers \subseteq DOMAIN brigade
      BY <1>1, AnswersAre
    <3>2. brigade[Asked].type \in RepliesTo(call.op)
      BY <3>1, AnswersAre
    <3>3. QED BY <3>1, <3>2 DEF RepliesTo, Answering
  <2>2. brigade \in Seq(Packets) /\ outq \in Seq(Packets) /\ inq \in Seq(Packets)
        /\ brigade' \in Seq(Packets)
    BY DEF TypeOK
  <2>3. Weigh(outq, AskWeight) + Weigh(inq, AnswerWeight) + Weigh(brigade, AnswerWeight) <= 1
    BY <1>1, <1>3 DEF Asking
  <2>4. Weigh(brigade, AnswerWeight) = Weigh(brigade', AnswerWeight) + 1
    <3>1. AnswerWeight \in [Packets -> Int]
      BY <2>2, AskWeights
    <3>2. Asked \in 1 .. Len(brigade) /\ brigade[Asked] \in Packets
      BY <2>1, <2>2
    <3>3. AnswerWeight[brigade[Asked]] = 1
      BY <2>1, <3>2 DEF AnswerWeight
    <3>4. Weigh(brigade, AnswerWeight) =
             Weigh(Without(brigade, Asked), AnswerWeight) + AnswerWeight[brigade[Asked]]
      BY <2>2, <3>1, <3>2, WeighWithout
    <3>5. QED BY <1>1, <3>3, <3>4
  <2>5. /\ Weigh(outq, AskWeight) \in Nat /\ Weigh(inq, AnswerWeight) \in Nat
        /\ Weigh(brigade', AnswerWeight) \in Nat
    BY <2>2, AskWeights
  <2>6. /\ Weigh(outq, AskWeight) = 0 /\ Weigh(inq, AnswerWeight) = 0
        /\ Weigh(brigade', AnswerWeight) = 0
    BY <2>3, <2>4, <2>5
  <2>7. /\ \A i \in DOMAIN outq : outq[i].type \notin Asks
        /\ \A i \in DOMAIN inq : inq[i].type \notin Answering
        /\ \A i \in DOMAIN brigade' : brigade'[i].type \notin Answering
    BY <2>2, <2>6, AskWeights
  <2>8. QED BY <1>1, <2>7, AskingNone
<1>4. QED BY <1>2, <1>3

\* There is no answer yet.
LEMMA AskingNotThere ==
    ASSUME TypeOK, TypeOK', Asking, NotThere
    PROVE  Asking'
<1>1. /\ call.pc = "first" /\ Answers = {} /\ UNCHANGED <<socket_state, brigade, outq, inq>>
      /\ call'.pc = "wait" /\ call'.op = call.op /\ call'.c = call.c
  BY DEF NotThere, clientVars, TypeOK, Calls
<1>2. Waits /\ Waits'
  BY <1>1 DEF Waits
<1>3. \A p : AsksMine(p)' <=> AsksMine(p)
  BY <1>1, <1>2 DEF AsksMine
<1>4. \A p : AnswersMine(p)' <=> AnswersMine(p)
  BY <1>1, <1>2 DEF AnswersMine
<1>5. CASE socket_state # "CONNECTED"
  BY <1>1, <1>5 DEF Asking
<1>6. CASE socket_state = "CONNECTED"
  <2>1. \A i \in DOMAIN brigade : brigade[i].type \notin Answering
    BY <1>1, <1>6, AnswersAre DEF Asking, AnswersMine
  <2>2. QED BY <1>1, <1>2, <1>6, <2>1 DEF Asking, AsksMine, AnswersMine
<1>7. QED BY <1>5, <1>6

\* The program is told that there is none: only of a connection that is lost.
LEMMA AskingGaveUp ==
    ASSUME TypeOK, TypeOK', Connection, Asking, NoAnswer \/ AwaitError
    PROVE  Asking'
<1>1. UNCHANGED <<brigade, outq, inq>> /\ call'.pc \in {"idle", "pollData"}
  <2>1. GiveUp /\ UNCHANGED <<brigade, outq, inq>>
    BY DEF NoAnswer, AwaitError
  <2>2. QED BY <2>1 DEF GiveUp, Idle, TypeOK, Calls
<1>2. CASE NoAnswer
  <2>1. socket_state' = socket_state /\ call.pc \in {"again", "wait"}
    BY <1>2 DEF NoAnswer
  <2>2. call.pc = "again" => Answers # {}
    BY AnswersAre DEF Asking, AnswersMine
  <2>3. socket_state = "DISCONNECTED"
    BY <1>2, <2>1, <2>2 DEF NoAnswer
  <2>4. socket_state' # "CONNECTED"
    BY <2>1, <2>3
  <2>5. call'.pc \notin {"again"}
    BY <1>1
  <2>6. QED BY <2>4, <2>5, AskingNone
<1>3. CASE AwaitError
  <2>1. call.pc = "wait" /\ socket_state = "CONNECTED" /\ tcp = "reset"
    BY <1>3 DEF AwaitError
  <2>2. inq = <<>> /\ outq = <<>>
    BY <2>1 DEF Connection
  <2>3. \A i \in DOMAIN brigade : brigade[i].type \notin Answering
    BY <2>1 DEF Asking
  <2>4. /\ \A i \in DOMAIN outq' : outq'[i].type \notin Asks
        /\ \A i \in DOMAIN inq' : inq'[i].type \notin Answering
        /\ \A i \in DOMAIN brigade' : brigade'[i].type \notin Answering
    BY <1>1, <2>2, <2>3
  <2>5. call'.pc \notin {"again"}
    BY <1>1
  <2>6. QED BY <2>4, <2>5, AskingNone
<1>4. QED BY <1>2, <1>3

\* A call begins when there is none.
LEMMA BeginIs ==
    ASSUME NEW o, Begin(o)
    PROVE  call = Idle /\ call'.pc # "again"
<1>1. call = Idle
  BY DEF Begin, Returns, open_ex, setenv_ex, request_pty_ex, x11_req_ex, process_startup, Request,
         set_blocking, flush_ex, handle_extended_data, force_adjust, read_ex, write_ex, send_eof,
         close, wait_closed, free
<1>2. call' = call => call'.pc # "again"
  BY <1>1 DEF Idle
<1>3. \A op, pc, c : pc # "again" => Call(op, pc, c).pc # "again"
  BY DEF Call, Idle
<1>4. CASE Returns(o) \/ set_blocking(o.c, o.arg) \/ flush_ex(o.c, o.arg)
           \/ handle_extended_data(o.c, o.arg) \/ force_adjust(o.c) \/ send_eof(o.c) \/ close(o.c)
  <2>1. call' = call
    BY <1>4 DEF Returns, set_blocking, flush_ex, handle_extended_data, Flush, force_adjust,
                send_eof, close
  <2>2. QED BY <1>1, <1>2, <2>1
<1>5. CASE open_ex
  <2>1. PICK ok \in SendResults : call' = Call("open", IF ok THEN "first" ELSE "pollData", nextid)
    BY <1>5 DEF open_ex
  <2>2. (IF ok THEN "first" ELSE "pollData") # "again"
    OBVIOUS
  <2>3. QED BY <1>1, <1>3, <2>1, <2>2
<1>6. CASE setenv_ex(o.c) \/ request_pty_ex(o.c) \/ x11_req_ex(o.c) \/ process_startup(o.c)
  <2>1. call' = Call("request", "first", o.c) \/ call' = Idle
    BY <1>6 DEF setenv_ex, request_pty_ex, x11_req_ex, process_startup, Request
  <2>2. QED BY <1>1, <1>2, <1>3, <2>1
<1>7. CASE read_ex(o.c, 0, o.arg) \/ read_ex(o.c, 1, o.arg)
  <2>1. PICK s : call' = [Call("read", "drain", o.c) EXCEPT !.s = s, !.n = o.arg]
    BY <1>7 DEF read_ex
  <2>2. call'.pc = "drain"
    BY <2>1 DEF Call, Idle
  <2>3. QED BY <1>1, <2>2
<1>8. CASE write_ex(o.c, o.arg)
  <2>1. call' = [Call("write", "write", o.c) EXCEPT !.n = o.arg]
    BY <1>8 DEF write_ex
  <2>2. call'.pc = "write"
    BY <2>1 DEF Call, Idle
  <2>3. QED BY <1>1, <2>2
<1>9. CASE wait_closed(o.c)
  BY <1>1, <1>3, <1>9 DEF wait_closed
<1>10. CASE free(o.c)
  <2> DEFINE freeing == [Call("free", "pollData", o.c) EXCEPT !.over = ch[o.c].rclose]
  <2>1. call' = freeing \/ call' = Idle
    BY <1>10 DEF free
  <2>2. freeing.pc = "pollData"
    BY DEF Call, Idle
  <2> HIDE DEF freeing
  <2>3. QED BY <1>1, <1>2, <2>1, <2>2
<1>11. QED BY <1>4, <1>5, <1>6, <1>7, <1>8, <1>9, <1>10 DEF Begin

\* Of the calls that go on, the others do not wait for an answer.
LEMMA AskingGoes ==
    ASSUME TypeOK, Goes,
           ~(Answered \/ OpenFailed \/ NotThere \/ AwaitPacket \/ NoAnswer \/ AwaitError)
    PROVE  ~Waits /\ call'.pc # "again"
<1>1. \/ ReadNothing \/ ReadFails \/ Take \/ ReadEnds \/ WriteData \/ WriteFails \/ WaitEnds
      \/ WaitFails \/ PollNothing \/ Clear \/ Unlink
      \/ ReadPacket \/ WriteWaits \/ WaitPacket \/ PollPacket
  BY DEF Goes
<1>2. ~Waits
  BY <1>1 DEF ReadNothing, ReadFails, Take, ReadEnds, WriteData, WriteFails, WaitEnds, WaitFails,
              PollNothing, Clear, Unlink, ReadPacket, WriteWaits, WaitPacket, PollPacket, Waits
<1>3. call \in Calls /\ call.pc # "again"
  BY <1>2 DEF TypeOK, Waits
<1>4. \A pc : pc # "again" /\ call' = [call EXCEPT !.pc = pc] => call'.pc # "again"
  BY <1>3 DEF Calls
<1>5. call' = Idle => call'.pc # "again"
  BY DEF Idle
<1>6. CASE ReadNothing \/ ReadFails \/ ReadPacket
  <2>1. call' = [call EXCEPT !.pc = "take"] \/ call' = [call EXCEPT !.pc = "drain"]
    BY <1>6 DEF ReadNothing, ReadFails, ReadPacket
  <2>2. QED BY <1>2, <1>4, <2>1
<1>7. CASE Take \/ WriteData
  <2>1. \/ call' = Idle
        \/ \E n : call' = [call EXCEPT !.k = n] \/ call' = [call EXCEPT !.n = n]
    BY <1>7 DEF Take, WriteData
  <2>2. \A n : call' = [call EXCEPT !.k = n] \/ call' = [call EXCEPT !.n = n] => call'.pc = call.pc
    BY <1>3 DEF Calls
  <2>3. QED BY <1>2, <1>3, <1>5, <2>1, <2>2
<1>8. CASE ReadEnds
  <2>1. call' = [call EXCEPT !.pc = "block"] \/ call' = Idle
    BY <1>8 DEF ReadEnds
  <2>2. QED BY <1>2, <1>4, <1>5, <2>1
<1>9. CASE WriteFails \/ WaitEnds \/ WaitFails \/ Unlink
  BY <1>2, <1>5, <1>9 DEF WriteFails, WaitEnds, WaitFails, Unlink
<1>10. CASE PollNothing \/ Clear \/ PollPacket
  <2>1. \E pc \in {"scanData", "scanExt", "pollExt", "unlink", "pollData"} :
           call' = [call EXCEPT !.pc = pc]
    BY <1>10 DEF PollNothing, Clear, PollPacket, Scan, Miss
  <2>2. QED BY <1>2, <1>4, <2>1
<1>11. CASE WriteWaits \/ WaitPacket
  BY <1>2, <1>3, <1>11 DEF WriteWaits, WaitPacket
<1>12. QED BY <1>1, <1>6, <1>7, <1>8, <1>9, <1>10, <1>11

\* The program asks when nothing is under way, and waits for the answer.
LEMMA AskingProgram ==
    ASSUME TypeOK, TypeOK', Connection, Asking, Begun \/ (Gone /\ ~Receive), Local, Socket
    PROVE  Asking'
<1>1. CASE Begun
  <2>1. call = Idle /\ call'.pc # "again" /\ socket_state' = socket_state
    BY <1>1, BeginIs, SocketBegin DEF Begun
  <2>2. ~Waits
    BY <2>1 DEF Waits, Idle
  <2>3. QED BY <2>1, <2>2, AskingQuiet
<1>2. CASE Gone /\ ~Receive
  <2>1. CASE Answered \/ OpenFailed \/ NotThere \/ NoAnswer \/ AwaitError
    BY <2>1, AskingTaken, AskingNotThere, AskingGaveUp
  <2>2. CASE ~(Answered \/ OpenFailed \/ NotThere \/ NoAnswer \/ AwaitError)
    <3>1. ~Waits /\ call'.pc # "again"
      BY <1>2, <2>2, AskingGoes DEF Gone, AwaitPacket
    <3>2. socket_state' = "CONNECTED" => socket_state = "CONNECTED"
      BY DEF Socket
    <3>3. QED BY <3>1, <3>2, AskingQuiet
  <2>3. QED BY <2>1, <2>2
<1>3. QED BY <1>1, <1>2

\* A packet arrives while a call waits: if it is an answer it is the answer.
LEMMA ReplyRange ==
    ASSUME NEW op
    PROVE  Range(Replies(op)) = RepliesTo(op)
<1>1. \A a, b : Range(<<a, b>>) = {a, b}
  BY DEF Range
<1>2. QED BY <1>1 DEF Replies, RepliesTo

\* What a packet that arrives does to the packets that ask and answer.
LEMMA AskArrives ==
    ASSUME TypeOK, Arrives
    PROVE  /\ Weigh(outq', AskWeight) = Weigh(outq, AskWeight)
           /\ \A i \in DOMAIN outq' : outq'[i].type \in Asks =>
                 \E j \in DOMAIN outq : outq'[i] = outq[j]
           /\ \A i \in DOMAIN inq' : i + 1 \in DOMAIN inq /\ inq'[i] = inq[i + 1]
           /\ Weigh(inq', AnswerWeight) + Weigh(brigade', AnswerWeight) =
                 Weigh(inq, AnswerWeight) + Weigh(brigade, AnswerWeight)
           /\ \A i \in DOMAIN brigade' :
                 \/ i \in DOMAIN brigade /\ brigade'[i] = brigade[i]
                 \/ brigade'[i].type = inq[1].type /\ brigade'[i].ch = inq[1].ch
           /\ inq[1].type \in Answering =>
                 \E i \in DOMAIN brigade' : brigade'[i].type = inq[1].type
           /\ 1 \in DOMAIN inq
<1> DEFINE p == Head(inq)
<1>1. /\ inq \in Seq(Packets) /\ inq # <<>> /\ 1 \in DOMAIN inq /\ p = inq[1]
      /\ \A i \in DOMAIN inq' : i + 1 \in DOMAIN inq /\ inq'[i] = inq[i + 1]
      /\ inq' = Tail(inq) /\ inq' \in Seq(Packets)
  BY HeadIs DEF Arrives
<1>2. Files(p) /\ Replied(p)
  BY DEF Arrives, Filed
<1>3. Weigh(inq, AnswerWeight) =
         Weigh(inq', AnswerWeight) + IF p.type \in Answering THEN 1 ELSE 0
  BY <1>1, AskTail
<1>4. brigade \in Seq(Packets) /\ outq \in Seq(Packets)
  BY DEF TypeOK
<1> HIDE DEF p
<1>5. Weigh(inq', AnswerWeight) \in Nat /\ Weigh(brigade, AnswerWeight) \in Nat
  BY <1>1, <1>4, AskWeights
<1> DEFINE FiledOne ==
              /\ Weigh(brigade', AnswerWeight) =
                    Weigh(brigade, AnswerWeight) + IF p.type \in Answering THEN 1 ELSE 0
              /\ \A i \in DOMAIN brigade' :
                    \/ i \in DOMAIN brigade /\ brigade'[i] = brigade[i]
                    \/ brigade'[i].type = p.type /\ brigade'[i].ch = p.ch
              /\ p.type \in Answering => \E i \in DOMAIN brigade' : brigade'[i].type = p.type
           AskedNothing ==
              /\ Weigh(outq', AskWeight) = Weigh(outq, AskWeight)
              /\ \A i \in DOMAIN outq' : outq'[i].type \in Asks =>
                    \E j \in DOMAIN outq : outq'[i] = outq[j]
<1>6. FiledOne
  <2>1. CASE brigade' = brigade /\ p.type \notin Answering
    BY <1>5, <2>1
  <2>2. ASSUME NEW q \in Packets, brigade' = Append(brigade, q), q.type = p.type, q.ch = p.ch
        PROVE  FiledOne
    <3>1. Weigh(brigade', AnswerWeight) =
             Weigh(brigade, AnswerWeight) + IF q.type \in Answering THEN 1 ELSE 0
      BY <1>4, <2>2, AskAppend
    <3>2. /\ DOMAIN brigade' = 1 .. Len(brigade) + 1 /\ Len(brigade) \in Nat
          /\ \A i \in DOMAIN brigade' : \/ i \in DOMAIN brigade /\ brigade'[i] = brigade[i]
                                        \/ i = Len(brigade) + 1 /\ brigade'[i] = q
      BY <1>4, <2>2, AppendIs
    <3>3. Len(brigade) + 1 \in DOMAIN brigade' /\ brigade'[Len(brigade) + 1] = q
      BY <1>4, <2>2
    <3>4. QED BY <2>2, <3>1, <3>2, <3>3
  <2>3. QED BY <1>2, <2>1, <2>2 DEF Files
<1>7. AskedNothing
  <2>1. CASE outq' = outq
    BY <2>1
  <2>2. ASSUME NEW q \in Packets, Sent(q), q.type \in {"WINDOW_ADJUST", "OPEN_FAILURE"}
        PROVE  AskedNothing
    <3>1. q.type \notin Asks
      BY <2>2 DEF Asks
    <3>2. outq' = Append(outq, q)
      BY <2>2 DEF Sent
    <3>3. Weigh(outq, AskWeight) \in Nat
      BY <1>4, AskWeights
    <3>4. Weigh(outq', AskWeight) = Weigh(outq, AskWeight)
      BY <1>4, <3>1, <3>2, <3>3, AskAppend
    <3>5. \A i \in DOMAIN outq' : \/ i \in DOMAIN outq /\ outq'[i] = outq[i]
                                  \/ i = Len(outq) + 1 /\ outq'[i] = q
      BY <1>4, <3>2, AppendIs
    <3>6. QED BY <3>1, <3>4, <3>5
  <2>3. QED BY <1>2, <2>1, <2>2 DEF Replied
<1>8. Weigh(brigade', AnswerWeight) \in Nat
  BY <1>5, <1>6
<1>9. Weigh(inq', AnswerWeight) + Weigh(brigade', AnswerWeight) =
         Weigh(inq, AnswerWeight) + Weigh(brigade, AnswerWeight)
  BY <1>3, <1>5, <1>6
<1>10. QED BY <1>1, <1>6, <1>7, <1>9

\* The packet that arrives is the answer, or nobody waits for it.
LEMMA AskingArrives ==
    ASSUME TypeOK, TypeOK', Asking, Gone, Receive, Arrives
    PROVE  Asking'
<1> DEFINE p == inq[1]
<1>1. /\ Weigh(outq', AskWeight) = Weigh(outq, AskWeight)
      /\ \A i \in DOMAIN outq' : outq'[i].type \in Asks =>
            \E j \in DOMAIN outq : outq'[i] = outq[j]
      /\ \A i \in DOMAIN inq' : i + 1 \in DOMAIN inq /\ inq'[i] = inq[i + 1]
      /\ Weigh(inq', AnswerWeight) + Weigh(brigade', AnswerWeight) =
            Weigh(inq, AnswerWeight) + Weigh(brigade, AnswerWeight)
      /\ \A i \in DOMAIN brigade' :
            \/ i \in DOMAIN brigade /\ brigade'[i] = brigade[i]
            \/ brigade'[i].type = p.type /\ brigade'[i].ch = p.ch
      /\ p.type \in Answering => \E i \in DOMAIN brigade' : brigade'[i].type = p.type
      /\ 1 \in DOMAIN inq
  BY AskArrives
<1>2. /\ socket_state = "CONNECTED"
      /\ socket_state' = IF p.type = "DISCONNECT" THEN "DISCONNECTED" ELSE "CONNECTED"
      /\ Head(inq) = p
  BY HeadIs DEF Arrives, Filed
<1>3. inq' # inq
  <2>1. inq \in Seq(Packets) /\ inq # <<>> /\ inq' = Tail(inq)
    BY DEF TypeOK, Arrives
  <2>2. Len(inq') = Len(inq) - 1 /\ Len(inq) \in Nat
    BY <2>1
  <2>3. QED BY <2>2
<1> HIDE DEF p
<1>4. CASE ~Waits
  <2>1. call'.pc # "again"
    <3>1. ~(Answered \/ OpenFailed \/ NotThere \/ AwaitPacket \/ NoAnswer \/ AwaitError)
      BY <1>4 DEF Waits, Answered, OpenFailed, NotThere, AwaitPacket, NoAnswer, AwaitError
    <3>2. QED BY <3>1, AskingGoes DEF Gone
  <2>2. /\ \A i \in DOMAIN outq : outq[i].type \notin Asks
        /\ \A i \in DOMAIN inq : inq[i].type \notin Answering
        /\ \A i \in DOMAIN brigade : brigade[i].type \notin Answering
    BY <1>2, <1>4, Unasked
  <2>3. p.type \notin Answering
    BY <1>1, <2>2 DEF p
  <2>4. /\ \A i \in DOMAIN outq' : outq'[i].type \notin Asks
        /\ \A i \in DOMAIN inq' : inq'[i].type \notin Answering
        /\ \A i \in DOMAIN brigade' : brigade'[i].type \notin Answering
    BY <1>1, <2>2, <2>3
  <2>5. QED BY <2>1, <2>4, AskingNone
<1>5. CASE Waits
  <2>1. AwaitPacket
    <3>1. \/ Answered \/ OpenFailed \/ NotThere \/ AwaitPacket \/ NoAnswer \/ AwaitError
      BY <1>5, AskingGoes DEF Gone
    <3>2. Answered \/ OpenFailed \/ NotThere \/ NoAnswer \/ AwaitError => inq' = inq
      BY DEF Answered, OpenFailed, NotThere, NoAnswer, AwaitError
    <3>3. QED BY <1>3, <3>1, <3>2
  <2>2. /\ call.pc = "wait" /\ call'.op = call.op /\ call'.c = call.c
        /\ call'.pc = IF p.type \in RepliesTo(call.op) THEN "again" ELSE "wait"
    <3> DEFINE pc == IF p.type \in RepliesTo(call.op) THEN "again" ELSE "wait"
    <3>1. call.pc = "wait" /\ call' = [call EXCEPT !.pc = pc]
      BY <1>2, <2>1, ReplyRange DEF AwaitPacket
    <3>2. call \in Calls
      BY DEF TypeOK
    <3> HIDE DEF pc
    <3>3. call'.op = call.op /\ call'.c = call.c /\ call'.pc = pc
      BY <3>1, <3>2 DEF Calls
    <3>4. QED BY <3>1, <3>3 DEF pc
  <2>3. Waits'
    BY <2>2 DEF Waits
  <2>4. CASE p.type = "DISCONNECT"
    <3>1. socket_state' # "CONNECTED"
      BY <1>2, <2>4
    <3>2. call'.pc # "again"
      BY <2>2, <2>4 DEF RepliesTo
    <3>3. QED BY <3>1, <3>2, AskingNone
  <2>5. CASE p.type # "DISCONNECT"
    <3>1. socket_state' = "CONNECTED"
      BY <1>2, <2>5
    <3>2. /\ Weigh(outq, AskWeight) + Weigh(inq, AnswerWeight) + Weigh(brigade, AnswerWeight) <= 1
          /\ \A i \in DOMAIN outq : outq[i].type \in Asks => AsksMine(outq[i])
          /\ \A i \in DOMAIN inq : inq[i].type \in Answering => AnswersMine(inq[i])
          /\ \A i \in DOMAIN brigade : brigade[i].type \in Answering => AnswersMine(brigade[i])
          /\ \A i \in DOMAIN brigade : brigade[i].type \notin Answering
      BY <1>2, <2>2 DEF Asking
    <3>3. Weigh(outq', AskWeight) + Weigh(inq', AnswerWeight) + Weigh(brigade', AnswerWeight) <= 1
      <4>1. outq' \in Seq(Packets) /\ inq' \in Seq(Packets) /\ brigade' \in Seq(Packets)
            /\ outq \in Seq(Packets) /\ inq \in Seq(Packets) /\ brigade \in Seq(Packets)
        BY DEF TypeOK
      <4>2. /\ Weigh(outq', AskWeight) \in Nat /\ Weigh(inq', AnswerWeight) \in Nat
            /\ Weigh(brigade', AnswerWeight) \in Nat
            /\ Weigh(inq, AnswerWeight) \in Nat /\ Weigh(brigade, AnswerWeight) \in Nat
        BY <4>1, AskWeights
      <4>3. QED BY <1>1, <3>2, <4>2
    <3>4. p.type \in Answering => p.ch = call.c /\ p.type \in RepliesTo(call.op)
      BY <1>1, <3>2 DEF p, AnswersMine
    <3>5. (\A i \in DOMAIN outq : outq[i].type \in Asks => AsksMine(outq[i]))'
      <4>1. \A i \in DOMAIN outq' : outq'[i].type \in Asks =>
               outq'[i].ch = call.c /\ (outq'[i].type = "OPEN" <=> call.op = "open")
        BY <1>1, <3>2 DEF AsksMine
      <4>2. QED BY <2>2, <2>3, <4>1 DEF AsksMine
    <3>6. (\A i \in DOMAIN inq : inq[i].type \in Answering => AnswersMine(inq[i]))'
      <4>1. \A i \in DOMAIN inq' : inq'[i].type \in Answering =>
               inq'[i].ch = call.c /\ inq'[i].type \in RepliesTo(call.op)
        BY <1>1, <3>2 DEF AnswersMine
      <4>2. QED BY <2>2, <2>3, <4>1 DEF AnswersMine
    <3>7. (\A i \in DOMAIN brigade : brigade[i].type \in Answering => AnswersMine(brigade[i]))'
      <4>1. \A i \in DOMAIN brigade' : brigade'[i].type \in Answering =>
               brigade'[i].ch = call.c /\ brigade'[i].type \in RepliesTo(call.op)
        BY <1>1, <3>2, <3>4 DEF AnswersMine
      <4>2. QED BY <2>2, <2>3, <4>1 DEF AnswersMine
    <3>8. call'.pc = "wait" => \A i \in DOMAIN brigade' : brigade'[i].type \notin Answering
      BY <1>1, <2>2, <3>2, <3>4
    <3>9. call'.pc = "again" => \E i \in DOMAIN brigade' : brigade'[i].type \in Answering
      <4>1. RepliesTo(call.op) \subseteq Answering
        BY DEF RepliesTo, Answering
      <4>2. QED BY <1>1, <2>2, <4>1
    <3>10. QED BY <3>1, <3>3, <3>5, <3>6, <3>7, <3>8, <3>9 DEF Asking
  <2>6. QED BY <2>4, <2>5
<1>6. QED BY <1>4, <1>5

\* The server answers what it is asked, once.
Responses(type) == IF type = "OPEN" THEN {"OPEN_CONFIRMATION", "OPEN_FAILURE"}
                   ELSE {"SUCCESS", "FAILURE"}
\* No more is under way than before, and what is new answers a question.
AnsweredBy ==
    /\ Weigh(outq', AskWeight) + Weigh(inq', AnswerWeight) <=
          Weigh(outq, AskWeight) + Weigh(inq, AnswerWeight)
    /\ \A i \in DOMAIN inq' : inq'[i].type \in Answering =>
          \/ i \in DOMAIN inq /\ inq'[i] = inq[i]
          \/ \E j \in DOMAIN outq : /\ outq[j].type \in Asks /\ inq'[i].ch = outq[j].ch
                                    /\ inq'[i].type \in Responses(outq[j].type)

\* A packet that is sent to the program,
LEMMA SendsAsk ==
    ASSUME TypeOK, NEW q \in Packets, Sends(q)
    PROVE  /\ Weigh(inq, AnswerWeight) \in Nat
           /\ Weigh(inq', AnswerWeight) =
                 Weigh(inq, AnswerWeight) + IF q.type \in Answering THEN 1 ELSE 0
           /\ \A i \in DOMAIN inq' : (i \in DOMAIN inq /\ inq'[i] = inq[i]) \/ inq'[i] = q
<1>1. inq \in Seq(Packets) /\ inq' = Append(inq, q)
  BY DEF TypeOK, Sends
<1>2. \A i \in DOMAIN inq' : (i \in DOMAIN inq /\ inq'[i] = inq[i]) \/ inq'[i] = q
  BY SendsIs
<1>3. QED BY <1>1, <1>2, AskWeights, AskAppend

\* and one that is taken by the server.
LEMMA ServesAsk ==
    ASSUME TypeOK, NEW p, Serves(p)
    PROVE  /\ Weigh(outq', AskWeight) \in Nat
           /\ Weigh(outq, AskWeight) =
                 Weigh(outq', AskWeight) + IF p.type \in Asks THEN 1 ELSE 0
           /\ 1 \in DOMAIN outq /\ p = outq[1]
<1>1. outq \in Seq(Packets) /\ outq # <<>> /\ p = Head(outq) /\ outq' = Tail(outq)
  BY DEF TypeOK, Serves
<1>2. 1 \in DOMAIN outq /\ p = outq[1]
  BY ServesIs
<1>3. outq' \in Seq(Packets) /\ Weigh(outq, AskWeight) =
         Weigh(outq', AskWeight) + IF p.type \in Asks THEN 1 ELSE 0
  BY <1>1, AskTail
<1>4. QED BY <1>2, <1>3, AskWeights

\* What the server sends of its own accord, or to what is not asked, is no answer.
LEMMA AnsweredByNone ==
    ASSUME TypeOK, outq' \in {<<>>, outq} \/ \E p \in Packets : Serves(p),
           inq' \in {<<>>, inq} \/ \E q \in Packets : Sends(q) /\ q.type \notin Answering
    PROVE  AnsweredBy
<1>1. outq \in Seq(Packets) /\ inq \in Seq(Packets) /\ <<>> \in Seq(Packets)
  BY DEF TypeOK
<1>2. /\ Weigh(outq, AskWeight) \in Nat /\ Weigh(inq, AnswerWeight) \in Nat
      /\ Weigh(<<>>, AskWeight) = 0 /\ Weigh(<<>>, AnswerWeight) = 0
  BY <1>1, AskWeights, WeighNothing
<1>3. /\ Weigh(outq', AskWeight) \in Nat
      /\ Weigh(outq', AskWeight) <= Weigh(outq, AskWeight)
  <2>1. CASE outq' = <<>>
    BY <1>2, <2>1
  <2>2. CASE outq' = outq
    BY <1>2, <2>2
  <2>3. CASE \E p \in Packets : Serves(p)
    BY <2>3, ServesAsk
  <2>4. QED BY <2>1, <2>2, <2>3
<1>4. /\ Weigh(inq', AnswerWeight) \in Nat
      /\ Weigh(inq', AnswerWeight) <= Weigh(inq, AnswerWeight)
      /\ \A i \in DOMAIN inq' : inq'[i].type \in Answering => i \in DOMAIN inq /\ inq'[i] = inq[i]
  <2>1. CASE inq' = <<>>
    <3>1. DOMAIN inq' = {}
      BY <2>1
    <3>2. Weigh(inq', AnswerWeight) = 0
      BY <1>2, <2>1
    <3>3. QED BY <1>2, <3>1, <3>2
  <2>2. CASE inq' = inq
    BY <1>2, <2>2
  <2>3. CASE \E q \in Packets : Sends(q) /\ q.type \notin Answering
    BY <2>3, SendsAsk
  <2>4. QED BY <2>1, <2>2, <2>3
<1>5. QED BY <1>2, <1>3, <1>4 DEF AnsweredBy

\* It takes a question and sends its answer.
LEMMA AnsweredByOne ==
    ASSUME TypeOK, NEW p \in Packets, Serves(p), p.type \in Asks,
           NEW q \in Packets, Sends(q), q.type \in Responses(p.type), q.ch = p.ch
    PROVE  AnsweredBy
<1>1. q.type \in Answering
  BY DEF Responses, Answering
<1>2. /\ Weigh(outq, AskWeight) = Weigh(outq', AskWeight) + 1 /\ Weigh(outq', AskWeight) \in Nat
      /\ 1 \in DOMAIN outq /\ p = outq[1]
  BY ServesAsk
<1>3. /\ Weigh(inq', AnswerWeight) = Weigh(inq, AnswerWeight) + 1 /\ Weigh(inq, AnswerWeight) \in Nat
      /\ \A i \in DOMAIN inq' : (i \in DOMAIN inq /\ inq'[i] = inq[i]) \/ inq'[i] = q
  BY <1>1, SendsAsk
<1>4. Weigh(outq', AskWeight) + Weigh(inq', AnswerWeight) <=
         Weigh(outq, AskWeight) + Weigh(inq, AnswerWeight)
  BY <1>2, <1>3
<1>5. \A i \in DOMAIN inq' : inq'[i].type \in Answering =>
          \/ i \in DOMAIN inq /\ inq'[i] = inq[i]
          \/ \E j \in DOMAIN outq : /\ outq[j].type \in Asks /\ inq'[i].ch = outq[j].ch
                                    /\ inq'[i].type \in Responses(outq[j].type)
  BY <1>2, <1>3
<1>6. QED BY <1>4, <1>5 DEF AnsweredBy

\* The server answers so, whatever it does.
LEMMA ServerAnswers ==
    ASSUME TypeOK, ServerKinds
    PROVE  AnsweredBy
<1>1. ASSUME NEW type \in PacketTypes, NEW c \in Ids, NEW n \in Nat, Sends(Packet(type, c, n))
      PROVE  \E q \in Packets : Sends(q) /\ q.type = type /\ q.ch = c
  BY <1>1, PacketFields
<1>2. CASE Leaves
  <2>1. outq' \in {<<>>, outq} \/ \E p \in Packets : Serves(p)
    <3>1. CASE outq' = <<>>
      BY <3>1
    <3>2. CASE outq # <<>> /\ outq' = Tail(outq)
      <4>1. Head(outq) \in Packets /\ Serves(Head(outq))
        BY <3>2 DEF TypeOK, Serves
      <4>2. QED BY <4>1
    <3>3. QED BY <1>2, <3>1, <3>2 DEF Leaves
  <2>2. inq' \in {<<>>, inq} \/ \E q \in Packets : Sends(q) /\ q.type \notin Answering
    <3>1. ASSUME NEW c \in Ids, Sends(Packet("DISCONNECT", c, 0))
          PROVE  \E q \in Packets : Sends(q) /\ q.type \notin Answering
      <4>1. "DISCONNECT" \in PacketTypes /\ 0 \in Nat /\ "DISCONNECT" \notin Answering
        BY PacketTypesAre DEF Answering
      <4>2. \E q \in Packets : Sends(q) /\ q.type = "DISCONNECT" /\ q.ch = c
        BY <1>1, <3>1, <4>1
      <4>3. QED BY <4>1, <4>2
    <3>2. QED BY <1>2, <3>1 DEF Leaves
  <2>3. QED BY <2>1, <2>2, AnsweredByNone
<1>3. CASE Drops
  <2>1. inq' = inq /\ \E p \in Packets : Serves(p)
    BY <1>3 DEF Drops
  <2>2. QED BY <2>1, AnsweredByNone
<1>4. CASE Responds
  <2>1. PICK p \in Packets, type \in {"OPEN_FAILURE", "SUCCESS", "FAILURE"} :
           /\ Serves(p) /\ p.type \in Asks /\ (type = "OPEN_FAILURE" <=> p.type = "OPEN")
           /\ Sends(Packet(type, p.ch, 0))
    BY <1>4 DEF Responds
  <2>2. type \in PacketTypes /\ 0 \in Nat
    BY PacketTypesAre DEF PacketTypes
  <2>3. p.ch \in Ids
    BY DEF Packets
  <2>4. PICK q \in Packets : Sends(q) /\ q.type = type /\ q.ch = p.ch
    BY <1>1, <2>1, <2>2, <2>3
  <2>5. q.type \in Responses(p.type)
    BY <2>1, <2>4 DEF Responses
  <2>6. QED BY <2>1, <2>4, <2>5, AnsweredByOne
<1>5. CASE Accepts
  <2>1. PICK p \in Packets :
           /\ Serves(p) /\ p.type = "OPEN" /\ Sends(Packet("OPEN_CONFIRMATION", p.ch, PeerWindow))
    BY <1>5 DEF Accepts
  <2>2. "OPEN_CONFIRMATION" \in PacketTypes /\ PeerWindow \in Nat
    BY PacketTypesAre
  <2>3. p.ch \in Ids
    BY DEF Packets
  <2>4. PICK q \in Packets : Sends(q) /\ q.type = "OPEN_CONFIRMATION" /\ q.ch = p.ch
    BY <1>1, <2>1, <2>2, <2>3
  <2>5. q.type \in Responses(p.type) /\ p.type \in Asks
    BY <2>1, <2>4 DEF Responses, Asks
  <2>6. QED BY <2>1, <2>4, <2>5, AnsweredByOne
<1>6. CASE Consumes \/ Widens
  <2>1. inq' = inq /\ \E p \in Packets : Serves(p)
    BY <1>6 DEF Consumes, Widens
  <2>2. QED BY <2>1, AnsweredByNone
<1>7. CASE Shuts
  <2>1. PICK c \in Ids : /\ outq' = outq \/ \E p \in Packets : Serves(p)
                         /\ Sends(Packet("CLOSE", c, 0))
    BY <1>7 DEF Shuts, Quiet
  <2>2. "CLOSE" \in PacketTypes /\ 0 \in Nat /\ "CLOSE" \notin Answering
    BY PacketTypesAre DEF Answering
  <2>3. \E q \in Packets : Sends(q) /\ q.type = "CLOSE" /\ q.ch = c
    BY <1>1, <2>1, <2>2
  <2>4. \E q \in Packets : Sends(q) /\ q.type \notin Answering
    BY <2>2, <2>3
  <2>5. QED BY <2>1, <2>4, AnsweredByNone
<1>8. CASE Produces
  <2>1. outq' = outq /\ \E q \in Packets : Sends(q) /\ q.type \notin Answering
    BY <1>8 DEF Produces, Quiet, IsData, Types, Answering
  <2>2. QED BY <2>1, AnsweredByNone
<1>9. CASE Repays
  <2>1. PICK c \in Ids : outq' = outq /\ Sends(Packet("WINDOW_ADJUST", c, peer[c].owes))
    BY <1>9 DEF Repays, Quiet
  <2>2. "WINDOW_ADJUST" \in PacketTypes /\ peer[c].owes \in Nat /\ "WINDOW_ADJUST" \notin Answering
    BY PacketTypesAre, PeerFields DEF Answering
  <2>3. \E q \in Packets : Sends(q) /\ q.type = "WINDOW_ADJUST" /\ q.ch = c
    BY <1>1, <2>1, <2>2
  <2>4. \E q \in Packets : Sends(q) /\ q.type \notin Answering
    BY <2>2, <2>3
  <2>5. QED BY <2>1, <2>4, AnsweredByNone
<1>10. CASE Finishes
  <2>1. PICK c \in Ids :
           /\ outq' = outq
           /\ inq' = Append(Append(inq, Packet("EXIT_STATUS", c, 1)), Packet("EOF", c, 0))
    BY <1>10 DEF Finishes, Quiet
  <2> DEFINE q == Packet("EXIT_STATUS", c, 1)
             x == Packet("EOF", c, 0)
  <2>2. /\ "EXIT_STATUS" \in PacketTypes /\ "EOF" \in PacketTypes /\ 0 \in Nat /\ 1 \in Nat
    BY PacketTypesAre
  <2>3. q \in Packets /\ x \in Packets /\ q.type = "EXIT_STATUS" /\ x.type = "EOF"
    BY <2>2, PacketFields
  <2> HIDE DEF q, x
  <2>4. inq \in Seq(Packets) /\ Append(inq, q) \in Seq(Packets)
    BY <2>3 DEF TypeOK
  <2>5. inq' = Append(Append(inq, q), x)
    BY <2>1 DEF q, x
  <2>6. q.type \notin Answering /\ x.type \notin Answering
    BY <2>3 DEF Answering
  <2>7. /\ Weigh(inq, AnswerWeight) \in Nat
        /\ Weigh(Append(inq, q), AnswerWeight) = Weigh(inq, AnswerWeight)
    BY <2>3, <2>4, <2>6, AskWeights, AskAppend
  <2>8. Weigh(inq', AnswerWeight) = Weigh(inq, AnswerWeight)
    BY <2>3, <2>4, <2>5, <2>6, <2>7, AskAppend
  <2>9. \A i \in DOMAIN inq' : \/ i \in DOMAIN inq /\ inq'[i] = inq[i]
                               \/ inq'[i].type \notin Answering
    <3> DEFINE v == Append(inq, q)
    <3>1. \A i \in DOMAIN v : (i \in DOMAIN inq /\ v[i] = inq[i]) \/ v[i] = q
      BY <2>3, <2>4, AppendIs
    <3>2. v \in Seq(Packets) /\ inq' = Append(v, x)
      BY <2>4, <2>5
    <3> HIDE DEF v
    <3>3. \A i \in DOMAIN inq' : (i \in DOMAIN v /\ inq'[i] = v[i]) \/ inq'[i] = x
      BY <2>3, <3>2, AppendIs
    <3>4. QED BY <2>6, <3>1, <3>3
  <2>10. Weigh(outq, AskWeight) \in Nat
    <3>1. outq \in Seq(Packets)
      BY DEF TypeOK
    <3>2. QED BY <3>1, AskWeights
  <2>11. QED BY <2>1, <2>7, <2>8, <2>9, <2>10 DEF AnsweredBy
<1>11. CASE Chatters
  <2>1. PICK type \in {"IGNORE", "OPEN_FORWARDED", "OPEN_OTHER"} :
           outq' = outq /\ Sends(Packet(type, 0, 0))
    BY <1>11 DEF Chatters, Quiet
  <2>2. type \in PacketTypes /\ 0 \in Nat /\ 0 \in Ids /\ type \notin Answering
    BY PacketTypesAre DEF Answering
  <2>3. \E q \in Packets : Sends(q) /\ q.type = type /\ q.ch = 0
    BY <1>1, <2>1, <2>2
  <2>4. \E q \in Packets : Sends(q) /\ q.type \notin Answering
    BY <2>2, <2>3
  <2>5. QED BY <2>1, <2>4, AnsweredByNone
<1>12. QED
  BY <1>2, <1>3, <1>4, <1>5, <1>6, <1>7, <1>8, <1>9, <1>10, <1>11 DEF ServerKinds

\* And so no second question or answer gets under way.
LEMMA AskingServer ==
    ASSUME TypeOK, TypeOK', Asking, ServerKinds
    PROVE  Asking'
<1>1. UNCHANGED <<brigade, socket_state, call>>
  BY DEF ServerKinds, clientVars
<1>2. AnsweredBy
  BY ServerAnswers
<1>3. \A i \in DOMAIN outq' : \E j \in DOMAIN outq : outq'[i] = outq[j]
  BY ServerWires
<1>4. \A i \in DOMAIN brigade' : brigade'[i] = brigade[i] /\ i \in DOMAIN brigade
  BY <1>1
<1>5. Waits' <=> Waits
  BY <1>1 DEF Waits
<1>6. CASE socket_state # "CONNECTED"
  BY <1>1, <1>6 DEF Asking
<1>7. CASE socket_state = "CONNECTED"
  <2>1. /\ Weigh(outq, AskWeight) + Weigh(inq, AnswerWeight) + Weigh(brigade, AnswerWeight) <= 1
        /\ \A i \in DOMAIN outq : outq[i].type \in Asks => AsksMine(outq[i])
        /\ \A i \in DOMAIN inq : inq[i].type \in Answering => AnswersMine(inq[i])
        /\ \A i \in DOMAIN brigade : brigade[i].type \in Answering => AnswersMine(brigade[i])
    BY <1>7 DEF Asking
  <2>2. Weigh(outq', AskWeight) + Weigh(inq', AnswerWeight) + Weigh(brigade', AnswerWeight) <= 1
    <3>1. outq' \in Seq(Packets) /\ inq' \in Seq(Packets) /\ brigade \in Seq(Packets)
          /\ outq \in Seq(Packets) /\ inq \in Seq(Packets)
      BY DEF TypeOK
    <3>2. /\ Weigh(outq', AskWeight) \in Nat /\ Weigh(inq', AnswerWeight) \in Nat
          /\ Weigh(outq, AskWeight) \in Nat /\ Weigh(inq, AnswerWeight) \in Nat
          /\ Weigh(brigade, AnswerWeight) \in Nat
      BY <3>1, AskWeights
    <3>3. Weigh(brigade', AnswerWeight) = Weigh(brigade, AnswerWeight)
      BY <1>1
    <3>4. QED BY <1>2, <2>1, <3>2, <3>3 DEF AnsweredBy
  <2>3. (\A i \in DOMAIN outq : outq[i].type \in Asks => AsksMine(outq[i]))'
    <3>1. \A i \in DOMAIN outq' : outq'[i].type \in Asks =>
             Waits /\ outq'[i].ch = call.c /\ (outq'[i].type = "OPEN" <=> call.op = "open")
      BY <1>3, <2>1 DEF AsksMine
    <3>2. QED BY <1>1, <1>5, <3>1 DEF AsksMine
  <2>4. (\A i \in DOMAIN inq : inq[i].type \in Answering => AnswersMine(inq[i]))'
    <3>1. ASSUME NEW i \in DOMAIN inq', inq'[i].type \in Answering
          PROVE  Waits /\ inq'[i].ch = call.c /\ inq'[i].type \in RepliesTo(call.op)
      <4>1. CASE i \in DOMAIN inq /\ inq'[i] = inq[i]
        BY <2>1, <3>1, <4>1 DEF AnswersMine
      <4>2. ASSUME NEW j \in DOMAIN outq, outq[j].type \in Asks, inq'[i].ch = outq[j].ch,
                   inq'[i].type \in Responses(outq[j].type)
            PROVE  Waits /\ inq'[i].ch = call.c /\ inq'[i].type \in RepliesTo(call.op)
        <5>1. AsksMine(outq[j])
          BY <2>1, <4>2
        <5>2. Responses(outq[j].type) = RepliesTo(call.op)
          BY <5>1 DEF AsksMine, Responses, RepliesTo
        <5>3. QED BY <4>2, <5>1, <5>2 DEF AsksMine
      <4>3. QED BY <1>2, <3>1, <4>1, <4>2 DEF AnsweredBy
    <3>2. QED BY <1>1, <1>5, <3>1 DEF AnswersMine
  <2>5. (\A i \in DOMAIN brigade : brigade[i].type \in Answering => AnswersMine(brigade[i]))'
    BY <1>1, <1>5, <2>1 DEF AnswersMine
  <2>6. QED BY <1>1, <2>2, <2>3, <2>4, <2>5 DEF Asking
<1>8. QED BY <1>6, <1>7

----------------------------------------------------------------------------
(* Freeing                                                                 *)

\* No packet of a type is there for a channel.
NoneOf(type, c) == \A i \in DOMAIN brigade : brigade[i].ch = c => brigade[i].type # type

\* A call that begins to free a channel remembers whether the server had closed it.
LEMMA ClearingBegin ==
    ASSUME TypeOK, TypeOK', Begun, Local
    PROVE  Clearing'
<1>1. PICK o : Begin(o)
  BY DEF Begun
<1>2. call = Idle
  BY <1>1, BeginIs
<1>3. CASE ~free(o.c)
  <2>1. ~call'.over
    <3>1. ~Idle.over
      BY DEF Idle
    <3>2. \A op, pc, c : ~Call(op, pc, c).over
      BY DEF Call, Idle
    <3>3. \A op, pc, c, s, n : /\ ~[Call(op, pc, c) EXCEPT !.s = s, !.n = n].over
                               /\ ~[Call(op, pc, c) EXCEPT !.n = n].over
      BY DEF Call, Idle
    <3>4. CASE Returns(o) \/ set_blocking(o.c, o.arg) \/ flush_ex(o.c, o.arg)
           \/ handle_extended_data(o.c, o.arg) \/ force_adjust(o.c) \/ send_eof(o.c) \/ close(o.c)
      <4>1. call' = call
        BY <3>4 DEF Returns, set_blocking, flush_ex, handle_extended_data, Flush, force_adjust,
                    send_eof, close
      <4>2. QED BY <1>2, <3>1, <4>1
    <3>5. CASE open_ex
      BY <3>2, <3>5 DEF open_ex
    <3>6. CASE setenv_ex(o.c) \/ request_pty_ex(o.c) \/ x11_req_ex(o.c) \/ process_startup(o.c)
      <4>1. call' = Call("request", "first", o.c) \/ call' = Idle
        BY <3>6 DEF setenv_ex, request_pty_ex, x11_req_ex, process_startup, Request
      <4>2. QED BY <3>1, <3>2, <4>1
    <3>7. CASE read_ex(o.c, 0, o.arg) \/ read_ex(o.c, 1, o.arg)
      <4>1. PICK s : call' = [Call("read", "drain", o.c) EXCEPT !.s = s, !.n = o.arg]
        BY <3>7 DEF read_ex
      <4>2. QED BY <3>3, <4>1
    <3>8. CASE write_ex(o.c, o.arg)
      BY <3>3, <3>8 DEF write_ex
    <3>9. CASE wait_closed(o.c)
      BY <3>2, <3>9 DEF wait_closed
    <3>10. QED BY <1>1, <1>3, <3>4, <3>5, <3>6, <3>7, <3>8, <3>9 DEF Begin
  <2>2. QED BY <2>1 DEF Clearing
<1>4. CASE free(o.c)
  <2> DEFINE freeing == [Call("free", "pollData", o.c) EXCEPT !.over = ch[o.c].rclose]
  <2>1. call' = freeing \/ call' = Idle
    BY <1>2, <1>4 DEF free
  <2>2. /\ freeing.pc = "pollData" /\ freeing.op = "free" /\ freeing.c = o.c
        /\ freeing.over = ch[o.c].rclose
    BY DEF Call, Idle
  <2> HIDE DEF freeing
  <2>3. CASE call' = Idle
    <3>1. ~call'.over
      BY <2>3 DEF Idle
    <3>2. QED BY <3>1 DEF Clearing
  <2>4. CASE call' = freeing
    <3>1. call'.op = "free" /\ call'.c = o.c /\ call'.pc = "pollData" /\ call'.over = ch[o.c].rclose
      BY <2>2, <2>4
    <3>2. o.c \in DOMAIN ch' /\ o.c \in DOMAIN ch
      <4>1. call'.c \in Mine'
        BY <3>1 DEF TypeOK
      <4>2. DOMAIN ch' = DOMAIN ch
        BY <1>4 DEF free, Close
      <4>3. QED BY <3>1, <4>1, <4>2 DEF Mine
    <3>3. ch'[o.c].rclose = ch[o.c].rclose
      BY <3>2 DEF Local, Moves
    <3>4. QED BY <3>1, <3>3 DEF Clearing
  <2>5. QED BY <2>1, <2>3, <2>4
<1>5. QED BY <1>3, <1>4

\* Of the calls that go on only that one is concerned.
LEMMA ClearingGoes ==
    ASSUME TypeOK, Places, Clearing, Goes, call'.over
    PROVE  /\ call.over /\ call'.op = call.op /\ call'.c = call.c
           /\ PollPacket \/ PollNothing \/ Clear
<1>1. call \in Calls
  BY DEF TypeOK
<1>2. ~Idle.over
  BY DEF Idle
<1>3. \A v : /\ [call EXCEPT !.pc = v].over = call.over
             /\ [call EXCEPT !.pc = v].op = call.op
             /\ [call EXCEPT !.pc = v].c = call.c
             /\ [call EXCEPT !.k = v].over = call.over
             /\ [call EXCEPT !.n = v].over = call.over
  BY <1>1 DEF Calls
<1>4. call.over
  <2>1. CASE Answered \/ OpenFailed \/ NotThere \/ AwaitPacket \/ NoAnswer \/ AwaitError
    BY <1>2, <1>3, <2>1 DEF Answered, OpenFailed, NotThere, AwaitPacket, NoAnswer, AwaitError,
                            GiveUp
  <2>2. CASE ReadPacket \/ ReadNothing \/ ReadFails \/ Take \/ ReadEnds
    BY <1>2, <1>3, <2>2 DEF ReadPacket, ReadNothing, ReadFails, Take, ReadEnds
  <2>3. CASE WriteData \/ WriteWaits \/ WriteFails \/ WaitPacket \/ WaitEnds \/ WaitFails
    <3>1. call' = Idle \/ call' = call \/ \E v : call' = [call EXCEPT !.n = v]
      BY <2>3 DEF WriteData, WriteWaits, WriteFails, WaitPacket, WaitEnds, WaitFails
    <3>2. QED BY <1>2, <1>3, <3>1
  <2>4. CASE PollPacket \/ PollNothing \/ Clear \/ Unlink
    BY <1>2, <1>3, <2>4 DEF PollPacket, PollNothing, Clear, Unlink
  <2>5. QED BY <2>1, <2>2, <2>3, <2>4 DEF Goes
<1>5. call.op = "free"
  BY <1>4 DEF Clearing
<1>6. call.pc \in {"pollData", "scanData", "pollExt", "scanExt", "unlink"}
  BY <1>5 DEF Places, PlacesOf
<1>7. PollPacket \/ PollNothing \/ Clear
  <2>1. ~(Answered \/ OpenFailed \/ NotThere \/ AwaitPacket \/ NoAnswer \/ AwaitError)
    BY <1>6 DEF Answered, OpenFailed, NotThere, AwaitPacket, NoAnswer, AwaitError
  <2>2. ~(ReadPacket \/ ReadNothing \/ ReadFails \/ Take \/ ReadEnds)
    BY <1>6 DEF ReadPacket, ReadNothing, ReadFails, Take, ReadEnds
  <2>3. ~(WriteData \/ WriteWaits \/ WriteFails \/ WaitPacket \/ WaitEnds \/ WaitFails)
    BY <1>6 DEF WriteData, WriteWaits, WriteFails, WaitPacket, WaitEnds, WaitFails
  <2>4. ~Unlink
    BY <1>2 DEF Unlink
  <2>5. QED BY <2>1, <2>2, <2>3, <2>4 DEF Goes
<1>8. \E v : call' = [call EXCEPT !.pc = v]
  BY <1>7 DEF PollPacket, PollNothing, Clear
<1>9. QED BY <1>3, <1>4, <1>7, <1>8

\* What has been cleared, in terms of the place of the call.
Cleared(pc, c) ==
    /\ pc \in {"pollExt", "scanExt", "unlink"} => NoneOf("DATA", c)
    /\ pc = "unlink" => NoneOf("EXTENDED_DATA", c)

\* The invariant in these terms.
LEMMA ClearingIs ==
    Clearing <=> (call.over => /\ call.op = "free" /\ ch[call.c].rclose
                               /\ tcp # "reset" => Cleared(call.pc, call.c))
  BY DEF Clearing, Cleared, NoneOf

\* Each look through the brigade finds nothing of the type, or takes it out.
LEMMA ClearingProgram ==
    ASSUME TypeOK, TypeOK', Places, Clearing, Gone, ~Receive, Local
    PROVE  Clearing'
<1>1. SUFFICES ASSUME call'.over
               PROVE  /\ call'.op = "free" /\ ch'[call'.c].rclose
                      /\ tcp' # "reset" => Cleared(call.pc, call.c)'
  BY DEF Clearing, Cleared, NoneOf
<1>2. /\ call.over /\ call'.op = call.op /\ call'.c = call.c
      /\ PollPacket \/ PollNothing \/ Clear
  BY <1>1, ClearingGoes DEF Gone
<1>3. /\ call.op = "free" /\ ch[call.c].rclose
      /\ tcp # "reset" => Cleared(call.pc, call.c)
  BY <1>2, ClearingIs
<1>4. ch' = ch
  BY <1>2 DEF PollPacket, PollNothing, NothingYet, Clear, clientVars
<1>5. call \in Calls
  BY DEF TypeOK
<1>6. \A v : call' = [call EXCEPT !.pc = v] => call'.pc = v
  BY <1>5 DEF Calls
<1>7. ASSUME tcp' # "reset" PROVE Cleared(call.pc, call.c)'
  <2>1. tcp # "reset"
    BY <1>7 DEF Local
  <2>2. CASE PollNothing
    <3>1. brigade' = brigade /\ call'.pc = Scan(call.pc) /\ call.pc \in {"pollData", "pollExt"}
      BY <1>6, <2>1, <2>2 DEF PollNothing, NothingYet, clientVars
    <3>2. CASE call.pc = "pollData"
      BY <3>1, <3>2 DEF Cleared, Scan
    <3>3. CASE call.pc = "pollExt"
      BY <1>2, <1>3, <2>1, <3>1, <3>3 DEF Cleared, Scan, NoneOf
    <3>4. QED BY <3>1, <3>2, <3>3
  <2>3. CASE Clear
    <3> DEFINE found == Found(IF call.pc = "scanData" THEN "DATA" ELSE "EXTENDED_DATA", call.c)
    <3>1. /\ call.pc \in {"scanData", "scanExt"}
          /\ found = {} => brigade' = brigade
          /\ call'.pc = IF found = {} THEN Miss(call.pc) ELSE "pollData"
      BY <1>6, <2>3 DEF Clear
    <3>2. CASE found # {}
      BY <3>1, <3>2 DEF Cleared
    <3>3. CASE found = {} /\ call.pc = "scanData"
      <4>1. call'.pc = "pollExt" /\ brigade' = brigade
        BY <3>1, <3>3 DEF Miss
      <4>2. NoneOf("DATA", call.c)
        BY <3>3 DEF Found, NoneOf
      <4>3. QED BY <1>2, <4>1, <4>2 DEF Cleared, NoneOf
    <3>4. CASE found = {} /\ call.pc = "scanExt"
      <4>1. call'.pc = "unlink" /\ brigade' = brigade
        BY <3>1, <3>4 DEF Miss
      <4>2. NoneOf("EXTENDED_DATA", call.c)
        BY <3>4 DEF Found, NoneOf
      <4>3. NoneOf("DATA", call.c)
        BY <1>3, <2>1, <3>4 DEF Cleared
      <4>4. QED BY <1>2, <4>1, <4>2, <4>3 DEF Cleared, NoneOf
    <3>5. QED BY <3>1, <3>2, <3>3, <3>4
  <2>4. QED BY <1>2, <2>2, <2>3 DEF PollPacket
<1>8. QED BY <1>2, <1>3, <1>4, <1>7

\* The packet that arrives is no data of the channel: the server had closed it.
LEMMA ClearingArrives ==
    ASSUME TypeOK, TypeOK', Places, Ends, Clearing, Gone, Receive, Arrives
    PROVE  Clearing'
<1> DEFINE p == Head(inq)
<1>1. SUFFICES ASSUME call'.over
               PROVE  /\ call'.op = "free" /\ ch'[call'.c].rclose
                      /\ tcp' # "reset" => Cleared(call.pc, call.c)'
  BY DEF Clearing, Cleared, NoneOf
<1>2. /\ call.over /\ call'.op = call.op /\ call'.c = call.c
      /\ PollPacket \/ PollNothing \/ Clear
  BY <1>1, ClearingGoes DEF Gone
<1>3. /\ call.op = "free" /\ ch[call.c].rclose
      /\ tcp # "reset" => Cleared(call.pc, call.c)
  BY <1>2, ClearingIs
<1>4. inq \in Seq(Packets) /\ inq # <<>> /\ inq' = Tail(inq) /\ 1 \in DOMAIN inq /\ p = inq[1]
  BY HeadIs DEF Arrives
<1>5. PollPacket
  <2>1. Len(inq') = Len(inq) - 1 /\ Len(inq) \in Nat
    BY <1>4
  <2>2. inq' # inq
    BY <2>1
  <2>3. QED BY <1>2, <2>2 DEF PollNothing, NothingYet, Clear
<1>6. call.c \in DOMAIN ch
  BY <1>3 DEF TypeOK, Mine
<1>7. Filed(p) /\ tcp' = tcp
  BY DEF Arrives
<1>8. ch'[call.c].rclose
  BY <1>3, <1>6, <1>7 DEF Filed, Hears
<1>9. ~IsData(p, call.c)
  BY <1>3, <1>4, <1>6 DEF Ends
<1>10. call \in Calls
  BY DEF TypeOK
<1>11. /\ call.pc \in {"pollData", "pollExt"}
       /\ call'.pc = IF brigade = <<>> THEN Miss(call.pc) ELSE Scan(call.pc)
  <2>1. \A v : call' = [call EXCEPT !.pc = v] => call'.pc = v
    BY <1>10 DEF Calls
  <2>2. QED BY <1>5, <2>1 DEF PollPacket
<1>12. brigade \in Seq(Packets)
  BY DEF TypeOK
<1> HIDE DEF p
<1> DEFINE NoData == \A i \in DOMAIN brigade' :
                        \/ i \in DOMAIN brigade /\ brigade'[i] = brigade[i]
                        \/ brigade'[i].ch = call.c => brigade'[i].type \notin Types
<1>13. NoData
  <2>1. CASE brigade' = brigade
    BY <2>1
  <2>2. ASSUME NEW q \in Packets, brigade' = Append(brigade, q), q.type = p.type, q.ch = p.ch
        PROVE  NoData
    <3>1. \A i \in DOMAIN brigade' : (i \in DOMAIN brigade /\ brigade'[i] = brigade[i]) \/ brigade'[i] = q
      BY <1>12, <2>2, AppendIs
    <3>2. q.ch = call.c => q.type \notin Types
      BY <1>9, <2>2 DEF IsData
    <3>3. QED BY <3>1, <3>2
  <2>3. QED BY <1>7, <2>1, <2>2 DEF Filed, Files
<1>14. \A type \in Types : NoneOf(type, call.c) => NoneOf(type, call.c)'
  <2>1. ASSUME NEW type \in Types, NoneOf(type, call.c), NEW i \in DOMAIN brigade',
               brigade'[i].ch = call.c, brigade'[i].type = type
        PROVE  FALSE
    BY <1>13, <2>1 DEF NoneOf
  <2>2. QED BY <1>2, <2>1 DEF NoneOf
<1>15. ASSUME tcp' # "reset" PROVE Cleared(call.pc, call.c)'
  <2>1. Cleared(call.pc, call.c)
    BY <1>3, <1>7, <1>15
  <2>2. "DATA" \in Types /\ "EXTENDED_DATA" \in Types
    BY DEF Types
  <2>3. CASE brigade = <<>>
    <3>1. NoneOf("DATA", call.c) /\ NoneOf("EXTENDED_DATA", call.c)
      <4>1. DOMAIN brigade = {}
        BY <2>3
      <4>2. QED BY <4>1 DEF NoneOf
    <3>2. QED BY <1>2, <1>14, <2>2, <3>1 DEF Cleared
  <2>4. CASE brigade # <<>> /\ call.pc = "pollData"
    BY <1>11, <2>4 DEF Cleared, Scan
  <2>5. CASE brigade # <<>> /\ call.pc = "pollExt"
    <3>1. call'.pc = "scanExt"
      BY <1>11, <2>5 DEF Scan
    <3>2. NoneOf("DATA", call.c)
      BY <2>1, <2>5 DEF Cleared
    <3>3. QED BY <1>2, <1>14, <2>2, <3>1, <3>2 DEF Cleared
  <2>6. QED BY <1>11, <2>3, <2>4, <2>5
<1>16. QED BY <1>2, <1>3, <1>8, <1>15

\* The server touches neither the brigade nor the call.
LEMMA ClearingServer ==
    ASSUME Clearing, ServerKinds
    PROVE  Clearing'
<1>1. UNCHANGED <<ch, brigade, call>>
  BY DEF ServerKinds, clientVars
<1>2. tcp' # "reset" => tcp # "reset"
  BY DEF ServerKinds, Leaves
<1>3. QED BY <1>1, <1>2 DEF Clearing

----------------------------------------------------------------------------
(* The brigade                                                             *)

\* The whole invariant.
Sorting == Flowing /\ Asking /\ Clearing

\* Nothing is asked at first, and no channel is being freed.
LEMMA SortInit ==
    ASSUME Init
    PROVE  Asking /\ Clearing
<1>1. call = Idle /\ brigade = <<>> /\ outq = <<>> /\ inq = <<>>
  BY DEF Init
<1>2. call.pc \notin {"again", "wait"} /\ ~call.over
  BY <1>1 DEF Idle
<1>3. DOMAIN outq = {} /\ DOMAIN inq = {} /\ DOMAIN brigade = {} /\ <<>> \in Seq(Packets)
  BY <1>1
<1>4. Weigh(outq, AskWeight) = 0 /\ Weigh(inq, AnswerWeight) = 0 /\ Weigh(brigade, AnswerWeight) = 0
  BY <1>1, <1>3, AskWeights
<1>5. Weigh(outq, AskWeight) + Weigh(inq, AnswerWeight) + Weigh(brigade, AnswerWeight) <= 1
  BY <1>4
<1>6. Asking
  BY <1>2, <1>3, <1>5 DEF Asking
<1>7. Clearing
  BY <1>2 DEF Clearing
<1>8. QED BY <1>6, <1>7

\* With these two parts the invariant is inductive as well.
LEMMA SortStep ==
    ASSUME Sorting, [Next]_vars
    PROVE  Sorting'
<1>1. Flowing'
  BY FlowStep DEF Sorting
<1>2. TypeOK /\ TypeOK' /\ Places /\ Connection /\ Sized /\ Ends /\ Asking /\ Clearing
  BY <1>1 DEF Sorting, Flowing
<1>3. CASE UNCHANGED vars
  <2>1. UNCHANGED <<ch, brigade, socket_state, call, outq, inq, tcp>>
    BY <1>3 DEF vars, clientVars, history
  <2>2. Asking'
    BY <1>2, <2>1 DEF Asking, AsksMine, AnswersMine, Waits
  <2>3. Clearing'
    BY <1>2, <2>1 DEF Clearing
  <2>4. QED BY <1>1, <2>2, <2>3 DEF Sorting
<1>4. CASE Next
  <2>1. Steps
    BY <1>2, <1>4, StepIs
  <2>2. CASE Begun /\ Kinds /\ Local /\ Socket
    <3>1. Asking'
      BY <1>2, <2>2, AskingProgram
    <3>2. Clearing'
      BY <1>2, <2>2, ClearingBegin
    <3>3. QED BY <1>1, <3>1, <3>2 DEF Sorting
  <2>3. CASE Gone /\ ~Receive /\ Kinds /\ Local /\ Socket
    <3>1. Asking'
      BY <1>2, <2>3, AskingProgram
    <3>2. Clearing'
      BY <1>2, <2>3, ClearingProgram
    <3>3. QED BY <1>1, <3>1, <3>2 DEF Sorting
  <2>4. CASE Gone /\ Receive /\ Arrives
    <3>1. Asking'
      BY <1>2, <2>4, AskingArrives
    <3>2. Clearing'
      BY <1>2, <2>4, ClearingArrives
    <3>3. QED BY <1>1, <3>1, <3>2 DEF Sorting
  <2>5. CASE ServerKinds
    <3>1. Asking'
      BY <1>2, <2>5, AskingServer
    <3>2. Clearing'
      BY <1>2, <2>5, ClearingServer
    <3>3. QED BY <1>1, <3>1, <3>2 DEF Sorting
  <2>6. QED BY <2>1, <2>2, <2>3, <2>4, <2>5 DEF Steps
<1>5. QED BY <1>3, <1>4

\* The channels share one brigade (packet_add, packet_askv_ex, channel_free): the answer a
\* call has been woken for is there and is its own, and a channel the server had closed
\* leaves no packet behind when it is freed.
THEOREM BrigadeIsSorted == Spec => []BrigadeSorted
<1>1. Init => Sorting
  BY TypeInit, FlowInit, SortInit DEF Sorting, Flowing
<1>2. Sorting /\ [Next]_vars => Sorting'
  BY SortStep
<1>3. ASSUME Sorting PROVE BrigadeSorted
  <2>1. brigade \in Seq(Packets) /\ Asking /\ Clearing
    BY <1>3 DEF Sorting, Flowing, TypeOK
  <2>2. ASSUME call.pc = "again" PROVE Answers # {}
    <3>1. PICK i \in DOMAIN brigade : AnswersMine(brigade[i])
      BY <2>1, <2>2 DEF Asking
    <3>2. brigade[i].ch = call.c /\ brigade[i].type \in {Replies(call.op)[1], Replies(call.op)[2]}
      BY <3>1 DEF AnswersMine, RepliesTo, Replies
    <3>3. QED BY <3>1, <3>2 DEF Answers, Found
  <2>3. ASSUME call.over, call.pc = "unlink", tcp # "reset" PROVE DataOf(brigade, call.c) = 0
    <3>1. \A i \in DOMAIN brigade : ~IsData(brigade[i], call.c)
      BY <2>1, <2>3 DEF Clearing, IsData, Types
    <3>2. QED BY <2>1, <3>1, SumsType
  <2>4. QED BY <2>2, <2>3 DEF BrigadeSorted, AnswerIsMine, FreedClean
<1>4. QED BY <1>1, <1>2, <1>3, PTL DEF Spec
=============================================================================
