--------------------------- MODULE SshPipeProofs ---------------------------
(***************************************************************************)
(* Machine-checked proof that SshChannel implements BytePipe (PipeSpec),   *)
(* for every width of a word, windows, packet sizes, number of channels    *)
(* and program.  A step of SshChannel is put in one of six forms by what   *)
(* it does to the bytes of the streams, and each form is a step of the     *)
(* pipe, or none:                                                          *)
(*   Trims      a prefix of each stream goes (a flush, packets for nobody, *)
(*              steps without data)                        Skip, Void      *)
(*   Reads      what is read is the head of its stream     Deliver, Void   *)
(*   Forgets    a channel is freed                         Close           *)
(*   Creates    a channel is made                          Open            *)
(*   Transmits  the server sends data                      Send            *)
(*   Loses      the connection ends                        Cut             *)
(* It takes the invariant of SshChannelProofs, and Discards: nothing of a  *)
(* stream that is ignored is in the brigade.                               *)
(***************************************************************************)
EXTENDS SshChannelProofs

----------------------------------------------------------------------------
(* The pipe, and the streams that stand for it                             *)

\* The variables of the pipe (the WITH of Pipe).
upBar == tcp = "up"
openBar == [s \in Streams |-> s[1] \in DOMAIN ch \ wrapped]
sentBar == [s \in Streams |-> peer[s[1]].sent[s[2]]]
queueBar == [s \in Streams |-> IF s[1] \in DOMAIN ch \ wrapped THEN Pending(s) ELSE <<>>]
deliveredBar == [s \in Streams |-> IF s[1] \in wrapped THEN <<>> ELSE delivered[s]]
bar == <<upBar, openBar, sentBar, queueBar, deliveredBar>>

\* The parts of the pipe, with the pipe's variables named.
LEMMA BarInit ==
  Pipe!Init <=> /\ upBar = TRUE
    /\ openBar = [s \in Streams |-> FALSE]
    /\ sentBar = [s \in Streams |-> 0]
    /\ queueBar = [s \in Streams |-> <<>>]
    /\ deliveredBar = [s \in Streams |-> <<>>]
  BY DEF Pipe!Init, upBar, openBar, sentBar, queueBar, deliveredBar

\* The pipe stutters when none of its variables changes.
LEMMA BarVars == bar' = bar <=> UNCHANGED Pipe!vars
  BY DEF Pipe!vars, bar, upBar, openBar, sentBar, queueBar, deliveredBar

\* Its steps, one after the other.
LEMMA BarOpen == Pipe!Open <=>
    /\ UNCHANGED <<upBar, sentBar, deliveredBar>>
    /\ openBar' # openBar
    /\ openBar' \in [Streams -> BOOLEAN]
    /\ \A s \in Streams : openBar[s] => openBar'[s]
    /\ UNCHANGED queueBar
  BY DEF Pipe!Open, upBar, openBar, sentBar, queueBar, deliveredBar

\* A stream that nobody may read any more is closed.
LEMMA BarClose == Pipe!Close <=>
    /\ UNCHANGED <<upBar, sentBar, deliveredBar>>
    /\ openBar' # openBar
    /\ openBar' \in [Streams -> BOOLEAN]
    /\ \A s \in Streams : openBar'[s] => openBar[s]
    /\ queueBar' = [s \in Streams |-> IF openBar[s] /\ ~openBar'[s] THEN <<>> ELSE queueBar[s]]
  BY DEF Pipe!Close, upBar, openBar, sentBar, queueBar, deliveredBar

\* A stream that is not promised any more.
LEMMA BarVoid == Pipe!Void <=>
    /\ UNCHANGED <<upBar, sentBar>>
    /\ openBar' # openBar
    /\ openBar' \in [Streams -> BOOLEAN]
    /\ \A s \in Streams : openBar'[s] => openBar[s]
    /\ queueBar' = [s \in Streams |-> IF openBar[s] /\ ~openBar'[s] THEN <<>> ELSE queueBar[s]]
    /\ deliveredBar' = [s \in Streams |-> IF openBar[s] /\ ~openBar'[s] THEN <<>> ELSE deliveredBar[s]]
  BY DEF Pipe!Void, upBar, openBar, sentBar, queueBar, deliveredBar

\* The server sends.
LEMMA BarSend == \A s : Pipe!Send(s) <=>
    /\ upBar
    /\ UNCHANGED <<upBar, openBar, deliveredBar>>
    /\ \E n \in 1 .. PacketDefault :
          /\ sentBar' = [sentBar EXCEPT ![s] = @ + n]
          /\ queueBar' = IF ~openBar[s] THEN queueBar
                      ELSE [queueBar EXCEPT ![s] = @ \o [i \in 1 .. n |-> sentBar[s] + i]]
  BY DEF Pipe!Send, upBar, openBar, sentBar, queueBar, deliveredBar

\* The program reads.
LEMMA BarDeliver == \A s : Pipe!Deliver(s) <=>
    /\ UNCHANGED <<upBar, openBar, sentBar>>
    /\ deliveredBar' # deliveredBar
    /\ \E n \in 1 .. Len(queueBar[s]) :
          /\ deliveredBar' = [deliveredBar EXCEPT ![s] = @ \o SubSeq(queueBar[s], 1, n)]
          /\ queueBar' = [queueBar EXCEPT ![s] = SubSeq(@, n + 1, Len(@))]
  BY DEF Pipe!Deliver, upBar, openBar, sentBar, queueBar, deliveredBar

\* A prefix of each stream is thrown away.
LEMMA BarSkip == Pipe!Skip <=>
    /\ UNCHANGED <<upBar, openBar, sentBar, deliveredBar>>
    /\ DOMAIN queueBar' = Streams
    /\ \A s \in Streams :
          \E n \in 0 .. Len(queueBar[s]) : queueBar'[s] = SubSeq(queueBar[s], n + 1, Len(queueBar[s]))
  BY DEF Pipe!Skip, upBar, openBar, sentBar, queueBar, deliveredBar

\* The connection ends.
LEMMA BarCut == Pipe!Cut <=>
    /\ upBar' = FALSE
    /\ UNCHANGED <<openBar, sentBar, deliveredBar>>
    /\ DOMAIN queueBar' = Streams
    /\ \A s \in Streams :
          \E n \in 0 .. Len(queueBar[s]) : queueBar'[s] = SubSeq(queueBar[s], 1, n)
  BY DEF Pipe!Cut, upBar, openBar, sentBar, queueBar, deliveredBar

\* What is read is appended.
Gains(s, x) == delivered' = [delivered EXCEPT ![s] = @ \o x]

\* The forms of a step, by what it does to the bytes of the streams.
SentSame == \A s \in Streams : peer'[s[1]].sent[s[2]] = peer[s[1]].sent[s[2]]
Trims ==
    /\ DOMAIN ch' = DOMAIN ch /\ UNCHANGED <<tcp, delivered>> /\ SentSame
    /\ wrapped \subseteq wrapped' /\ wrapped' \ wrapped \subseteq DOMAIN ch
    /\ \A s \in Streams : s[1] \in DOMAIN ch \ wrapped' =>
          \E x \in Seq(Nat) : /\ Leads(Pending(s), x, Pending(s)')
                              /\ wrapped' # wrapped => x = <<>>
Reads ==
    /\ DOMAIN ch' = DOMAIN ch /\ UNCHANGED tcp /\ SentSame
    /\ \E s \in Streams, x \in Seq(Nat) :
          /\ s[1] \in DOMAIN ch
          /\ wrapped' \in {wrapped, wrapped \cup {s[1]}}
          /\ Gains(s, x)
          /\ Leads(Pending(s), x, Pending(s)')
          /\ \A t \in Streams \ {s} : Pending(t)' = Pending(t)
Forgets ==
    /\ DOMAIN ch' \subseteq DOMAIN ch /\ UNCHANGED <<tcp, delivered, wrapped>> /\ SentSame
    /\ \A s \in Streams : s[1] \in DOMAIN ch' => Pending(s)' = Pending(s)
Creates ==
    /\ UNCHANGED <<tcp, delivered, wrapped>> /\ SentSame
    /\ \E c \in Ids : /\ DOMAIN ch' = DOMAIN ch \cup {c} /\ c \notin DOMAIN ch \cup wrapped
                      /\ \A s \in Streams : s[1] = c => Pending(s) = <<>>
    /\ \A s \in Streams : Pending(s)' = Pending(s)
Transmits ==
    /\ tcp = "up" /\ UNCHANGED <<tcp, ch, delivered, wrapped>>
    /\ \E s \in Streams, n \in 1 .. PacketDefault :
          /\ \A t \in Streams : peer'[t[1]].sent[t[2]] =
                peer[t[1]].sent[t[2]] + IF t = s THEN n ELSE 0
          /\ Leads(Pending(s)', Pending(s), [i \in 1 .. n |-> peer[s[1]].sent[s[2]] + i])
          /\ \A t \in Streams \ {s} : Pending(t)' = Pending(t)
Loses ==
    /\ tcp' # "up" /\ UNCHANGED <<ch, delivered, wrapped>> /\ SentSame
    /\ \A s \in Streams : \E y \in Seq(Nat) : Leads(Pending(s), Pending(s)', y)

\* Sequences of the same bytes are the same.
LEMMA SameBytes ==
    ASSUME NEW a \in Seq(Nat), NEW b \in Seq(Nat), Len(a) = Len(b),
           \A i \in 1 .. Len(a) : a[i] = b[i]
    PROVE  a = b
<1>1. a = [i \in 1 .. Len(a) |-> a[i]] /\ b = [i \in 1 .. Len(b) |-> b[i]]
  OBVIOUS
<1>2. QED BY <1>1, Zenon

\* What was put together comes apart at the same place.
LEMMA Splits ==
    ASSUME NEW x \in Seq(Nat), NEW r \in Seq(Nat)
    PROVE  /\ x \o r \in Seq(Nat)
           /\ Len(x) \in 0 .. Len(x \o r)
           /\ SubSeq(x \o r, Len(x) + 1, Len(x \o r)) = r
           /\ SubSeq(x \o r, 1, Len(x)) = x
<1> DEFINE q == x \o r
           a == SubSeq(q, Len(x) + 1, Len(q))
           b == SubSeq(q, 1, Len(x))
<1>1. /\ q \in Seq(Nat) /\ Len(q) = Len(x) + Len(r)
      /\ \A i \in 1 .. Len(q) : q[i] = IF i <= Len(x) THEN x[i] ELSE r[i - Len(x)]
  OBVIOUS
<1>2. Len(x) \in Nat /\ Len(r) \in Nat
  OBVIOUS
<1> HIDE DEF q
<1>3. a \in Seq(Nat) /\ Len(a) = Len(r) /\ \A i \in 1 .. Len(r) : a[i] = q[Len(x) + i]
  BY <1>1, <1>2
<1>4. b \in Seq(Nat) /\ Len(b) = Len(x) /\ \A i \in 1 .. Len(x) : b[i] = q[i]
  BY <1>1, <1>2
<1> HIDE DEF a, b
<1>5. a = r
  <2>1. ASSUME NEW i \in 1 .. Len(a) PROVE a[i] = r[i]
    <3>1. Len(x) + i \in 1 .. Len(q) /\ ~(Len(x) + i <= Len(x)) /\ (Len(x) + i) - Len(x) = i
      BY <1>1, <1>2, <1>3
    <3>2. q[Len(x) + i] = r[i]
      BY <1>1, <3>1
    <3>3. QED BY <1>3, <3>2
  <2>2. Len(a) = Len(r) /\ a \in Seq(Nat)
    BY <1>3
  <2>3. QED BY <2>1, <2>2, SameBytes
<1>6. b = x
  <2>1. ASSUME NEW i \in 1 .. Len(b) PROVE b[i] = x[i]
    BY <1>1, <1>2, <1>4
  <2>2. Len(b) = Len(x) /\ b \in Seq(Nat)
    BY <1>4
  <2>3. QED BY <2>1, <2>2, SameBytes
<1>7. Len(x) \in 0 .. Len(q)
  BY <1>1, <1>2
<1>8. QED BY <1>1, <1>5, <1>6, <1>7 DEF a, b, q

\* No bytes.
LEMMA NoneOfNone ==
    /\ 0 \in 0 .. Len(<<>>) /\ SubSeq(<<>>, 1, Len(<<>>)) = <<>> /\ SubSeq(<<>>, 1, 0) = <<>>
  OBVIOUS

\* A stream is a channel's, and one of its two.
LEMMA StreamIs ==
    ASSUME TypeOK
    PROVE  /\ \A c \in Ids : <<c, 0>> \in Streams /\ <<c, 0>>[1] = c
           /\ \A s \in Streams : s[1] \in Ids /\ s[2] \in {0, 1} /\ s = <<s[1], s[2]>>
           /\ DOMAIN ch \subseteq Ids
  BY DEF TypeOK, Streams

\* What the abstract variables are of each stream.
LEMMA BarIs ==
    /\ \A s \in Streams :
          /\ openBar[s] <=> s[1] \in DOMAIN ch \ wrapped
          /\ openBar'[s] <=> s[1] \in DOMAIN ch' \ wrapped'
          /\ openBar[s] \in BOOLEAN /\ openBar'[s] \in BOOLEAN
          /\ sentBar[s] = peer[s[1]].sent[s[2]] /\ sentBar'[s] = peer'[s[1]].sent[s[2]]
          /\ queueBar[s] = IF s[1] \in DOMAIN ch \ wrapped THEN Pending(s) ELSE <<>>
          /\ queueBar'[s] = IF s[1] \in DOMAIN ch' \ wrapped' THEN Pending(s)' ELSE <<>>
          /\ deliveredBar[s] = IF s[1] \in wrapped THEN <<>> ELSE delivered[s]
          /\ deliveredBar'[s] = IF s[1] \in wrapped' THEN <<>> ELSE delivered'[s]
    /\ openBar = [s \in Streams |-> openBar[s]] /\ openBar' = [s \in Streams |-> openBar'[s]]
    /\ sentBar = [s \in Streams |-> sentBar[s]] /\ sentBar' = [s \in Streams |-> sentBar'[s]]
    /\ queueBar = [s \in Streams |-> queueBar[s]]
    /\ queueBar' = [s \in Streams |-> queueBar'[s]]
    /\ deliveredBar = [s \in Streams |-> deliveredBar[s]]
    /\ deliveredBar' = [s \in Streams |-> deliveredBar'[s]]
<1>1. /\ openBar = [s \in Streams |-> openBar[s]] /\ openBar' = [s \in Streams |-> openBar'[s]]
      /\ sentBar = [s \in Streams |-> sentBar[s]] /\ sentBar' = [s \in Streams |-> sentBar'[s]]
  BY DEF openBar, sentBar
<1>2. /\ queueBar = [s \in Streams |-> queueBar[s]]
      /\ queueBar' = [s \in Streams |-> queueBar'[s]]
      /\ deliveredBar = [s \in Streams |-> deliveredBar[s]]
      /\ deliveredBar' = [s \in Streams |-> deliveredBar'[s]]
  BY DEF queueBar, deliveredBar
<1>3. ASSUME NEW s \in Streams
      PROVE  /\ openBar[s] <=> s[1] \in DOMAIN ch \ wrapped
             /\ openBar'[s] <=> s[1] \in DOMAIN ch' \ wrapped'
             /\ openBar[s] \in BOOLEAN /\ openBar'[s] \in BOOLEAN
  <2>1. openBar[s] = (s[1] \in DOMAIN ch \ wrapped)
    BY DEF openBar
  <2>2. openBar'[s] = (s[1] \in DOMAIN ch' \ wrapped')
    BY DEF openBar
  <2>3. openBar[s] \in BOOLEAN /\ openBar'[s] \in BOOLEAN
    BY DEF openBar
  <2>4. QED BY <2>1, <2>2, <2>3, Zenon
<1>4. ASSUME NEW s \in Streams
      PROVE  /\ sentBar[s] = peer[s[1]].sent[s[2]] /\ sentBar'[s] = peer'[s[1]].sent[s[2]]
             /\ queueBar[s] = IF s[1] \in DOMAIN ch \ wrapped THEN Pending(s) ELSE <<>>
             /\ queueBar'[s] = IF s[1] \in DOMAIN ch' \ wrapped' THEN Pending(s)' ELSE <<>>
             /\ deliveredBar[s] = IF s[1] \in wrapped THEN <<>> ELSE delivered[s]
             /\ deliveredBar'[s] = IF s[1] \in wrapped' THEN <<>> ELSE delivered'[s]
  BY DEF sentBar, queueBar, deliveredBar
<1>5. QED BY <1>1, <1>2, <1>3, <1>4

\* Two of them that are the same of every stream are the same.
LEMMA BarSame ==
    /\ (\A s \in Streams : openBar'[s] <=> openBar[s]) => openBar' = openBar
    /\ (\A s \in Streams : sentBar'[s] = sentBar[s]) => sentBar' = sentBar
    /\ (\A s \in Streams : queueBar'[s] = queueBar[s]) => queueBar' = queueBar
    /\ (\A s \in Streams : deliveredBar'[s] = deliveredBar[s]) => deliveredBar' = deliveredBar
<1>1. ASSUME \A s \in Streams : openBar'[s] <=> openBar[s] PROVE openBar' = openBar
  <2>1. \A s \in Streams : openBar'[s] = openBar[s]
    BY <1>1, BarIs
  <2>2. /\ openBar = [s \in Streams |-> openBar[s]]
        /\ openBar' = [s \in Streams |-> openBar'[s]]
    BY BarIs
  <2>3. QED BY <2>1, <2>2, Zenon
<1>2. ASSUME \A s \in Streams : sentBar'[s] = sentBar[s] PROVE sentBar' = sentBar
  <2>1. /\ sentBar = [s \in Streams |-> sentBar[s]]
        /\ sentBar' = [s \in Streams |-> sentBar'[s]]
    BY BarIs
  <2>2. QED BY <1>2, <2>1, Zenon
<1>3. ASSUME \A s \in Streams : queueBar'[s] = queueBar[s] PROVE queueBar' = queueBar
  <2>1. /\ queueBar = [s \in Streams |-> queueBar[s]]
        /\ queueBar' = [s \in Streams |-> queueBar'[s]]
    BY BarIs
  <2>2. QED BY <1>3, <2>1, Zenon
<1>4. ASSUME \A s \in Streams : deliveredBar'[s] = deliveredBar[s]
      PROVE  deliveredBar' = deliveredBar
  <2>1. /\ deliveredBar = [s \in Streams |-> deliveredBar[s]]
        /\ deliveredBar' = [s \in Streams |-> deliveredBar'[s]]
    BY BarIs
  <2>2. QED BY <1>4, <2>1, Zenon
<1>5. QED BY <1>1, <1>2, <1>3, <1>4

\* The connection is as it was, and so is what was sent.
LEMMA UpSame ==
    ASSUME tcp' = tcp, SentSame
    PROVE  upBar' = upBar /\ sentBar' = sentBar
<1>1. upBar' = upBar
  BY DEF upBar
<1>2. QED BY <1>1, BarIs, BarSame DEF SentSame

\* A window that was granted past its width voids what was promised of the channel.
LEMMA VoidIs ==
    ASSUME TypeOK, DOMAIN ch' = DOMAIN ch, tcp' = tcp, SentSame,
           wrapped \subseteq wrapped', wrapped' \ wrapped \subseteq DOMAIN ch,
           wrapped' # wrapped,
           \A s \in Streams : s[1] \in DOMAIN ch \ wrapped' => Pending(s)' = Pending(s),
           \A s \in Streams : s[1] \notin wrapped' => delivered'[s] = delivered[s]
    PROVE  Pipe!Void
<1>1. PICK c \in Ids : c \in wrapped' \ wrapped /\ c \in DOMAIN ch
  BY StreamIs
<1>2. openBar' # openBar
  <2>1. <<c, 0>> \in Streams /\ <<c, 0>>[1] = c
    BY StreamIs
  <2>2. openBar[<<c, 0>>] /\ ~openBar'[<<c, 0>>]
    BY <1>1, <2>1, BarIs
  <2>3. QED BY <2>2
<1>3. openBar' \in [Streams -> BOOLEAN] /\ \A s \in Streams : openBar'[s] => openBar[s]
  BY BarIs
<1>4. queueBar' = [s \in Streams |-> IF openBar[s] /\ ~openBar'[s] THEN <<>> ELSE queueBar[s]]
  <2>1. ASSUME NEW s \in Streams
        PROVE queueBar'[s] = IF openBar[s] /\ ~openBar'[s] THEN <<>> ELSE queueBar[s]
    BY BarIs
  <2>2. queueBar' = [s \in Streams |-> queueBar'[s]]
    BY BarIs
  <2>3. QED BY <2>1, <2>2, Zenon
<1>5. deliveredBar' =
         [s \in Streams |-> IF openBar[s] /\ ~openBar'[s] THEN <<>> ELSE deliveredBar[s]]
  <2>1. ASSUME NEW s \in Streams
        PROVE deliveredBar'[s] = IF openBar[s] /\ ~openBar'[s] THEN <<>> ELSE deliveredBar[s]
    BY BarIs
  <2>2. deliveredBar' = [s \in Streams |-> deliveredBar'[s]]
    BY BarIs
  <2>3. QED BY <2>1, <2>2, Zenon
<1>6. upBar' = upBar /\ sentBar' = sentBar
  BY UpSame
<1>7. QED BY <1>2, <1>3, <1>4, <1>5, <1>6, BarVoid

\* It takes a prefix of each stream, or voids a channel.
LEMMA MapTrims ==
    ASSUME TypeOK, TypeOK', \A s \in Streams : Pending(s)' \in Seq(Nat), Trims
    PROVE  Pipe!Skip \/ Pipe!Void
<1>1. DOMAIN ch' = DOMAIN ch /\ UNCHANGED <<tcp, delivered>> /\ SentSame
      /\ wrapped \subseteq wrapped' /\ wrapped' \ wrapped \subseteq DOMAIN ch
  BY DEF Trims
<1>2. upBar' = upBar /\ sentBar' = sentBar
  BY <1>1 DEF upBar, sentBar, SentSame
<1>3. CASE wrapped' = wrapped
  <2>1. openBar' = openBar /\ deliveredBar' = deliveredBar
    BY <1>1, <1>3 DEF openBar, deliveredBar
  <2>2. DOMAIN queueBar' = Streams
    BY DEF queueBar
  <2>3. ASSUME NEW s \in Streams
        PROVE \E n \in 0 .. Len(queueBar[s]) :
                 queueBar'[s] = SubSeq(queueBar[s], n + 1, Len(queueBar[s]))
    <3>1. CASE s[1] \in DOMAIN ch \ wrapped
      <4>1. queueBar[s] = Pending(s) /\ queueBar'[s] = Pending(s)'
        BY <1>1, <1>3, <3>1 DEF queueBar
      <4>2. PICK x \in Seq(Nat) : Pending(s) = x \o Pending(s)'
        BY <1>3, <3>1 DEF Trims, Leads
      <4>3. Len(x) \in 0 .. Len(Pending(s))
            /\ Pending(s)' = SubSeq(Pending(s), Len(x) + 1, Len(Pending(s)))
        <5> DEFINE r == Pending(s)'
        <5>1. r \in Seq(Nat) /\ Pending(s) = x \o r
          BY <4>2
        <5> HIDE DEF r
        <5>2. Len(x) \in 0 .. Len(Pending(s))
              /\ r = SubSeq(Pending(s), Len(x) + 1, Len(Pending(s)))
          BY <5>1, Splits
        <5>3. QED BY <5>2 DEF r
      <4>4. QED BY <4>1, <4>3
    <3>2. CASE s[1] \notin DOMAIN ch \ wrapped
      <4>1. queueBar[s] = <<>> /\ queueBar'[s] = <<>>
        BY <1>1, <1>3, <3>2 DEF queueBar
      <4>2. QED BY <4>1, NoneOfNone
    <3>3. QED BY <3>1, <3>2
  <2>4. QED BY <1>2, <2>1, <2>2, <2>3, BarSkip
<1>4. CASE wrapped' # wrapped
  <2>1. PICK c \in Ids : c \in wrapped' \ wrapped /\ c \in DOMAIN ch
    BY <1>1, <1>4, StreamIs
  <2>2. ASSUME NEW s \in Streams, s[1] \in DOMAIN ch \ wrapped'
        PROVE  Pending(s)' = Pending(s)
    <3>1. PICK x \in Seq(Nat) : Pending(s) = x \o Pending(s)' /\ x = <<>>
      BY <1>4, <2>2 DEF Trims, Leads
    <3>2. QED BY <3>1, Neutral
  <2>3. QED BY <1>1, <2>1, <2>2, VoidIs
<1>5. QED BY <1>3, <1>4

\* What was read is delivered.
LEMMA MapReads ==
    ASSUME TypeOK, TypeOK', \A s \in Streams : Pending(s)' \in Seq(Nat), Reads
    PROVE  Pipe!Void \/ (\E s \in Streams : Pipe!Deliver(s)) \/ bar' = bar
<1>1. DOMAIN ch' = DOMAIN ch /\ UNCHANGED tcp /\ SentSame
  BY DEF Reads
<1>2. PICK s \in Streams, x \in Seq(Nat) :
         /\ s[1] \in DOMAIN ch
         /\ wrapped' \in {wrapped, wrapped \cup {s[1]}}
         /\ delivered' = [delivered EXCEPT ![s] = @ \o x]
         /\ Pending(s) = x \o Pending(s)'
         /\ \A t \in Streams \ {s} : Pending(t)' = Pending(t)
  BY DEF Reads, Leads, Gains
<1>3. delivered \in [Streams -> Seq(Nat)]
  BY DEF TypeOK
<1>4. \A t \in Streams \ {s} : delivered'[t] = delivered[t]
  BY <1>2, <1>3
<1>5. delivered'[s] = delivered[s] \o x
  BY <1>2, <1>3
<1>6. upBar' = upBar /\ sentBar' = sentBar
  BY <1>1, UpSame
<1>7. CASE wrapped' # wrapped
  <2>1. wrapped \subseteq wrapped' /\ wrapped' \ wrapped \subseteq DOMAIN ch /\ s[1] \in wrapped'
    BY <1>2, <1>7
  <2>2. \A t \in Streams : t[1] \in DOMAIN ch \ wrapped' => Pending(t)' = Pending(t)
    BY <1>2, <2>1
  <2>3. \A t \in Streams : t[1] \notin wrapped' => delivered'[t] = delivered[t]
    BY <1>4, <2>1
  <2>4. QED BY <1>1, <1>7, <2>1, <2>2, <2>3, VoidIs
<1>8. CASE wrapped' = wrapped /\ (s[1] \in wrapped \/ x = <<>>)
  <2>1. s[1] \in wrapped \/ (Pending(s)' = Pending(s) /\ delivered'[s] = delivered[s])
    <3>1. ASSUME x = <<>> PROVE Pending(s)' = Pending(s) /\ delivered'[s] = delivered[s]
      <4>1. <<>> \o Pending(s)' = Pending(s)' /\ delivered[s] \o <<>> = delivered[s]
        BY <1>3, Neutral
      <4>2. Pending(s) = <<>> \o Pending(s)' /\ delivered'[s] = delivered[s] \o <<>>
        BY <1>2, <1>5, <3>1
      <4>3. QED BY <4>1, <4>2, Zenon
    <3>2. QED BY <1>8, <3>1
  <2>2. \A t \in Streams : t = s \/ (Pending(t)' = Pending(t) /\ delivered'[t] = delivered[t])
    BY <1>2, <1>4
  <2>3. ASSUME NEW t \in Streams
        PROVE  /\ openBar'[t] <=> openBar[t]
               /\ queueBar'[t] = queueBar[t]
               /\ deliveredBar'[t] = deliveredBar[t]
    <3>1. \/ t[1] \in wrapped
          \/ Pending(t)' = Pending(t) /\ delivered'[t] = delivered[t]
      BY <2>1, <2>2
    <3>2. openBar'[t] <=> openBar[t]
      BY <1>1, <1>8, BarIs
    <3>3. queueBar'[t] = queueBar[t]
      BY <1>1, <1>8, <3>1, BarIs
    <3>4. deliveredBar'[t] = deliveredBar[t]
      BY <1>8, <3>1, BarIs
    <3>5. QED BY <3>2, <3>3, <3>4
  <2>4. QED BY <1>6, <2>3, BarSame DEF bar
<1>9. CASE wrapped' = wrapped /\ s[1] \notin wrapped /\ x # <<>>
  <2> DEFINE n == Len(x)
             r == Pending(s)'
  <2>1. r \in Seq(Nat) /\ queueBar[s] = x \o r /\ queueBar'[s] = r
    BY <1>1, <1>2, <1>9, BarIs
  <2>2. delivered[s] \in Seq(Nat) /\ deliveredBar[s] = delivered[s]
        /\ deliveredBar'[s] = delivered[s] \o x
    BY <1>3, <1>5, <1>9, BarIs
  <2> HIDE DEF r
  <2>3. n \in 1 .. Len(queueBar[s])
        /\ SubSeq(queueBar[s], 1, n) = x
        /\ SubSeq(queueBar[s], n + 1, Len(queueBar[s])) = r
    <3>1. /\ Len(x) \in 0 .. Len(x \o r)
          /\ SubSeq(x \o r, Len(x) + 1, Len(x \o r)) = r
          /\ SubSeq(x \o r, 1, Len(x)) = x
      BY <2>1, Splits
    <3>2. Len(x) # 0
      BY <1>9
    <3>3. QED BY <2>1, <3>1, <3>2
  <2>4. ASSUME NEW t \in Streams \ {s}
        PROVE  queueBar'[t] = queueBar[t] /\ deliveredBar'[t] = deliveredBar[t]
    <3>1. Pending(t)' = Pending(t) /\ delivered'[t] = delivered[t]
      BY <1>2, <1>4
    <3>2. queueBar'[t] = queueBar[t]
      <4>1. /\ queueBar[t] = IF t[1] \in DOMAIN ch \ wrapped THEN Pending(t) ELSE <<>>
            /\ queueBar'[t] = IF t[1] \in DOMAIN ch' \ wrapped' THEN Pending(t)' ELSE <<>>
        BY BarIs
      <4>2. DOMAIN ch' = DOMAIN ch /\ wrapped' = wrapped
        BY <1>1, <1>9
      <4>3. (t[1] \in DOMAIN ch' \ wrapped') = (t[1] \in DOMAIN ch \ wrapped)
        BY <4>2
      <4>4. CASE t[1] \in DOMAIN ch \ wrapped
        <5>1. queueBar[t] = Pending(t) /\ queueBar'[t] = Pending(t)'
          BY <4>1, <4>3, <4>4
        <5>2. QED BY <3>1, <5>1
      <4>5. CASE t[1] \notin DOMAIN ch \ wrapped
        BY <4>1, <4>3, <4>5
      <4>6. QED BY <4>4, <4>5
    <3>3. deliveredBar'[t] = deliveredBar[t]
      BY <1>9, <3>1, BarIs
    <3>4. QED BY <3>2, <3>3
  <2>5. deliveredBar' = [deliveredBar EXCEPT ![s] = @ \o SubSeq(queueBar[s], 1, n)]
    <3> DEFINE w == deliveredBar[s] \o SubSeq(queueBar[s], 1, n)
    <3>1. deliveredBar'[s] = w
      BY <2>2, <2>3
    <3> HIDE DEF w
    <3>2. /\ deliveredBar = [t \in Streams |-> deliveredBar[t]]
          /\ deliveredBar' = [t \in Streams |-> deliveredBar'[t]]
      BY BarIs
    <3>3. deliveredBar' = [deliveredBar EXCEPT ![s] = w]
      BY <2>4, <3>1, <3>2
    <3>4. QED BY <3>3 DEF w
  <2>6. queueBar' = [queueBar EXCEPT ![s] = SubSeq(@, n + 1, Len(@))]
    <3> DEFINE w == SubSeq(queueBar[s], n + 1, Len(queueBar[s]))
    <3>1. queueBar'[s] = w
      BY <2>1, <2>3
    <3> HIDE DEF w
    <3>2. /\ queueBar = [t \in Streams |-> queueBar[t]]
          /\ queueBar' = [t \in Streams |-> queueBar'[t]]
      BY BarIs
    <3>3. queueBar' = [queueBar EXCEPT ![s] = w]
      BY <2>4, <3>1, <3>2
    <3>4. QED BY <3>3 DEF w
  <2>7. openBar' = openBar
    BY <1>1, <1>9, BarIs, BarSame
  <2>8. deliveredBar' # deliveredBar
    <3>1. delivered[s] \o x # delivered[s]
      <4> DEFINE d == delivered[s]
      <4>1. d \in Seq(Nat)
        BY <1>3
      <4> HIDE DEF d
      <4>2. Len(d \o x) = Len(d) + Len(x) /\ Len(d) \in Nat /\ Len(x) \in Nat /\ Len(x) # 0
        BY <1>9, <4>1
      <4>3. Len(d \o x) # Len(d)
        BY <4>2
      <4>4. d \o x # d
        BY <4>3
      <4>5. QED BY <4>4 DEF d
    <3>2. QED BY <2>2, <3>1
  <2> HIDE DEF n
  <2>9. Pipe!Deliver(s)
    BY <1>6, <2>3, <2>5, <2>6, <2>7, <2>8, BarDeliver
  <2>10. QED BY <2>9
<1>10. QED BY <1>2, <1>7, <1>8, <1>9

\* A channel that is forgotten is closed.
LEMMA MapForgets ==
    ASSUME TypeOK, Forgets
    PROVE  Pipe!Close \/ bar' = bar
<1>1. /\ DOMAIN ch' \subseteq DOMAIN ch /\ UNCHANGED <<tcp, delivered, wrapped>> /\ SentSame
      /\ \A s \in Streams : s[1] \in DOMAIN ch' => Pending(s)' = Pending(s)
  BY DEF Forgets
<1>2. upBar' = upBar /\ sentBar' = sentBar
  BY <1>1, UpSame
<1>3. deliveredBar' = deliveredBar
  BY <1>1, BarIs, BarSame
<1>4. CASE openBar' = openBar
  <2>1. ASSUME NEW s \in Streams PROVE queueBar'[s] = queueBar[s]
    <3>1. openBar'[s] <=> openBar[s]
      BY <1>4
    <3>2. QED BY <1>1, <3>1, BarIs
  <2>2. QED BY <1>2, <1>3, <1>4, <2>1, BarSame DEF bar
<1>5. CASE openBar' # openBar
  <2>1. openBar' \in [Streams -> BOOLEAN] /\ \A s \in Streams : openBar'[s] => openBar[s]
    BY <1>1, BarIs
  <2>2. ASSUME NEW s \in Streams
        PROVE queueBar'[s] = IF openBar[s] /\ ~openBar'[s] THEN <<>> ELSE queueBar[s]
    BY <1>1, BarIs
  <2>3. queueBar' = [s \in Streams |-> IF openBar[s] /\ ~openBar'[s] THEN <<>> ELSE queueBar[s]]
    <3>1. queueBar' = [s \in Streams |-> queueBar'[s]]
      BY BarIs
    <3>2. QED BY <2>2, <3>1, Zenon
  <2>4. QED BY <1>2, <1>3, <1>5, <2>1, <2>3, BarClose
<1>6. QED BY <1>4, <1>5

\* A channel that is made is open, and there is nothing to read from it.
LEMMA MapCreates ==
    ASSUME TypeOK, Creates
    PROVE  Pipe!Open
<1>1. /\ UNCHANGED <<tcp, delivered, wrapped>> /\ SentSame
      /\ \A s \in Streams : Pending(s)' = Pending(s)
  BY DEF Creates
<1>2. PICK c \in Ids : /\ DOMAIN ch' = DOMAIN ch \cup {c} /\ c \notin DOMAIN ch \cup wrapped
                      /\ \A s \in Streams : s[1] = c => Pending(s) = <<>>
  BY DEF Creates
<1>3. upBar' = upBar /\ sentBar' = sentBar
  BY <1>1, UpSame
<1>4. deliveredBar' = deliveredBar
  BY <1>1, BarIs, BarSame
<1>5. openBar' # openBar
  <2>1. <<c, 0>> \in Streams /\ <<c, 0>>[1] = c
    BY StreamIs
  <2>2. ~openBar[<<c, 0>>] /\ openBar'[<<c, 0>>]
    BY <1>1, <1>2, <2>1, BarIs
  <2>3. QED BY <2>2
<1>6. openBar' \in [Streams -> BOOLEAN] /\ \A s \in Streams : openBar[s] => openBar'[s]
  BY <1>1, <1>2, BarIs
<1>7. queueBar' = queueBar
  <2>1. ASSUME NEW s \in Streams PROVE queueBar'[s] = queueBar[s]
    <3>1. CASE s[1] = c
      <4>1. Pending(s)' = <<>>
        BY <1>1, <1>2, <3>1
      <4>2. queueBar[s] = <<>>
        BY <1>2, <3>1, BarIs
      <4>3. QED BY <4>1, <4>2, BarIs
    <3>2. CASE s[1] # c
      <4>1. (s[1] \in DOMAIN ch' \ wrapped') = (s[1] \in DOMAIN ch \ wrapped)
        BY <1>1, <1>2, <3>2
      <4>2. Pending(s)' = Pending(s)
        BY <1>1
      <4>3. QED BY <4>1, <4>2, BarIs
    <3>3. QED BY <3>1, <3>2
  <2>2. QED BY <2>1, BarSame
<1>8. QED BY <1>3, <1>4, <1>5, <1>6, <1>7, BarOpen

\* What the server sends is appended.
LEMMA MapTransmits ==
    ASSUME TypeOK, Transmits
    PROVE  \E s \in Streams : Pipe!Send(s)
<1>1. tcp = "up" /\ UNCHANGED <<tcp, ch, delivered, wrapped>>
  BY DEF Transmits
<1>2. PICK s \in Streams, n \in 1 .. PacketDefault :
          /\ \A t \in Streams : peer'[t[1]].sent[t[2]] =
                peer[t[1]].sent[t[2]] + IF t = s THEN n ELSE 0
          /\ Pending(s)' = Pending(s) \o [i \in 1 .. n |-> peer[s[1]].sent[s[2]] + i]
          /\ \A t \in Streams \ {s} : Pending(t)' = Pending(t)
  BY DEF Transmits, Leads
<1>3. upBar /\ upBar' = upBar
  BY <1>1 DEF upBar
<1>4. deliveredBar' = deliveredBar /\ openBar' = openBar
  BY <1>1, BarIs, BarSame
<1>5. sentBar' = [sentBar EXCEPT ![s] = @ + n]
  <2>1. \A t \in Streams : sentBar'[t] = sentBar[t] + IF t = s THEN n ELSE 0
    <3>1. \A t \in Streams : peer'[t[1]].sent[t[2]] =
                peer[t[1]].sent[t[2]] + IF t = s THEN n ELSE 0
      BY <1>2
    <3>2. \A t \in Streams : /\ sentBar[t] = peer[t[1]].sent[t[2]]
                             /\ sentBar'[t] = peer'[t[1]].sent[t[2]]
      BY BarIs
    <3>3. QED BY <3>1, <3>2
  <2>2. ASSUME NEW t \in Streams PROVE sentBar[t] \in Int
    <3>1. t[1] \in Ids /\ t[2] \in {0, 1}
      BY StreamIs
    <3>2. peer[t[1]] \in PeerRecords
      BY <3>1 DEF TypeOK
    <3>3. peer[t[1]].sent[t[2]] \in Int
      BY <3>1, <3>2 DEF PeerRecords
    <3>4. QED BY <3>3, BarIs
  <2>3. \A t \in Streams : sentBar'[t] = IF t = s THEN sentBar[t] + n ELSE sentBar[t]
    BY <2>1, <2>2
  <2>4. /\ sentBar = [t \in Streams |-> sentBar[t]]
        /\ sentBar' = [t \in Streams |-> sentBar'[t]]
    BY BarIs
  <2>5. QED BY <2>3, <2>4
<1>6. \A t \in Streams \ {s} : Pending(t)' = Pending(t)
  BY <1>2
<1>7. ASSUME NEW t \in Streams \ {s} PROVE queueBar'[t] = queueBar[t]
  <2>1. (t[1] \in DOMAIN ch' \ wrapped') = (t[1] \in DOMAIN ch \ wrapped)
    BY <1>1
  <2>2. QED BY <1>6, <2>1, BarIs
<1>8. queueBar' = IF ~openBar[s] THEN queueBar
                  ELSE [queueBar EXCEPT ![s] = @ \o [i \in 1 .. n |-> sentBar[s] + i]]
  <2>1. CASE ~openBar[s]
    <3>1. queueBar'[s] = queueBar[s]
      BY <1>1, <2>1, BarIs
    <3>2. queueBar' = queueBar
      BY <1>7, <3>1, BarSame
    <3>3. QED BY <2>1, <3>2
  <2>2. CASE openBar[s]
    <3> DEFINE w == queueBar[s] \o [i \in 1 .. n |-> sentBar[s] + i]
    <3>1. queueBar'[s] = w
      <4>1. /\ queueBar'[s] = Pending(s)' /\ queueBar[s] = Pending(s)
            /\ sentBar[s] = peer[s[1]].sent[s[2]]
        BY <1>1, <2>2, BarIs
      <4>2. QED BY <1>2, <4>1
    <3> HIDE DEF w
    <3>2. /\ queueBar = [t \in Streams |-> queueBar[t]]
          /\ queueBar' = [t \in Streams |-> queueBar'[t]]
      BY BarIs
    <3>3. queueBar' = [queueBar EXCEPT ![s] = w]
      BY <1>7, <3>1, <3>2
    <3>4. QED BY <2>2, <3>3 DEF w
  <2>3. QED BY <2>1, <2>2
<1>9. Pipe!Send(s)
  BY <1>3, <1>4, <1>5, <1>8, BarSend
<1>10. QED BY <1>9

\* A connection that ends loses what was on its way last.
LEMMA MapLoses ==
    ASSUME TypeOK, \A s \in Streams : Pending(s)' \in Seq(Nat), Loses
    PROVE  Pipe!Cut
<1>1. tcp' # "up" /\ UNCHANGED <<ch, delivered, wrapped>> /\ SentSame
  BY DEF Loses
<1>2. upBar' = FALSE
  BY <1>1 DEF upBar
<1>3. deliveredBar' = deliveredBar /\ openBar' = openBar
  BY <1>1 DEF deliveredBar, openBar
<1>4. DOMAIN queueBar' = Streams /\ sentBar' = sentBar
  BY <1>1 DEF queueBar, sentBar, SentSame
<1>5. ASSUME NEW s \in Streams
      PROVE  \E n \in 0 .. Len(queueBar[s]) : queueBar'[s] = SubSeq(queueBar[s], 1, n)
  <2>1. CASE s[1] \in DOMAIN ch \ wrapped
    <3> DEFINE r == Pending(s)'
    <3>1. PICK y \in Seq(Nat) : Pending(s) = r \o y
      BY DEF Loses, Leads
    <3>2. r \in Seq(Nat) /\ queueBar[s] = Pending(s) /\ queueBar'[s] = r
      BY <1>1, <2>1 DEF queueBar
    <3> HIDE DEF r
    <3>3. Len(r) \in 0 .. Len(queueBar[s]) /\ r = SubSeq(queueBar[s], 1, Len(r))
      BY <3>1, <3>2, Splits
    <3>4. QED BY <3>2, <3>3
  <2>2. CASE s[1] \notin DOMAIN ch \ wrapped
    <3>1. queueBar[s] = <<>> /\ queueBar'[s] = <<>>
      BY <1>1, <2>2 DEF queueBar
    <3>2. QED BY <3>1, NoneOfNone
  <2>3. QED BY <2>1, <2>2
<1>6. QED BY <1>2, <1>3, <1>4, <1>5, BarCut

----------------------------------------------------------------------------
(* What packets carry of a stream                                          *)

\* Putting sequences together is associative.
LEMMA Regroups ==
    \A a, b, c \in Seq(Nat) : (a \o b) \o c = a \o (b \o c)
  BY Associates

\* Nothing was taken.
LEMMA LeadsNot ==
    ASSUME NEW a \in Seq(Nat)
    PROVE  Leads(a, <<>>, a) /\ Leads(a, a, <<>>) /\ \A b \in Seq(Nat) : Leads(b, <<>>, a) => b = a
<1>1. <<>> \o a = a /\ a \o <<>> = a
  BY Neutral
<1>2. QED BY <1>1, Zenon DEF Leads

\* What is taken from the front part is taken from the whole.
LEMMA LeadsFront ==
    ASSUME NEW a \in Seq(Nat), NEW b \in Seq(Nat), NEW x \in Seq(Nat), NEW i \in Seq(Nat),
           NEW p, NEW q, Leads(p, a, i), Leads(q, b, i), Leads(a, x, b)
    PROVE  Leads(p, x, q)
<1>1. (x \o b) \o i = x \o (b \o i)
  BY Regroups, Zenon
<1>2. QED BY <1>1, Zenon DEF Leads

\* Bytes that move from the head of one part to the end of the part before it.
LEMMA LeadsMoved ==
    ASSUME NEW a \in Seq(Nat), NEW b \in Seq(Nat), NEW x \in Seq(Nat), NEW i \in Seq(Nat),
           NEW j \in Seq(Nat), NEW p, NEW q,
           Leads(p, a, i), Leads(q, b, j), Leads(i, x, j), Leads(b, a, x)
    PROVE  q = p
<1>1. (a \o x) \o j = a \o (x \o j)
  BY Regroups, Zenon
<1>2. p = a \o (x \o j)
  BY Zenon DEF Leads
<1>3. q = (a \o x) \o j
  BY Zenon DEF Leads
<1>4. QED BY <1>1, <1>2, <1>3, Zenon

\* The front part is empty: what is taken from the other is taken from the whole.
LEMMA LeadsNone ==
    ASSUME NEW x \in Seq(Nat), NEW i \in Seq(Nat), NEW j \in Seq(Nat), NEW p, NEW q,
           Leads(p, <<>>, i), Leads(q, <<>>, j), Leads(i, x, j)
    PROVE  Leads(p, x, q)
<1>1. <<>> \o i = i /\ <<>> \o j = j
  BY Neutral
<1>2. QED BY <1>1, Zenon DEF Leads

\* What is put behind the last part is put behind the whole.
LEMMA LeadsBack ==
    ASSUME NEW a \in Seq(Nat), NEW i \in Seq(Nat), NEW x \in Seq(Nat), NEW j, NEW p, NEW q,
           Leads(p, a, i), Leads(q, a, j), Leads(j, i, x)
    PROVE  Leads(q, p, x)
<1>1. (a \o i) \o x = a \o (i \o x)
  BY Regroups, Zenon
<1>2. p = a \o i
  BY Zenon DEF Leads
<1>3. q = a \o (i \o x)
  BY Zenon DEF Leads
<1>4. p \o x = a \o (i \o x)
  BY <1>1, <1>2, Zenon
<1>5. QED BY <1>3, <1>4, Zenon DEF Leads

\* The bytes of a stream in a packet, and in packets.
BytesOf(s) ==
    [p \in Packets |-> IF IsData(p, s[1]) /\ Stream(p) = s[2] THEN p.bytes ELSE <<>>]
Carried(packets, s) == Chained(packets, BytesOf(s))

\* Each packet holds the bytes of its stream, and none of another.
LEMMA Bytes ==
    \A s : /\ BytesOf(s) \in [Packets -> Seq(Nat)]
           /\ \A p \in Packets : /\ BytesOf(s)[p] \in Seq(Nat)
                                 /\ IsData(p, s[1]) /\ Stream(p) = s[2] => BytesOf(s)[p] = p.bytes
                                 /\ ~(IsData(p, s[1]) /\ Stream(p) = s[2]) => BytesOf(s)[p] = <<>>
<1>1. \A p \in Packets : p.bytes \in Seq(Nat)
  BY DEF Packets
<1> HIDE DEF Packets
<1>2. <<>> \in Seq(Nat)
  OBVIOUS
<1>3. QED BY <1>1, <1>2 DEF BytesOf

\* Packets carry bytes, or none if none of them does.
LEMMA CarriedType ==
    ASSUME NEW packets \in Seq(Packets), NEW s
    PROVE  /\ Carried(packets, s) \in Seq(Nat)
           /\ (\A i \in DOMAIN packets : BytesOf(s)[packets[i]] = <<>>) => Carried(packets, s) = <<>>
<1>1. BytesOf(s) \in [Packets -> Seq(Nat)]
  BY Bytes
<1>2. DOMAIN packets = 1 .. Len(packets)
  OBVIOUS
<1>3. QED BY <1>1, <1>2, ChainedType DEF Carried

\* Carried is the sum in Pending.
LEMMA CarriedIs ==
    ASSUME NEW packets \in Seq(Packets), NEW s
    PROVE  Concat([i \in DOMAIN packets |->
                     IF IsData(packets[i], s[1]) /\ Stream(packets[i]) = s[2]
                     THEN packets[i].bytes ELSE <<>>]) = Carried(packets, s)
<1>1. \A i \in DOMAIN packets : packets[i] \in Packets
  OBVIOUS
<1>2. \A i \in DOMAIN packets :
         BytesOf(s)[packets[i]] = IF IsData(packets[i], s[1]) /\ Stream(packets[i]) = s[2]
                                  THEN packets[i].bytes ELSE <<>>
  BY <1>1, Bytes
<1>3. [i \in DOMAIN packets |-> BytesOf(s)[packets[i]]] =
      [i \in DOMAIN packets |->
          IF IsData(packets[i], s[1]) /\ Stream(packets[i]) = s[2] THEN packets[i].bytes ELSE <<>>]
  BY <1>2
<1>4. QED BY <1>3, Zenon DEF Carried, Chained, Mapped

\* What is pending is in the brigade, and then on the way.
LEMMA PendingIs ==
    ASSUME NEW s
    PROVE  /\ TypeOK => /\ Leads(Pending(s), Carried(brigade, s), Carried(inq, s))
                        /\ brigade \in Seq(Packets) /\ inq \in Seq(Packets)
                        /\ Carried(brigade, s) \in Seq(Nat) /\ Carried(inq, s) \in Seq(Nat)
                        /\ Pending(s) \in Seq(Nat)
           /\ TypeOK' => /\ Leads(Pending(s)', Carried(brigade', s), Carried(inq', s))
                         /\ brigade' \in Seq(Packets) /\ inq' \in Seq(Packets)
                         /\ Carried(brigade', s) \in Seq(Nat) /\ Carried(inq', s) \in Seq(Nat)
                         /\ Pending(s)' \in Seq(Nat)
<1>1. ASSUME NEW a \in Seq(Nat), NEW b \in Seq(Nat) PROVE a \o b \in Seq(Nat)
  OBVIOUS
<1>2. ASSUME TypeOK
      PROVE  /\ Leads(Pending(s), Carried(brigade, s), Carried(inq, s))
             /\ brigade \in Seq(Packets) /\ inq \in Seq(Packets)
             /\ Carried(brigade, s) \in Seq(Nat) /\ Carried(inq, s) \in Seq(Nat)
             /\ Pending(s) \in Seq(Nat)
  <2>1. brigade \in Seq(Packets) /\ inq \in Seq(Packets)
    BY <1>2 DEF TypeOK
  <2>2. Carried(brigade, s) \in Seq(Nat) /\ Carried(inq, s) \in Seq(Nat)
    BY <2>1, CarriedType
  <2>3. Pending(s) = Carried(brigade, s) \o Carried(inq, s)
    BY <2>1, CarriedIs, Zenon DEF Pending
  <2>4. Pending(s) \in Seq(Nat)
    BY <1>1, <2>2, <2>3, Zenon
  <2>5. QED BY <2>1, <2>2, <2>3, <2>4, Zenon DEF Leads
<1>3. ASSUME TypeOK'
      PROVE  /\ Leads(Pending(s)', Carried(brigade', s), Carried(inq', s))
             /\ brigade' \in Seq(Packets) /\ inq' \in Seq(Packets)
             /\ Carried(brigade', s) \in Seq(Nat) /\ Carried(inq', s) \in Seq(Nat)
             /\ Pending(s)' \in Seq(Nat)
  <2>1. brigade' \in Seq(Packets) /\ inq' \in Seq(Packets)
    BY <1>3 DEF TypeOK
  <2>2. Carried(brigade', s) \in Seq(Nat) /\ Carried(inq', s) \in Seq(Nat)
    BY <2>1, CarriedType
  <2>3. Pending(s)' = Carried(brigade', s) \o Carried(inq', s)
    BY <2>1, CarriedIs, Zenon DEF Pending
  <2>4. Pending(s)' \in Seq(Nat)
    BY <1>1, <2>2, <2>3, Zenon
  <2>5. QED BY <2>1, <2>2, <2>3, <2>4, Zenon DEF Leads
<1>4. QED BY <1>2, <1>3

\* Packets that are taken in, taken from the head, or taken out.
LEMMA CarriedAppend ==
    ASSUME NEW packets \in Seq(Packets), NEW p \in Packets, NEW s
    PROVE  Leads(Carried(Append(packets, p), s), Carried(packets, s), BytesOf(s)[p])
<1>1. BytesOf(s) \in [Packets -> Seq(Nat)]
  BY Bytes
<1>2. QED BY <1>1, ChainedAppend, Zenon DEF Carried, Leads

\* Taken from the head.
LEMMA CarriedTail ==
    ASSUME NEW packets \in Seq(Packets), packets # <<>>, NEW s
    PROVE  Leads(Carried(packets, s), BytesOf(s)[Head(packets)], Carried(Tail(packets), s))
<1>1. BytesOf(s) \in [Packets -> Seq(Nat)]
  BY Bytes
<1>2. Head(packets) = packets[1]
  OBVIOUS
<1>3. Chained(packets, BytesOf(s)) = BytesOf(s)[packets[1]] \o Chained(Tail(packets), BytesOf(s))
  BY <1>1, ChainedTail, Zenon
<1>4. QED BY <1>2, <1>3, Zenon DEF Carried, Leads

\* Some are kept: all that carry bytes, or none of them.
LEMMA CarriedPicked ==
    ASSUME NEW packets \in Seq(Packets), NEW at, NEW s
    PROVE  /\ (\A i \in DOMAIN packets : i \in at \/ BytesOf(s)[packets[i]] = <<>>) =>
                 Carried(Picked(packets, at), s) = Carried(packets, s)
           /\ (\A i \in DOMAIN packets : i \in at => BytesOf(s)[packets[i]] = <<>>) =>
                 Carried(Picked(packets, at), s) = <<>>
<1>1. BytesOf(s) \in [Packets -> Seq(Nat)] /\ DOMAIN packets = 1 .. Len(packets)
  BY Bytes
<1>2. QED BY <1>1, ChainedSame DEF Carried

\* One is taken out: without bytes, or the first of the stream.
LEMMA CarriedWithout ==
    ASSUME NEW packets \in Seq(Packets), NEW k \in DOMAIN packets, NEW s
    PROVE  /\ BytesOf(s)[packets[k]] = <<>> => Carried(Without(packets, k), s) = Carried(packets, s)
           /\ (\A i \in DOMAIN packets : i < k => BytesOf(s)[packets[i]] = <<>>) =>
                 Leads(Carried(packets, s), BytesOf(s)[packets[k]], Carried(Without(packets, k), s))
<1>0. DOMAIN packets = 1 .. Len(packets) /\ Len(packets) \in Nat
  OBVIOUS
<1>1. BytesOf(s) \in [Packets -> Seq(Nat)]
  BY Bytes
<1>2. ASSUME BytesOf(s)[packets[k]] = <<>>
      PROVE  Carried(Without(packets, k), s) = Carried(packets, s)
  <2> DEFINE at == DOMAIN packets \ {k}
  <2>1. \A i \in DOMAIN packets : i \in at \/ BytesOf(s)[packets[i]] = <<>>
    BY <1>2
  <2> HIDE DEF at
  <2>2. Carried(Picked(packets, at), s) = Carried(packets, s)
    BY <2>1, CarriedPicked
  <2>3. QED BY <2>2 DEF at, Without
<1>3. ASSUME \A i \in DOMAIN packets : i < k => BytesOf(s)[packets[i]] = <<>>
      PROVE  Leads(Carried(packets, s), BytesOf(s)[packets[k]], Carried(Without(packets, k), s))
  <2>1. \A i \in 1 .. k - 1 : BytesOf(s)[packets[i]] = <<>>
    BY <1>0, <1>3
  <2>2. k \in 1 .. Len(packets)
    BY <1>0
  <2>3. QED BY <1>1, <2>1, <2>2, ChainedWithout, Zenon DEF Carried, Leads
<1>4. QED BY <1>2, <1>3

\* The first packet of the stream loses its first bytes.
LEMMA CarriedExcept ==
    ASSUME NEW packets \in Seq(Packets), NEW others \in Seq(Packets), NEW s, NEW k,
           NEW x \in Seq(Nat), Lessens(packets, others, BytesOf(s), x, k)
    PROVE  Leads(Carried(packets, s), x, Carried(others, s))
<1> DEFINE f == BytesOf(s)
<1>1. f \in [Packets -> Seq(Nat)]
  BY Bytes
<1>2. Lessens(packets, others, f, x, k)
  OBVIOUS
<1> HIDE DEF f
<1>3. Leads(Chained(packets, f), x, Chained(others, f))
  BY <1>1, <1>2, ChainedExcept
<1>4. QED BY <1>3 DEF Carried, f

----------------------------------------------------------------------------
(* Calls that begin                                                        *)

\* What it takes for a step to trim the streams, of one channel at most.
LEMMA TrimsIs ==
    ASSUME TypeOK, TypeOK', UNCHANGED <<tcp, delivered>>, SentSame, DOMAIN ch' = DOMAIN ch,
           NEW c, wrapped' = wrapped \/ (c \in DOMAIN ch /\ wrapped' = wrapped \cup {c}),
           \A s \in Streams : s[1] \in DOMAIN ch \ wrapped =>
              \/ Pending(s)' = Pending(s)
              \/ s[1] = c /\ \E x \in Seq(Nat) : Leads(Pending(s), x, Pending(s)')
    PROVE  Trims
<1>1. wrapped \subseteq wrapped' /\ wrapped' \ wrapped \subseteq DOMAIN ch
      /\ (wrapped' # wrapped => c \in wrapped')
  OBVIOUS
<1>2. ASSUME NEW s \in Streams, s[1] \in DOMAIN ch \ wrapped'
      PROVE  \E x \in Seq(Nat) : /\ Leads(Pending(s), x, Pending(s)')
                                 /\ wrapped' # wrapped => x = <<>>
  <2>1. s[1] \in DOMAIN ch \ wrapped
    BY <1>1, <1>2
  <2>2. CASE Pending(s)' = Pending(s)
    <3>1. Leads(Pending(s), <<>>, Pending(s)')
      <4>1. Pending(s) \in Seq(Nat)
        BY PendingIs
      <4>2. Leads(Pending(s), <<>>, Pending(s))
        BY <4>1, LeadsNot
      <4>3. QED BY <2>2, <4>2, Zenon
    <3>2. <<>> \in Seq(Nat)
      OBVIOUS
    <3>3. QED BY <3>1, <3>2
  <2>3. CASE s[1] = c /\ \E x \in Seq(Nat) : Leads(Pending(s), x, Pending(s)')
    BY <1>1, <1>2, <2>3
  <2>4. QED BY <2>1, <2>2, <2>3
<1>3. QED BY <1>1, <1>2 DEF Trims

\* Where no packet moves the streams stay as they are.
LEMMA PendingSame ==
    ASSUME brigade' = brigade, inq' = inq
    PROVE  \A s : Pending(s)' = Pending(s)
  BY DEF Pending

\* Where the server's records stay, so does what it sent.
LEMMA PeerSame ==
    ASSUME peer' = peer
    PROVE  SentSame
  BY DEF SentSame

\* A step that touches neither packets nor channels trims nothing.
LEMMA TrimsNot ==
    ASSUME TypeOK, TypeOK', UNCHANGED <<brigade, inq, tcp, peer, delivered, wrapped>>,
           DOMAIN ch' = DOMAIN ch
    PROVE  Trims
<1>1. \A s : Pending(s)' = Pending(s)
  BY PendingSame
<1>2. SentSame
  BY PeerSame
<1>3. QED BY <1>1, <1>2, TrimsIs

\* receive_window_adjust may take the window of the channel past its width.
LEMMA AdjustShape ==
    ASSUME NEW chans, NEW c, NEW n, NEW force, receive_window_adjust(chans, c, n, force)
    PROVE  DOMAIN ch' = DOMAIN chans /\ (wrapped' = wrapped \/ wrapped' = wrapped \cup {c})
<1>1. PICK ok \in SendResults :
        /\ ch' = [chans EXCEPT ![c] = Adjusted(@, n, force, ok)]
        /\ wrapped' = IF /\ ok /\ ~Queues(chans[c], n, force)
                         /\ chans[c].rwin + Total(chans[c], n) >= Word
                      THEN wrapped \cup {c} ELSE wrapped
  BY DEF receive_window_adjust
<1>2. QED BY <1>1

\* The calls that begin, but for those that open a channel or flush one.
LEMMA TrimsBegin ==
    ASSUME TypeOK, TypeOK', NEW o, Begin(o), o.op # "open",
           ~(o.op = "flush" /\ flush_ex(o.c, o.arg)),
           ~(o.op = "extended" /\ handle_extended_data(o.c, o.arg))
    PROVE  Trims
<1>1. CASE Returns(o) \/ read_ex(o.c, 0, o.arg) \/ read_ex(o.c, 1, o.arg)
           \/ write_ex(o.c, o.arg) \/ wait_closed(o.c)
  <2>1. UNCHANGED <<brigade, inq, tcp, peer, delivered, wrapped>> /\ ch' = ch
    BY <1>1 DEF Returns, read_ex, write_ex, wait_closed, clientVars, history
  <2>2. QED BY <2>1, TrimsNot
<1>2. CASE setenv_ex(o.c) \/ request_pty_ex(o.c) \/ x11_req_ex(o.c) \/ process_startup(o.c)
  <2>1. UNCHANGED <<brigade, inq, tcp, peer, delivered, wrapped>> /\ ch' = ch
    BY <1>2 DEF setenv_ex, request_pty_ex, x11_req_ex, process_startup, Request, clientVars,
                history
  <2>2. QED BY <2>1, TrimsNot
<1>3. CASE send_eof(o.c) \/ close(o.c) \/ set_blocking(o.c, o.arg) \/ free(o.c)
  <2>1. UNCHANGED <<brigade, inq, tcp, peer, delivered, wrapped>> /\ DOMAIN ch' = DOMAIN ch
    BY <1>3 DEF send_eof, close, Close, set_blocking, free, history
  <2>2. QED BY <2>1, TrimsNot
<1>4. CASE o.c \in Mine /\ force_adjust(o.c)
  <2>1. UNCHANGED <<brigade, inq, tcp, peer, delivered>>
    BY <1>4 DEF force_adjust
  <2>2. o.c \in DOMAIN ch
    BY <1>4 DEF Mine
  <2>3. DOMAIN ch' = DOMAIN ch /\ (wrapped' = wrapped \/ wrapped' = wrapped \cup {o.c})
    BY <1>4, AdjustShape DEF force_adjust
  <2>4. \A s : Pending(s)' = Pending(s)
    BY <2>1, PendingSame
  <2>5. SentSame
    BY <2>1, PeerSame
  <2>6. QED BY <2>1, <2>2, <2>3, <2>4, <2>5, TrimsIs
<1>5. QED BY <1>1, <1>2, <1>3, <1>4 DEF Begin

\* The packets that are flushed are all there are of a stream, or none.
LEMMA TrimsFlush ==
    ASSUME TypeOK, TypeOK', NEW c \in Mine, NEW chans, DOMAIN chans = DOMAIN ch,
           NEW which \in Types \cup {"ALL"}, Flush(chans, c, which)
    PROVE  Trims
<1> DEFINE flushed == {i \in DOMAIN brigade : Flushes(brigade[i], c, which)}
           at == DOMAIN brigade \ flushed
           refund == SumOf([i \in DOMAIN brigade |->
                         IF i \in flushed THEN FlushRefund(brigade[i]) ELSE 0]) % Word
<1>1. /\ brigade' = Picked(brigade, at)
      /\ IF refund = 0 THEN ch' = chans /\ UNCHANGED <<outq, wrapped>>
         ELSE receive_window_adjust(chans, c, refund, FALSE)
      /\ UNCHANGED <<inq, tcp, peer, delivered>>
  BY DEF Flush
<1>2. c \in DOMAIN ch
  BY DEF Mine
<1> HIDE DEF refund
<1>3. DOMAIN ch' = DOMAIN ch /\ (wrapped' = wrapped \/ wrapped' = wrapped \cup {c})
  BY <1>1, AdjustShape
<1>4. SentSame
  BY <1>1, PeerSame
<1>5. brigade \in Seq(Packets) /\ \A i \in DOMAIN brigade : brigade[i] \in Packets
  BY DEF TypeOK
<1>6. \A i \in DOMAIN brigade : i \in at <=> ~Flushes(brigade[i], c, which)
  OBVIOUS
<1> HIDE DEF at
<1>7. ASSUME NEW s \in Streams
      PROVE  \/ Pending(s)' = Pending(s)
             \/ s[1] = c /\ \E x \in Seq(Nat) : Leads(Pending(s), x, Pending(s)')
  <2>1. /\ Leads(Pending(s), Carried(brigade, s), Carried(inq, s))
        /\ Leads(Pending(s)', Carried(brigade', s), Carried(inq', s))
        /\ Carried(brigade, s) \in Seq(Nat) /\ Carried(inq, s) \in Seq(Nat)
        /\ Carried(brigade', s) \in Seq(Nat) /\ Carried(inq', s) = Carried(inq, s)
    BY <1>1, PendingIs
  <2>2. ASSUME \A i \in DOMAIN brigade : i \in at \/ BytesOf(s)[brigade[i]] = <<>>
        PROVE  Pending(s)' = Pending(s)
    <3>1. Carried(brigade', s) = Carried(brigade, s)
      BY <1>1, <1>5, <2>2, CarriedPicked
    <3>2. QED BY <2>1, <3>1, Zenon DEF Leads
  <2>3. ASSUME \A i \in DOMAIN brigade : i \in at => BytesOf(s)[brigade[i]] = <<>>
        PROVE  \E x \in Seq(Nat) : Leads(Pending(s), x, Pending(s)')
    <3>1. Carried(brigade', s) = <<>>
      BY <1>1, <1>5, <2>3, CarriedPicked
    <3>2. Leads(Carried(brigade, s), Carried(brigade, s), Carried(brigade', s))
      BY <2>1, <3>1, LeadsNot
    <3>3. Leads(Pending(s), Carried(brigade, s), Pending(s)')
      <4> DEFINE p == Pending(s)
                 q == Pending(s)'
                 a == Carried(brigade, s)
                 b == Carried(brigade', s)
                 i == Carried(inq, s)
      <4>1. /\ a \in Seq(Nat) /\ b \in Seq(Nat) /\ i \in Seq(Nat)
            /\ Leads(p, a, i) /\ Leads(q, b, i) /\ Leads(a, a, b)
        BY <2>1, <3>2
      <4> HIDE DEF p, q, a, b, i
      <4>2. Leads(p, a, q)
        BY <4>1, LeadsFront
      <4>3. QED BY <4>2 DEF p, q, a
    <3>4. QED BY <2>1, <3>3
  <2>4. CASE s[1] = c /\ (which = "ALL" \/ which = IF s[2] = 0 THEN "DATA" ELSE "EXTENDED_DATA")
    <3>1. ASSUME NEW i \in DOMAIN brigade, i \in at PROVE BytesOf(s)[brigade[i]] = <<>>
      <4>1. ~Flushes(brigade[i], c, which)
        BY <1>6, <3>1
      <4>2. ~(IsData(brigade[i], s[1]) /\ Stream(brigade[i]) = s[2])
        BY <2>4, <4>1 DEF Flushes, IsData, Stream, Types
      <4>3. QED BY <1>5, <4>2, Bytes
    <3>2. QED BY <2>3, <2>4, <3>1
  <2>5. CASE ~(s[1] = c /\ (which = "ALL" \/ which = IF s[2] = 0 THEN "DATA" ELSE "EXTENDED_DATA"))
    <3>1. ASSUME NEW i \in DOMAIN brigade PROVE i \in at \/ BytesOf(s)[brigade[i]] = <<>>
      <4>1. SUFFICES ASSUME Flushes(brigade[i], c, which) PROVE BytesOf(s)[brigade[i]] = <<>>
        BY <1>6
      <4>2. ~(IsData(brigade[i], s[1]) /\ Stream(brigade[i]) = s[2])
        BY <2>5, <4>1 DEF Flushes, IsData, Stream, Types
      <4>3. QED BY <1>5, <4>2, Bytes
    <3>2. QED BY <2>2, <3>1
  <2>6. QED BY <2>4, <2>5
<1>8. QED BY <1>1, <1>2, <1>3, <1>4, <1>7, TrimsIs

----------------------------------------------------------------------------
(* Calls that go on                                                        *)

\* Bytes that are cut in two, and put together.
LEMMA Joins ==
    ASSUME NEW x \in Seq(Nat), NEW r \in Seq(Nat)
    PROVE  /\ x \o r \in Seq(Nat) /\ Len(x \o r) = Len(x) + Len(r)
           /\ \A i \in 1 .. Len(x \o r) :
                 (x \o r)[i] = IF i <= Len(x) THEN x[i] ELSE r[i - Len(x)]
  OBVIOUS

\* A sequence is its first n bytes, and the others.
LEMMA Rejoins ==
    ASSUME NEW b \in Seq(Nat), NEW n \in 0 .. Len(b)
    PROVE  /\ SubSeq(b, 1, n) \in Seq(Nat) /\ SubSeq(b, n + 1, Len(b)) \in Seq(Nat)
           /\ b = SubSeq(b, 1, n) \o SubSeq(b, n + 1, Len(b))
<1> DEFINE x == SubSeq(b, 1, n)
           r == SubSeq(b, n + 1, Len(b))
<1>1. Len(b) \in Nat /\ n \in Nat /\ n <= Len(b) /\ \A i \in 1 .. Len(b) : b[i] \in Nat
  OBVIOUS
<1>2. x \in Seq(Nat) /\ Len(x) = n /\ \A i \in 1 .. n : x[i] = b[i]
  BY <1>1
<1>3. r \in Seq(Nat) /\ Len(r) = Len(b) - n /\ \A i \in 1 .. Len(b) - n : r[i] = b[n + i]
  BY <1>1
<1> HIDE DEF x, r
<1> DEFINE w == x \o r
<1>4. w \in Seq(Nat) /\ Len(w) = Len(x) + Len(r)
      /\ \A i \in 1 .. Len(w) : w[i] = IF i <= Len(x) THEN x[i] ELSE r[i - Len(x)]
  <2>1. x \in Seq(Nat) /\ r \in Seq(Nat)
    BY <1>2, <1>3
  <2>2. QED BY <2>1, Joins
<1> HIDE DEF w
<1>5. Len(w) = Len(b)
  BY <1>1, <1>2, <1>3, <1>4
<1>6. ASSUME NEW i \in 1 .. Len(w) PROVE w[i] = b[i]
  <2>1. CASE i <= n
    BY <1>1, <1>2, <1>4, <1>5, <2>1
  <2>2. CASE ~(i <= n)
    <3>1. i - n \in 1 .. Len(b) - n /\ n + (i - n) = i
      BY <1>1, <1>5, <2>2
    <3>2. w[i] = r[i - n]
      BY <1>2, <1>4, <2>2
    <3>3. QED BY <1>3, <3>1, <3>2
  <2>3. QED BY <2>1, <2>2
<1>7. w = b
  BY <1>4, <1>5, <1>6, SameBytes
<1>8. QED BY <1>2, <1>3, <1>7 DEF x, r, w

\* The calls that go on and move no packet.
LEMMA TrimsGoes ==
    ASSUME TypeOK, TypeOK',
           \/ NotThere \/ ReadNothing \/ ReadFails \/ ReadEnds \/ WriteData \/ WriteFails
           \/ WaitEnds \/ WaitFails \/ PollNothing
    PROVE  Trims
<1>1. CASE NotThere \/ ReadNothing \/ ReadEnds \/ WaitEnds \/ PollNothing
  <2>1. UNCHANGED <<brigade, inq, tcp, peer, delivered, wrapped>> /\ ch' = ch
    BY <1>1 DEF NotThere, ReadNothing, ReadEnds, WaitEnds, PollNothing, NothingYet, clientVars,
                history
  <2>2. QED BY <2>1, TrimsNot
<1>2. CASE ReadFails \/ WriteFails \/ WaitFails
  <2>1. UNCHANGED <<brigade, inq, tcp, peer, delivered, wrapped>> /\ ch' = ch
    BY <1>2 DEF ReadFails, WriteFails, WaitFails, ReadError, history
  <2>2. QED BY <2>1, TrimsNot
<1>3. CASE WriteData
  <2>1. UNCHANGED <<brigade, inq, tcp, peer, delivered, wrapped>> /\ DOMAIN ch' = DOMAIN ch
    BY <1>3 DEF WriteData, history
  <2>2. QED BY <2>1, TrimsNot
<1>4. QED BY <1>1, <1>2, <1>3

\* A packet without data is taken out of the brigade, and no stream notices.
LEMMA PendingWithout ==
    ASSUME TypeOK, TypeOK', NEW k \in DOMAIN brigade, brigade[k].type \notin Types,
           brigade' = Without(brigade, k), inq' = inq
    PROVE  \A s \in Streams : Pending(s)' = Pending(s)
<1>1. SUFFICES ASSUME NEW s \in Streams PROVE Pending(s)' = Pending(s)
  OBVIOUS
<1>2. brigade \in Seq(Packets) /\ brigade[k] \in Packets
  BY DEF TypeOK
<1>3. BytesOf(s)[brigade[k]] = <<>>
  BY <1>2, Bytes DEF IsData
<1>4. Carried(brigade', s) = Carried(brigade, s)
  BY <1>2, <1>3, CarriedWithout
<1>5. /\ Leads(Pending(s), Carried(brigade, s), Carried(inq, s))
      /\ Leads(Pending(s)', Carried(brigade', s), Carried(inq', s))
  BY PendingIs
<1>6. QED BY <1>4, <1>5, Zenon DEF Leads

\* The answer that is taken is such a packet.
LEMMA TrimsAnswered ==
    ASSUME TypeOK, TypeOK', Answered
    PROVE  Trims
<1>1. /\ Asked \in DOMAIN brigade /\ brigade[Asked].type \in RepliesTo(call.op)
      /\ brigade' = Without(brigade, Asked)
      /\ UNCHANGED <<inq, tcp, peer, delivered, wrapped>>
  BY AnswersAre DEF Answered, history
<1>2. DOMAIN ch' = DOMAIN ch
  BY DEF Answered
<1>3. brigade[Asked].type \notin Types
  BY <1>1 DEF RepliesTo, Types
<1>4. \A s \in Streams : Pending(s)' = Pending(s)
  BY <1>1, <1>3, PendingWithout
<1>5. SentSame
  BY <1>1, PeerSame
<1>6. QED BY <1>1, <1>2, <1>4, <1>5, TrimsIs

\* A channel that could not be opened, or was freed, is forgotten.
LEMMA ForgetsGoes ==
    ASSUME TypeOK, TypeOK', OpenFailed \/ NoAnswer \/ AwaitError \/ Unlink
    PROVE  Forgets
<1>1. CASE OpenFailed
  <2>1. /\ Asked \in DOMAIN brigade /\ brigade[Asked].type \in RepliesTo(call.op)
        /\ brigade' = Without(brigade, Asked)
        /\ UNCHANGED <<inq, tcp, peer, delivered, wrapped>>
    BY <1>1, AnswersAre DEF OpenFailed, history
  <2>2. DOMAIN ch' \subseteq DOMAIN ch
    BY <1>1 DEF OpenFailed, Unlinked
  <2>3. brigade[Asked].type \notin Types
    BY <2>1 DEF RepliesTo, Types
  <2>4. \A s \in Streams : Pending(s)' = Pending(s)
    BY <2>1, <2>3, PendingWithout
  <2>5. SentSame
    BY <2>1, PeerSame
  <2>6. QED BY <2>1, <2>2, <2>4, <2>5 DEF Forgets
<1>2. CASE NoAnswer \/ AwaitError \/ Unlink
  <2>1. UNCHANGED <<brigade, inq, tcp, peer, delivered, wrapped>>
    BY <1>2 DEF NoAnswer, AwaitError, Unlink, history
  <2>2. DOMAIN ch' \subseteq DOMAIN ch
    BY <1>2 DEF NoAnswer, AwaitError, Unlink, GiveUp, Unlinked
  <2>3. \A s : Pending(s)' = Pending(s)
    BY <2>1, PendingSame
  <2>4. SentSame
    BY <2>1, PeerSame
  <2>5. QED BY <2>1, <2>2, <2>3, <2>4 DEF Forgets
<1>3. QED BY <1>1, <1>2

\* The first bytes of the brigade are taken, and the streams begin with the next.
LEMMA LeadsPending ==
    ASSUME TypeOK, TypeOK', NEW s \in Streams, NEW x \in Seq(Nat), inq' = inq,
           Leads(Carried(brigade, s), x, Carried(brigade', s))
    PROVE  Leads(Pending(s), x, Pending(s)')
<1> DEFINE p == Pending(s)
           q == Pending(s)'
           a == Carried(brigade, s)
           b == Carried(brigade', s)
           i == Carried(inq, s)
<1>1. Leads(p, a, Carried(inq, s)) /\ Leads(q, b, Carried(inq', s))
      /\ a \in Seq(Nat) /\ b \in Seq(Nat) /\ i \in Seq(Nat)
  BY PendingIs
<1>2. Leads(p, a, i) /\ Leads(q, b, i) /\ Leads(a, x, b)
  BY <1>1
<1> HIDE DEF p, q, a, b, i
<1>3. Leads(p, x, q)
  BY <1>1, <1>2, LeadsFront
<1>4. QED BY <1>3 DEF p, q

\* A change of the brigade that a stream does not notice.
LEMMA PendingKept ==
    ASSUME TypeOK, TypeOK', NEW s, inq' = inq, Carried(brigade', s) = Carried(brigade, s)
    PROVE  Pending(s)' = Pending(s)
<1>1. /\ Leads(Pending(s), Carried(brigade, s), Carried(inq, s))
      /\ Leads(Pending(s)', Carried(brigade', s), Carried(inq', s))
  BY PendingIs
<1>2. QED BY <1>1, Zenon DEF Leads

\* channel_free clears the first packet of a stream.
LEMMA TrimsClear ==
    ASSUME TypeOK, TypeOK', Clear
    PROVE  Trims
<1> DEFINE type == IF call.pc = "scanData" THEN "DATA" ELSE "EXTENDED_DATA"
           found == Found(type, call.c)
           first == CHOOSE i \in found : \A j \in found : i <= j
<1>1. /\ brigade' = IF found = {} THEN brigade ELSE Without(brigade, first)
      /\ UNCHANGED <<inq, tcp, peer, delivered, wrapped>> /\ ch' = ch
  BY DEF Clear, history
<1>2. brigade \in Seq(Packets) /\ DOMAIN brigade \subseteq Nat
      /\ \A i \in DOMAIN brigade : brigade[i] \in Packets
  BY DEF TypeOK
<1>3. /\ found \subseteq DOMAIN brigade
      /\ \A i \in DOMAIN brigade : i \in found <=> brigade[i].type = type /\ brigade[i].ch = call.c
  BY DEF Found
<1>4. type \in Types
  BY DEF Types
<1> HIDE DEF found, type
<1>5. CASE found = {}
  <2>1. brigade' = brigade
    BY <1>1, <1>5
  <2>2. QED BY <1>1, <2>1, TrimsNot
<1>6. CASE found # {}
  <2>1. first \in found /\ \A j \in found : first <= j
    BY <1>2, <1>3, <1>6, FirstOf
  <2> HIDE DEF first
  <2>2. first \in DOMAIN brigade /\ brigade' = Without(brigade, first)
        /\ brigade[first].type = type /\ brigade[first].ch = call.c
    BY <1>1, <1>3, <1>6, <2>1
  <2>3. ASSUME NEW i \in DOMAIN brigade, i < first PROVE i \notin found
    BY <1>2, <2>1, <2>2, <2>3
  <2>4. ASSUME NEW s \in Streams
        PROVE  \/ Pending(s)' = Pending(s)
               \/ s[1] = call.c /\ \E x \in Seq(Nat) : Leads(Pending(s), x, Pending(s)')
    <3>1. CASE s[1] = call.c /\ s[2] = Stream(brigade[first])
      <4>1. ASSUME NEW i \in DOMAIN brigade, i < first PROVE BytesOf(s)[brigade[i]] = <<>>
        <5>1. ~(brigade[i].type = type /\ brigade[i].ch = call.c)
          BY <1>3, <2>3, <4>1
        <5>2. ~(IsData(brigade[i], s[1]) /\ Stream(brigade[i]) = s[2])
          BY <1>4, <2>2, <3>1, <5>1 DEF IsData, Stream, Types
        <5>3. QED BY <1>2, <5>2, Bytes
      <4>2. Leads(Carried(brigade, s), BytesOf(s)[brigade[first]], Carried(brigade', s))
        BY <1>2, <2>2, <4>1, CarriedWithout
      <4>3. BytesOf(s)[brigade[first]] \in Seq(Nat)
        BY <1>2, <2>2, Bytes
      <4>4. Leads(Pending(s), BytesOf(s)[brigade[first]], Pending(s)')
        BY <1>1, <4>2, <4>3, LeadsPending
      <4>5. QED BY <3>1, <4>3, <4>4
    <3>2. CASE ~(s[1] = call.c /\ s[2] = Stream(brigade[first]))
      <4>1. BytesOf(s)[brigade[first]] = <<>>
        BY <1>2, <2>2, <3>2, Bytes DEF IsData
      <4>2. Carried(brigade', s) = Carried(brigade, s)
        BY <1>2, <2>2, <4>1, CarriedWithout
      <4>3. QED BY <1>1, <4>2, PendingKept
    <3>3. QED BY <3>1, <3>2
  <2>5. SentSame
    BY <1>1, PeerSame
  <2>6. QED BY <1>1, <2>4, <2>5, TrimsIs
<1>7. QED BY <1>5, <1>6

\* channel_open_ex.
LEMMA MapsOpen ==
    ASSUME TypeOK, TypeOK', Connection, Unheard, open_ex
    PROVE  Trims \/ Creates
<1> DEFINE c == next_channel
<1>1. nextid = c
  BY NextId
<1>2. c \in Ids
  BY <1>1, Constants DEF open_ex, TypeOK, Ids
<1>3. UNCHANGED <<brigade, inq, tcp, peer, delivered, wrapped>>
  BY DEF open_ex, history
<1>4. PICK ok \in SendResults :
         ch' = IF ok THEN [d \in DOMAIN ch \cup {c} |-> IF d = c THEN NewChannel ELSE ch[d]] ELSE ch
  BY <1>1 DEF open_ex
<1>5. ok \in BOOLEAN
  BY SendingOk
<1>6. CASE ~ok
  <2>1. DOMAIN ch' = DOMAIN ch
    BY <1>4, <1>6
  <2>2. QED BY <1>3, <2>1, TrimsNot
<1>7. CASE ok
  <2>1. DOMAIN ch' = DOMAIN ch \cup {c}
    BY <1>4, <1>7
  <2>2. c \in Nat /\ c \notin DOMAIN ch \cup wrapped
    BY <1>2, Constants DEF Connection, Unheard, UnheardIds, Ids
  <2>3. Silent(c)
    <3>1. peer[c].st = "none"
      BY <1>2, <2>2 DEF Unheard, UnheardIds
    <3>2. QED BY <1>2, <3>1 DEF Unheard
  <2>4. ASSUME NEW s \in Streams, s[1] = c PROVE Pending(s) = <<>>
    <3>1. /\ Leads(Pending(s), Carried(brigade, s), Carried(inq, s))
          /\ Pending(s) \in Seq(Nat)
          /\ brigade \in Seq(Packets) /\ inq \in Seq(Packets)
      BY PendingIs
    <3>2. ASSUME NEW packets \in Seq(Packets),
                 \A i \in DOMAIN packets : packets[i].ch = c => packets[i].type \notin Types
          PROVE  Carried(packets, s) = <<>>
      <4>1. ASSUME NEW i \in DOMAIN packets PROVE BytesOf(s)[packets[i]] = <<>>
        <5>1. packets[i] \in Packets
          OBVIOUS
        <5>2. ~IsData(packets[i], s[1])
          BY <2>4, <3>2 DEF IsData
        <5>3. QED BY <5>1, <5>2, Bytes
      <4>2. QED BY <4>1, CarriedType
    <3>3. Carried(brigade, s) = <<>> /\ Carried(inq, s) = <<>>
      BY <2>3, <3>1, <3>2 DEF Silent
    <3>4. <<>> \in Seq(Nat) /\ Leads(Pending(s), <<>>, <<>>)
      BY <3>1, <3>3
    <3>5. QED BY <3>1, <3>4, LeadsNot
  <2>5. \A s : Pending(s)' = Pending(s)
    BY <1>3, PendingSame
  <2>6. SentSame
    BY <1>3, PeerSame
  <2> HIDE DEF c
  <2>7. QED BY <1>2, <1>3, <2>1, <2>2, <2>4, <2>5, <2>6 DEF Creates
<1>8. QED BY <1>5, <1>6, <1>7

----------------------------------------------------------------------------
(* Reads                                                                   *)

\* What it takes for a step to read.
LEMMA ReadsIs ==
    ASSUME NEW s \in Streams, NEW x \in Seq(Nat), s[1] \in DOMAIN ch,
           DOMAIN ch' = DOMAIN ch, tcp' = tcp, SentSame,
           wrapped' \in {wrapped, wrapped \cup {s[1]}}, Gains(s, x),
           Leads(Pending(s), x, Pending(s)'), \A t \in Streams \ {s} : Pending(t)' = Pending(t)
    PROVE  Reads
  BY Zenon DEF Reads

\* What a read takes is the first of its stream.
LEMMA ReadsTake ==
    ASSUME TypeOK, TypeOK', Places, Take
    PROVE  Reads
<1> DEFINE k == ReadNext
           p == brigade[k]
           all == call.n - call.k >= Len(p.bytes)
           want == IF all THEN Len(p.bytes) ELSE call.n - call.k
           x == SubSeq(p.bytes, 1, want)
<1>1. /\ k \in DOMAIN brigade /\ p \in Packets /\ IsData(p, call.c)
      /\ \A j \in Readable : k <= j
      /\ k \in Readable
  BY ReadIs DEF Take
<1>2. call.c \in Mine
  BY PlaceOps DEF Take
<1>2a. call.c \in DOMAIN ch /\ call.c \in Ids
  BY <1>2 DEF Mine, TypeOK
<1>3. PICK s \in Streams : s[1] = call.c /\ s[2] = Stream(p) /\ s = <<call.c, Stream(p)>>
  <2>1. <<call.c, Stream(p)>> \in Streams
    BY <1>2a DEF Stream, Streams
  <2>2. QED BY <2>1, Zenon
<1>4. p.bytes \in Seq(Nat) /\ want \in 0 .. Len(p.bytes)
  <2>1. p.bytes \in Seq(Nat)
    BY <1>1 DEF Packets
  <2>2. call.n - call.k \in Nat /\ Len(p.bytes) \in Nat
    BY <2>1, CallFields
  <2>3. QED BY <2>1, <2>2
<1>4a. p.bytes \in Seq(Nat)
  BY <1>4
<1>5. UNCHANGED <<inq, tcp, peer>>
  BY DEF Take
<1>5a. Gains(s, x)
  BY <1>3 DEF Take, Gains
<1>6. \/ /\ want = Len(p.bytes) /\ brigade' = Without(brigade, k)
         /\ receive_window_adjust(ch, call.c, ReadRefund(p, call.s), FALSE)
      \/ /\ brigade' = [brigade EXCEPT ![k].bytes = SubSeq(@, want + 1, Len(@))]
         /\ UNCHANGED <<ch, wrapped>>
  <2>1. CASE all
    BY <2>1 DEF Take
  <2>2. CASE ~all
    BY <2>2 DEF Take
  <2>3. QED BY <2>1, <2>2
<1>7. DOMAIN ch' = DOMAIN ch /\ wrapped' \in {wrapped, wrapped \cup {s[1]}}
  <2>1. ASSUME receive_window_adjust(ch, call.c, ReadRefund(p, call.s), FALSE)
        PROVE  DOMAIN ch' = DOMAIN ch /\ (wrapped' = wrapped \/ wrapped' = wrapped \cup {call.c})
    BY <2>1, AdjustShape
  <2>2. QED BY <1>3, <1>6, <2>1
<1>8. brigade \in Seq(Packets) /\ brigade' \in Seq(Packets) /\ DOMAIN brigade = 1 .. Len(brigade)
      /\ \A i \in DOMAIN brigade : brigade[i] \in Packets
  BY DEF TypeOK
<1>9. ASSUME NEW i \in DOMAIN brigade, i < k PROVE BytesOf(s)[brigade[i]] = <<>>
  <2>1. i \notin Readable
    BY <1>1, <1>8, <1>9
  <2>2. Stream(p) = call.s \/ (call.s = 0 /\ ch[call.c].mode = "MERGE")
    BY <1>1 DEF Readable
  <2>3. ~(IsData(brigade[i], call.c) /\ Stream(brigade[i]) = Stream(p))
    BY <2>1, <2>2 DEF Readable
  <2>4. QED BY <1>3, <1>8, <2>3, Bytes
<1>10. BytesOf(s)[p] = p.bytes /\ \A t \in Streams \ {s} : BytesOf(t)[p] = <<>>
  <2>1. BytesOf(s)[p] = p.bytes
    BY <1>1, <1>3, Bytes
  <2>2. ASSUME NEW t \in Streams \ {s} PROVE BytesOf(t)[p] = <<>>
    <3>1. t = <<t[1], t[2]>>
      BY StreamIs
    <3>2. ~(IsData(p, t[1]) /\ Stream(p) = t[2])
      BY <1>1, <1>3, <3>1 DEF IsData
    <3>3. QED BY <1>1, <3>2, Bytes
  <2>3. QED BY <2>1, <2>2
<1>10a. s[1] \in DOMAIN ch /\ s \in Streams
  BY <1>2a, <1>3
<1> HIDE DEF k, all, want
<1>11. CASE want = Len(p.bytes) /\ brigade' = Without(brigade, k)
  <2>1. x = p.bytes
    BY <1>4, <1>11
  <2>2. Leads(Carried(brigade, s), p.bytes, Carried(brigade', s))
    BY <1>1, <1>8, <1>9, <1>10, <1>11, CarriedWithout
  <2>3. Leads(Pending(s), p.bytes, Pending(s)')
    BY <1>4a, <1>5, <1>10a, <2>2, LeadsPending
  <2>4. ASSUME NEW t \in Streams \ {s} PROVE Pending(t)' = Pending(t)
    <3>1. Carried(brigade', t) = Carried(brigade, t)
      BY <1>1, <1>8, <1>10, <1>11, CarriedWithout
    <3>2. QED BY <1>5, <3>1, PendingKept
  <2>5. x \in Seq(Nat) /\ Leads(Pending(s), x, Pending(s)')
    BY <1>4, <2>1, <2>3
  <2>6. SentSame
    BY <1>5, PeerSame
  <2>6a. Gains(s, x)
    BY <1>5a
  <2> HIDE DEF x
  <2>7. QED BY <1>5, <1>7, <1>10a, <2>4, <2>5, <2>6, <2>6a, ReadsIs
<1>12. CASE brigade' = [brigade EXCEPT ![k].bytes = SubSeq(@, want + 1, Len(@))]
  <2> DEFINE r == SubSeq(p.bytes, want + 1, Len(p.bytes))
             q == [p EXCEPT !.bytes = r]
  <2>0. x \in Seq(Nat) /\ r \in Seq(Nat)
    BY <1>4, Rejoins
  <2>1. p.bytes = x \o r
    BY <1>4, Rejoins
  <2> HIDE DEF r, x
  <2>2. brigade' = [brigade EXCEPT ![k] = q]
    BY <1>1, <1>8, <1>12 DEF r
  <2>3. q \in Packets /\ q.type = p.type /\ q.ch = p.ch /\ q.bytes = r
    <3>1. r \in Seq(Nat)
      BY <2>0
    <3>2. QED BY <1>1, <3>1 DEF Packets
  <2>4. /\ Len(brigade') = Len(brigade) /\ brigade'[k] = q
        /\ \A i \in DOMAIN brigade : i # k => brigade'[i] = brigade[i]
        /\ DOMAIN brigade' = DOMAIN brigade
    BY <1>1, <1>8, <2>2
  <2> HIDE DEF q
  <2>5. BytesOf(s)[q] = r /\ \A t \in Streams \ {s} : BytesOf(t)[q] = <<>>
    <3>1. \A t : (IsData(q, t[1]) /\ Stream(q) = t[2]) <=> (IsData(p, t[1]) /\ Stream(p) = t[2])
      BY <2>3 DEF IsData, Stream
    <3>2. IsData(p, s[1]) /\ Stream(p) = s[2]
      BY <1>1, <1>3
    <3>3. BytesOf(s)[q] = r
      BY <2>3, <3>1, <3>2, Bytes
    <3>4. ASSUME NEW t \in Streams \ {s} PROVE BytesOf(t)[q] = <<>>
      <4>1. t = <<t[1], t[2]>> /\ s = <<s[1], s[2]>>
        BY <1>3, StreamIs
      <4>2. ~(IsData(p, t[1]) /\ Stream(p) = t[2])
        BY <3>2, <4>1 DEF IsData
      <4>3. QED BY <2>3, <3>1, <4>2, Bytes
    <3>5. QED BY <3>3, <3>4
  <2>6. Leads(Carried(brigade, s), x, Carried(brigade', s))
    <3> DEFINE f == BytesOf(s)
    <3>1. f \in [Packets -> Seq(Nat)]
      BY Bytes
    <3>2. f[brigade[k]] = x \o f[brigade'[k]]
      BY <1>10, <2>1, <2>4, <2>5, Zenon
    <3>3. \A i \in 1 .. k - 1 : f[brigade[i]] = <<>>
      BY <1>1, <1>8, <1>9
    <3>4. k \in 1 .. Len(brigade) /\ Len(brigade') = Len(brigade)
      BY <1>1, <1>8, <2>4
    <3>5. \A i \in 1 .. Len(brigade) : i # k => brigade'[i] = brigade[i]
      BY <1>8, <2>4
    <3>6. Lessens(brigade, brigade', f, x, k)
      BY <3>2, <3>3, <3>4, <3>5, Zenon DEF Lessens
    <3>7. Lessens(brigade, brigade', BytesOf(s), x, k)
      BY <3>6
    <3> HIDE DEF f
    <3>8. QED BY <1>8, <2>0, <3>7, CarriedExcept
  <2>7. Leads(Pending(s), x, Pending(s)')
    BY <1>5, <1>10a, <2>0, <2>6, LeadsPending
  <2>8. ASSUME NEW t \in Streams \ {s} PROVE Pending(t)' = Pending(t)
    <3>1. \A i \in DOMAIN brigade : BytesOf(t)[brigade'[i]] = BytesOf(t)[brigade[i]]
      BY <1>10, <2>4, <2>5
    <3>2. [i \in DOMAIN brigade' |-> BytesOf(t)[brigade'[i]]] =
          [i \in DOMAIN brigade |-> BytesOf(t)[brigade[i]]]
      BY <2>4, <3>1
    <3>3. Carried(brigade', t) = Carried(brigade, t)
      BY <3>2 DEF Carried, Chained, Mapped
    <3>4. QED BY <1>5, <3>3, PendingKept
  <2>9. SentSame
    BY <1>5, PeerSame
  <2>10. x \in Seq(Nat) /\ Gains(s, x)
    BY <1>5a, <2>0 DEF x
  <2>11. QED BY <1>5, <1>7, <1>10a, <2>7, <2>8, <2>9, <2>10, ReadsIs
<1>13. QED BY <1>6, <1>11, <1>12

----------------------------------------------------------------------------
(* Packets that arrive                                                     *)

\* A stream that is ignored has nothing in the brigade: what was there is flushed, and
\* packet_add files no more of it.
Discards ==
    \A c \in DOMAIN ch : ch[c].mode = "IGNORE" =>
       \A i \in DOMAIN brigade : brigade[i].ch = c => brigade[i].type # "EXTENDED_DATA"

\* What a packet that is read does to a stream.
LEMMA PendingReceived ==
    ASSUME TypeOK, TypeOK', NEW p \in Packets, inq # <<>>, p = Head(inq), inq' = Tail(inq), NEW s
    PROVE  /\ BytesOf(s)[p] = <<>> /\ brigade' = brigade => Pending(s)' = Pending(s)
           /\ Leads(Carried(brigade', s), Carried(brigade, s), BytesOf(s)[p]) =>
                 Pending(s)' = Pending(s)
           /\ Carried(brigade, s) = <<>> /\ brigade' = brigade =>
                 Leads(Pending(s), BytesOf(s)[p], Pending(s)')
<1> DEFINE P == Pending(s)
           Q == Pending(s)'
           a == Carried(brigade, s)
           b == Carried(brigade', s)
           i == Carried(inq, s)
           j == Carried(inq', s)
           x == BytesOf(s)[p]
<1>1. /\ Leads(P, a, i) /\ Leads(Q, b, j)
      /\ a \in Seq(Nat) /\ b \in Seq(Nat) /\ i \in Seq(Nat) /\ j \in Seq(Nat)
  BY PendingIs
<1>2. inq \in Seq(Packets)
  BY DEF TypeOK
<1>3. Leads(i, x, j) /\ x \in Seq(Nat)
  BY <1>2, CarriedTail, Bytes
<1>4. brigade' = brigade => b = a
  OBVIOUS
<1> HIDE DEF P, Q, a, b, i, j, x
<1>5. ASSUME x = <<>>, b = a PROVE Q = P
  <2>1. Leads(i, <<>>, j)
    BY <1>3, <1>5
  <2>2. i = j
    BY <1>1, <2>1, LeadsNot
  <2>3. QED BY <1>1, <1>5, <2>2, Zenon DEF Leads
<1>6. ASSUME Leads(b, a, x) PROVE Q = P
  BY <1>1, <1>3, <1>6, LeadsMoved
<1>7. ASSUME a = <<>>, b = a PROVE Leads(P, x, Q)
  <2>1. Leads(P, <<>>, i) /\ Leads(Q, <<>>, j)
    BY <1>1, <1>7
  <2>2. QED BY <1>1, <1>3, <2>1, LeadsNone
<1>8. QED BY <1>4, <1>5, <1>6, <1>7 DEF P, Q, a, b, x

\* Data that the window is large enough for is filed as it is (packet_add).
LEMMA DataKept ==
    ASSUME TypeOK, Sized, Windows, NEW p \in Packets, inq # <<>>, p = Head(inq), inq' = Tail(inq),
           AddData(p), p.ch \notin wrapped
    PROVE  \/ brigade' = brigade /\ p.bytes = <<>>
           \/ \E q \in Packets : /\ brigade' = Append(brigade, q) /\ q.type = p.type
                                 /\ q.ch = p.ch /\ q.bytes = p.bytes
<1> DEFINE c == p.ch
           n == IF p.n > PacketDefault THEN PacketDefault ELSE p.n
           kept == IF n > ch[c].rwin THEN ch[c].rwin ELSE n
           q == [p EXCEPT !.bytes = SubSeq(@, 1, kept), !.n = kept]
<1>1. /\ c \in DOMAIN ch /\ p.type \in Types
      /\ IF ch[c].rwin = 0 THEN brigade' = brigade ELSE brigade' = Append(brigade, q)
  BY DEF AddData, Known
<1>2. inq \in Seq(Packets) /\ 1 \in DOMAIN inq /\ p = inq[1]
  <2>1. inq \in Seq(Packets)
    BY DEF TypeOK
  <2>2. QED BY <2>1, TailIs
<1>3. p.n <= PacketDefault /\ Len(p.bytes) = p.n /\ p.n \in Nat /\ p.bytes \in Seq(Nat)
      /\ PacketDefault \in Nat
  BY <1>1, <1>2, Constants DEF Sized, Packets
<1>4. p.n <= ch[c].rwin /\ ch[c].rwin \in Nat
  <2>1. DataOf(inq, c) <= ch[c].rwin
    BY <1>1 DEF Windows, WindowOf
  <2>2. DataOf(inq, c) = DataOf(inq', c) + IF IsData(p, c) THEN p.n ELSE 0
    BY <1>2, SumsTail
  <2>3. IsData(p, c)
    BY <1>1 DEF IsData
  <2>4. DataOf(inq', c) \in Nat
    <3>1. inq' \in Seq(Packets)
      BY <1>2, TailIs
    <3>2. QED BY <3>1, SumsType
  <2>5. ch[c].rwin \in Nat
    BY <1>1, ChannelFields
  <2> HIDE DEF c
  <2>6. QED BY <1>3, <2>1, <2>2, <2>3, <2>4, <2>5
<1>5. kept = p.n
  BY <1>3, <1>4
<1>6. CASE ch[c].rwin = 0
  <2>1. p.n = 0
    BY <1>3, <1>4, <1>6
  <2>2. p.bytes = <<>>
    BY <1>3, <2>1
  <2>3. QED BY <1>1, <1>6, <2>2
<1>7. CASE ch[c].rwin # 0
  <2>1. brigade' = Append(brigade, q)
    BY <1>1, <1>7
  <2>2. SubSeq(p.bytes, 1, kept) = p.bytes
    BY <1>3, <1>5
  <2> HIDE DEF kept
  <2>3. q = [p EXCEPT !.bytes = p.bytes, !.n = kept]
    BY <2>2
  <2>4. kept \in Nat
    BY <1>3, <1>5
  <2>5. q \in Packets /\ q.type = p.type /\ q.ch = p.ch /\ q.bytes = p.bytes
    BY <1>3, <2>3, <2>4 DEF Packets
  <2> HIDE DEF q
  <2>6. QED BY <2>1, <2>5
<1>8. QED BY <1>6, <1>7

\* A packet that arrives is filed with its stream, or it is of a stream that is ignored.
LEMMA TrimsReceive ==
    ASSUME TypeOK, TypeOK', Sized, Windows, Discards, Receive
    PROVE  Trims
<1>1. inq \in Seq(Packets) /\ inq # <<>> /\ brigade \in Seq(Packets)
      /\ \A i \in DOMAIN brigade : brigade[i] \in Packets
  BY DEF TypeOK, Receive
<1>2. PICK p \in Packets : p = Head(inq)
  BY <1>1, TailIs
<1>3. packet_add(p) /\ inq' = Tail(inq) /\ UNCHANGED <<tcp, peer, delivered>>
  BY <1>2 DEF Receive
<1>4. SentSame
  BY <1>3, PeerSame
<1>5. CASE \/ AddDisconnect(p) \/ AddNothing(p) \/ AddEof(p) \/ AddExitStatus(p) \/ AddClose(p)
           \/ AddOpen(p) \/ AddWindowAdjust(p)
  <2>1. brigade' = brigade /\ wrapped' = wrapped /\ DOMAIN ch' = DOMAIN ch
    BY <1>5 DEF AddDisconnect, AddNothing, AddEof, AddExitStatus, AddClose, AddOpen,
                AddWindowAdjust
  <2>2. ASSUME NEW s \in Streams, s[1] \in DOMAIN ch PROVE Pending(s)' = Pending(s)
    <3>1. ~IsData(p, s[1])
      BY <1>5, <2>2 DEF AddDisconnect, AddNothing, AddEof, AddExitStatus, AddClose, AddOpen,
                        AddWindowAdjust, IsData, Types, Known
    <3>2. BytesOf(s)[p] = <<>>
      BY <3>1, Bytes
    <3>3. QED BY <1>1, <1>2, <1>3, <2>1, <3>2, PendingReceived
  <2>3. QED BY <1>3, <1>4, <2>1, <2>2, TrimsIs
<1>6. CASE AddToBrigade(p)
  <2>1. brigade' = Append(brigade, p) /\ wrapped' = wrapped /\ DOMAIN ch' = DOMAIN ch
    BY <1>6 DEF AddToBrigade
  <2>2. ASSUME NEW s \in Streams PROVE Pending(s)' = Pending(s)
    <3>1. Leads(Carried(brigade', s), Carried(brigade, s), BytesOf(s)[p])
      BY <1>1, <2>1, CarriedAppend
    <3>2. QED BY <1>1, <1>2, <1>3, <3>1, PendingReceived
  <2>3. QED BY <1>3, <1>4, <2>1, <2>2, TrimsIs
<1>7. CASE AddIgnored(p)
  <2>1. /\ brigade' = brigade /\ p.type = "EXTENDED_DATA" /\ p.ch \in DOMAIN ch
        /\ ch[p.ch].mode = "IGNORE" /\ receive_window_adjust(ch, p.ch, p.n, FALSE)
    BY <1>7 DEF AddIgnored, Known
  <2>2. DOMAIN ch' = DOMAIN ch /\ (wrapped' = wrapped \/ wrapped' = wrapped \cup {p.ch})
    BY <2>1, AdjustShape
  <2>3. ASSUME NEW s \in Streams
        PROVE  \/ Pending(s)' = Pending(s)
               \/ s[1] = p.ch /\ \E x \in Seq(Nat) : Leads(Pending(s), x, Pending(s)')
    <3>1. CASE s[1] = p.ch /\ s[2] = 1
      <4>1. ASSUME NEW i \in DOMAIN brigade PROVE BytesOf(s)[brigade[i]] = <<>>
        <5>1. brigade[i].ch = p.ch => brigade[i].type # "EXTENDED_DATA"
          BY <2>1 DEF Discards
        <5>2. ~(IsData(brigade[i], s[1]) /\ Stream(brigade[i]) = s[2])
          BY <3>1, <5>1 DEF IsData, Stream, Types
        <5>3. QED BY <1>1, <5>2, Bytes
      <4>2. Carried(brigade, s) = <<>>
        BY <1>1, <4>1, CarriedType
      <4>3. Leads(Pending(s), BytesOf(s)[p], Pending(s)') /\ BytesOf(s)[p] \in Seq(Nat)
        BY <1>1, <1>2, <1>3, <2>1, <4>2, PendingReceived, Bytes
      <4>4. QED BY <3>1, <4>3
    <3>2. CASE ~(s[1] = p.ch /\ s[2] = 1)
      <4>1. ~(IsData(p, s[1]) /\ Stream(p) = s[2])
        BY <2>1, <3>2 DEF IsData, Stream
      <4>2. BytesOf(s)[p] = <<>>
        BY <4>1, Bytes
      <4>3. QED BY <1>1, <1>2, <1>3, <2>1, <4>2, PendingReceived
    <3>3. QED BY <3>1, <3>2
  <2>4. QED BY <1>3, <1>4, <2>1, <2>2, <2>3, TrimsIs
<1>8. CASE AddData(p)
  <2>1. wrapped' = wrapped /\ DOMAIN ch' = DOMAIN ch /\ p.type \in Types
    BY <1>8 DEF AddData
  <2>2. ASSUME NEW s \in Streams, s[1] \notin wrapped PROVE Pending(s)' = Pending(s)
    <3>1. CASE s[1] # p.ch
      <4>1. BytesOf(s)[p] = <<>>
        BY <3>1, Bytes DEF IsData
      <4>2. CASE brigade' = brigade
        BY <1>1, <1>2, <1>3, <4>1, <4>2, PendingReceived
      <4>3. CASE brigade' # brigade
        <5>1. PICK q \in Packets : brigade' = Append(brigade, q) /\ q.ch = p.ch
          <6>1. Filed(p)
            <7>1. Len(p.bytes) = p.n
              BY <1>1, <1>2, <2>1, TailIs DEF Sized
            <7>2. QED BY <1>8, <7>1, FiledData
          <6>2. QED BY <4>3, <6>1 DEF Filed, Files
        <5>2. BytesOf(s)[q] = <<>>
          BY <3>1, <5>1, Bytes DEF IsData
        <5>3. Leads(Carried(brigade', s), Carried(brigade, s), BytesOf(s)[p])
          BY <1>1, <4>1, <5>1, <5>2, CarriedAppend
        <5>4. QED BY <1>1, <1>2, <1>3, <5>3, PendingReceived
      <4>4. QED BY <4>2, <4>3
    <3>2. CASE s[1] = p.ch
      <4>1. \/ brigade' = brigade /\ p.bytes = <<>>
            \/ \E q \in Packets : /\ brigade' = Append(brigade, q) /\ q.type = p.type
                                  /\ q.ch = p.ch /\ q.bytes = p.bytes
        BY <1>1, <1>2, <1>3, <1>8, <2>2, <3>2, DataKept
      <4>2. CASE brigade' = brigade /\ p.bytes = <<>>
        <5>1. BytesOf(s)[p] = <<>>
          BY <4>2, Bytes
        <5>2. QED BY <1>1, <1>2, <1>3, <4>2, <5>1, PendingReceived
      <4>3. ASSUME NEW q \in Packets, brigade' = Append(brigade, q), q.type = p.type,
                   q.ch = p.ch, q.bytes = p.bytes
            PROVE  Pending(s)' = Pending(s)
        <5>1. (IsData(q, s[1]) /\ Stream(q) = s[2]) <=> (IsData(p, s[1]) /\ Stream(p) = s[2])
          BY <4>3 DEF IsData, Stream
        <5>2. BytesOf(s)[q] = BytesOf(s)[p]
          BY <4>3, <5>1, Bytes
        <5>3. Leads(Carried(brigade', s), Carried(brigade, s), BytesOf(s)[p])
          BY <1>1, <4>3, <5>2, CarriedAppend
        <5>4. QED BY <1>1, <1>2, <1>3, <5>3, PendingReceived
      <4>4. QED BY <4>1, <4>2, <4>3
    <3>3. QED BY <3>1, <3>2
  <2>3. QED BY <1>3, <1>4, <2>1, <2>2, TrimsIs
<1>9. QED BY <1>3, <1>5, <1>6, <1>7, <1>8 DEF packet_add

----------------------------------------------------------------------------
(* Channels that are ignored                                               *)

\* No channel begins to be ignored.
ModesKept == \A c \in DOMAIN ch' : ch'[c].mode = "IGNORE" => c \in DOMAIN ch /\ ch[c].mode = "IGNORE"

\* A brigade that shrinks, and channels that are not set to ignore, keep Discards.
LEMMA DiscardsKept ==
    ASSUME Discards, Shrinks, ModesKept
    PROVE  Discards'
<1>1. ASSUME NEW c \in DOMAIN ch', ch'[c].mode = "IGNORE", NEW j \in DOMAIN brigade',
             brigade'[j].ch = c
      PROVE  brigade'[j].type # "EXTENDED_DATA"
  <2>1. PICK i \in DOMAIN brigade : Same(brigade'[j], brigade[i])
    BY DEF Shrinks
  <2>2. c \in DOMAIN ch /\ ch[c].mode = "IGNORE" /\ brigade[i].ch = c
    BY <1>1, <2>1 DEF ModesKept, Same
  <2>3. QED BY <2>1, <2>2 DEF Discards, Same
<1>2. QED BY <1>1 DEF Discards

\* No channel changes.
LEMMA ModesNot ==
    ASSUME ch' = ch
    PROVE  ModesKept
  BY DEF ModesKept

\* A channel changes, and its mode does not.
LEMMA ModesExcept ==
    ASSUME NEW c, NEW r, r.mode = ch[c].mode, ch' = [ch EXCEPT ![c] = r]
    PROVE  ModesKept
  BY DEF ModesKept

\* A window that is granted leaves the modes alone.
LEMMA AdjustModes ==
    ASSUME TypeOK, NEW chans, DOMAIN chans = DOMAIN ch, NEW c \in DOMAIN ch,
           chans[c] \in ChannelRecords, NEW n, NEW force, receive_window_adjust(chans, c, n, force)
    PROVE  \A d \in DOMAIN ch : ch'[d].mode = chans[d].mode
<1>1. PICK ok \in SendResults : ch' = [chans EXCEPT ![c] = Adjusted(@, n, force, ok)]
  BY DEF receive_window_adjust
<1>2. Adjusted(chans[c], n, force, ok).mode = chans[c].mode
  BY DEF Adjusted, ChannelRecords
<1>3. QED BY <1>1, <1>2

\* Nor does a call that begins, if it is not the one that sets the mode.
LEMMA ModesBegin ==
    ASSUME TypeOK, NEW o, Begin(o), ~(o.op = "extended" /\ handle_extended_data(o.c, o.arg))
    PROVE  ModesKept
<1>1. CASE \/ Returns(o) \/ read_ex(o.c, 0, o.arg) \/ read_ex(o.c, 1, o.arg)
           \/ write_ex(o.c, o.arg) \/ wait_closed(o.c) \/ setenv_ex(o.c) \/ request_pty_ex(o.c)
           \/ x11_req_ex(o.c) \/ process_startup(o.c)
  <2>1. ch' = ch
    BY <1>1 DEF Returns, read_ex, write_ex, wait_closed, setenv_ex, request_pty_ex, x11_req_ex,
                process_startup, Request, clientVars
  <2>2. QED BY <2>1, ModesNot
<1>2. ch \in [DOMAIN ch -> ChannelRecords]
  BY DEF TypeOK
<1>3. CASE open_ex
  <2>1. PICK ok : ch' = IF ok THEN [c \in DOMAIN ch \cup {nextid} |->
                                      IF c = nextid THEN NewChannel ELSE ch[c]] ELSE ch
    BY <1>3 DEF open_ex
  <2>2. NewChannel.mode # "IGNORE"
    BY DEF NewChannel
  <2>3. ASSUME NEW c \in DOMAIN ch', ch'[c].mode = "IGNORE"
        PROVE  c \in DOMAIN ch /\ ch[c].mode = "IGNORE"
    <3>1. c \in DOMAIN ch => ch'[c] = NewChannel \/ ch'[c] = ch[c]
      BY <2>1
    <3>2. c \notin DOMAIN ch => ch'[c] = NewChannel
      BY <2>1, <2>3
    <3>3. ch'[c] # NewChannel
      BY <2>2, <2>3
    <3>4. QED BY <2>3, <3>1, <3>2, <3>3
  <2>4. QED BY <2>3 DEF ModesKept
<1>4. CASE o.c \in Mine /\ (send_eof(o.c) \/ close(o.c) \/ set_blocking(o.c, o.arg) \/ free(o.c))
  <2>1. \/ ch' = ch
        \/ \E v : \/ ch' = [ch EXCEPT ![o.c].leof = v] \/ ch' = [ch EXCEPT ![o.c].lclose = v]
                  \/ ch' = [ch EXCEPT ![o.c].blocking = v]
    BY <1>4 DEF send_eof, close, Close, set_blocking, free
  <2>2. ASSUME NEW v PROVE /\ [ch[o.c] EXCEPT !.leof = v].mode = ch[o.c].mode
                           /\ [ch[o.c] EXCEPT !.lclose = v].mode = ch[o.c].mode
                           /\ [ch[o.c] EXCEPT !.blocking = v].mode = ch[o.c].mode
    <3>1. ch[o.c] \in ChannelRecords
      BY <1>2, <1>4 DEF Mine
    <3>2. QED BY <3>1 DEF ChannelRecords
  <2>3. ASSUME NEW v PROVE /\ ch' = [ch EXCEPT ![o.c].leof = v] => ModesKept
                           /\ ch' = [ch EXCEPT ![o.c].lclose = v] => ModesKept
                           /\ ch' = [ch EXCEPT ![o.c].blocking = v] => ModesKept
    BY <2>2, ModesExcept
  <2>4. QED BY <2>1, <2>3, ModesNot
<1>5. CASE o.c \in Mine /\ (force_adjust(o.c) \/ flush_ex(o.c, o.arg))
  <2>1. o.c \in DOMAIN ch
    BY <1>5 DEF Mine
  <2>2. ch' = ch \/ \E n, force : receive_window_adjust(ch, o.c, n, force)
    BY <1>5 DEF force_adjust, flush_ex, Flush
  <2>3. ASSUME NEW n, NEW force, receive_window_adjust(ch, o.c, n, force) PROVE ModesKept
    <3>1. DOMAIN ch' = DOMAIN ch
      BY <2>3, AdjustShape
    <3>2. \A d \in DOMAIN ch : ch'[d].mode = ch[d].mode
      BY <1>2, <2>1, <2>3, AdjustModes
    <3>3. QED BY <3>1, <3>2 DEF ModesKept
  <2>4. QED BY <2>2, <2>3, ModesNot
<1>6. QED BY <1>1, <1>3, <1>4, <1>5 DEF Begin

\* Nor does a call that goes on, or a packet that is not read.
LEMMA ModesGoes ==
    ASSUME TypeOK, Places, Goes, ~Receive
    PROVE  ModesKept
<1>1. CASE \/ NotThere \/ ReadNothing \/ ReadEnds \/ WaitEnds \/ PollNothing \/ ReadFails
           \/ WriteFails \/ WaitFails \/ Clear
  <2>1. ch' = ch
    BY <1>1 DEF NotThere, ReadNothing, ReadEnds, WaitEnds, PollNothing, NothingYet, clientVars,
                ReadFails, WriteFails, WaitFails, ReadError, Clear
  <2>2. QED BY <2>1, ModesNot
<1>2. CASE OpenFailed \/ NoAnswer \/ AwaitError \/ Unlink
  <2>1. ch' = ch \/ ch' = Unlinked(call.c)
    BY <1>2 DEF OpenFailed, NoAnswer, AwaitError, Unlink, GiveUp
  <2>2. QED BY <2>1 DEF Unlinked, ModesKept
<1>3. ch \in [DOMAIN ch -> ChannelRecords]
  BY DEF TypeOK
<1>4. CASE Answered \/ WriteData
  <2>1. \/ ch' = ch \/ \E v : ch' = [ch EXCEPT ![call.c].lwin = v]
        \/ \E v : ch' = [ch EXCEPT ![call.c].lwin = v, ![call.c].confirmed = TRUE]
    BY <1>4 DEF Answered, WriteData
  <2>2. ASSUME NEW v, call.c \in DOMAIN ch
        PROVE  /\ [ch[call.c] EXCEPT !.lwin = v].mode = ch[call.c].mode
               /\ [[ch[call.c] EXCEPT !.lwin = v] EXCEPT !.confirmed = TRUE].mode = ch[call.c].mode
    <3>1. ch[call.c] \in ChannelRecords
      BY <1>3, <2>2
    <3>2. QED BY <3>1 DEF ChannelRecords
  <2>3. CASE ch' = ch \/ \E v : ch' = [ch EXCEPT ![call.c].lwin = v]
    BY <2>2, <2>3 DEF ModesKept
  <2>4. ASSUME NEW v, ch' = [ch EXCEPT ![call.c].lwin = v, ![call.c].confirmed = TRUE]
        PROVE  ModesKept
    <3>1. ASSUME NEW d \in DOMAIN ch PROVE ch'[d].mode = ch[d].mode
      <4>1. CASE d # call.c
        BY <2>4, <4>1
      <4>2. CASE d = call.c
        <5>1. ch'[d] = [[ch[call.c] EXCEPT !.lwin = v] EXCEPT !.confirmed = TRUE]
          BY <2>4, <4>2
        <5>2. QED BY <2>2, <4>2, <5>1
      <4>3. QED BY <4>1, <4>2
    <3>2. DOMAIN ch' = DOMAIN ch
      BY <2>4
    <3>3. QED BY <3>1, <3>2 DEF ModesKept
  <2>5. QED BY <2>1, <2>3, <2>4
<1>5. CASE Take
  <2>1. call.c \in DOMAIN ch
    BY <1>5, PlaceOps DEF Take, Mine
  <2>2. ch' = ch \/ \E n : receive_window_adjust(ch, call.c, n, FALSE)
    BY <1>5 DEF Take
  <2>3. ASSUME NEW n, receive_window_adjust(ch, call.c, n, FALSE) PROVE ModesKept
    <3>1. DOMAIN ch' = DOMAIN ch
      BY <2>3, AdjustShape
    <3>2. \A d \in DOMAIN ch : ch'[d].mode = ch[d].mode
      BY <1>3, <2>1, <2>3, AdjustModes
    <3>3. QED BY <3>1, <3>2 DEF ModesKept
  <2>4. QED BY <2>2, <2>3, ModesNot
<1>6. ~(AwaitPacket \/ ReadPacket \/ WriteWaits \/ WaitPacket \/ PollPacket)
  BY DEF AwaitPacket, ReadPacket, WriteWaits, WaitPacket, PollPacket
<1>7. QED BY <1>1, <1>2, <1>4, <1>5, <1>6 DEF Goes

\* The call that sets the mode flushes what there is of a stream it ignores.
LEMMA DiscardsExtended ==
    ASSUME TypeOK, Discards, NEW c \in Mine, NEW mode \in Modes, handle_extended_data(c, mode)
    PROVE  Discards'
<1> DEFINE chans == [ch EXCEPT ![c].mode = mode]
<1>1. c \in DOMAIN ch /\ chans \in [DOMAIN ch -> ChannelRecords]
  BY ModeSet
<1>1a. DOMAIN chans = DOMAIN ch /\ chans[c] \in ChannelRecords
  BY <1>1
<1>2. ch[c] \in ChannelRecords
  BY <1>1 DEF TypeOK
<1>3. chans[c].mode = mode /\ \A d \in DOMAIN ch : d # c => chans[d] = ch[d]
  BY <1>1, <1>2 DEF ChannelRecords
<1>4. CASE mode # "IGNORE"
  <2>1. ch' = chans /\ brigade' = brigade
    BY <1>4 DEF handle_extended_data
  <2> HIDE DEF chans
  <2>2. ModesKept
    BY <1>1a, <1>3, <1>4, <2>1 DEF ModesKept
  <2>3. QED BY <2>1, <2>2, ShrinksNot, DiscardsKept
<1>5. CASE mode = "IGNORE"
  <2> DEFINE flushed == {i \in DOMAIN brigade : Flushes(brigade[i], c, "EXTENDED_DATA")}
             at == DOMAIN brigade \ flushed
  <2>1. Flush(chans, c, "EXTENDED_DATA")
    BY <1>5 DEF handle_extended_data
  <2> HIDE DEF chans
  <2>2. /\ brigade' = Picked(brigade, at)
        /\ ch' = chans \/ \E n : receive_window_adjust(chans, c, n, FALSE)
    BY <2>1 DEF Flush
  <2>3. DOMAIN ch' = DOMAIN ch
    <3>1. ASSUME NEW n, receive_window_adjust(chans, c, n, FALSE) PROVE DOMAIN ch' = DOMAIN chans
      BY <3>1, AdjustShape
    <3>2. QED BY <1>1a, <2>2, <3>1
  <2>4. \A d \in DOMAIN ch : ch'[d].mode = chans[d].mode
    <3>1. ASSUME NEW n, receive_window_adjust(chans, c, n, FALSE)
          PROVE  \A d \in DOMAIN ch : ch'[d].mode = chans[d].mode
      BY <1>1, <1>1a, <3>1, AdjustModes
    <3>2. QED BY <2>2, <3>1
  <2>5. /\ brigade \in Seq(Packets) /\ DOMAIN brigade = 1 .. Len(brigade)
    BY DEF TypeOK
  <2>6. \A i \in at : i \in DOMAIN brigade /\ ~Flushes(brigade[i], c, "EXTENDED_DATA")
    OBVIOUS
  <2> HIDE DEF at
  <2>7. /\ brigade' \in Seq(Packets)
        /\ \A j \in 1 .. Len(brigade') : \E i \in 1 .. Len(brigade) :
              i \in at /\ brigade'[j] = brigade[i]
    <3>1. ASSUME NEW packets \in Seq(Packets)
          PROVE  /\ Picked(packets, at) \in Seq(Packets)
                 /\ \A j \in 1 .. Len(Picked(packets, at)) :
                       \E i \in 1 .. Len(packets) : i \in at /\ Picked(packets, at)[j] = packets[i]
      BY PickedType
    <3>2. QED BY <2>2, <2>5, <3>1
  <2>8. ASSUME NEW d \in DOMAIN ch', ch'[d].mode = "IGNORE", NEW j \in DOMAIN brigade',
               brigade'[j].ch = d
        PROVE  brigade'[j].type # "EXTENDED_DATA"
    <3>1. PICK i \in DOMAIN brigade : i \in at /\ brigade'[j] = brigade[i]
      BY <2>5, <2>7
    <3>2. CASE d = c
      BY <2>6, <2>8, <3>1, <3>2 DEF Flushes, IsData, Types
    <3>3. CASE d # c
      <4>1. ch[d].mode = "IGNORE" /\ d \in DOMAIN ch
        BY <1>3, <2>3, <2>4, <2>8, <3>3
      <4>2. QED BY <2>8, <3>1, <4>1 DEF Discards
    <3>4. QED BY <3>2, <3>3
  <2>9. QED BY <2>8 DEF Discards
<1>6. QED BY <1>4, <1>5

\* packet_add sets no mode, and files nothing of a stream that is ignored.
LEMMA DiscardsReceive ==
    ASSUME TypeOK, TypeOK', Sized, Discards, Receive
    PROVE  Discards'
<1>1. inq \in Seq(Packets) /\ inq # <<>> /\ brigade \in Seq(Packets)
      /\ ch \in [DOMAIN ch -> ChannelRecords]
  BY DEF TypeOK, Receive
<1>2. PICK p \in Packets : p = Head(inq)
  BY <1>1, TailIs
<1>3. packet_add(p)
  BY <1>2 DEF Receive
<1>4. Filed(p)
  BY <1>2, ReceiveArrives DEF Arrives
<1>5. ModesKept
  <2>1. CASE AddDisconnect(p) \/ AddNothing(p) \/ AddOpen(p) \/ AddToBrigade(p)
    <3>1. ch' = ch
      BY <2>1 DEF AddDisconnect, AddNothing, AddOpen, AddToBrigade
    <3>2. QED BY <3>1, ModesNot
  <2>2. CASE AddIgnored(p)
    <3>1. p.ch \in DOMAIN ch /\ receive_window_adjust(ch, p.ch, p.n, FALSE)
      BY <2>2 DEF AddIgnored, Known
    <3>2. DOMAIN ch' = DOMAIN ch
      BY <3>1, AdjustShape
    <3>3. \A d \in DOMAIN ch : ch'[d].mode = ch[d].mode
      BY <1>1, <3>1, AdjustModes
    <3>4. QED BY <3>2, <3>3 DEF ModesKept
  <2>3. CASE AddEof(p) \/ AddExitStatus(p) \/ AddClose(p) \/ AddWindowAdjust(p)
    <3>1. p.ch \in DOMAIN ch
      BY <2>3 DEF AddEof, AddExitStatus, AddClose, AddWindowAdjust, Known
    <3>2. \E v : \/ ch' = [ch EXCEPT ![p.ch].reof = v] \/ ch' = [ch EXCEPT ![p.ch].exit_status = v]
                 \/ ch' = [ch EXCEPT ![p.ch].rclose = v] \/ ch' = [ch EXCEPT ![p.ch].lwin = v]
      BY <2>3 DEF AddEof, AddExitStatus, AddClose, AddWindowAdjust
    <3>3. ASSUME NEW v PROVE /\ [ch[p.ch] EXCEPT !.reof = v].mode = ch[p.ch].mode
                             /\ [ch[p.ch] EXCEPT !.exit_status = v].mode = ch[p.ch].mode
                             /\ [ch[p.ch] EXCEPT !.rclose = v].mode = ch[p.ch].mode
                             /\ [ch[p.ch] EXCEPT !.lwin = v].mode = ch[p.ch].mode
      <4>1. ch[p.ch] \in ChannelRecords
        BY <1>1, <3>1
      <4>2. QED BY <4>1 DEF ChannelRecords
    <3>4. ASSUME NEW v PROVE /\ ch' = [ch EXCEPT ![p.ch].reof = v] => ModesKept
                             /\ ch' = [ch EXCEPT ![p.ch].exit_status = v] => ModesKept
                             /\ ch' = [ch EXCEPT ![p.ch].rclose = v] => ModesKept
                             /\ ch' = [ch EXCEPT ![p.ch].lwin = v] => ModesKept
      BY <3>3, ModesExcept
    <3>5. QED BY <3>2, <3>4
  <2>4. CASE AddData(p)
    <3>1. p.ch \in DOMAIN ch
      BY <2>4 DEF AddData, Known
    <3>2. ch' = ch \/ \E v : ch' = [ch EXCEPT ![p.ch].reof = FALSE, ![p.ch].rwin = v]
      BY <2>4 DEF AddData
    <3>3. ASSUME NEW v, ch' = [ch EXCEPT ![p.ch].reof = FALSE, ![p.ch].rwin = v] PROVE ModesKept
      <4> DEFINE r == [[ch[p.ch] EXCEPT !.reof = FALSE] EXCEPT !.rwin = v]
      <4>1. r.mode = ch[p.ch].mode
        <5>1. ch[p.ch] \in ChannelRecords
          BY <1>1, <3>1
        <5>2. QED BY <5>1 DEF ChannelRecords
      <4>2. ch' = [ch EXCEPT ![p.ch] = r]
        BY <3>1, <3>3
      <4> HIDE DEF r
      <4>3. QED BY <4>1, <4>2, ModesExcept
    <3>4. QED BY <3>2, <3>3, ModesNot
  <2>5. QED BY <1>3, <2>1, <2>2, <2>3, <2>4 DEF packet_add
<1>6. CASE brigade' = brigade
  BY <1>5, <1>6, ShrinksNot, DiscardsKept
<1>7. CASE brigade' # brigade
  <2>1. PICK q \in Packets : brigade' = Append(brigade, q) /\ q.type = p.type /\ q.ch = p.ch
    BY <1>4, <1>7 DEF Filed, Files
  <2>2. q.type = "EXTENDED_DATA" /\ q.ch \in DOMAIN ch => ch[q.ch].mode # "IGNORE"
    BY <1>3, <1>7, <2>1 DEF packet_add, AddDisconnect, AddNothing, AddIgnored, AddData, AddEof,
       AddExitStatus, AddClose, AddOpen, AddWindowAdjust, AddToBrigade
  <2>3. ASSUME NEW c \in DOMAIN ch', ch'[c].mode = "IGNORE", NEW j \in DOMAIN brigade',
               brigade'[j].ch = c
        PROVE  brigade'[j].type # "EXTENDED_DATA"
    <3>1. c \in DOMAIN ch /\ ch[c].mode = "IGNORE"
      BY <1>5, <2>3 DEF ModesKept
    <3>2. (j \in DOMAIN brigade /\ brigade'[j] = brigade[j]) \/ brigade'[j] = q
      BY <1>1, <2>1, AppendIs
    <3>3. QED BY <2>2, <2>3, <3>1, <3>2 DEF Discards
  <2>4. QED BY <2>3 DEF Discards
<1>8. QED BY <1>6, <1>7

\* So it stays.
LEMMA DiscardsStep ==
    ASSUME Flowing, TypeOK', Discards, [Next]_vars
    PROVE  Discards'
<1>1. CASE UNCHANGED vars
  <2>1. ch' = ch /\ brigade' = brigade
    BY <1>1 DEF vars, clientVars
  <2>2. QED BY <2>1 DEF Discards
<1>2. CASE Next
  <2>0. TypeOK /\ Places /\ Sized
    BY DEF Flowing
  <2>1. Steps
    BY <1>2, StepIs DEF Flowing
  <2>2. CASE Begun /\ Local
    <3>1. PICK o : o = Head(todo) /\ Begin(o)
      BY <2>2 DEF Begun
    <3>2. CASE Returns(o)
      <4>1. ch' = ch
        BY <3>2 DEF Returns, clientVars
      <4>2. QED BY <2>2, <4>1, ModesNot, DiscardsKept DEF Local
    <3>3. CASE o.c \in Mine /\ o.op = "extended" /\ handle_extended_data(o.c, o.arg)
      <4>1. o.arg \in Modes
        BY <2>0, <2>2, <3>1, <3>3, CommandArgs DEF Begun
      <4>2. QED BY <2>0, <3>3, <4>1, DiscardsExtended
    <3>4. CASE ~(o.op = "extended" /\ handle_extended_data(o.c, o.arg))
      <4>1. ModesKept
        BY <2>0, <3>1, <3>4, ModesBegin
      <4>2. QED BY <2>2, <4>1, DiscardsKept DEF Local
    <3>5. o.op = "extended" => Returns(o) \/ o.c \in Mine
      BY <3>1 DEF Begin
    <3>6. QED BY <3>2, <3>3, <3>4, <3>5
  <2>3. CASE Gone /\ ~Receive /\ Local
    <3>1. ModesKept
      BY <2>0, <2>3, ModesGoes DEF Gone
    <3>2. QED BY <2>3, <3>1, DiscardsKept DEF Local
  <2>4. CASE Receive
    BY <2>0, <2>4, DiscardsReceive
  <2>5. CASE ServerKinds
    <3>1. ch' = ch /\ brigade' = brigade
      BY <2>5 DEF ServerKinds, clientVars
    <3>2. QED BY <3>1 DEF Discards
  <2>6. QED BY <2>1, <2>2, <2>3, <2>4, <2>5 DEF Steps
<1>3. QED BY <1>1, <1>2

----------------------------------------------------------------------------
(* The server                                                              *)

\* A packet is put on the way.
LEMMA PendingSent ==
    ASSUME TypeOK, TypeOK', NEW p \in Packets, inq' = Append(inq, p), brigade' = brigade, NEW s
    PROVE  /\ Leads(Pending(s)', Pending(s), BytesOf(s)[p])
           /\ BytesOf(s)[p] = <<>> => Pending(s)' = Pending(s)
<1> DEFINE P == Pending(s)
           Q == Pending(s)'
           a == Carried(brigade, s)
           i == Carried(inq, s)
           j == Carried(inq', s)
           x == BytesOf(s)[p]
<1>1. /\ Leads(P, a, i) /\ Leads(Q, Carried(brigade', s), j)
      /\ a \in Seq(Nat) /\ i \in Seq(Nat) /\ j \in Seq(Nat) /\ P \in Seq(Nat)
  BY PendingIs
<1>2. inq \in Seq(Packets)
  BY DEF TypeOK
<1>3. Leads(j, i, x) /\ x \in Seq(Nat)
  BY <1>2, CarriedAppend, Bytes
<1>4. Leads(Q, a, j)
  BY <1>1
<1> HIDE DEF P, Q, a, i, j, x
<1>5. Leads(Q, P, x)
  BY <1>1, <1>3, <1>4, LeadsBack
<1>6. ASSUME x = <<>> PROVE Q = P
  <2>1. P \o <<>> = P
    BY <1>1, Neutral
  <2>2. QED BY <1>5, <1>6, <2>1, Zenon DEF Leads
<1>7. QED BY <1>5, <1>6 DEF P, Q, x

\* What the server may send without a stream noticing.
Dataless ==
    \/ inq' = inq
    \/ \E p \in Packets : p.type \notin Types /\ inq' = Append(inq, p)
PendingDataless ==
    \A s : Pending(s)' = Pending(s)

\* Packets that are no data leave the streams alone.
LEMMA DatalessIs ==
    ASSUME TypeOK, TypeOK', brigade' = brigade, Dataless
    PROVE  PendingDataless
<1>1. CASE inq' = inq
  BY <1>1, PendingSame DEF PendingDataless
<1>2. ASSUME NEW p \in Packets, p.type \notin Types, inq' = Append(inq, p), NEW s
      PROVE  Pending(s)' = Pending(s)
  <2>1. BytesOf(s)[p] = <<>>
    BY <1>2, Bytes DEF IsData
  <2>2. QED BY <1>2, <2>1, PendingSent
<1>3. QED BY <1>1, <1>2 DEF Dataless, PendingDataless

\* An answer of the server is no data.
LEMMA PacketDataless ==
    ASSUME NEW type \in PacketTypes \ Types, NEW c \in Ids, NEW n \in Nat,
           Sends(Packet(type, c, n))
    PROVE  Dataless
<1>1. Packet(type, c, n) \in Packets /\ Packet(type, c, n).type = type
  BY PacketFields
<1>2. QED BY <1>1 DEF Dataless, Sends

\* A record of the server is replaced, and what was sent is not.
LEMMA SentRecord ==
    ASSUME TypeOK, NEW c \in Ids, NEW r, r.sent = peer[c].sent, peer' = [peer EXCEPT ![c] = r]
    PROVE  SentSame
<1>1. \A d \in Ids : peer'[d].sent = peer[d].sent
  BY PeerFields
<1>2. QED BY <1>1, StreamIs DEF SentSame

\* A step of the server that sends no data trims nothing.
LEMMA TrimsServer ==
    ASSUME TypeOK, TypeOK', ServerOnly, tcp' = tcp, SentSame, PendingDataless
    PROVE  Trims
<1>1. UNCHANGED <<ch, brigade, delivered, wrapped>>
  BY DEF ServerOnly, clientVars, history
<1>2. QED BY <1>1, TrimsIs DEF PendingDataless

\* What the server does with a packet.
LEMMA MapsServe ==
    ASSUME TypeOK, TypeOK', Serve
    PROVE  Trims \/ Loses
<1> DEFINE p == Head(outq)
           c == p.ch
<1>1. /\ outq \in Seq(Packets) /\ outq # <<>> /\ ServerOnly
  BY ShrinksType DEF Serve
<1>2. p \in Packets /\ c \in Ids /\ p.n \in Nat
  <2>1. p \in Packets
    BY <1>1, TailIs
  <2>2. QED BY <2>1 DEF Packets
<1>3. /\ peer \in [Ids -> PeerRecords] /\ peer[c] \in PeerRecords
      /\ brigade' = brigade /\ UNCHANGED <<ch, delivered, wrapped>>
  BY <1>1, <1>2, PeerFields DEF ServerOnly, clientVars, history
<1>4. /\ {"OPEN_CONFIRMATION", "OPEN_FAILURE", "SUCCESS", "FAILURE", "CLOSE", "DISCONNECT"}
            \subseteq PacketTypes \ Types
      /\ 0 \in Nat /\ PeerWindow \in Nat
  BY Constants DEF PacketTypes, Types
<1>5. ASSUME NEW v, NEW w, NEW u
      PROVE  /\ [[[peer[c] EXCEPT !.st = v] EXCEPT !.win = w] EXCEPT !.credit = u].sent = peer[c].sent
             /\ [peer[c] EXCEPT !.runs = v].sent = peer[c].sent
             /\ [[peer[c] EXCEPT !.credit = v] EXCEPT !.owes = w].sent = peer[c].sent
             /\ [peer[c] EXCEPT !.win = v].sent = peer[c].sent
             /\ [peer[c] EXCEPT !.st = v].sent = peer[c].sent
  <2> HIDE DEF c
  <2>1. QED BY <1>3 DEF PeerRecords
<1>6. CASE /\ p.type = "OPEN"
           /\ peer' = [peer EXCEPT ![c].st = "open", ![c].win = p.n, ![c].credit = PeerWindow]
           /\ Sends(Packet("OPEN_CONFIRMATION", c, PeerWindow))
           /\ UNCHANGED tcp
  <2> DEFINE r == [[[peer[c] EXCEPT !.st = "open"] EXCEPT !.win = p.n] EXCEPT !.credit = PeerWindow]
  <2>1. peer' = [peer EXCEPT ![c] = r]
    BY <1>2, <1>3, <1>6
  <2>2. r.sent = peer[c].sent
    BY <1>5
  <2> HIDE DEF p, r
  <2>3. SentSame
    BY <1>2, <2>1, <2>2, SentRecord
  <2>4. Dataless
    BY <1>2, <1>4, <1>6, PacketDataless
  <2>5. QED BY <1>1, <1>3, <1>6, <2>3, <2>4, DatalessIs, TrimsServer
<1>7. CASE /\ p.type = "OPEN"
           /\ Sends(Packet("OPEN_FAILURE", c, 0))
           /\ UNCHANGED <<peer, tcp>>
  <2> HIDE DEF p
  <2>1. Dataless
    BY <1>2, <1>4, <1>7, PacketDataless
  <2>2. QED BY <1>1, <1>3, <1>7, <2>1, PeerSame, DatalessIs, TrimsServer
<1>8. CASE /\ p.type \in {"REQUEST", "EXEC"} /\ peer[c].st = "open"
           /\ \E type \in {"SUCCESS", "FAILURE"} :
                 /\ Sends(Packet(type, c, 0))
                 /\ peer' = [peer EXCEPT ![c].runs =
                                @ \/ <<p.type, type>> = <<"EXEC", "SUCCESS">>]
           /\ UNCHANGED tcp
  <2>1. PICK type \in {"SUCCESS", "FAILURE"} :
                 /\ Sends(Packet(type, c, 0))
                 /\ peer' = [peer EXCEPT ![c].runs =
                                @ \/ <<p.type, type>> = <<"EXEC", "SUCCESS">>]
    BY <1>8
  <2> DEFINE runs == peer[c].runs \/ <<p.type, type>> = <<"EXEC", "SUCCESS">>
             r == [peer[c] EXCEPT !.runs = runs]
  <2>2. peer' = [peer EXCEPT ![c] = r]
    BY <1>3, <2>1
  <2> HIDE DEF runs
  <2>3. r.sent = peer[c].sent
    BY <1>5
  <2> HIDE DEF p, r
  <2>4. SentSame
    BY <1>2, <2>2, <2>3, SentRecord
  <2>5. Dataless
    BY <1>2, <1>4, <2>1, PacketDataless
  <2>6. QED BY <1>1, <1>3, <1>8, <2>4, <2>5, DatalessIs, TrimsServer
<1>9. CASE UNCHANGED <<inq, peer, tcp>>
  BY <1>1, <1>3, <1>9, PeerSame, DatalessIs, TrimsServer DEF Dataless
<1>10. CASE /\ p.type = "DATA"
            /\ peer' = [peer EXCEPT ![c].credit = @ - p.n, ![c].owes = @ + p.n]
            /\ UNCHANGED <<inq, tcp>>
  <2> DEFINE r == [[peer[c] EXCEPT !.credit = @ - p.n] EXCEPT !.owes = @ + p.n]
  <2>1. peer' = [peer EXCEPT ![c] = r]
    BY <1>3, <1>10
  <2>2. r.sent = peer[c].sent
    BY <1>5
  <2> HIDE DEF p, r
  <2>3. SentSame
    BY <1>2, <2>1, <2>2, SentRecord
  <2>4. QED BY <1>1, <1>3, <1>10, <2>3, DatalessIs, TrimsServer DEF Dataless
<1>11. CASE /\ p.type = "WINDOW_ADJUST"
            /\ IF peer[c].st = "open" /\ peer[c].win + p.n >= Word
               THEN Sends(Packet("DISCONNECT", c, 0)) /\ tcp' = "fin" /\ UNCHANGED peer
               ELSE /\ peer' = [peer EXCEPT ![c].win =
                                  IF peer[c].st = "open" THEN @ + p.n ELSE @]
                    /\ UNCHANGED <<inq, tcp>>
  <2>1. CASE Sends(Packet("DISCONNECT", c, 0)) /\ tcp' = "fin" /\ UNCHANGED peer
    <3> HIDE DEF p
    <3>1. Dataless
      BY <1>2, <1>4, <2>1, PacketDataless
    <3>2. PendingDataless
      BY <1>3, <3>1, DatalessIs
    <3>3. ASSUME NEW s \in Streams PROVE \E y \in Seq(Nat) : Leads(Pending(s), Pending(s)', y)
      <4>1. Pending(s) \in Seq(Nat) /\ Pending(s)' = Pending(s)
        BY <3>2, PendingIs DEF PendingDataless
      <4>2. Leads(Pending(s), Pending(s), <<>>) /\ <<>> \in Seq(Nat)
        BY <4>1, LeadsNot
      <4>3. QED BY <4>1, <4>2
    <3>4. QED BY <1>3, <2>1, <3>3, PeerSame DEF Loses
  <2>2. CASE /\ peer' = [peer EXCEPT ![c].win =
                                  IF peer[c].st = "open" THEN @ + p.n ELSE @]
             /\ UNCHANGED <<inq, tcp>>
    <3> DEFINE w == IF peer[c].st = "open" THEN peer[c].win + p.n ELSE peer[c].win
               r == [peer[c] EXCEPT !.win = w]
    <3>1. peer' = [peer EXCEPT ![c] = r]
      BY <1>3, <2>2
    <3> HIDE DEF w
    <3>2. r.sent = peer[c].sent
      BY <1>5
    <3> HIDE DEF p, r
    <3>3. SentSame
      BY <1>2, <3>1, <3>2, SentRecord
    <3>4. QED BY <1>1, <1>3, <2>2, <3>3, DatalessIs, TrimsServer DEF Dataless
  <2>3. QED BY <1>11, <2>1, <2>2
<1>12. CASE /\ p.type = "CLOSE" /\ peer[c].st = "open"
            /\ Sends(Packet("CLOSE", c, 0))
            /\ peer' = [peer EXCEPT ![c].st = "closed"]
            /\ UNCHANGED tcp
  <2> DEFINE r == [peer[c] EXCEPT !.st = "closed"]
  <2>1. peer' = [peer EXCEPT ![c] = r]
    BY <1>3, <1>12
  <2>2. r.sent = peer[c].sent
    BY <1>5
  <2> HIDE DEF p, r
  <2>3. SentSame
    BY <1>2, <2>1, <2>2, SentRecord
  <2>4. Dataless
    BY <1>2, <1>4, <1>12, PacketDataless
  <2>5. QED BY <1>1, <1>3, <1>12, <2>3, <2>4, DatalessIs, TrimsServer
<1>13. QED
  BY <1>6, <1>7, <1>8, <1>9, <1>10, <1>11, <1>12 DEF Serve

\* The end of a program: two packets, and no data.
LEMMA PendingEof ==
    ASSUME TypeOK, TypeOK', NEW p \in Packets, NEW q \in Packets,
           p.type \notin Types, q.type \notin Types,
           inq' = inq \o <<p, q>>, brigade' = brigade
    PROVE  PendingDataless
<1>1. inq \in Seq(Packets)
  BY DEF TypeOK
<1>2. inq \o <<p, q>> = Append(Append(inq, p), q) /\ Append(inq, p) \in Seq(Packets)
  BY <1>1
<1>3. ASSUME NEW s, NEW packets \in Seq(Packets), NEW r \in Packets, r.type \notin Types
      PROVE  Carried(Append(packets, r), s) = Carried(packets, s)
  <2> DEFINE a == Carried(packets, s)
             b == Carried(Append(packets, r), s)
  <2>1. BytesOf(s)[r] = <<>>
    BY <1>3, Bytes DEF IsData
  <2>2. a \in Seq(Nat) /\ Leads(b, a, <<>>)
    BY <2>1, CarriedAppend, CarriedType
  <2> HIDE DEF a, b
  <2>3. a \o <<>> = a
    BY <2>2, Neutral
  <2>4. b = a
    BY <2>2, <2>3, Zenon DEF Leads
  <2>5. QED BY <2>4 DEF a, b
<1>4. ASSUME NEW s PROVE Pending(s)' = Pending(s)
  <2>1. inq' = Append(Append(inq, p), q)
    BY <1>2
  <2>2. Carried(Append(Append(inq, p), q), s) = Carried(Append(inq, p), s)
    BY <1>2, <1>3
  <2>3. Carried(Append(inq, p), s) = Carried(inq, s)
    BY <1>1, <1>3
  <2>4. Carried(inq', s) = Carried(inq, s)
    BY <2>1, <2>2, <2>3, Zenon
  <2>5. /\ Leads(Pending(s), Carried(brigade, s), Carried(inq, s))
        /\ Leads(Pending(s)', Carried(brigade', s), Carried(inq', s))
    BY PendingIs
  <2>6. QED BY <2>4, <2>5, Zenon DEF Leads
<1>5. QED BY <1>4 DEF PendingDataless

\* The output of a program.
LEMMA TransmitsData ==
    ASSUME TypeOK, TypeOK', NEW c \in Ids, NEW k \in {0, 1}, ServerData(c, k)
    PROVE  Transmits
<1>1. PICK n \in 1 .. PacketDefault :
          /\ n <= peer[c].win
          /\ Sends(Data(k, c, [i \in 1 .. n |-> peer[c].sent[k] + i]))
          /\ peer' = [peer EXCEPT ![c].win = @ - n, ![c].sent[k] = @ + n]
  BY DEF ServerData
<1> DEFINE bytes == [i \in 1 .. n |-> peer[c].sent[k] + i]
           p == Data(k, c, bytes)
<1>2. /\ peer \in [Ids -> PeerRecords] /\ peer[c] \in PeerRecords
      /\ peer[c].sent \in [{0, 1} -> Nat] /\ n \in Nat
  BY PeerFields, Constants DEF PeerRecords
<1>3. bytes \in Seq(Nat)
  BY <1>2
<1>4. PICK s \in Streams : s = <<c, k>> /\ s[1] = c /\ s[2] = k
  <2>1. <<c, k>> \in Streams /\ <<c, k>>[1] = c /\ <<c, k>>[2] = k
    BY DEF Streams
  <2>2. QED BY <2>1, Zenon
<1>5. /\ tcp = "up" /\ UNCHANGED <<tcp, ch, delivered, wrapped>>
      /\ brigade' = brigade /\ inq' = Append(inq, p)
  BY <1>1 DEF ServerData, Ready, ServerOnly, clientVars, history, Sends
<1>6. bytes = [i \in 1 .. n |-> peer[s[1]].sent[s[2]] + i]
  BY <1>4
<1> HIDE DEF bytes
<1>7. p \in Packets /\ IsData(p, c) /\ Stream(p) = k /\ p.bytes = bytes
  <2>1. p \in Packets /\ IsData(p, c) /\ p.bytes = bytes
    BY <1>3, DataFields DEF IsData, Types, Data
  <2>2. p.type = IF k = 0 THEN "DATA" ELSE "EXTENDED_DATA"
    BY DEF Data
  <2> HIDE DEF p
  <2>3. QED BY <2>1, <2>2 DEF Stream
<1> HIDE DEF p
<1>8. BytesOf(s)[p] = bytes
  BY <1>4, <1>7, Bytes
<1>9. Leads(Pending(s)', Pending(s), bytes)
  BY <1>5, <1>7, <1>8, PendingSent
<1>10. ASSUME NEW t \in Streams \ {s} PROVE Pending(t)' = Pending(t)
  <2>1. t = <<t[1], t[2]>>
    BY StreamIs
  <2>2. ~(IsData(p, t[1]) /\ Stream(p) = t[2])
    BY <1>4, <1>7, <2>1 DEF IsData
  <2>3. BytesOf(t)[p] = <<>>
    BY <1>7, <2>2, Bytes
  <2>4. QED BY <1>5, <1>7, <2>3, PendingSent
<1>11. ASSUME NEW t \in Streams
       PROVE  peer'[t[1]].sent[t[2]] = peer[t[1]].sent[t[2]] + IF t = s THEN n ELSE 0
  <2>1. t[1] \in Ids /\ t[2] \in {0, 1} /\ t = <<t[1], t[2]>>
    BY StreamIs
  <2>2. peer[t[1]] \in PeerRecords /\ peer[t[1]].sent \in [{0, 1} -> Nat]
    BY <2>1, PeerFields DEF PeerRecords
  <2>3. CASE t[1] # c
    <3>1. peer'[t[1]] = peer[t[1]]
      BY <1>1, <1>2, <2>1, <2>3
    <3>2. t # s
      BY <1>4, <2>3
    <3>3. peer[t[1]].sent[t[2]] \in Nat
      BY <2>1, <2>2
    <3>4. QED BY <3>1, <3>2, <3>3
  <2>4. CASE t[1] = c
    <3> DEFINE sent == [peer[c].sent EXCEPT ![k] = @ + n]
               r == [[peer[c] EXCEPT !.win = @ - n] EXCEPT !.sent = sent]
    <3>1. peer' = [peer EXCEPT ![c] = r]
      BY <1>1, <1>2
    <3>2. sent[t[2]] = peer[c].sent[t[2]] + IF t[2] = k THEN n ELSE 0
      BY <1>2, <2>1
    <3>3. r.sent = sent
      <4> HIDE DEF sent
      <4>1. QED BY <1>2 DEF PeerRecords
    <3> HIDE DEF r, sent
    <3>4. peer'[t[1]] = r
      BY <1>2, <2>4, <3>1
    <3>5. (t = s) <=> (t[2] = k)
      BY <1>4, <2>1, <2>4
    <3>6. QED BY <2>4, <3>2, <3>3, <3>4, <3>5
  <2>5. QED BY <2>3, <2>4
<1>12. Leads(Pending(s)', Pending(s), [i \in 1 .. n |-> peer[s[1]].sent[s[2]] + i])
  BY <1>6, <1>9
<1>13. QED BY <1>5, <1>10, <1>11, <1>12 DEF Transmits

\* The rest of what the server does, and the connection that ends.
LEMMA MapsServer ==
    ASSUME TypeOK, TypeOK', Server
    PROVE  Trims \/ Transmits \/ Loses
<1>0. /\ {"OPEN_CONFIRMATION", "OPEN_FAILURE", "SUCCESS", "FAILURE", "CLOSE", "DISCONNECT",
          "WINDOW_ADJUST", "EXIT_STATUS", "EOF", "IGNORE", "OPEN_FORWARDED", "OPEN_OTHER"}
            \subseteq PacketTypes \ Types
      /\ 0 \in Nat /\ 1 \in Nat /\ 0 \in Ids
  BY Constants DEF PacketTypes, Types, Ids
<1>1. ServerOnly => brigade' = brigade /\ UNCHANGED <<ch, delivered, wrapped>>
  BY DEF ServerOnly, clientVars, history
<1>2. CASE Serve
  BY <1>2, MapsServe
<1>3. CASE \E c \in Ids, s \in {0, 1} : ServerData(c, s)
  BY <1>3, TransmitsData
<1>4. ASSUME NEW c \in Ids, ServerCredit(c)
      PROVE  Trims
  <2> DEFINE r == [[peer[c] EXCEPT !.credit = @ + peer[c].owes] EXCEPT !.owes = 0]
  <2>1. /\ peer \in [Ids -> PeerRecords] /\ peer[c] \in PeerRecords /\ peer[c].owes \in Nat
    BY PeerFields
  <2>2. peer' = [peer EXCEPT ![c] = r]
    BY <1>4, <2>1 DEF ServerCredit
  <2>3. r.sent = peer[c].sent
    BY <2>1 DEF PeerRecords
  <2> HIDE DEF r
  <2>4. SentSame
    BY <2>2, <2>3, SentRecord
  <2>5. ServerOnly /\ tcp' = tcp /\ Sends(Packet("WINDOW_ADJUST", c, peer[c].owes))
    BY <1>4 DEF ServerCredit
  <2>6. Dataless
    BY <1>0, <2>1, <2>5, PacketDataless
  <2>7. QED BY <1>1, <2>4, <2>5, <2>6, DatalessIs, TrimsServer
<1>5. ASSUME NEW c \in Ids, ServerEof(c)
      PROVE  Trims
  <2> DEFINE r == [peer[c] EXCEPT !.eof = TRUE]
  <2>1. /\ peer \in [Ids -> PeerRecords] /\ peer[c] \in PeerRecords
    BY PeerFields
  <2>2. peer' = [peer EXCEPT ![c] = r]
    BY <1>5, <2>1 DEF ServerEof
  <2>3. r.sent = peer[c].sent
    BY <2>1 DEF PeerRecords
  <2> HIDE DEF r
  <2>4. SentSame
    BY <2>2, <2>3, SentRecord
  <2>5. /\ ServerOnly /\ tcp' = tcp
        /\ inq' = inq \o <<Packet("EXIT_STATUS", c, 1), Packet("EOF", c, 0)>>
    BY <1>5 DEF ServerEof
  <2>6. /\ Packet("EXIT_STATUS", c, 1) \in Packets /\ Packet("EOF", c, 0) \in Packets
        /\ Packet("EXIT_STATUS", c, 1).type \notin Types /\ Packet("EOF", c, 0).type \notin Types
    BY <1>0, PacketFields
  <2>7. PendingDataless
    BY <1>1, <2>5, <2>6, PendingEof
  <2>8. QED BY <2>4, <2>5, <2>7, TrimsServer
<1>6. ASSUME NEW c \in Ids, ServerClose(c)
      PROVE  Trims
  <2> DEFINE r == [peer[c] EXCEPT !.st = "closed"]
  <2>1. /\ peer \in [Ids -> PeerRecords] /\ peer[c] \in PeerRecords
    BY PeerFields
  <2>2. peer' = [peer EXCEPT ![c] = r]
    BY <1>6, <2>1 DEF ServerClose
  <2>3. r.sent = peer[c].sent
    BY <2>1 DEF PeerRecords
  <2> HIDE DEF r
  <2>4. SentSame
    BY <2>2, <2>3, SentRecord
  <2>5. ServerOnly /\ tcp' = tcp /\ Sends(Packet("CLOSE", c, 0))
    BY <1>6 DEF ServerClose
  <2>6. Dataless
    BY <1>0, <2>5, PacketDataless
  <2>7. QED BY <1>1, <2>4, <2>5, <2>6, DatalessIs, TrimsServer
<1>7. CASE ServerNoise
  <2>1. ServerOnly /\ tcp' = tcp /\ peer' = peer
    BY <1>7 DEF ServerNoise
  <2>2. PICK type \in {"IGNORE", "OPEN_FORWARDED", "OPEN_OTHER"} : Sends(Packet(type, 0, 0))
    BY <1>7 DEF ServerNoise
  <2>3. Dataless
    BY <1>0, <2>2, PacketDataless
  <2>4. QED BY <1>1, <2>1, <2>3, PeerSame, DatalessIs, TrimsServer
<1>8. CASE ServerQuits
  <2>1. ServerOnly /\ tcp' = "fin" /\ peer' = peer
    BY <1>8 DEF ServerQuits
  <2>2. inq' = inq \/ Sends(Packet("DISCONNECT", 0, 0))
    BY <1>8 DEF ServerQuits, Sends
  <2>3. Dataless
    BY <1>0, <2>2, PacketDataless DEF Dataless
  <2>4. PendingDataless
    BY <1>1, <2>1, <2>3, DatalessIs
  <2>5. ASSUME NEW s \in Streams PROVE \E y \in Seq(Nat) : Leads(Pending(s), Pending(s)', y)
    <3>1. Pending(s) \in Seq(Nat) /\ Pending(s)' = Pending(s)
      BY <2>4, PendingIs DEF PendingDataless
    <3>2. Leads(Pending(s), Pending(s), <<>>) /\ <<>> \in Seq(Nat)
      BY <3>1, LeadsNot
    <3>3. QED BY <3>1, <3>2
  <2>6. QED BY <1>1, <2>1, <2>5, PeerSame DEF Loses
<1>9. CASE Reset
  <2>1. ServerOnly /\ tcp' = "reset" /\ peer' = peer /\ inq' = <<>>
    BY <1>9 DEF Reset
  <2>2. ASSUME NEW s \in Streams PROVE \E y \in Seq(Nat) : Leads(Pending(s), Pending(s)', y)
    <3> DEFINE P == Pending(s)
               Q == Pending(s)'
               a == Carried(brigade, s)
               i == Carried(inq, s)
    <3>1. /\ Leads(P, a, i) /\ Leads(Q, a, Carried(inq', s)) /\ i \in Seq(Nat) /\ a \in Seq(Nat)
      BY <1>1, <2>1, PendingIs
    <3>2. Carried(inq', s) = <<>>
      <4>1. inq' \in Seq(Packets) /\ DOMAIN inq' = {}
        BY <2>1
      <4>2. QED BY <4>1, CarriedType
    <3>3. Leads(Q, a, <<>>)
      BY <3>1, <3>2
    <3> HIDE DEF P, Q, a, i
    <3>4. a \o <<>> = a
      BY <3>1, Neutral
    <3>5. Leads(P, Q, i)
      BY <3>1, <3>3, <3>4, Zenon DEF Leads
    <3>6. QED BY <3>1, <3>5 DEF P, Q
  <2>3. QED BY <1>1, <2>1, <2>2, PeerSame DEF Loses
<1>10. QED
  BY <1>2, <1>3, <1>4, <1>5, <1>6, <1>7, <1>8, <1>9 DEF Server

----------------------------------------------------------------------------
(* Every step is one of the pipe                                           *)

\* A call that begins.
LEMMA MapsBegin ==
    ASSUME TypeOK, TypeOK', Connection, Unheard, Begun
    PROVE  Trims \/ Creates
<1>1. PICK o \in Commands : o = Head(todo) /\ Begin(o)
  <2>1. todo \in Seq(Commands) /\ todo # <<>>
    BY DEF TypeOK, Begun
  <2>2. Head(todo) \in Commands
    BY <2>1
  <2>3. QED BY <2>2 DEF Begun
<1>2. /\ o.op = "flush" => o.arg \in Types \cup {"ALL"}
      /\ o.op = "extended" => o.arg \in Modes
  BY DEF Commands
<1>3. CASE Returns(o)
  <2>1. UNCHANGED <<brigade, inq, tcp, peer, delivered, wrapped>> /\ ch' = ch
    BY <1>3 DEF Returns, clientVars, history
  <2>2. QED BY <2>1, TrimsNot
<1>4. CASE open_ex
  BY <1>4, MapsOpen
<1>5. CASE o.c \in Mine /\ o.op = "flush" /\ flush_ex(o.c, o.arg)
  <2>1. Flush(ch, o.c, o.arg)
    BY <1>5 DEF flush_ex
  <2>2. QED BY <1>2, <1>5, <2>1, TrimsFlush
<1>6. CASE o.c \in Mine /\ o.op = "extended" /\ handle_extended_data(o.c, o.arg)
  <2> DEFINE chans == [ch EXCEPT ![o.c].mode = o.arg]
  <2>1. DOMAIN chans = DOMAIN ch
    OBVIOUS
  <2>2. CASE o.arg = "IGNORE"
    <3>1. Flush(chans, o.c, "EXTENDED_DATA")
      BY <1>6, <2>2 DEF handle_extended_data
    <3>2. "EXTENDED_DATA" \in Types \cup {"ALL"}
      BY DEF Types
    <3> HIDE DEF chans
    <3>3. QED BY <1>6, <2>1, <3>1, <3>2, TrimsFlush
  <2>3. CASE o.arg # "IGNORE"
    <3>1. UNCHANGED <<brigade, inq, tcp, peer, delivered, wrapped>> /\ ch' = chans
      BY <1>6, <2>3 DEF handle_extended_data, history
    <3>2. QED BY <2>1, <3>1, TrimsNot
  <2>4. QED BY <2>2, <2>3
<1>7. CASE /\ ~Returns(o) /\ ~open_ex
           /\ ~(o.c \in Mine /\ o.op = "flush" /\ flush_ex(o.c, o.arg))
           /\ ~(o.c \in Mine /\ o.op = "extended" /\ handle_extended_data(o.c, o.arg))
  <2>1. o.c \in Mine /\ o.op # "open"
    BY <1>1, <1>7 DEF Begin
  <2>2. QED BY <1>1, <1>7, <2>1, TrimsBegin
<1>8. QED BY <1>3, <1>4, <1>5, <1>6, <1>7

\* A call that goes on.
LEMMA MapsGoes ==
    ASSUME TypeOK, TypeOK', Places, Sized, Windows, Discards, Goes
    PROVE  Trims \/ Reads \/ Forgets
<1>1. CASE AwaitPacket \/ ReadPacket \/ WriteWaits \/ WaitPacket \/ PollPacket
  <2>1. Receive
    BY <1>1 DEF AwaitPacket, ReadPacket, WriteWaits, WaitPacket, PollPacket
  <2>2. QED BY <2>1, TrimsReceive
<1>2. CASE \/ NotThere \/ ReadNothing \/ ReadFails \/ ReadEnds \/ WriteData \/ WriteFails
           \/ WaitEnds \/ WaitFails \/ PollNothing
  BY <1>2, TrimsGoes
<1>3. CASE OpenFailed \/ NoAnswer \/ AwaitError \/ Unlink
  BY <1>3, ForgetsGoes
<1>4. CASE Answered
  BY <1>4, TrimsAnswered
<1>5. CASE Take
  BY <1>5, ReadsTake
<1>6. CASE Clear
  BY <1>6, TrimsClear
<1>7. QED BY <1>1, <1>2, <1>3, <1>4, <1>5, <1>6 DEF Goes

\* Every step is a step of the pipe, or none of its variables changes.
LEMMA PipeStep ==
    ASSUME Flowing, Flowing', Discards, [Next]_vars
    PROVE  [Pipe!Next]_Pipe!vars
<1>1. /\ TypeOK /\ TypeOK' /\ Connection /\ Unheard /\ Places /\ Sized /\ Windows
      /\ \A s \in Streams : Pending(s)' \in Seq(Nat)
  <2>1. TypeOK /\ TypeOK' /\ Connection /\ Unheard /\ Places /\ Sized /\ Windows
    BY DEF Flowing
  <2>2. QED BY <2>1, PendingIs
<1>2. CASE UNCHANGED vars
  <2>1. UNCHANGED <<ch, brigade, inq, tcp, peer, delivered, wrapped>>
    BY <1>2 DEF vars, clientVars, history
  <2>2. /\ \A s \in Streams : openBar'[s] <=> openBar[s]
        /\ \A s \in Streams : sentBar'[s] = sentBar[s]
        /\ \A s \in Streams : deliveredBar'[s] = deliveredBar[s]
    BY <2>1, BarIs
  <2>3. \A s \in Streams : queueBar'[s] = queueBar[s]
    <3>1. \A s : Pending(s)' = Pending(s)
      BY <2>1, PendingSame
    <3>2. QED BY <2>1, <3>1, BarIs
  <2>4. upBar' = upBar
    BY <2>1 DEF upBar
  <2>5. bar' = bar
    BY <2>2, <2>3, <2>4, BarSame DEF bar
  <2>6. QED BY <2>5, BarVars
<1>3. CASE Next
  <2>1. Trims \/ Reads \/ Forgets \/ Creates \/ Transmits \/ Loses
    <3>1. CASE Begun
      BY <1>1, <3>1, MapsBegin
    <3>2. CASE Goes
      BY <1>1, <3>2, MapsGoes
    <3>3. CASE Server
      BY <1>1, <3>3, MapsServer
    <3>4. QED BY <1>3, <3>1, <3>2, <3>3 DEF Next, Client, Begun
  <2>2. \/ Pipe!Skip \/ Pipe!Void \/ Pipe!Close \/ Pipe!Open \/ Pipe!Cut
        \/ \E s \in Streams : Pipe!Send(s) \/ Pipe!Deliver(s)
        \/ bar' = bar
    <3>1. Trims => Pipe!Skip \/ Pipe!Void
      BY <1>1, MapTrims
    <3>2. Reads => Pipe!Void \/ (\E s \in Streams : Pipe!Deliver(s)) \/ bar' = bar
      BY <1>1, MapReads
    <3>3. Forgets => Pipe!Close \/ bar' = bar
      BY <1>1, MapForgets
    <3>4. Creates => Pipe!Open
      BY <1>1, MapCreates
    <3>5. Transmits => \E s \in Streams : Pipe!Send(s)
      BY <1>1, MapTransmits
    <3>6. Loses => Pipe!Cut
      BY <1>1, MapLoses
    <3>7. QED BY <2>1, <3>1, <3>2, <3>3, <3>4, <3>5, <3>6
  <2>3. CASE bar' = bar
    BY <2>3, BarVars
  <2>4. QED BY <2>2, <2>3 DEF Pipe!Next
<1>4. QED BY <1>2, <1>3

\* At first no channel is there, and nothing was sent.
LEMMA PipeInit ==
    ASSUME Init
    PROVE  Pipe!Init /\ Discards
<1>1. /\ DOMAIN ch = {} /\ wrapped = {} /\ tcp = "up" /\ delivered = [s \in Streams |-> <<>>]
      /\ peer = [c \in Ids |-> [st |-> "none", win |-> 0, credit |-> 0, owes |-> 0,
                              runs |-> FALSE, eof |-> FALSE, sent |-> [s \in {0, 1} |-> 0]]]
  BY DEF Init
<1>2. upBar = TRUE
  BY <1>1 DEF upBar
<1>3. openBar = [s \in Streams |-> FALSE]
  <2>1. \A s \in Streams : (s[1] \in DOMAIN ch \ wrapped) = FALSE
    BY <1>1
  <2>2. QED BY <2>1, Zenon DEF openBar
<1>4. sentBar = [s \in Streams |-> 0]
  <2>1. ASSUME NEW s \in Streams PROVE peer[s[1]].sent[s[2]] = 0
    <3>1. s[1] \in Ids /\ s[2] \in {0, 1}
      BY DEF Streams
    <3>2. QED BY <1>1, <3>1
  <2>2. QED BY <2>1 DEF sentBar
<1>5. queueBar = [s \in Streams |-> <<>>] /\ deliveredBar = [s \in Streams |-> <<>>]
  BY <1>1 DEF queueBar, deliveredBar
<1>6. Discards
  BY <1>1 DEF Discards
<1>7. QED BY <1>2, <1>3, <1>4, <1>5, <1>6, BarInit

\* Data on its way through packet_add, the brigade, channel_read_ex and channel_flush_ex is
\* neither lost from the middle nor repeated, reordered or given to another channel.
THEOREM ImplementsPipe == Spec => PipeSpec
<1>1. Init => Pipe!Init /\ Discards
  BY PipeInit
<1>2. Flowing /\ Flowing' /\ Discards /\ [Next]_vars => Discards' /\ [Pipe!Next]_Pipe!vars
  <2>1. SUFFICES ASSUME Flowing, Flowing', Discards, [Next]_vars
                 PROVE  Discards' /\ [Pipe!Next]_Pipe!vars
    OBVIOUS
  <2>2. TypeOK'
    BY <2>1 DEF Flowing
  <2>3. QED BY <2>1, <2>2, DiscardsStep, PipeStep
<1>3. QED BY <1>1, <1>2, Flows, PTL DEF Spec, PipeSpec, Pipe!Spec
============================================================================
