-------------------------- MODULE SshSessionProofs --------------------------
(***************************************************************************)
(* Machine-checked proofs about SshSession, for every set of servers and   *)
(* programs, length of the file, number of re-exchanges and of banners.    *)
(***************************************************************************)
EXTENDS SshSession, FiniteSetTheorems, SequenceTheorems, TLAPS

----------------------------------------------------------------------------
(* Queues of packets                                                       *)

Fields == {"type", "tag", "n", "h", "enc"}

\* A packet has its fields, and a piece of the file is data.
Form(p) == DOMAIN p = Fields /\ (p.tag = "piece" => p.type = "DATA")

Queue(q) == q \in Seq(Range(q)) /\ \A i \in DOMAIN q : Form(q[i])

\* The types of the packets of a queue, and the places of the pieces of the file.
Types(q) == {q[i].type : i \in DOMAIN q}
PiecesAt(q) == {i \in DOMAIN q : q[i].tag = "piece"}
Count(q) == Cardinality(PiecesAt(q))

LEMMA OwnRange ==
    ASSUME NEW S, NEW q \in Seq(S)
    PROVE  q \in Seq(Range(q))
<1>1. Len(q) \in Nat /\ q = [i \in 1 .. Len(q) |-> q[i]]
  OBVIOUS
<1>2. \A i \in 1 .. Len(q) : q[i] \in Range(q)
  BY DEF Range
<1> QED
  BY <1>1, <1>2

LEMMA QueueEmpty == Queue(<<>>) /\ Types(<<>>) = {}
BY DEF Queue, Types

LEMMA QueueOne ==
    ASSUME NEW p, Form(p)
    PROVE  Queue(<<p>>) /\ Types(<<p>>) = {p.type}
<1>1. <<p>> \in Seq({p}) /\ DOMAIN <<p>> = 1 .. 1 /\ <<p>>[1] = p
  OBVIOUS
<1>2. <<p>> \in Seq(Range(<<p>>))
  BY <1>1, OwnRange
<1> QED
  BY <1>1, <1>2 DEF Queue, Types

LEMMA QueueTail ==
    ASSUME NEW q, Queue(q), q # <<>>
    PROVE  /\ Queue(Tail(q))
           /\ Form(Head(q))
           /\ Types(q) = Types(Tail(q)) \cup {Head(q).type}
<1>1. /\ Len(q) \in Nat \ {0} /\ DOMAIN q = 1 .. Len(q)
      /\ Tail(q) \in Seq(Range(q)) /\ DOMAIN Tail(q) = 1 .. Len(q) - 1
      /\ \A i \in 1 .. Len(q) - 1 : Tail(q)[i] = q[i + 1]
      /\ Head(q) = q[1]
  BY DEF Queue
<1>2. Tail(q) \in Seq(Range(Tail(q)))
  BY <1>1, OwnRange
<1>3. ASSUME NEW i \in 1 .. Len(q)
      PROVE  q[i].type \in Types(Tail(q)) \cup {Head(q).type}
  <2>1. CASE i = 1
    BY <1>1, <2>1
  <2>2. CASE i # 1
    <3>1. i - 1 \in DOMAIN Tail(q) /\ Tail(q)[i - 1] = q[i]
      BY <1>1, <2>2
    <3> QED
      BY <3>1, Zenon DEF Types
  <2> QED
    BY <2>1, <2>2
<1>4. Types(q) \subseteq Types(Tail(q)) \cup {Head(q).type}
  BY <1>1, <1>3 DEF Types
<1>5. Types(Tail(q)) \cup {Head(q).type} \subseteq Types(q)
  BY <1>1 DEF Types
<1> QED
  BY <1>1, <1>2, <1>4, <1>5 DEF Queue

LEMMA QueueConcat ==
    ASSUME NEW q, NEW r, Queue(q), Queue(r)
    PROVE  /\ Queue(q \o r)
           /\ Types(q \o r) = Types(q) \cup Types(r)
<1>1. q \in Seq(Range(q) \cup Range(r)) /\ r \in Seq(Range(q) \cup Range(r))
  BY SeqMonotonic DEF Queue
<1>2. /\ q \o r \in Seq(Range(q) \cup Range(r))
      /\ Len(q) \in Nat /\ Len(r) \in Nat
      /\ DOMAIN q = 1 .. Len(q) /\ DOMAIN r = 1 .. Len(r)
      /\ DOMAIN (q \o r) = 1 .. Len(q) + Len(r)
      /\ \A i \in 1 .. Len(q) : (q \o r)[i] = q[i]
      /\ \A i \in 1 .. Len(r) : (q \o r)[i + Len(q)] = r[i]
  BY <1>1, ConcatProperties, LenProperties
<1>3. q \o r \in Seq(Range(q \o r))
  BY <1>2, OwnRange
<1>4. \A i \in 1 .. Len(q) + Len(r) : i \in 1 .. Len(q) \/ i - Len(q) \in 1 .. Len(r)
  BY <1>2
<1>5. ASSUME NEW i \in 1 .. Len(q) + Len(r)
      PROVE  \/ (q \o r)[i] = q[i] /\ i \in 1 .. Len(q)
             \/ (q \o r)[i] = r[i - Len(q)] /\ i - Len(q) \in 1 .. Len(r)
  <2>1. CASE i \in 1 .. Len(q)
    BY <1>2, <2>1
  <2>2. CASE i - Len(q) \in 1 .. Len(r)
    <3>1. (q \o r)[(i - Len(q)) + Len(q)] = r[i - Len(q)] /\ (i - Len(q)) + Len(q) = i
      BY <1>2, <2>2
    <3> QED
      BY <2>2, <3>1
  <2> QED
    BY <1>4, <2>1, <2>2
<1>6. \A i \in DOMAIN (q \o r) : Form((q \o r)[i])
  BY <1>2, <1>5 DEF Queue
<1>7. Types(q \o r) \subseteq Types(q) \cup Types(r)
  BY <1>2, <1>5 DEF Types
<1>8. Types(q) \subseteq Types(q \o r)
  BY <1>2 DEF Types
<1>9. \A i \in 1 .. Len(r) : i + Len(q) \in DOMAIN (q \o r)
  BY <1>2
<1>10. ASSUME NEW i \in 1 .. Len(r)
       PROVE  r[i].type \in Types(q \o r)
  BY <1>2, <1>9, Zenon DEF Types
<1>11. Types(r) \subseteq Types(q \o r)
  BY <1>2, <1>10 DEF Types
<1> QED
  BY <1>3, <1>6, <1>7, <1>8, <1>11 DEF Queue

LEMMA QueueAppend ==
    ASSUME NEW q, NEW p, Queue(q), Form(p)
    PROVE  /\ Queue(Append(q, p))
           /\ Types(Append(q, p)) = Types(q) \cup {p.type}
<1>1. Append(q, p) = q \o <<p>>
  BY DEF Queue
<1> QED
  BY <1>1, QueueOne, QueueConcat

\* A packet that is encoded keeps its type.
LEMMA QueueEncoded ==
    ASSUME NEW e, NEW ps, Queue(ps)
    PROVE  /\ Queue(Encoded(e, ps))
           /\ Types(Encoded(e, ps)) = Types(ps)
<1>1. Len(ps) \in Nat /\ DOMAIN ps = 1 .. Len(ps)
  BY DEF Queue
<1> DEFINE f == Encoded(e, ps)
<1>2. f = [i \in 1 .. Len(ps) |-> f[i]]
  BY <1>1 DEF Encoded
<1>3. \A i \in 1 .. Len(ps) : Form(f[i]) /\ f[i].type = ps[i].type
  BY <1>1 DEF Encoded, Queue, Form, Fields
<1> HIDE DEF f
<1>4. \A i \in 1 .. Len(ps) : f[i] \in Range(f)
  BY <1>2 DEF Range
<1>5. f \in Seq(Range(f)) /\ DOMAIN f = 1 .. Len(ps)
  BY <1>1, <1>2, <1>4
<1>6. Queue(f) /\ Types(f) = Types(ps)
  BY <1>1, <1>3, <1>5 DEF Queue, Types
<1> QED
  BY <1>6 DEF f

LEMMA QueueRemoveAt ==
    ASSUME NEW q, Queue(q), NEW i \in DOMAIN q
    PROVE  /\ Queue(RemoveAt(q, i))
           /\ Types(RemoveAt(q, i)) \subseteq Types(q)
<1>1. Len(q) \in Nat /\ DOMAIN q = 1 .. Len(q) /\ i \in 1 .. Len(q)
  BY DEF Queue
<1>2. ASSUME NEW a \in Int, NEW b \in Int, 1 <= a, b <= Len(q)
      PROVE  /\ Queue(SubSeq(q, a, b))
             /\ Types(SubSeq(q, a, b)) \subseteq Types(q)
  <2> DEFINE s == SubSeq(q, a, b)
  <2>1. \A k \in a .. b : q[k] \in Range(q)
    BY <1>1, <1>2 DEF Range
  <2>2. /\ s \in Seq(Range(q))
        /\ Len(s) = IF a <= b THEN b - a + 1 ELSE 0
        /\ \A k \in 1 .. b - a + 1 : s[k] = q[a + k - 1]
    BY <1>2, <2>1, SubSeqProperties
  <2> HIDE DEF s
  <2>3. DOMAIN s = 1 .. b - a + 1
    BY <1>2, <2>2
  <2>4. \A k \in 1 .. b - a + 1 : a + k - 1 \in DOMAIN q
    BY <1>1, <1>2
  <2>5. s \in Seq(Range(s))
    BY <2>2, OwnRange
  <2>6. Queue(s) /\ Types(s) \subseteq Types(q)
    BY <2>2, <2>3, <2>4, <2>5 DEF Queue, Types
  <2> QED
    BY <2>6 DEF s
<1>3. /\ Queue(SubSeq(q, 1, i - 1)) /\ Types(SubSeq(q, 1, i - 1)) \subseteq Types(q)
      /\ Queue(SubSeq(q, i + 1, Len(q))) /\ Types(SubSeq(q, i + 1, Len(q))) \subseteq Types(q)
  BY <1>1, <1>2
<1> QED
  BY <1>3, QueueConcat DEF RemoveAt

----------------------------------------------------------------------------
(* The pieces in a queue                                                   *)

LEMMA CountForm ==
    ASSUME NEW q, Queue(q)
    PROVE  IsFiniteSet(PiecesAt(q)) /\ Count(q) \in Nat
<1>1. Len(q) \in Nat /\ DOMAIN q = 1 .. Len(q)
  BY DEF Queue
<1>2. IsFiniteSet(1 .. Len(q)) /\ PiecesAt(q) \in SUBSET (1 .. Len(q))
  BY <1>1, FS_Interval DEF PiecesAt
<1>3. IsFiniteSet(PiecesAt(q))
  BY <1>2, FS_Subset
<1> QED
  BY <1>3, FS_CardinalityType DEF Count

LEMMA CountNone ==
    ASSUME NEW q, \A i \in DOMAIN q : q[i].tag # "piece"
    PROVE  Count(q) = 0
<1>1. PiecesAt(q) = {}
  BY DEF PiecesAt
<1> QED
  BY <1>1, FS_EmptySet DEF Count

LEMMA CountAppend ==
    ASSUME NEW q, NEW p, Queue(q)
    PROVE  Count(Append(q, p)) = Count(q) + IF p.tag = "piece" THEN 1 ELSE 0
<1> DEFINE r == Append(q, p)
           n == Len(q) + 1
<1>1. Len(q) \in Nat /\ DOMAIN q = 1 .. Len(q)
  BY DEF Queue
<1>2. DOMAIN r = 1 .. n /\ r[n] = p /\ \A i \in 1 .. Len(q) : r[i] = q[i]
  BY <1>1, AppendProperties DEF Queue
<1>3. \A i \in 1 .. n : i = n \/ i \in 1 .. Len(q)
  BY <1>1
<1>4. n \notin 1 .. Len(q) /\ n \in 1 .. n /\ 1 .. Len(q) \subseteq 1 .. n
  BY <1>1
<1> HIDE DEF n, r
<1>5. PiecesAt(r) = PiecesAt(q) \cup (IF p.tag = "piece" THEN {n} ELSE {})
  BY <1>1, <1>2, <1>3, <1>4 DEF PiecesAt
<1>6. n \notin PiecesAt(q) /\ IsFiniteSet(PiecesAt(q)) /\ Count(q) \in Nat
  BY <1>1, <1>4, CountForm DEF PiecesAt
<1>7. CASE p.tag = "piece"
  <2>1. PiecesAt(r) = PiecesAt(q) \cup {n}
    BY <1>5, <1>7
  <2>2. Count(r) = Count(q) + 1
    BY <1>6, <2>1, FS_AddElement DEF Count
  <2> QED
    BY <1>7, <2>2 DEF r
<1>8. CASE p.tag # "piece"
  <2>1. PiecesAt(r) = PiecesAt(q)
    BY <1>5, <1>8
  <2>2. Count(r) = Count(q) /\ Count(q) + 0 = Count(q)
    BY <1>6, <2>1 DEF Count
  <2> QED
    BY <1>8, <2>2 DEF r
<1> QED
  BY <1>7, <1>8

LEMMA CountTail ==
    ASSUME NEW q, Queue(q), q # <<>>
    PROVE  Count(q) = Count(Tail(q)) + IF Head(q).tag = "piece" THEN 1 ELSE 0
<1> DEFINE t == Tail(q)
           S == PiecesAt(t)
           T == PiecesAt(q) \ {1}
           f == [i \in S |-> i + 1]
<1>1. /\ Len(q) \in Nat \ {0} /\ DOMAIN q = 1 .. Len(q)
      /\ DOMAIN t = 1 .. Len(q) - 1 /\ \A i \in 1 .. Len(q) - 1 : t[i] = q[i + 1]
      /\ Head(q) = q[1]
  BY DEF Queue
<1>2. Queue(t)
  BY QueueTail
<1> HIDE DEF t
<1>3. IsFiniteSet(S) /\ Count(t) \in Nat /\ IsFiniteSet(PiecesAt(q)) /\ Count(q) \in Nat
  BY <1>2, CountForm
<1>4. S \subseteq 1 .. Len(q) - 1 /\ \A i \in S : i + 1 \in T
  BY <1>1 DEF PiecesAt
<1>5. ASSUME NEW j \in T
      PROVE  \E i \in S : f[i] = j
  <2>1. j \in 2 .. Len(q) /\ q[j].tag = "piece"
    BY <1>1 DEF PiecesAt
  <2>2. j - 1 \in 1 .. Len(q) - 1 /\ (j - 1) + 1 = j
    BY <1>1, <2>1
  <2>3. t[j - 1] = q[j]
    BY <1>1, <2>2
  <2>4. j - 1 \in S
    BY <1>1, <2>1, <2>2, <2>3 DEF PiecesAt
  <2>5. f[j - 1] = j
    BY <2>2, <2>4
  <2> QED
    BY <2>4, <2>5
<1>6. f \in [S -> T]
  BY <1>4
<1>7. \A a, b \in S : f[a] = f[b] => a = b
  BY <1>4
<1> HIDE DEF S, T, f
<1>8. f \in Bijection(S, T)
  BY <1>5, <1>6, <1>7, Zenon DEF Bijection, Injection, IsInjective, Surjection
<1>9. Cardinality(T) = Cardinality(S)
  BY <1>3, <1>8, FS_Bijection DEF ExistsBijection
<1>10. Cardinality(T) = IF 1 \in PiecesAt(q) THEN Count(q) - 1 ELSE Count(q)
  BY <1>3, FS_RemoveElement DEF T, Count
<1>11. 1 \in PiecesAt(q) <=> Head(q).tag = "piece"
  BY <1>1 DEF PiecesAt
<1>12. Cardinality(S) = Count(t)
  BY DEF S, Count
<1>13. CASE Head(q).tag = "piece"
  <2>1. Count(t) = Count(q) - 1
    BY <1>9, <1>10, <1>11, <1>12, <1>13
  <2>2. Count(q) = Count(t) + 1
    BY <1>3, <2>1
  <2> QED
    BY <1>13, <2>2 DEF t
<1>14. CASE Head(q).tag # "piece"
  <2>1. Count(t) = Count(q)
    BY <1>9, <1>10, <1>11, <1>12, <1>14
  <2>2. Count(q) = Count(t) + 0
    BY <1>3, <2>1
  <2> QED
    BY <1>14, <2>2 DEF t
<1> QED
  BY <1>13, <1>14

----------------------------------------------------------------------------
(* What packet_askv_ex finds                                               *)

LEMMA Least ==
    ASSUME NEW T \in SUBSET Nat, T # {}
    PROVE  \E m \in T : \A k \in T : m <= k
<1> DEFINE R == OpToRel(<, Nat)
<1>1. IsWellFoundedOn(R, Nat)
  BY NatLessThanWellFounded
<1>2. \A x, y \in Nat : y < x => <<y, x>> \in R
  BY DEF OpToRel
<1> HIDE DEF R
<1>3. PICK m \in T : \A y \in T : <<y, m>> \notin R
  BY <1>1, WFMin, Zenon
<1>4. \A k \in T : ~(k < m) /\ k \in Nat /\ m \in Nat
  BY <1>2, <1>3
<1>5. \A k \in T : m <= k
  BY <1>4
<1> QED
  BY <1>5

LEMMA WantsNumbers == DOMAIN Wants \subseteq Nat
<1>1. DOMAIN ByNumber = 1 .. 15
  BY DEF ByNumber
<1>2. Wants \in {ByNumber, <<>>, <<"KEXINIT">>, <<"K31">>, <<"K33">>, <<"NEWKEYS">>,
                 <<"SERVICE_ACCEPT">>, <<"DATA">>, <<"SUCCESS", "FAILURE">>,
                 <<"OPEN_CONFIRMATION", "OPEN_FAILURE">>,
                 <<"CHANNEL_SUCCESS", "CHANNEL_FAILURE">>, <<"SUCCESS", "FAILURE", "M60">>}
  BY DEF Wants
<1>3. /\ DOMAIN <<>> \subseteq Nat
      /\ \A x, y, z : /\ DOMAIN <<x>> \subseteq Nat
                      /\ DOMAIN <<x, y>> \subseteq Nat
                      /\ DOMAIN <<x, y, z>> \subseteq Nat
  OBVIOUS
<1> QED
  BY <1>1, <1>2, <1>3

\* A packet that is asked for is one of the brigade.
LEMMA AskedInBrigade ==
    ASSUME Queue(brigade), Asked # 0
    PROVE  Asked \in DOMAIN brigade
<1> DEFINE types == {j \in DOMAIN Wants : Hits(Wants[j]) # {}}
           first == CHOOSE j \in types : \A k \in types : j <= k
           hits == Hits(Wants[first])
<1>1. types # {} /\ Asked = CHOOSE i \in hits : \A k \in hits : i <= k
  BY DEF Asked
<1>2. types \subseteq Nat /\ DOMAIN brigade \subseteq Nat
  BY WantsNumbers DEF Queue
<1>3. \E j \in types : \A k \in types : j <= k
  BY <1>1, <1>2, Least
<1>4. first \in types
  BY <1>3
<1>5. hits # {} /\ hits \subseteq DOMAIN brigade
  BY <1>4 DEF Hits
<1> HIDE DEF types, first, hits
<1>6. \E i \in hits : \A k \in hits : i <= k
  BY <1>2, <1>5, Least
<1>7. Asked \in hits
  BY <1>1, <1>6
<1> QED
  BY <1>5, <1>7

----------------------------------------------------------------------------
(* Records and queues keep their form                                      *)

SessionFields == {"socket_state", "exchanging", "newkeys", "authenticated", "kex", "burn",
                  "lkex", "rkex", "id", "local", "remote", "chan"}
ChanFields == {"st", "win", "lclose", "rclose"}
PcFields == {"at", "kx", "wait", "cont", "todo", "left", "group", "result"}
SrvFields == {"offers", "exch", "ck", "sk", "kex", "in", "out", "id", "authed", "chan",
              "file", "held"}

\* The stages of a key exchange.
Stages == {"none", "kexinit", "KEXINIT", "request", "GROUP", "init", "BURN", "REPLY",
           "newkeys", "NEWKEYS"}
PcForm(p) == DOMAIN p = PcFields /\ p.kx \in Stages

ClientShape ==
    /\ DOMAIN session = SessionFields
    /\ DOMAIN session.chan = ChanFields
    /\ PcForm(pc)
    /\ Queue(brigade)
    /\ Queue(outq)

ServerShape ==
    /\ DOMAIN srv = SrvFields
    /\ Queue(srv.held)
    /\ srv.sk \in Nat \ {0}
    /\ srv.file \in Nat
    /\ \E s \in Servers : srv.offers = s.offers

Shape == ClientShape /\ ServerShape /\ Queue(inq)

\* What the client never does: it takes itself for authenticated, goes on to the upload
\* or opens a channel on nothing but a SUCCESS of the server.
Earned ==
    /\ session'.authenticated => session.authenticated \/ "SUCCESS" \in Types(brigade)
    /\ pc'.at = "scp" => pc.at = "scp" \/ "SUCCESS" \in Types(brigade)
    /\ session'.chan.st # "none" => session.chan.st # "none" \/ pc.at = "scp"

\* Packets move from the way to the client into its brigade, and nowhere else.
Delivered ==
    /\ srv' = srv
    /\ Queue(inq') /\ Types(inq') \subseteq Types(inq)
    /\ Types(brigade') \subseteq Types(brigade) \cup Types(inq)

ClientKeeps == ClientShape' /\ Delivered /\ Earned

LEMMA PacketForm ==
    ASSUME NEW type, NEW tag, NEW n, NEW h, tag # "piece"
    PROVE  /\ Form(Packet(type, tag, n, h))
           /\ Packet(type, tag, n, h).type = type
           /\ Packet(type, tag, n, h).tag = tag
BY DEF Packet, Form, Fields

\* packet_write
LEMMA SendForm ==
    ASSUME NEW STATE s, NEW STATE p, NEW STATE then, NEW STATE otherwise,
           Send(s, p, then, otherwise),
           DOMAIN s = SessionFields, Form(p), Queue(outq)
    PROVE  /\ DOMAIN session' = SessionFields
           /\ session'.authenticated = s.authenticated
           /\ session'.chan = s.chan
           /\ session'.socket_state = s.socket_state
           /\ Queue(outq')
           /\ \/ pc' = otherwise /\ outq' = outq /\ tcp # "up"
              \/ pc' = then /\ outq' = outq /\ tcp # "up"
              \/ /\ pc' = then
                 /\ \E e : /\ Form(e) /\ e.type = p.type /\ e.tag = p.tag
                           /\ outq' = Append(outq, e)
<1>1. /\ DOMAIN session' = SessionFields
      /\ session'.authenticated = s.authenticated
      /\ session'.chan = s.chan
      /\ session'.socket_state = s.socket_state
  BY DEF Send, SessionFields
<1> DEFINE e == [p EXCEPT !.enc = Encoding(s.local, s.newkeys)]
<1>2. Form(e) /\ e.type = p.type /\ e.tag = p.tag
  BY DEF Form, Fields
<1>3. \/ pc' = otherwise /\ outq' = outq /\ tcp # "up"
      \/ pc' = then /\ outq' = outq /\ tcp # "up"
      \/ pc' = then /\ outq' = Append(outq, e)
  BY DEF Send
<1> HIDE DEF e
<1>4. Queue(Append(outq, e))
  BY <1>2, QueueAppend
<1> QED
  BY <1>1, <1>2, <1>3, <1>4

\* What a wait comes to is no position of its own.
LEMMA FailedForm ==
    ASSUME PcForm(pc)
    PROVE  PcForm(Failed) /\ (Failed.at # "scp" \/ Failed.at = pc.at)
BY DEF Failed, KexFailed, Returned, Disconnects, NextMethod, Go, ChannelError,
   PcFields, PcForm, Stages

LEMMA ReceiveKeeps ==
    ASSUME Shape, Receive
    PROVE  ClientKeeps
<1> USE DEF SessionFields, ChanFields, PcFields, PcForm, Stages
<1>1. CASE ReadError \/ ReadLost \/ ReadNothing
  <2>1. DOMAIN session' = SessionFields /\ session'.chan = session.chan
        /\ session'.authenticated = session.authenticated
    BY <1>1 DEF ReadError, ReadLost, ReadNothing, Shape, ClientShape
  <2>2. PcForm(pc') /\ (pc'.at # "scp" \/ pc'.at = pc.at)
    BY <1>1, FailedForm DEF ReadError, ReadLost, ReadNothing, Shape, ClientShape
  <2>3. UNCHANGED <<brigade, outq, inq, srv>>
    BY <1>1 DEF ReadError, ReadLost, ReadNothing
  <2> QED
    BY <2>1, <2>2, <2>3 DEF ClientKeeps, Shape, ClientShape, Delivered, Earned
<1>2. ASSUME NEW p \in Range(inq),
             AddDisconnect(p) \/ AddChannel(p) \/ AddToBrigade(p) \/ Reexchange(p)
             \/ AddGarbage(p) \/ AddBanner(p)
      PROVE  ClientKeeps
  <2>1. Receives(p)
    BY <1>2 DEF AddDisconnect, AddChannel, AddToBrigade, Reexchange, AddGarbage, AddBanner
  <2>2. /\ Queue(inq') /\ Types(inq') \subseteq Types(inq)
        /\ Form(p) /\ p.type \in Types(inq)
        /\ srv' = srv /\ outq' = outq
    BY <2>1, QueueTail DEF Receives, Shape
  <2>3. Queue(brigade') /\ Types(brigade') \subseteq Types(brigade) \cup Types(inq)
    <3>1. brigade' = brigade \/ brigade' = Append(brigade, p)
      BY <1>2 DEF AddDisconnect, AddChannel, AddToBrigade, Reexchange, AddGarbage, AddBanner
    <3>2. Queue(brigade)
      BY DEF Shape, ClientShape
    <3> QED
      BY <2>2, <3>1, <3>2, QueueAppend
  <2>4. /\ DOMAIN session' = SessionFields /\ DOMAIN session'.chan = ChanFields
        /\ session'.authenticated = session.authenticated
        /\ session'.chan.st = session.chan.st
    <3>1. /\ DOMAIN Counted = SessionFields /\ Counted.chan = session.chan
          /\ Counted.authenticated = session.authenticated
          /\ DOMAIN session = SessionFields /\ DOMAIN session.chan = ChanFields
      BY DEF Counted, Shape, ClientShape
    <3>2. CASE AddChannel(p)
      <4>1. PICK w, r : session' = [Counted EXCEPT !.chan.win = w, !.chan.rclose = r]
        BY <3>2, Zenon DEF AddChannel
      <4> QED
        BY <3>1, <4>1
    <3>3. CASE ~AddChannel(p)
      BY <1>2, <3>1, <3>3 DEF AddDisconnect, AddToBrigade, Reexchange, AddGarbage, AddBanner
    <3> QED
      BY <3>2, <3>3
  <2>5. PcForm(pc') /\ (pc'.at # "scp" \/ pc'.at = pc.at)
    <3>1. \/ pc' \in {Onward(p), Failed, GoKex("kexinit")}
          \/ pc' = [pc EXCEPT !.kx = "none", !.at = "hung"]
      BY <1>2 DEF AddDisconnect, AddChannel, AddToBrigade, Reexchange, AddGarbage, AddBanner
    <3> QED
      BY <3>1, FailedForm DEF Onward, GoKex, Shape, ClientShape
  <2> QED
    BY <2>2, <2>3, <2>4, <2>5 DEF ClientKeeps, Shape, ClientShape, Delivered, Earned
<1> QED
  BY <1>1, <1>2 DEF Receive

LEMMA NotThereKeeps ==
    ASSUME Shape, NotThere
    PROVE  ClientKeeps
<1>1. PcForm(pc') /\ (pc'.at # "scp" \/ pc'.at = pc.at)
  BY FailedForm DEF NotThere, Shape, ClientShape, PcFields, PcForm
<1> QED
  BY <1>1 DEF NotThere, ClientKeeps, Shape, ClientShape, Delivered, Earned

\* packet_askv_ex
LEMMA TakesForm ==
    ASSUME Queue(brigade), NEW label, Takes(label)
    PROVE  /\ Queue(brigade') /\ Types(brigade') \subseteq Types(brigade)
           /\ Answer.type \in Types(brigade)
           /\ UNCHANGED <<tcp, inq, srv, noise>>
<1>1. Asked \in DOMAIN brigade /\ brigade' = RemoveAt(brigade, Asked)
  BY AskedInBrigade DEF Takes
<1> QED
  BY <1>1, QueueRemoveAt DEF Takes, Answer, Types

LEMMA KeyExchangeKeeps ==
    ASSUME Shape, KeyExchange
    PROVE  ClientKeeps
<1> USE DEF SessionFields, ChanFields, PcFields, PcForm, Stages
<1>0. /\ DOMAIN session = SessionFields /\ DOMAIN session.chan = ChanFields
      /\ PcForm(pc) /\ Queue(brigade) /\ Queue(outq) /\ Queue(inq)
  BY DEF Shape, ClientShape
<1>1. /\ PcForm(KexFailed)
      /\ KexFailed.at # "scp" \/ KexFailed.at = pc.at
      /\ \A k \in Stages : PcForm(GoKex(k)) /\ GoKex(k).at = pc.at
      /\ PcForm(Returned) /\ Returned.at = pc.at
  BY <1>0 DEF KexFailed, Returned, Disconnects, GoKex
<1>2. CASE SendKexinit \/ SendRequest \/ SendInit \/ SendNewkeys
  <2>1. /\ DOMAIN session' = SessionFields /\ session'.chan = session.chan
        /\ session'.authenticated = session.authenticated
        /\ Queue(outq')
    <3>1. CASE SendKexinit
      <4> DEFINE s == [session EXCEPT !.exchanging = TRUE, !.kex = No, !.lkex = @ + 1]
      <4>1. DOMAIN s = SessionFields /\ s.chan = session.chan
            /\ s.authenticated = session.authenticated
        BY <1>0
      <4>2. Send(s, Packet("KEXINIT", "", session.lkex + 1, NoHash), GoKex("KEXINIT"), KexFailed)
        BY <3>1 DEF SendKexinit
      <4> HIDE DEF s
      <4> QED
        BY <1>0, <4>1, <4>2, SendForm DEF Packet, Form, Fields
    <3>2. CASE SendRequest
      BY <1>0, <3>2, SendForm DEF SendRequest, Packet, Form, Fields
    <3>3. CASE SendInit
      BY <1>0, <3>3, SendForm DEF SendInit, Packet, Form, Fields
    <3>4. CASE SendNewkeys
      BY <1>0, <3>4, SendForm DEF SendNewkeys, Packet, Form, Fields
    <3> QED
      BY <1>2, <3>1, <3>2, <3>3, <3>4
  <2>2. PcForm(pc') /\ (pc'.at # "scp" \/ pc'.at = pc.at)
    BY <1>1, <1>2 DEF SendKexinit, SendRequest, SendInit, SendNewkeys, Send
  <2>3. UNCHANGED <<brigade, inq, srv>>
    BY <1>2 DEF SendKexinit, SendRequest, SendInit, SendNewkeys, At
  <2> QED
    BY <1>0, <2>1, <2>2, <2>3 DEF ClientKeeps, ClientShape, Delivered, Earned
<1>3. CASE TakeKexinit \/ TakeGroup \/ Burn \/ TakeReply \/ TakeNewkeys
  <2>1. /\ Queue(brigade') /\ Types(brigade') \subseteq Types(brigade)
        /\ inq' = inq /\ srv' = srv /\ outq' = outq
    BY <1>0, <1>3, TakesForm DEF TakeKexinit, TakeGroup, Burn, TakeReply, TakeNewkeys
  <2>2. /\ DOMAIN session' = SessionFields /\ session'.chan = session.chan
        /\ session'.authenticated = session.authenticated
    <3>1. CASE TakeKexinit
      <4>1. PICK k, b, l, r : session' = [[session EXCEPT !.rkex = Answer.n] EXCEPT
                                            !.kex = k, !.burn = b, !.local = l, !.remote = r]
        BY <3>1, Zenon DEF TakeKexinit, agree_methods
      <4> QED
        BY <1>0, <4>1
    <3>2. CASE TakeNewkeys
      BY <1>0, <3>2 DEF TakeNewkeys, Install
    <3>3. CASE TakeGroup \/ Burn \/ TakeReply
      BY <1>0, <3>3 DEF TakeGroup, Burn, TakeReply
    <3> QED
      BY <1>3, <3>1, <3>2, <3>3
  <2>3. PcForm(pc') /\ (pc'.at # "scp" \/ pc'.at = pc.at)
    <3>1. CASE TakeKexinit
      <4>1. \/ pc' = [pc EXCEPT !.kx = "none", !.at = "dead"]
            \/ pc' = KexFailed
            \/ pc' \in {GoKex("request"), GoKex("init")}
        BY <3>1 DEF TakeKexinit
      <4> QED
        BY <1>0, <1>1, <4>1
    <3>2. CASE TakeGroup
      BY <1>0, <1>1, <3>2 DEF TakeGroup
    <3>3. CASE Burn \/ TakeReply \/ TakeNewkeys
      BY <1>0, <1>1, <3>3 DEF Burn, TakeReply, TakeNewkeys
    <3> QED
      BY <1>3, <3>1, <3>2, <3>3
  <2> QED
    BY <1>0, <2>1, <2>2, <2>3 DEF ClientKeeps, ClientShape, Delivered, Earned
<1> QED
  BY <1>2, <1>3 DEF KeyExchange

\* A step that sends, or only goes on, after what it took from the brigade.
LEMMA GoesOn ==
    ASSUME Shape, UNCHANGED <<inq, srv>>,
           Queue(brigade'), Types(brigade') \subseteq Types(brigade), Queue(outq'),
           DOMAIN session' = SessionFields, DOMAIN session'.chan = ChanFields,
           session'.authenticated = session.authenticated,
           session'.chan.st \in {session.chan.st, "none"} \/ pc.at = "scp",
           PcForm(pc'), pc'.at # "scp" \/ pc'.at = pc.at
    PROVE  ClientKeeps
BY DEF Shape, ClientKeeps, ClientShape, Delivered, Earned

\* Outside of a key exchange the label is the position.
LEMMA LabelIsAt ==
    ASSUME PcForm(pc), NEW label, label \notin Stages, Label = label
    PROVE  pc.kx = "none" /\ pc.at = label
BY DEF PcForm, Label

LEMMA StartupKeeps ==
    ASSUME Shape, Startup
    PROVE  ClientKeeps
<1> USE DEF SessionFields, ChanFields, PcFields, PcForm, Stages
<1>0. /\ DOMAIN session = SessionFields /\ DOMAIN session.chan = ChanFields
      /\ PcForm(pc) /\ Queue(brigade) /\ Queue(outq) /\ Queue(inq)
  BY DEF Shape, ClientShape
<1>1. CASE Connect
  BY <1>0, <1>1, GoesOn DEF Connect, At, Go
<1>2. CASE banner_send
  <2>1. Queue(outq')
    <3>1. Form(Packet("BANNER", "banner", 0, NoHash))
      BY DEF Packet, Form, Fields
    <3> QED
      BY <1>0, <1>2, <3>1, QueueOne DEF banner_send
  <2> QED
    BY <1>0, <1>2, <2>1, GoesOn DEF banner_send, At, Go, Disconnects
<1>3. CASE banner_receive
  <2>1. Queue(inq') /\ Types(inq') \subseteq Types(inq)
    <3>1. CASE inq = <<>>
      BY <1>0, <1>3, <3>1 DEF banner_receive
    <3>2. CASE inq # <<>>
      <4>1. inq' = Tail(inq)
        BY <1>3, <3>2 DEF banner_receive
      <4> QED
        BY <1>0, <3>2, <4>1, QueueTail
    <3> QED
      BY <3>1, <3>2
  <2>2. PcForm(pc') /\ pc'.at # "scp"
    BY <1>0, <1>3 DEF banner_receive, Disconnects
  <2> QED
    BY <1>0, <1>3, <2>1, <2>2
       DEF banner_receive, ClientKeeps, ClientShape, Delivered, Earned
<1>4. CASE RequestService
  <2>1. /\ DOMAIN session' = SessionFields /\ session'.chan = session.chan
        /\ session'.authenticated = session.authenticated /\ Queue(outq')
    BY <1>0, <1>4, SendForm DEF RequestService, Packet, Form, Fields
  <2>2. PcForm(pc') /\ pc'.at # "scp"
    BY <1>0, <1>4 DEF RequestService, Send, Go, Disconnects
  <2> QED
    BY <1>0, <1>4, <2>1, <2>2, GoesOn DEF RequestService, At
<1>5. CASE TakeService
  <2>1. Queue(brigade') /\ Types(brigade') \subseteq Types(brigade) /\ UNCHANGED <<inq, srv>>
    BY <1>0, <1>5, TakesForm DEF TakeService
  <2> QED
    BY <1>0, <1>5, <2>1, GoesOn DEF TakeService, Go
<1> QED
  BY <1>1, <1>2, <1>3, <1>4, <1>5 DEF Startup

LEMMA UserauthKeeps ==
    ASSUME Shape, Userauth
    PROVE  ClientKeeps
<1> USE DEF SessionFields, ChanFields, PcFields, PcForm, Stages
<1>0. /\ DOMAIN session = SessionFields /\ DOMAIN session.chan = ChanFields
      /\ PcForm(pc) /\ Queue(brigade) /\ Queue(outq) /\ Queue(inq)
  BY DEF Shape, ClientShape
<1>1. ASSUME NEW method, method # "piece", NEW label \in Waiting, NEW STATE h, Request(method, label, h)
      PROVE  ClientKeeps
  <2>1. /\ DOMAIN session' = SessionFields /\ session'.chan = session.chan
        /\ session'.authenticated = session.authenticated /\ Queue(outq')
    BY <1>0, <1>1, SendForm DEF Request, Packet, Form, Fields
  <2>2. PcForm(pc') /\ (pc'.at # "scp" \/ pc'.at = pc.at)
    BY <1>0, <1>1 DEF Request, Send, Disconnects, Waiting
  <2> QED
    BY <1>0, <1>1, <2>1, <2>2, GoesOn DEF Request, At
<1>2. CASE \/ userauth_list \/ password_ex \/ keyboard_interactive_ex
           \/ hostbased_fromfile_ex \/ publickey_fromfile_ex
  BY <1>1, <1>2 DEF userauth_list, password_ex, keyboard_interactive_ex,
     hostbased_fromfile_ex, publickey_fromfile_ex, Waiting
<1>3. CASE KeyFileFails
  BY <1>0, <1>3, GoesOn DEF KeyFileFails, At, Disconnects
<1>4. /\ PcForm(NextMethod) /\ NextMethod.at # "scp"
      /\ \A a : PcForm(Go(a)) /\ Go(a).at = a
  BY <1>0 DEF NextMethod, Disconnects, Go
<1>5. CASE TakeSuccess
  <2>1. /\ Queue(brigade') /\ Types(brigade') \subseteq Types(brigade) /\ UNCHANGED <<inq, srv>>
        /\ "SUCCESS" \in Types(brigade)
    BY <1>0, <1>5, TakesForm DEF TakeSuccess
  <2> QED
    BY <1>0, <1>4, <1>5, <2>1
       DEF TakeSuccess, ClientKeeps, ClientShape, Delivered, Earned
<1>6. CASE TakeFailure
  <2>1. Queue(brigade') /\ Types(brigade') \subseteq Types(brigade) /\ UNCHANGED <<inq, srv>>
    BY <1>0, <1>6, TakesForm DEF TakeFailure
  <2> QED
    BY <1>0, <1>4, <1>6, <2>1, GoesOn DEF TakeFailure
<1>7. CASE TakeChangeRequest \/ TakePkOk \/ TakeInfoRequest
  <2>1. Queue(brigade') /\ Types(brigade') \subseteq Types(brigade) /\ UNCHANGED <<inq, srv>>
    BY <1>0, <1>7, TakesForm DEF TakeChangeRequest, TakePkOk, TakeInfoRequest
  <2>2. /\ DOMAIN session' = SessionFields /\ session'.chan = session.chan
        /\ session'.authenticated = session.authenticated /\ Queue(outq')
    BY <1>0, <1>7, SendForm
       DEF TakeChangeRequest, TakePkOk, TakeInfoRequest, Packet, Form, Fields
  <2>3. PcForm(pc') /\ pc'.at # "scp"
    <3>1. \/ pc' = NextMethod
          \/ pc' \in {Go("password"), Go("pk2"), Go("keyboard")}
      BY <1>7 DEF TakeChangeRequest, TakePkOk, TakeInfoRequest, Send
    <3> QED
      BY <1>4, <3>1
  <2> QED
    BY <1>0, <2>1, <2>2, <2>3, GoesOn
<1> QED
  BY <1>2, <1>3, <1>5, <1>6, <1>7 DEF Userauth

LEMMA ScpKeeps ==
    ASSUME Shape, Scp
    PROVE  ClientKeeps
<1> USE DEF SessionFields, ChanFields, PcFields, PcForm, Stages
<1>0. /\ DOMAIN session = SessionFields /\ DOMAIN session.chan = ChanFields
      /\ PcForm(pc) /\ Queue(brigade) /\ Queue(outq) /\ Queue(inq)
  BY DEF Shape, ClientShape
<1>1. /\ \A a : PcForm(Go(a)) /\ Go(a).at = a
      /\ \A a : PcForm(ChannelError(a)) /\ ChannelError(a).at = a
      /\ \A r : PcForm(Disconnects(r)) /\ Disconnects(r).at = "disconnect"
  BY <1>0 DEF Go, ChannelError, Disconnects
<1>2. CASE OpenChannel
  <2>1. pc.at = "scp"
    BY <1>0, <1>2 DEF OpenChannel, At, Label
  <2>2. CASE pc' = Disconnects("FILE_NOT_FOUND") /\ UNCHANGED <<session, outq>>
    BY <1>0, <1>1, <1>2, <2>2, GoesOn DEF OpenChannel, At
  <2>3. CASE Send([session EXCEPT !.chan.st = "open"], Packet("OPEN", "", 0, NoHash),
                  Go("open"), ChannelError("free1"))
    <3> DEFINE s == [session EXCEPT !.chan.st = "open"]
    <3>1. DOMAIN s = SessionFields /\ DOMAIN s.chan = ChanFields
          /\ s.authenticated = session.authenticated
      BY <1>0
    <3> HIDE DEF s
    <3>2. /\ DOMAIN session' = SessionFields /\ session'.chan = s.chan
          /\ session'.authenticated = s.authenticated /\ Queue(outq')
      <4>1. Send(s, Packet("OPEN", "", 0, NoHash), Go("open"), ChannelError("free1"))
        BY <2>3 DEF s
      <4> QED
        BY <1>0, <3>1, <4>1, SendForm DEF Packet, Form, Fields
    <3>3. PcForm(pc') /\ pc'.at # "scp"
      BY <1>1, <2>3 DEF Send
    <3> QED
      BY <1>0, <1>2, <2>1, <3>1, <3>2, <3>3, GoesOn DEF OpenChannel, At
  <2> QED
    BY <1>2, <2>2, <2>3 DEF OpenChannel
<1>3. CASE TakeOpen \/ TakeExec \/ TakeAck
  <2>1. Queue(brigade') /\ Types(brigade') \subseteq Types(brigade) /\ UNCHANGED <<inq, srv>>
    BY <1>0, <1>3, TakesForm DEF TakeOpen, TakeExec, TakeAck
  <2>2. /\ DOMAIN session' = SessionFields /\ DOMAIN session'.chan = ChanFields
        /\ session'.authenticated = session.authenticated
        /\ session'.chan.st \in {session.chan.st, "none"}
        /\ outq' = outq
    BY <1>0, <1>3 DEF TakeOpen, TakeExec, TakeAck, NoChannel
  <2>3. PcForm(pc') /\ pc'.at # "scp"
    BY <1>1, <1>3 DEF TakeOpen, TakeExec, TakeAck
  <2> QED
    BY <1>0, <2>1, <2>2, <2>3, GoesOn
<1>4. CASE NoAck \/ WriteWaits \/ wait_closed
  <2>1. UNCHANGED <<session, brigade, outq, inq, srv>>
    BY <1>4 DEF NoAck, WriteWaits, wait_closed, At
  <2>2. PcForm(pc') /\ (pc'.at # "scp" \/ pc'.at = pc.at)
    <3>1. \/ pc' = ChannelError("free") \/ pc' = Go("eof")
          \/ pc' = [pc EXCEPT !.at = "free", !.cont = "0"] \/ pc' = [pc EXCEPT !.wait = "read"]
      BY <1>4, Zenon DEF NoAck, WriteWaits, wait_closed
    <3> QED
      BY <1>0, <3>1 DEF ChannelError, Go
  <2> QED
    BY <1>0, <2>1, <2>2, GoesOn
<1>5. CASE process_startup \/ SendLine \/ send_eof
  <2>1. /\ DOMAIN session' = SessionFields /\ session'.chan = session.chan
        /\ session'.authenticated = session.authenticated /\ Queue(outq')
    BY <1>0, <1>5, SendForm DEF process_startup, SendLine, send_eof, Packet, Form, Fields
  <2>2. PcForm(pc') /\ pc'.at # "scp"
    <3>1. pc' \in {Go("exec"), Go("ack2"), Go("close"), ChannelError("free")}
      BY <1>5 DEF process_startup, SendLine, send_eof, Send
    <3> QED
      BY <1>1, <3>1
  <2> QED
    BY <1>0, <1>5, <2>1, <2>2, GoesOn DEF process_startup, SendLine, send_eof, At
<1>6. CASE WritePiece
  <2> DEFINE s == [session EXCEPT !.chan.win = @ - 1]
  <2>1. DOMAIN s = SessionFields /\ DOMAIN s.chan = ChanFields
        /\ s.authenticated = session.authenticated /\ s.chan.st = session.chan.st
    BY <1>0
  <2>2. Send(s, Packet("DATA", "piece", 0, NoHash), [pc EXCEPT !.left = @ - 1], Go("eof"))
    BY <1>6 DEF WritePiece
  <2> HIDE DEF s
  <2>3. /\ DOMAIN session' = SessionFields /\ session'.chan = s.chan
        /\ session'.authenticated = s.authenticated /\ Queue(outq')
    BY <1>0, <2>1, <2>2, SendForm DEF Packet, Form, Fields
  <2>4. PcForm(pc') /\ (pc'.at # "scp" \/ pc'.at = pc.at)
    BY <1>0, <1>1, <2>2 DEF Send
  <2> QED
    BY <1>0, <1>6, <2>1, <2>3, <2>4, GoesOn DEF WritePiece, At
<1>7. CASE close
  <2> DEFINE s == [session EXCEPT !.chan.lclose = TRUE]
  <2>1. DOMAIN s = SessionFields /\ DOMAIN s.chan = ChanFields
        /\ s.authenticated = session.authenticated /\ s.chan.st = session.chan.st
    BY <1>0
  <2>2. Send(s, Packet("CLOSE", "", 0, NoHash), Go("waitClosed"), Go("waitClosed"))
    BY <1>7 DEF close
  <2> HIDE DEF s
  <2>3. /\ DOMAIN session' = SessionFields /\ session'.chan = s.chan
        /\ session'.authenticated = s.authenticated /\ Queue(outq')
    BY <1>0, <2>1, <2>2, SendForm DEF Packet, Form, Fields
  <2>4. PcForm(pc') /\ pc'.at # "scp"
    BY <1>1, <2>2 DEF Send
  <2> QED
    BY <1>0, <1>7, <2>1, <2>3, <2>4, GoesOn DEF close, At
<1> QED
  BY <1>2, <1>3, <1>4, <1>5, <1>6, <1>7 DEF Scp

LEMMA EndingKeeps ==
    ASSUME Shape, Ending
    PROVE  ClientKeeps
<1> USE DEF SessionFields, ChanFields, PcFields, PcForm, Stages
<1>0. /\ DOMAIN session = SessionFields /\ DOMAIN session.chan = ChanFields
      /\ PcForm(pc) /\ Queue(brigade) /\ Queue(outq) /\ Queue(inq)
  BY DEF Shape, ClientShape
<1>1. /\ \A a : PcForm(Go(a)) /\ Go(a).at = a
      /\ PcForm(Continues) /\ Continues.at # "scp"
  BY <1>0 DEF Go, Continues, Disconnects
<1>2. CASE free
  <2> DEFINE s == [session EXCEPT !.chan.lclose = TRUE]
             p == [pc EXCEPT !.at = "free1", !.wait = "read"]
  <2>1. DOMAIN s = SessionFields /\ DOMAIN s.chan = ChanFields
        /\ s.authenticated = session.authenticated /\ s.chan.st = session.chan.st
    BY <1>0
  <2>2. PcForm(p) /\ p.at # "scp"
    BY <1>0
  <2>3. \/ Send(s, Packet("CLOSE", "", 0, NoHash), p, Continues)
        \/ pc' = p /\ UNCHANGED <<session, outq>>
    BY <1>2 DEF free
  <2> HIDE DEF s, p
  <2>4. CASE Send(s, Packet("CLOSE", "", 0, NoHash), p, Continues)
    <3>1. /\ DOMAIN session' = SessionFields /\ session'.chan = s.chan
          /\ session'.authenticated = s.authenticated /\ Queue(outq')
      BY <1>0, <2>1, <2>4, SendForm DEF Packet, Form, Fields
    <3>2. PcForm(pc') /\ pc'.at # "scp"
      BY <1>1, <2>2, <2>4 DEF Send
    <3> QED
      BY <1>0, <1>2, <2>1, <3>1, <3>2, GoesOn DEF free, At
  <2>5. CASE pc' = p /\ UNCHANGED <<session, outq>>
    BY <1>0, <1>2, <2>2, <2>5, GoesOn DEF free, At
  <2> QED
    BY <2>3, <2>4, <2>5
<1>3. CASE Clear
  <2>1. Queue(brigade') /\ Types(brigade') \subseteq Types(brigade) /\ UNCHANGED <<inq, srv>>
    BY <1>0, <1>3, TakesForm DEF Clear
  <2>2. PcForm(pc') /\ pc'.at = pc.at /\ UNCHANGED <<session, outq>>
    BY <1>0, <1>3 DEF Clear
  <2> QED
    BY <1>0, <2>1, <2>2, GoesOn
<1>4. CASE Cleared
  <2>1. /\ DOMAIN session' = SessionFields /\ DOMAIN session'.chan = ChanFields
        /\ session'.authenticated = session.authenticated
        /\ session'.chan.st \in {session.chan.st, "none"}
    BY <1>0, <1>4 DEF Cleared, NoChannel
  <2>2. PcForm(pc') /\ pc'.at # "scp"
    BY <1>0, <1>1, <1>4 DEF Cleared
  <2> QED
    BY <1>0, <1>4, <2>1, <2>2, GoesOn DEF Cleared, At
<1>5. CASE disconnect
  <2>1. /\ DOMAIN session' = SessionFields /\ session'.chan = session.chan
        /\ session'.authenticated = session.authenticated /\ Queue(outq')
    BY <1>0, <1>5, SendForm DEF disconnect, Packet, Form, Fields
  <2>2. PcForm(pc') /\ pc'.at # "scp"
    BY <1>1, <1>5 DEF disconnect, Send
  <2> QED
    BY <1>0, <1>5, <2>1, <2>2, GoesOn DEF disconnect, At
<1>6. CASE session_free
  BY <1>0, <1>6, GoesOn DEF session_free, At
<1> QED
  BY <1>2, <1>3, <1>4, <1>5, <1>6 DEF Ending

LEMMA ClientStep ==
    ASSUME Shape, Client
    PROVE  ClientKeeps
BY ReceiveKeeps, NotThereKeeps, KeyExchangeKeeps, StartupKeeps, UserauthKeeps, ScpKeeps,
   EndingKeeps DEF Client

----------------------------------------------------------------------------
(* The server                                                              *)

LEMMA OnePacket ==
    ASSUME NEW type, NEW tag, NEW n, NEW h, tag # "piece"
    PROVE  /\ Queue(<<Packet(type, tag, n, h)>>)
           /\ Types(<<Packet(type, tag, n, h)>>) = {type}
BY PacketForm, QueueOne

LEMMA TwoPackets ==
    ASSUME NEW p, NEW q, Form(p), Form(q)
    PROVE  /\ Queue(<<p, q>>)
           /\ Types(<<p, q>>) = {p.type, q.type}
<1>1. /\ <<p, q>> \in Seq({p, q}) /\ DOMAIN <<p, q>> = {1, 2}
      /\ <<p, q>>[1] = p /\ <<p, q>>[2] = q
  OBVIOUS
<1>2. <<p, q>> \in Seq(Range(<<p, q>>))
  BY <1>1, OwnRange
<1>3. Types(<<p, q>>) = {p.type, q.type}
  BY <1>1 DEF Types
<1> QED
  BY <1>1, <1>2, <1>3 DEF Queue

\* The packets the server sends follow those that are on their way.
LEMMA SendsForm ==
    ASSUME NEW STATE s, NEW STATE ps, Sends(s, ps),
           DOMAIN s = SrvFields, Queue(ps), Queue(inq)
    PROVE  /\ DOMAIN srv' = SrvFields /\ Queue(inq')
           /\ Types(inq') = Types(inq) \cup Types(ps)
           /\ srv'.held = s.held /\ srv'.authed = s.authed /\ srv'.file = s.file
           /\ srv'.sk = s.sk /\ srv'.offers = s.offers /\ srv'.exch = s.exch
<1>1. Queue(Encoded(s.out, ps)) /\ Types(Encoded(s.out, ps)) = Types(ps)
  BY QueueEncoded
<1>2. Queue(inq') /\ Types(inq') = Types(inq) \cup Types(ps)
  BY <1>1, QueueConcat DEF Sends
<1> QED
  BY <1>2 DEF Sends, SrvFields

LEMMA RepliesForm ==
    ASSUME NEW STATE s, NEW STATE ps, Replies(s, ps),
           DOMAIN s = SrvFields, Queue(s.held), Queue(ps), Queue(inq)
    PROVE  /\ DOMAIN srv' = SrvFields /\ Queue(inq') /\ Queue(srv'.held)
           /\ Types(inq') \cup Types(srv'.held) = Types(inq) \cup Types(s.held) \cup Types(ps)
           /\ srv'.authed = s.authed /\ srv'.file = s.file
           /\ srv'.sk = s.sk /\ srv'.offers = s.offers
           /\ s.exch => inq' = inq
<1>1. CASE s.exch
  <2>1. srv' = [s EXCEPT !.held = @ \o ps] /\ inq' = inq
    BY <1>1 DEF Replies
  <2>2. Queue(s.held \o ps) /\ Types(s.held \o ps) = Types(s.held) \cup Types(ps)
    BY QueueConcat
  <2>3. DOMAIN srv' = SrvFields /\ srv'.held = s.held \o ps
        /\ srv'.authed = s.authed /\ srv'.file = s.file
        /\ srv'.sk = s.sk /\ srv'.offers = s.offers
    BY <2>1 DEF SrvFields
  <2> QED
    BY <2>1, <2>2, <2>3
<1>2. CASE ~s.exch
  <2>1. Sends(s, ps)
    BY <1>2 DEF Replies
  <2> QED
    BY <1>2, <2>1, SendsForm
<1> QED
  BY <1>1, <1>2

\* What is on its way to the client, or held back until keys are exchanged.
Coming == Types(inq) \cup Types(srv.held)

\* The server says nothing but packets of the given types.
Says(types) ==
    /\ ServerShape' /\ Queue(inq')
    /\ Coming' \subseteq Coming \cup types

\* A packet of the client is gone; a piece of the file is counted.
Served ==
    /\ outq # <<>> /\ outq' = Tail(outq)
    /\ srv'.file = srv.file + IF Head(outq).tag = "piece" THEN 1 ELSE 0

ServerKeeps ==
    /\ ServerShape' /\ Queue(inq') /\ Queue(outq')
    /\ UNCHANGED <<session, brigade, pc>>
    /\ srv.authed => srv'.authed
    /\ "SUCCESS" \in Coming' => "SUCCESS" \in Coming \/ srv'.authed
    /\ "BANNER" \in Coming' => "BANNER" \in Coming
    /\ cause' = "none" =>
          /\ cause = "none"
          /\ "DISCONNECT" \in Coming' => "DISCONNECT" \in Coming
          /\ "CLOSE" \in Coming' =>
                "CLOSE" \in Coming \/ (Served /\ Head(outq).type = "CLOSE")
          /\ (outq' = outq /\ srv'.file = srv.file) \/ Served
          /\ tcp' = tcp \/ (tcp' = "fin" /\ outq # <<>> /\ Head(outq).type = "DISCONNECT")

Guesses == {"none", "K30", "K31", "K33"}

LEMMA OfferGuess ==
    ASSUME ServerShape, NEW STATE n, n \in Nat \ {0}
    PROVE  Offer(n).guess \in Guesses
<1>1. PICK s \in Servers : srv.offers = s.offers
  BY DEF ServerShape
<1>2. /\ srv.offers # <<>> /\ srv.offers \in Seq(Range(srv.offers))
      /\ \A i \in DOMAIN srv.offers : srv.offers[i].guess \in Guesses
  BY <1>1, SshSessionAssumption DEF Guesses
<1>3. Len(srv.offers) \in Nat \ {0} /\ DOMAIN srv.offers = 1 .. Len(srv.offers)
  BY <1>2
<1>4. (IF n <= Len(srv.offers) THEN n ELSE Len(srv.offers)) \in DOMAIN srv.offers
  BY <1>3
<1> QED
  BY <1>2, <1>4 DEF Offer

LEMMA Next1Form ==
    ASSUME ServerShape
    PROVE  /\ DOMAIN Next1 = SrvFields /\ Next1.held = srv.held /\ Next1.authed = srv.authed
           /\ Next1.file = srv.file /\ Next1.sk = srv.sk /\ Next1.offers = srv.offers
           /\ Next1.exch = srv.exch
BY DEF ServerShape, Next1, SrvFields

\* An answer of the server, from a record like its own.
LEMMA Answers ==
    ASSUME Shape, NEW STATE s, NEW STATE ps, Replies(s, ps) \/ Sends(s, ps),
           DOMAIN s = SrvFields, s.held = srv.held, s.sk \in Nat \ {0}, s.offers = srv.offers,
           s.file \in Nat, Queue(ps)
    PROVE  Says(Types(ps)) /\ srv'.authed = s.authed /\ srv'.file = s.file
<1>1. CASE Replies(s, ps)
  BY <1>1, RepliesForm DEF Shape, ServerShape, Says, Coming
<1>2. CASE Sends(s, ps)
  BY <1>2, SendsForm DEF Shape, ServerShape, Says, Coming
<1> QED
  BY <1>1, <1>2

LEMMA SrvForm ==
    ASSUME Shape
    PROVE  ServerShape /\ srv.sk \in Nat \ {0} /\ srv.file \in Nat /\ Queue(inq)
BY DEF Shape, ServerShape

LEMMA AnswersNext ==
    ASSUME Shape, NEW STATE ps, Queue(ps), Replies(Next1, ps) \/ Sends(Next1, ps)
    PROVE  Says(Types(ps)) /\ srv'.authed = srv.authed /\ srv'.file = srv.file
<1>1. /\ DOMAIN Next1 = SrvFields /\ Next1.held = srv.held /\ Next1.authed = srv.authed
      /\ Next1.file = srv.file /\ Next1.sk = srv.sk /\ Next1.offers = srv.offers
      /\ srv.sk \in Nat \ {0} /\ srv.file \in Nat
  BY SrvForm, Next1Form
<1> QED
  BY <1>1, Answers

\* A packet of the client is answered.
LEMMA ServesForm ==
    ASSUME Shape, NEW p, Serves(p)
    PROVE  /\ outq # <<>> /\ p = Head(outq) /\ outq' = Tail(outq) /\ Queue(outq')
           /\ Form(p)
           /\ UNCHANGED <<session, brigade, pc>>
BY QueueTail DEF Serves, Shape, ClientShape

LEMMA HeadTagged ==
    ASSUME Queue(outq), outq # <<>>, Head(outq).type # "DATA"
    PROVE  Head(outq).tag # "piece"
BY DEF Queue, Form

\* What a step of the server comes to, from what it says.
LEMMA Spoken ==
    ASSUME Shape, NEW types, Says(types), Queue(outq'),
           UNCHANGED <<session, brigade, pc>>,
           srv.authed => srv'.authed,
           "SUCCESS" \in types => srv'.authed,
           "BANNER" \notin types,
           \/ cause' # "none"
           \/ /\ cause' = cause
              /\ "DISCONNECT" \notin types
              /\ "CLOSE" \in types => Served /\ Head(outq).type = "CLOSE"
              /\ (outq' = outq /\ srv'.file = srv.file) \/ Served
              /\ tcp' = tcp \/ (tcp' = "fin" /\ outq # <<>> /\ Head(outq).type = "DISCONNECT")
    PROVE  ServerKeeps
BY DEF Says, ServerKeeps

\* A packet other than a piece of the file changes nothing of the file.
LEMMA NoPiece ==
    ASSUME Shape, NEW p, Serves(p), srv'.file = srv.file,
           p.type # "DATA" \/ p.tag # "piece"
    PROVE  Served
<1>1. outq # <<>> /\ p = Head(outq) /\ outq' = Tail(outq)
  BY DEF Serves
<1>2. Head(outq).tag # "piece"
  BY <1>1, HeadTagged DEF Shape, ClientShape
<1>3. srv.file + 0 = srv.file
  BY DEF Shape, ServerShape
<1> QED
  BY <1>1, <1>2, <1>3 DEF Served

\* The server says nothing.
LEMMA Silent ==
    ASSUME Shape, inq' = inq, DOMAIN srv' = SrvFields, srv'.held = srv.held,
           srv'.sk = srv.sk, srv'.offers = srv.offers, srv'.file = srv.file
    PROVE  Says({})
BY DEF Shape, ServerShape, Says, Coming

\* A packet that is answered by packets of the given types.
LEMMA Replied ==
    ASSUME Shape, NEW p, Serves(p), p.type # "DATA" \/ p.tag # "piece",
           NEW types, Says(types), srv'.file = srv.file,
           srv.authed => srv'.authed, "SUCCESS" \in types => srv'.authed,
           "BANNER" \notin types, "DISCONNECT" \notin types,
           "CLOSE" \in types => p.type = "CLOSE",
           cause' \in {cause, "refused"}, tcp' = tcp
    PROVE  ServerKeeps
<1>1. Served
  BY NoPiece
<1>2. /\ outq # <<>> /\ p = Head(outq) /\ Queue(outq')
      /\ UNCHANGED <<session, brigade, pc>>
  BY ServesForm
<1> QED
  BY <1>1, <1>2, Spoken

LEMMA ServeNotKeeps ==
    ASSUME Shape, NEW p, ServeNot(p)
    PROVE  ServerKeeps
<1>0. Serves(p)
  BY DEF ServeNot
<1>1. /\ outq # <<>> /\ p = Head(outq) /\ Queue(outq')
      /\ UNCHANGED <<session, brigade, pc>>
  BY <1>0, ServesForm
<1>2. CASE p.type = "DISCONNECT"
  <2>1. UNCHANGED <<inq, srv>> /\ tcp' = "fin" /\ (cause' # "none" \/ cause' = cause)
    BY <1>2 DEF ServeNot, Blame
  <2>2. Says({})
    BY <2>1, Silent DEF Shape, ServerShape
  <2>3. Served
    BY <1>0, <1>2, <2>1, NoPiece
  <2> QED
    BY <1>1, <1>2, <2>1, <2>2, <2>3, Spoken
<1>3. CASE p.type # "DISCONNECT"
  <2>1. cause' # "none"
    BY <1>3 DEF ServeNot, Blame
  <2> DEFINE ps == <<Packet("DISCONNECT", "", 0, NoHash)>>
  <2>2. Queue(ps) /\ Types(ps) = {"DISCONNECT"}
    BY OnePacket
  <2>3. Sends(Next1, ps)
    BY <1>3 DEF ServeNot
  <2> HIDE DEF ps
  <2>4. Says(Types(ps)) /\ srv'.authed = srv.authed
    BY <2>2, <2>3, AnswersNext
  <2> QED
    BY <1>1, <2>1, <2>2, <2>4, Spoken
<1> QED
  BY <1>2, <1>3

LEMMA ServeBannerKeeps ==
    ASSUME Shape, NEW p, ServeBanner(p) \/ ServeService(p)
    PROVE  ServerKeeps
<1>1. CASE ServeBanner(p)
  <2>1. Serves(p) /\ p.type = "BANNER" /\ UNCHANGED <<inq, srv, tcp, cause>>
    BY <1>1 DEF ServeBanner
  <2>2. Says({})
    BY <2>1, Silent DEF Shape, ServerShape
  <2> QED
    BY <2>1, <2>2, Replied
<1>2. CASE ServeService(p)
  <2> DEFINE ps == <<Packet("SERVICE_ACCEPT", "", 0, NoHash)>>
  <2>1. Queue(ps) /\ Types(ps) = {"SERVICE_ACCEPT"}
    BY OnePacket
  <2>2. Serves(p) /\ p.type = "SERVICE_REQUEST" /\ Replies(Next1, ps) /\ UNCHANGED <<tcp, cause>>
    BY <1>2 DEF ServeService
  <2> HIDE DEF ps
  <2>3. Says(Types(ps)) /\ srv'.authed = srv.authed /\ srv'.file = srv.file
    BY <2>1, <2>2, AnswersNext
  <2> QED
    BY <2>1, <2>2, <2>3, Replied
<1> QED
  BY <1>1, <1>2

LEMMA ServeAuthKeeps ==
    ASSUME Shape, NEW p, ServeAuth(p)
    PROVE  ServerKeeps
<1>0. Serves(p) /\ p.type \in {"USERAUTH_REQUEST", "INFO_RESPONSE"} /\ UNCHANGED <<tcp, cause>>
  BY DEF ServeAuth
<1>1. CASE Replies([Next1 EXCEPT !.authed = TRUE], <<Packet("SUCCESS", "", 0, NoHash)>>)
  <2> DEFINE ps == <<Packet("SUCCESS", "", 0, NoHash)>>
             s == [Next1 EXCEPT !.authed = TRUE]
  <2>1. Queue(ps) /\ Types(ps) = {"SUCCESS"}
    BY OnePacket
  <2>2. /\ DOMAIN s = SrvFields /\ s.held = srv.held /\ s.sk = srv.sk /\ s.offers = srv.offers
        /\ s.file = srv.file /\ s.authed
    BY Next1Form DEF Shape, SrvFields
  <2>3. Replies(s, ps)
    BY <1>1
  <2> HIDE DEF ps, s
  <2>4. Says(Types(ps)) /\ srv'.authed = s.authed /\ srv'.file = s.file
    BY <2>1, <2>2, <2>3, Answers, SrvForm
  <2> QED
    BY <1>0, <2>1, <2>2, <2>4, Replied
<1>2. ASSUME NEW type \in {"M60", "FAILURE"}, Replies(Next1, <<Packet(type, "", 0, NoHash)>>)
      PROVE  ServerKeeps
  <2> DEFINE ps == <<Packet(type, "", 0, NoHash)>>
  <2>1. Queue(ps) /\ Types(ps) = {type}
    BY OnePacket
  <2>2. Replies(Next1, ps)
    BY <1>2
  <2> HIDE DEF ps
  <2>3. Says(Types(ps)) /\ srv'.authed = srv.authed /\ srv'.file = srv.file
    BY <2>1, <2>2, AnswersNext
  <2> QED
    BY <1>0, <2>1, <2>3, Replied
<1> QED
  BY <1>1, <1>2 DEF ServeAuth

LEMMA ServeKexKeeps ==
    ASSUME Shape, NEW p, ServeKex(p)
    PROVE  ServerKeeps
<1>0. /\ Serves(p) /\ UNCHANGED <<tcp, cause>>
      /\ p.type \in {"KEXINIT", "K34", "K30", "K32", "NEWKEYS"}
  BY DEF ServeKex
<1>1. CASE p.type \in {"KEXINIT", "NEWKEYS"}
  <2>1. inq' = inq
    BY <1>1 DEF ServeKex
  <2>2. /\ DOMAIN srv' = SrvFields /\ srv'.held = srv.held /\ srv'.sk = srv.sk
        /\ srv'.offers = srv.offers /\ srv'.file = srv.file /\ srv'.authed = srv.authed
    <3>1. CASE p.type = "KEXINIT"
      <4>1. PICK c, k : srv' = [Next1 EXCEPT !.ck = c, !.kex = k]
        BY <3>1, Zenon DEF ServeKex
      <4> QED
        BY <4>1, Next1Form, SrvForm DEF SrvFields
    <3>2. CASE p.type = "NEWKEYS"
      <4>1. PICK e : srv' = [srv EXCEPT !.in = e]
        BY <3>2 DEF ServeKex
      <4> QED
        BY <4>1 DEF Shape, ServerShape, SrvFields
    <3> QED
      BY <1>1, <3>1, <3>2
  <2>3. Says({})
    BY <2>1, <2>2, Silent
  <2> QED
    BY <1>0, <1>1, <2>2, <2>3, Replied
<1>2. CASE p.type = "K34"
  <2> DEFINE ps == <<Packet("K31", "gex", 0, NoHash)>>
  <2>1. Queue(ps) /\ Types(ps) = {"K31"}
    BY OnePacket
  <2>2. Sends(Next1, ps)
    BY <1>2 DEF ServeKex
  <2> HIDE DEF ps
  <2>3. Says(Types(ps)) /\ srv'.authed = srv.authed /\ srv'.file = srv.file
    BY <2>1, <2>2, AnswersNext
  <2> QED
    BY <1>0, <1>2, <2>1, <2>3, Replied
<1>3. CASE p.type \in {"K30", "K32"}
  <2> DEFINE type == IF p.type = "K30" THEN "K31" ELSE "K33"
             a == Packet(type, "reply", 0, ServerHash)
             b == Packet("NEWKEYS", "", 0, NoHash)
             ps == <<a, b>>
             e == End([srv.out EXCEPT !.seq = @ + 2], "sc", ServerKey)
             f == [e EXCEPT !.seq = @ + Len(srv.held)]
             i == ServerKey[2]
  <2>2. /\ inq' = inq \o Encoded(srv.out, ps) \o Encoded(e, srv.held)
        /\ srv' = [Next1 EXCEPT !.out = f, !.held = <<>>, !.id = i, !.exch = FALSE]
    BY <1>3 DEF ServeKex
  <2>3. type \in {"K31", "K33"}
    OBVIOUS
  <2> HIDE DEF type, e, f, i
  <2>0. Form(a) /\ a.type = type /\ Form(b) /\ b.type = "NEWKEYS"
    BY DEF Packet, Form, Fields
  <2> HIDE DEF a, b
  <2>1. Queue(ps) /\ Types(ps) = {type, "NEWKEYS"}
    BY <2>0, TwoPackets
  <2> HIDE DEF ps
  <2>4. Queue(inq) /\ Queue(srv.held)
    BY DEF Shape, ServerShape
  <2>5. /\ Queue(Encoded(srv.out, ps)) /\ Types(Encoded(srv.out, ps)) = Types(ps)
        /\ Queue(Encoded(e, srv.held)) /\ Types(Encoded(e, srv.held)) = Types(srv.held)
    BY <2>1, <2>4, QueueEncoded
  <2>6. Queue(inq \o Encoded(srv.out, ps))
        /\ Types(inq \o Encoded(srv.out, ps)) = Types(inq) \cup Types(ps)
    BY <2>4, <2>5, QueueConcat
  <2>7. Queue(inq') /\ Types(inq') = Types(inq) \cup Types(ps) \cup Types(srv.held)
    BY <2>2, <2>5, <2>6, QueueConcat
  <2>8. /\ DOMAIN srv' = SrvFields /\ srv'.held = <<>> /\ srv'.sk = srv.sk
        /\ srv'.offers = srv.offers /\ srv'.file = srv.file /\ srv'.authed = srv.authed
    BY <2>2, Next1Form, SrvForm DEF SrvFields
  <2>9. Says({type, "NEWKEYS"})
    BY <2>1, <2>7, <2>8, QueueEmpty DEF Shape, ServerShape, Says, Coming
  <2> QED
    BY <1>0, <1>3, <2>3, <2>8, <2>9, Replied
<1> QED
  BY <1>0, <1>1, <1>2, <1>3

\* A part of the upload that is answered by packets of the given types.
LEMMA ChannelReplied ==
    ASSUME Shape, NEW p, Serves(p), p.type # "DATA" \/ p.tag # "piece",
           NEW STATE ps, Queue(ps), Replies(Next1, ps), cause' \in {cause, "refused"}, tcp' = tcp,
           Types(ps) \cap {"SUCCESS", "BANNER", "DISCONNECT", "CLOSE"} = {}
    PROVE  ServerKeeps
<1>1. Says(Types(ps)) /\ srv'.authed = srv.authed /\ srv'.file = srv.file
  BY AnswersNext
<1> QED
  BY <1>1, Replied

\* What answers a piece: more window, and after the last one the acknowledgement.
LEMMA PieceAnswer ==
    ASSUME NEW last
    PROVE  LET ps == <<Packet("WINDOW_ADJUST", "", 1, NoHash)>>
                     \o IF last = Pieces THEN <<Packet("DATA", "ok", 0, NoHash)>> ELSE <<>>
           IN  Queue(ps) /\ Types(ps) \subseteq {"WINDOW_ADJUST", "DATA"}
<1> DEFINE a == <<Packet("WINDOW_ADJUST", "", 1, NoHash)>>
           b == IF last = Pieces THEN <<Packet("DATA", "ok", 0, NoHash)>> ELSE <<>>
<1>1. Queue(a) /\ Types(a) = {"WINDOW_ADJUST"}
  BY OnePacket
<1>2. Queue(b) /\ Types(b) \subseteq {"DATA"}
  <2>1. CASE last = Pieces
    <3> DEFINE c == <<Packet("DATA", "ok", 0, NoHash)>>
    <3>1. Queue(c) /\ Types(c) = {"DATA"}
      BY OnePacket
    <3>2. b = c
      BY <2>1
    <3> HIDE DEF b, c
    <3> QED
      BY <3>1, <3>2
  <2>2. CASE last # Pieces
    <3>1. b = <<>>
      BY <2>2
    <3> HIDE DEF b
    <3> QED
      BY <3>1, QueueEmpty
  <2> QED
    BY <2>1, <2>2
<1> HIDE DEF a, b
<1>3. Queue(a \o b) /\ Types(a \o b) \subseteq {"WINDOW_ADJUST", "DATA"}
  BY <1>1, <1>2, QueueConcat
<1> QED
  BY <1>3 DEF a, b

LEMMA PieceKeeps ==
    ASSUME Shape, NEW p, Serves(p), p.tag = "piece", UNCHANGED <<tcp, cause>>,
           NEW STATE s, s = [Next1 EXCEPT !.file = @ + 1],
           NEW STATE ps, Queue(ps), Types(ps) \subseteq {"WINDOW_ADJUST", "DATA"},
           Replies(s, ps)
    PROVE  ServerKeeps
<1>1. /\ DOMAIN s = SrvFields /\ s.held = srv.held /\ s.sk = srv.sk /\ s.offers = srv.offers
      /\ s.file = srv.file + 1 /\ s.authed = srv.authed
  BY Next1Form DEF Shape, SrvFields
<1>2. s.file \in Nat
  <2>1. \A n \in Nat : n + 1 \in Nat
    OBVIOUS
  <2> QED
    BY <1>1, <2>1, SrvForm, Zenon
<1>3. Says(Types(ps)) /\ srv'.authed = s.authed /\ srv'.file = s.file
  BY <1>1, <1>2, Answers, SrvForm
<1>4. Served
  BY <1>1, <1>3 DEF Serves, Served
<1>5. Queue(outq') /\ UNCHANGED <<session, brigade, pc>>
  BY ServesForm
<1> QED
  BY <1>1, <1>3, <1>4, <1>5, Spoken

LEMMA ServeChannelKeeps ==
    ASSUME Shape, NEW p, ServeChannel(p)
    PROVE  ServerKeeps
<1>0. Serves(p) /\ tcp' = tcp
  BY DEF ServeChannel
<1>1. ASSUME NEW type \in {"OPEN_FAILURE", "CHANNEL_FAILURE", "DATA"}, NEW tag, tag # "piece",
             Replies(Next1, <<Packet(type, tag, 0, NoHash)>>),
             p.type # "DATA" \/ p.tag # "piece", cause' \in {cause, "refused"}
      PROVE  ServerKeeps
  <2> DEFINE ps == <<Packet(type, tag, 0, NoHash)>>
  <2>1. Queue(ps) /\ Types(ps) = {type}
    BY <1>1, OnePacket
  <2>2. Replies(Next1, ps)
    BY <1>1
  <2> HIDE DEF ps
  <2> QED
    BY <1>0, <1>1, <2>1, <2>2, ChannelReplied
<1>2. CASE /\ p.type = "OPEN" /\ cause' = cause
           /\ Replies([Next1 EXCEPT !.chan = "open"],
                      <<Packet("OPEN_CONFIRMATION", "", 1, NoHash)>>)
  <2> DEFINE ps == <<Packet("OPEN_CONFIRMATION", "", 1, NoHash)>>
             s == [Next1 EXCEPT !.chan = "open"]
  <2>1. Queue(ps) /\ Types(ps) = {"OPEN_CONFIRMATION"}
    BY OnePacket
  <2>2. /\ DOMAIN s = SrvFields /\ s.held = srv.held /\ s.sk = srv.sk /\ s.offers = srv.offers
        /\ s.file = srv.file /\ s.authed = srv.authed
    BY Next1Form DEF Shape, SrvFields
  <2>3. Replies(s, ps)
    BY <1>2
  <2> HIDE DEF ps, s
  <2>4. Says(Types(ps)) /\ srv'.authed = s.authed /\ srv'.file = s.file
    BY <2>1, <2>2, <2>3, Answers, SrvForm
  <2> QED
    BY <1>0, <1>2, <2>1, <2>2, <2>4, Replied
<1>3. CASE /\ p.type = "EXEC" /\ cause' = cause
           /\ Replies(Next1, <<Packet("CHANNEL_SUCCESS", "", 0, NoHash),
                               Packet("DATA", "ok", 0, NoHash)>>)
  <2> DEFINE a == Packet("CHANNEL_SUCCESS", "", 0, NoHash)
             b == Packet("DATA", "ok", 0, NoHash)
             ps == <<a, b>>
  <2>1. Form(a) /\ a.type = "CHANNEL_SUCCESS" /\ Form(b) /\ b.type = "DATA"
    BY DEF Packet, Form, Fields
  <2>2. Replies(Next1, ps)
    BY <1>3
  <2> HIDE DEF a, b
  <2>3. Queue(ps) /\ Types(ps) = {"CHANNEL_SUCCESS", "DATA"}
    BY <2>1, TwoPackets
  <2> HIDE DEF ps
  <2> QED
    BY <1>0, <1>3, <2>2, <2>3, ChannelReplied
<1>4. CASE p.type = "DATA" /\ p.tag = "piece"
  <2> DEFINE s == [Next1 EXCEPT !.file = @ + 1]
             ps == <<Packet("WINDOW_ADJUST", "", 1, NoHash)>>
                   \o IF s.file = Pieces THEN <<Packet("DATA", "ok", 0, NoHash)>> ELSE <<>>
  <2>1. Replies(s, ps) /\ cause' = cause
    BY <1>4 DEF ServeChannel
  <2> HIDE DEF s
  <2>2. Queue(ps) /\ Types(ps) \subseteq {"WINDOW_ADJUST", "DATA"}
    BY PieceAnswer
  <2> HIDE DEF ps
  <2>3. s = [Next1 EXCEPT !.file = @ + 1]
    BY DEF s
  <2> QED
    BY <1>0, <1>4, <2>1, <2>2, <2>3, PieceKeeps
<1>5. CASE p.type \in {"EOF", "CLOSE"} /\ srv' = Next1 /\ UNCHANGED <<inq, cause>>
  <2>1. Says({}) /\ srv'.authed = srv.authed /\ srv'.file = srv.file
    BY <1>5, Silent, Next1Form, SrvForm
  <2> QED
    BY <1>0, <1>5, <2>1, Replied
<1>6. CASE /\ p.type = "CLOSE" /\ cause' = cause
           /\ Replies([Next1 EXCEPT !.chan = "closed"], <<Packet("CLOSE", "", 0, NoHash)>>)
  <2> DEFINE ps == <<Packet("CLOSE", "", 0, NoHash)>>
             s == [Next1 EXCEPT !.chan = "closed"]
  <2>1. Queue(ps) /\ Types(ps) = {"CLOSE"}
    BY OnePacket
  <2>2. /\ DOMAIN s = SrvFields /\ s.held = srv.held /\ s.sk = srv.sk /\ s.offers = srv.offers
        /\ s.file = srv.file /\ s.authed = srv.authed
    BY Next1Form DEF Shape, SrvFields
  <2>3. Replies(s, ps)
    BY <1>6
  <2> HIDE DEF ps, s
  <2>4. Says(Types(ps)) /\ srv'.authed = s.authed /\ srv'.file = s.file
    BY <2>1, <2>2, <2>3, Answers, SrvForm
  <2> QED
    BY <1>0, <1>6, <2>1, <2>2, <2>4, Replied
<1>7. CASE p.type = "OPEN"
  BY <1>1, <1>2, <1>7 DEF ServeChannel, Blame
<1>8. CASE p.type = "EXEC"
  BY <1>1, <1>3, <1>8 DEF ServeChannel, Blame
<1>9. CASE p.type = "DATA" /\ p.tag = "line"
  BY <1>1, <1>9 DEF ServeChannel, Blame
<1>10. CASE p.type = "EOF"
  BY <1>5, <1>10 DEF ServeChannel
<1>11. CASE p.type = "CLOSE"
  BY <1>5, <1>6, <1>11 DEF ServeChannel
<1> QED
  BY <1>4, <1>7, <1>8, <1>9, <1>10, <1>11 DEF ServeChannel

LEMMA ServerStep ==
    ASSUME Shape, Server
    PROVE  ServerKeeps
<1>1. CASE Serve
  BY <1>1, ServeNotKeeps, ServeBannerKeeps, ServeKexKeeps, ServeAuthKeeps, ServeChannelKeeps
     DEF Serve
<1>2. CASE ServerCloses
  <2> DEFINE ps == <<Packet("CLOSE", "", 0, NoHash)>>
             s == [srv EXCEPT !.chan = "closed"]
  <2>1. Queue(ps) /\ Types(ps) = {"CLOSE"}
    BY OnePacket
  <2>2. /\ DOMAIN s = SrvFields /\ s.held = srv.held /\ s.sk = srv.sk /\ s.offers = srv.offers
        /\ s.file = srv.file /\ s.authed = srv.authed
    BY DEF Shape, ServerShape, SrvFields
  <2>3. Sends(s, ps) /\ cause' # "none" /\ UNCHANGED <<session, brigade, pc, outq>>
    BY <1>2 DEF ServerCloses, Blame
  <2> HIDE DEF ps, s
  <2>4. Says(Types(ps)) /\ srv'.authed = s.authed /\ srv'.file = s.file
    BY <2>1, <2>2, <2>3, Answers, SrvForm
  <2>5. Queue(outq')
    BY <2>3 DEF Shape, ClientShape
  <2> QED
    BY <2>1, <2>2, <2>3, <2>4, <2>5, Spoken
<1>3. CASE ServerRekeys
  <2> DEFINE o == Offer(srv.sk + 1)
             a == <<Packet("KEXINIT", "", srv.sk + 1, NoHash)>>
             b == IF o.guess = "none" THEN <<>> ELSE <<Packet(o.guess, "guess", 0, NoHash)>>
             ps == a \o b
             s == [srv EXCEPT !.exch = TRUE, !.sk = @ + 1]
  <2>1. o.guess \in Guesses
    <3>1. srv.sk + 1 \in Nat \ {0}
      BY SrvForm
    <3> QED
      BY <3>1, OfferGuess, SrvForm
  <2>2. Queue(a) /\ Types(a) = {"KEXINIT"}
    BY OnePacket
  <2>3. Sends(s, ps) /\ UNCHANGED <<session, brigade, pc, tcp, outq, cause>>
    BY <1>3 DEF ServerRekeys
  <2>4. /\ DOMAIN s = SrvFields /\ s.held = srv.held /\ s.sk = srv.sk + 1
        /\ s.offers = srv.offers /\ s.file = srv.file /\ s.authed = srv.authed
    BY DEF Shape, ServerShape, SrvFields
  <2> HIDE DEF o, a, s
  <2>5. Queue(b) /\ Types(b) \subseteq {"K30", "K31", "K33"}
    BY <2>1, OnePacket, QueueEmpty DEF Guesses
  <2> HIDE DEF b
  <2>6. Queue(ps) /\ Types(ps) \subseteq {"KEXINIT", "K30", "K31", "K33"}
    BY <2>2, <2>5, QueueConcat
  <2> HIDE DEF ps
  <2>7. s.sk \in Nat \ {0} /\ s.file \in Nat
    BY <2>4, SrvForm
  <2>8. Says(Types(ps)) /\ srv'.authed = s.authed /\ srv'.file = s.file
    BY <2>3, <2>4, <2>6, <2>7, Answers
  <2>9. Queue(outq')
    BY <2>3 DEF Shape, ClientShape
  <2> QED
    BY <2>3, <2>4, <2>6, <2>8, <2>9, Spoken
<1>4. CASE ServerBanner
  <2> DEFINE ps == <<Packet("USERAUTH_BANNER", "", 0, NoHash)>>
  <2>1. Queue(ps) /\ Types(ps) = {"USERAUTH_BANNER"}
    BY OnePacket
  <2>2. Sends(srv, ps) /\ UNCHANGED <<session, brigade, pc, tcp, outq, cause>>
    BY <1>4 DEF ServerBanner
  <2> HIDE DEF ps
  <2>3. DOMAIN srv = SrvFields
    BY DEF Shape, ServerShape
  <2>4. Says(Types(ps)) /\ srv'.authed = srv.authed /\ srv'.file = srv.file
    BY <2>1, <2>2, <2>3, Answers, SrvForm
  <2>5. Queue(outq')
    BY <2>2 DEF Shape, ClientShape
  <2> QED
    BY <2>1, <2>2, <2>4, <2>5, Spoken
<1>5. CASE Lost
  <2>1. cause' # "none" /\ UNCHANGED <<session, brigade, pc, outq, srv>>
    BY <1>5 DEF Lost, Blame
  <2>2. Queue(inq') /\ Types(inq') \subseteq Types(inq)
    BY <1>5, QueueEmpty, SrvForm DEF Lost
  <2>3. Says({})
    BY <2>1, <2>2 DEF Shape, ServerShape, Says, Coming
  <2>4. Queue(outq')
    BY <2>1 DEF Shape, ClientShape
  <2> QED
    BY <2>1, <2>3, <2>4, Spoken
<1> QED
  BY <1>1, <1>2, <1>3, <1>4, <1>5 DEF Server

----------------------------------------------------------------------------
(* Authentication                                                          *)

\* Until the server has accepted the client, no SUCCESS is held back, on its way or in the
\* brigade, and the client has not gone on.
AuthInv ==
    ~srv.authed =>
        /\ "SUCCESS" \notin Coming \cup Types(brigade)
        /\ ~session.authenticated /\ session.chan.st = "none" /\ pc.at # "scp"

\* What is at each place of a concatenation.
LEMMA JoinParts ==
    ASSUME NEW S, NEW r \in Seq(S), NEW q \in Seq(S)
    PROVE  /\ r \o q \in Seq(S) /\ Len(r \o q) = Len(r) + Len(q)
           /\ Len(r) \in Nat /\ Len(q) \in Nat
           /\ \A i \in 1 .. Len(r) : (r \o q)[i] = r[i]
           /\ \A i \in 1 .. Len(q) : (r \o q)[i + Len(r)] = q[i]
  BY ConcatProperties, LenProperties

\* Two packets put before a queue: without the first, the second is before it.
LEMMA TwoBefore ==
    ASSUME NEW S, NEW x \in S, NEW y \in S, NEW q \in Seq(S)
    PROVE  <<x, y>> \o q # <<>> /\ Tail(<<x, y>> \o q) = <<y>> \o q
<1> DEFINE b == <<x, y>>
           d == <<y>>
<1>1. b \in Seq(S) /\ Len(b) = 2 /\ b[1] = x /\ b[2] = y
  OBVIOUS
<1>2. d \in Seq(S) /\ Len(d) = 1 /\ d[1] = y
  OBVIOUS
<1> HIDE DEF b, d
<1>3. /\ b \o q \in Seq(S) /\ Len(b \o q) = 2 + Len(q) /\ Len(q) \in Nat
      /\ (b \o q)[2] = y /\ \A k \in 1 .. Len(q) : (b \o q)[k + 2] = q[k]
  <2>0. b \in Seq(S)
    BY <1>1
  <2>1. /\ b \o q \in Seq(S) /\ Len(b \o q) = Len(b) + Len(q) /\ Len(q) \in Nat
        /\ \A i \in 1 .. Len(b) : (b \o q)[i] = b[i]
        /\ \A i \in 1 .. Len(q) : (b \o q)[i + Len(b)] = q[i]
    BY <2>0, JoinParts
  <2> QED
    BY <1>1, <2>1
<1>4. /\ d \o q \in Seq(S) /\ Len(d \o q) = 1 + Len(q)
      /\ (d \o q)[1] = y /\ \A k \in 1 .. Len(q) : (d \o q)[k + 1] = q[k]
  <2>0. d \in Seq(S)
    BY <1>2
  <2>1. /\ d \o q \in Seq(S) /\ Len(d \o q) = Len(d) + Len(q) /\ Len(q) \in Nat
        /\ \A i \in 1 .. Len(d) : (d \o q)[i] = d[i]
        /\ \A i \in 1 .. Len(q) : (d \o q)[i + Len(d)] = q[i]
    BY <2>0, JoinParts
  <2> QED
    BY <1>2, <2>1
<1>5. b \o q # <<>>
  BY <1>3, EmptySeq
<1>6. /\ Tail(b \o q) \in Seq(S) /\ Len(Tail(b \o q)) = 1 + Len(q)
      /\ \A i \in 1 .. 1 + Len(q) : Tail(b \o q)[i] = (b \o q)[i + 1]
  BY <1>3, <1>5, HeadTailProperties
<1>7. ASSUME NEW i \in 1 .. 1 + Len(q)
      PROVE  Tail(b \o q)[i] = (d \o q)[i]
  <2>1. CASE i = 1
    BY <1>3, <1>4, <1>6, <2>1
  <2>2. CASE i # 1
    <3>1. PICK k \in 1 .. Len(q) : i = k + 1
      <4>1. i - 1 \in 1 .. Len(q) /\ i = (i - 1) + 1
        BY <1>3, <2>2
      <4> QED
        BY <4>1
    <3> QED
      BY <1>3, <1>4, <1>6, <3>1
  <2> QED
    BY <2>1, <2>2
<1>8. Tail(b \o q) = d \o q
  BY <1>3, <1>4, <1>6, <1>7, SeqEqual
<1> QED
  BY <1>5, <1>8 DEF b, d

\* What the server has sent when the connection is made: a line before its banner, if it
\* greets, the banner, the KEXINIT, and a packet of the exchange that it guesses.
LEMMA GreetingForm ==
    ASSUME NEW s \in Servers
    PROVE  LET q == (IF s.greets THEN <<Packet("BANNER", "greeting", 0, NoHash)>> ELSE <<>>)
                    \o <<Packet("BANNER", "banner", 0, NoHash), Packet("KEXINIT", "", 1, NoHash)>>
                    \o (IF s.offers[1].guess = "none" THEN <<>>
                        ELSE <<Packet(s.offers[1].guess, "guess", 0, NoHash)>>)
           IN  /\ Queue(q) /\ q # <<>> /\ Types(q) \subseteq {"BANNER", "KEXINIT"} \cup Guesses
               /\ Head(q).tag = "greeting" \/ "BANNER" \notin Types(Tail(q))
<1> DEFINE g == s.offers[1].guess
           w == Packet("BANNER", "greeting", 0, NoHash)
           a == IF s.greets THEN <<w>> ELSE <<>>
           x == Packet("BANNER", "banner", 0, NoHash)
           y == Packet("KEXINIT", "", 1, NoHash)
           b == <<x, y>>
           z == Packet(g, "guess", 0, NoHash)
           c == IF g = "none" THEN <<>> ELSE <<z>>
<1>1. g \in Guesses
  <2>1. s.offers # <<>> /\ s.offers \in Seq(Range(s.offers))
        /\ \A i \in DOMAIN s.offers : s.offers[i].guess \in Guesses
    BY SshSessionAssumption DEF Guesses
  <2>2. 1 \in DOMAIN s.offers
    BY <2>1
  <2> QED
    BY <2>1, <2>2
<1> HIDE DEF g
<1>2. /\ Form(w) /\ w.type = "BANNER" /\ w.tag = "greeting" /\ Form(z) /\ z.type = g
      /\ Form(x) /\ x.type = "BANNER" /\ Form(y) /\ y.type = "KEXINIT"
  BY DEF Packet, Form, Fields
<1> HIDE DEF w, x, y, z
<1>3. Queue(b) /\ Types(b) = {"BANNER", "KEXINIT"}
  BY <1>2, TwoPackets
<1>4. Queue(c) /\ Types(c) \subseteq Guesses
  BY <1>1, <1>2, QueueOne, QueueEmpty
<1>5. CASE s.greets
  <2>1. a = <<w>>
    BY <1>5
  <2>2. Queue(a) /\ Types(a) = {"BANNER"}
    BY <1>2, <2>1, QueueOne
  <2>3. /\ Queue(a \o b) /\ Types(a \o b) = Types(a) \cup Types(b)
    BY <1>3, <2>2, QueueConcat
  <2>4. /\ Queue((a \o b) \o c) /\ Types((a \o b) \o c) = Types(a \o b) \cup Types(c)
    BY <1>4, <2>3, QueueConcat
  <2>5. a \o b \o c = <<w, x, y>> \o c
    BY <2>1
  <2>6. /\ <<w, x, y>> \o c # <<>> /\ Head(<<w, x, y>> \o c) = w
    BY <1>4 DEF Queue
  <2> HIDE DEF a, b, c
  <2>7. Queue(a \o b \o c) /\ a \o b \o c # <<>> /\ Head(a \o b \o c).tag = "greeting"
        /\ Types(a \o b \o c) \subseteq {"BANNER", "KEXINIT"} \cup Guesses
    BY <1>2, <1>3, <1>4, <2>2, <2>3, <2>4, <2>5, <2>6
  <2> QED
    BY <2>7 DEF a, b, c, w, x, y, z, g
<1>6. CASE ~s.greets
  <2>1. a = <<>>
    BY <1>6
  <2>2. a \o b \o c = b \o c
    BY <1>3, <2>1 DEF Queue
  <2>3. /\ Queue(b \o c) /\ Types(b \o c) = Types(b) \cup Types(c)
    BY <1>3, <1>4, QueueConcat
  <2>4. /\ b \o c # <<>> /\ Tail(b \o c) = <<y>> \o c
    <3> HIDE DEF c
    <3>1. c \in Seq(Range(c))
      BY <1>4 DEF Queue
    <3>2. c \in Seq(Range(c) \cup {x, y})
      BY <3>1, SeqMonotonic
    <3> QED
      BY <3>2, TwoBefore
  <2>5. Types(<<y>> \o c) = {"KEXINIT"} \cup Types(c)
    <3> HIDE DEF a, b, c
    <3>1. Queue(<<y>>) /\ Types(<<y>>) = {"KEXINIT"}
      BY <1>2, QueueOne
    <3> QED
      BY <1>4, <3>1, QueueConcat
  <2> HIDE DEF a, b, c
  <2>6. Queue(a \o b \o c) /\ a \o b \o c # <<>> /\ "BANNER" \notin Types(Tail(a \o b \o c))
        /\ Types(a \o b \o c) \subseteq {"BANNER", "KEXINIT"} \cup Guesses
    BY <1>3, <1>4, <2>2, <2>3, <2>4, <2>5 DEF Guesses
  <2> QED
    BY <2>6 DEF a, b, c, w, x, y, z, g
<1> QED
  BY <1>5, <1>6

LEMMA AuthInit ==
    ASSUME Init
    PROVE  Shape /\ AuthInv
<1>1. PICK s \in Servers :
        /\ srv = [offers |-> s.offers, exch |-> TRUE, ck |-> 0, sk |-> 1, kex |-> No,
                  in |-> NoEnd,
                  out |-> [NoEnd EXCEPT !.seq = IF s.offers[1].guess = "none" THEN 1 ELSE 2],
                  id |-> NoHash, authed |-> FALSE, chan |-> "none", file |-> 0, held |-> <<>>]
        /\ inq = (IF s.greets THEN <<Packet("BANNER", "greeting", 0, NoHash)>> ELSE <<>>)
                 \o <<Packet("BANNER", "banner", 0, NoHash), Packet("KEXINIT", "", 1, NoHash)>>
                 \o (IF s.offers[1].guess = "none" THEN <<>>
                     ELSE <<Packet(s.offers[1].guess, "guess", 0, NoHash)>>)
  BY DEF Init
<1>2. Queue(inq) /\ "SUCCESS" \notin Types(inq)
  BY <1>1, GreetingForm DEF Guesses
<1>3. ServerShape /\ srv.held = <<>>
  <2>1. PICK o : srv = [offers |-> s.offers, exch |-> TRUE, ck |-> 0, sk |-> 1, kex |-> No,
                        in |-> NoEnd, out |-> o, id |-> NoHash, authed |-> FALSE,
                        chan |-> "none", file |-> 0, held |-> <<>>]
    BY <1>1, Zenon
  <2>2. /\ DOMAIN srv = SrvFields /\ srv.held = <<>> /\ srv.sk = 1 /\ srv.file = 0
        /\ srv.offers = s.offers
    BY <2>1 DEF SrvFields
  <2> QED
    BY <2>2, QueueEmpty DEF ServerShape
<1>4. PcForm(pc) /\ pc.at = "connect"
  <2>1. PICK p \in Programs :
          pc = [at |-> "connect", kx |-> "none", wait |-> "read", cont |-> "none",
                todo |-> p, left |-> Pieces, group |-> "none", result |-> "none"]
    BY DEF Init
  <2>2. DOMAIN pc = PcFields /\ pc.kx = "none" /\ pc.at = "connect"
    BY <2>1 DEF PcFields
  <2> QED
    BY <2>2 DEF PcForm, Stages
<1>5. /\ DOMAIN session = SessionFields /\ DOMAIN session.chan = ChanFields
      /\ ~session.authenticated /\ session.chan.st = "none"
  BY DEF Init, SessionFields, ChanFields
<1>6. brigade = <<>> /\ outq = <<>>
  BY DEF Init
<1> QED
  BY <1>2, <1>3, <1>4, <1>5, <1>6, QueueEmpty
     DEF Shape, ClientShape, AuthInv, Coming

LEMMA AuthStep ==
    ASSUME Shape /\ AuthInv, [Next]_vars
    PROVE  (Shape /\ AuthInv)'
<1>1. CASE Client
  <2>1. ClientKeeps
    BY <1>1, ClientStep
  <2>2. srv' = srv
    BY <2>1 DEF ClientKeeps, Delivered
  <2>3. Shape'
    BY <2>1, <2>2 DEF ClientKeeps, Delivered, Shape, ServerShape
  <2>4. AuthInv'
    BY <2>1, <2>2 DEF ClientKeeps, Delivered, Earned, AuthInv, Coming
  <2> QED
    BY <2>3, <2>4
<1>2. CASE Server
  <2>1. ServerKeeps
    BY <1>2, ServerStep
  <2>2. Shape'
    BY <2>1 DEF ServerKeeps, Shape, ClientShape
  <2>3. AuthInv'
    BY <2>1 DEF ServerKeeps, AuthInv
  <2> QED
    BY <2>2, <2>3
<1>3. CASE UNCHANGED vars
  BY <1>3 DEF vars, Shape, ClientShape, ServerShape, AuthInv, Coming
<1> QED
  BY <1>1, <1>2, <1>3 DEF Next

\* Whatever servers and programs there are, however many questions and re-exchanges: the
\* client takes itself for authenticated (userauth_*), and has a channel, only when the
\* server has accepted it.
THEOREM AcceptedFirst == Spec => []AuthenticatedByServer
<1>1. Shape /\ AuthInv => AuthenticatedByServer
  BY DEF AuthInv, AuthenticatedByServer
<1> QED
  BY <1>1, AuthInit, AuthStep, PTL DEF Spec

----------------------------------------------------------------------------
(* The upload                                                              *)

\* The places of the thread before the banners are exchanged, and at the end.
Unbannered == {"connect", "sendBanner", "banner"}
Freeing == {"free", "free1", "free2"}
Final == Freeing \cup {"disconnect", "freeSession", "done", "dead", "hung"}
Written == {"eof", "close", "waitClosed"}
Closing == {"waitClosed", "dead", "hung"}

\* Where the thread may be with its result and with what follows channel_free.
Course(p) ==
    /\ p.result # "none" => p.at \in Final /\ (p.at \in Freeing => p.cont = "end")
    /\ p.at \in {"disconnect", "freeSession"} \/ p.cont = "end" => p.result # "none"
    /\ p.cont # "none" => p.at \in Final
    /\ p.at \in Freeing => p.cont # "none"
    /\ p.left \in Nat
    /\ p.at \in Written => p.left = 0

\* Until the banners are exchanged the server waits.
Waits ==
    pc.at \in Unbannered =>
        /\ pc.kx = "none" /\ srv.exch /\ Types(outq) \subseteq {"BANNER"}
        /\ inq # <<>> /\ (Head(inq).tag = "greeting" \/ "BANNER" \notin Types(Tail(inq)))
        /\ "BANNER" \notin Types(srv.held)

\* Nobody ends the connection before the client does.
Calm ==
    /\ tcp \in {"up", "fin"} /\ (tcp = "fin" => pc.result # "none")
    /\ session.socket_state = "CONNECTED"
    /\ "DISCONNECT" \notin Coming
    /\ "DISCONNECT" \in Types(outq) => pc.result # "none"
    /\ pc.at \notin Unbannered => "BANNER" \notin Coming

\* The server has closed the channel.
Answered == "CLOSE" \in Coming \/ session.chan.rclose

\* No piece follows the CLOSE.
Order(q) == \A i, j \in DOMAIN q : i < j /\ q[i].type = "CLOSE" => q[j].tag # "piece"

\* Each piece is still to be sent, on its way, or there; and the channel is closed after
\* the last one.
Whole ==
    /\ srv.file + Count(outq) + pc.left = Pieces
    /\ pc.cont = "none" =>
          /\ "CLOSE" \in Types(outq) \/ Answered =>
                pc.at \in Closing /\ pc.left = 0
          /\ Answered => srv.file = Pieces
          /\ Order(outq)
    /\ pc.cont = "0" \/ pc.result = "0" => srv.file = Pieces

Good == Course(pc) /\ Waits /\ Calm /\ Whole
UploadInv == cause = "none" => Good

\* A step of the thread that takes no piece from the file: where it goes, ...
Moves ==
    /\ Course(pc') /\ pc'.left = pc.left
    /\ pc.at \notin Unbannered /\ pc'.at \notin Unbannered
    /\ pc.result # "none" => pc'.result # "none"
    /\ pc'.cont = "none" => pc.cont = "none" /\ (pc.at \in Closing => pc'.at \in Closing)
    /\ pc'.cont = "0" \/ pc'.result = "0" =>
          pc.cont = "0" \/ pc.result = "0" \/ (pc.cont = "none" /\ session.chan.rclose)

\* ... what it sends, ...
Adds ==
    \/ outq' = outq
    \/ \E e : /\ Form(e) /\ e.tag # "piece" /\ outq' = Append(outq, e)
              /\ e.type = "DISCONNECT" => pc'.result # "none"
              /\ e.type = "CLOSE" => pc'.cont # "none" \/ (pc'.at = "waitClosed" /\ pc'.left = 0)

\* ... and that it leaves the connection as it is.
Calmly ==
    /\ tcp' = tcp /\ session'.socket_state = session.socket_state
    /\ session'.chan.rclose => session.chan.rclose \/ "CLOSE" \in Types(inq)

LEMMA AppendForm ==
    ASSUME NEW q, NEW e, Queue(q)
    PROVE  /\ DOMAIN Append(q, e) = 1 .. Len(q) + 1 /\ Len(q) \in Nat /\ DOMAIN q = 1 .. Len(q)
           /\ Append(q, e)[Len(q) + 1] = e
           /\ \A i \in 1 .. Len(q) : Append(q, e)[i] = q[i]
BY AppendProperties DEF Queue

LEMMA OrderAppend ==
    ASSUME NEW q, NEW e, Queue(q), Order(q), e.tag # "piece" \/ "CLOSE" \notin Types(q)
    PROVE  Order(Append(q, e))
<1> DEFINE r == Append(q, e)
           n == Len(q)
<1>1. /\ DOMAIN r = 1 .. n + 1 /\ n \in Nat /\ DOMAIN q = 1 .. n
      /\ r[n + 1] = e /\ \A i \in 1 .. n : r[i] = q[i]
  BY AppendForm
<1> HIDE DEF r, n
<1>2. ASSUME NEW i \in 1 .. n + 1, NEW j \in 1 .. n + 1, i < j, r[i].type = "CLOSE"
      PROVE  r[j].tag # "piece"
  <2>1. i \in 1 .. n /\ (j \in 1 .. n \/ j = n + 1)
    BY <1>1, <1>2
  <2>2. q[i].type = "CLOSE" /\ "CLOSE" \in Types(q)
    BY <1>1, <1>2, <2>1 DEF Types
  <2>3. CASE j \in 1 .. n
    BY <1>1, <1>2, <2>1, <2>2, <2>3 DEF Order
  <2>4. CASE j = n + 1
    BY <1>1, <2>2, <2>4
  <2> QED
    BY <2>1, <2>3, <2>4
<1>3. Order(r)
  BY <1>1, <1>2 DEF Order
<1> QED
  BY <1>3 DEF r

LEMMA Proceeds ==
    ASSUME Shape, Good, ClientKeeps, Moves, Adds, Calmly
    PROVE  Good'
<1>1. /\ Queue(outq) /\ srv' = srv /\ Coming' \subseteq Coming /\ Types(inq) \subseteq Coming
      /\ Count(outq) \in Nat
  BY CountForm DEF Shape, ClientShape, ClientKeeps, Delivered, Coming
<1> DEFINE Sent ==
      /\ Count(outq') = Count(outq)
      /\ "DISCONNECT" \in Types(outq') => "DISCONNECT" \in Types(outq) \/ pc'.result # "none"
      /\ "CLOSE" \in Types(outq') => \/ "CLOSE" \in Types(outq) \/ pc'.cont # "none"
                                     \/ (pc'.at = "waitClosed" /\ pc'.left = 0)
      /\ Order(outq) => Order(outq')
<1>2. Sent
  <2>1. CASE outq' = outq
    BY <2>1
  <2>2. ASSUME NEW e, Form(e), e.tag # "piece", outq' = Append(outq, e),
               e.type = "DISCONNECT" => pc'.result # "none",
               e.type = "CLOSE" => pc'.cont # "none" \/ (pc'.at = "waitClosed" /\ pc'.left = 0)
        PROVE  Sent
    <3>1. Types(outq') = Types(outq) \cup {e.type}
      BY <1>1, <2>2, QueueAppend
    <3>2. Count(outq') = Count(outq) + 0
      BY <1>1, <2>2, CountAppend
    <3>3. Order(outq) => Order(outq')
      BY <1>1, <2>2, OrderAppend
    <3> QED
      BY <1>1, <2>2, <3>1, <3>2, <3>3
  <2> QED
    BY <2>1, <2>2 DEF Adds
<1>3. Answered' => Answered
  BY <1>1 DEF Answered, Calmly
<1>4. Calm'
  BY <1>1, <1>2 DEF Good, Calm, Calmly, Moves
<1>5. Waits' /\ Course(pc)'
  BY DEF Waits, Moves, Course
<1>6. Whole'
  BY <1>1, <1>2, <1>3 DEF Good, Whole, Moves, Answered, Closing
<1> QED
  BY <1>4, <1>5, <1>6 DEF Good

\* Where a step of the thread may lead.
Late == Unbannered \cup Final \cup Written
Same(p) == p.left = pc.left /\ p.cont = pc.cont /\ p.result = pc.result

LEMMA Stays ==
    ASSUME Course(pc), pc.at \notin Unbannered, Same(pc'), pc'.at \in {pc.at, "dead", "hung"}
    PROVE  Moves
BY DEF Course, Moves, Same, Unbannered, Final, Freeing, Written, Closing

LEMMA Advances ==
    ASSUME Course(pc), pc.at \notin Late, pc'.left = pc.left,
           \/ Same(pc') /\ pc'.at \notin Late
           \/ /\ pc'.at = "disconnect" /\ pc'.cont = pc.cont
              /\ pc'.result \in {"SESSION_NOT_OPENED", "AUTHENTICATION_FAILED", "FILE_NOT_FOUND"}
           \/ pc'.at \in {"free", "free1"} /\ pc'.cont = "throw" /\ pc'.result = pc.result
    PROVE  Moves
BY DEF Course, Moves, Same, Late, Unbannered, Final, Freeing, Written, Closing

LEMMA PcOps ==
    ASSUME PcForm(pc)
    PROVE  /\ \A a : Same(Go(a)) /\ Go(a).at = a
           /\ \A k : Same(GoKex(k)) /\ GoKex(k).at = pc.at
           /\ \A r : /\ Disconnects(r).at = "disconnect" /\ Disconnects(r).result = r
                     /\ Disconnects(r).left = pc.left /\ Disconnects(r).cont = pc.cont
           /\ \A a : /\ ChannelError(a).at = a /\ ChannelError(a).cont = "throw"
                     /\ ChannelError(a).left = pc.left /\ ChannelError(a).result = pc.result
           /\ Same(Returned) /\ Returned.at = pc.at
BY DEF PcForm, PcFields, Same, Go, GoKex, Disconnects, ChannelError, Returned

\* Before the banners are exchanged there are no key exchanges and no waits for packets.
LEMMA Bannered ==
    ASSUME Waits, Label \notin Unbannered
    PROVE  pc.at \notin Unbannered
BY DEF Waits, Label

LEMMA KexFailedMoves ==
    ASSUME PcForm(pc), Course(pc), pc.at \notin Unbannered, pc' = KexFailed
    PROVE  Moves
<1>1. CASE pc.at = "startup"
  <2>1. pc' = Disconnects("SESSION_NOT_OPENED")
    BY <1>1 DEF KexFailed
  <2>2. pc.at \notin Late
    BY <1>1 DEF Late, Unbannered, Final, Freeing, Written
  <2> QED
    BY <2>1, <2>2, PcOps, Advances
<1>2. CASE pc.at # "startup"
  <2>1. pc' = Returned
    BY <1>2 DEF KexFailed
  <2> QED
    BY <2>1, PcOps, Stays
<1> QED
  BY <1>1, <1>2

\* packet_write of anything but a piece, a CLOSE or a DISCONNECT
LEMMA SendAdds ==
    ASSUME NEW STATE s, NEW STATE p, NEW STATE then, NEW STATE otherwise,
           Send(s, p, then, otherwise), Queue(outq),
           DOMAIN s = SessionFields, Form(p), p.tag # "piece",
           p.type \notin {"DISCONNECT", "CLOSE"}
    PROVE  /\ Adds /\ pc' \in {then, otherwise}
           /\ session'.chan = s.chan /\ session'.socket_state = s.socket_state
BY SendForm DEF Adds

LEMMA ReceiveGoes ==
    ASSUME Shape, Good, Receive, cause' = "none"
    PROVE  Moves /\ Adds /\ Calmly
<1> USE DEF PcForm, PcFields
<1>0. PcForm(pc) /\ Course(pc) /\ DOMAIN session = SessionFields /\ DOMAIN session.chan = ChanFields
  BY DEF Shape, ClientShape, Good
<1>1. Reads
  BY DEF Receive, ReadError, ReadLost, ReadNothing, AddDisconnect, AddChannel, AddToBrigade,
     Reexchange, AddGarbage, AddBanner, Receives
<1>2. pc.at \notin Unbannered
  <2>1. Label \notin Unbannered
    BY <1>1 DEF Reads, Requires, Loops, Unbannered
  <2> QED
    BY <2>1, Bannered DEF Good
<1>3. tcp # "reset" /\ session.socket_state = "CONNECTED"
      /\ "DISCONNECT" \notin Types(inq) /\ "BANNER" \notin Types(inq)
  BY <1>2 DEF Good, Calm, Coming
<1>4. CASE ReadError \/ ReadLost
  BY <1>3, <1>4 DEF ReadError, ReadLost
<1>5. CASE ReadNothing
  <2>1. Same(pc') /\ pc'.at = pc.at
    BY <1>0, <1>5 DEF ReadNothing, Same
  <2> QED
    BY <1>0, <1>2, <1>5, <2>1, Stays DEF ReadNothing, Adds, Calmly
<1>6. ASSUME NEW p \in Range(inq),
             AddDisconnect(p) \/ AddChannel(p) \/ AddToBrigade(p) \/ Reexchange(p)
             \/ AddGarbage(p) \/ AddBanner(p)
      PROVE  Moves /\ Adds /\ Calmly
  <2>1. Receives(p)
    BY <1>6 DEF AddDisconnect, AddChannel, AddToBrigade, Reexchange, AddGarbage, AddBanner
  <2>2. p.type \in Types(inq) /\ UNCHANGED <<tcp, outq>>
    BY <2>1, QueueTail DEF Receives, Shape
  <2>3. AddChannel(p) \/ AddToBrigade(p) \/ Reexchange(p)
    <3>1. ~AddDisconnect(p) /\ ~AddBanner(p)
      BY <1>3, <2>2 DEF AddDisconnect, AddBanner
    <3>2. ~AddGarbage(p)
      BY DEF AddGarbage, Blame
    <3> QED
      BY <1>6, <3>1, <3>2
  <2>4. Same(pc') /\ pc'.at = pc.at
    <3>1. pc' \in {Onward(p), GoKex("kexinit")}
      BY <2>3 DEF AddChannel, AddToBrigade, Reexchange
    <3> QED
      BY <1>0, <3>1 DEF Onward, GoKex, Same
  <2>5. Calmly
    <3>1. /\ DOMAIN Counted = SessionFields /\ Counted.chan = session.chan
          /\ Counted.socket_state = session.socket_state
      BY <1>0 DEF Counted, SessionFields
    <3>2. CASE AddChannel(p)
      <4>1. PICK w, r : /\ session' = [Counted EXCEPT !.chan.win = w, !.chan.rclose = r]
                        /\ r => session.chan.rclose \/ p.type = "CLOSE"
        <5>1. PICK w : session' = [Counted EXCEPT !.chan.win = w,
                         !.chan.rclose = @ \/ (p.type = "CLOSE" /\ session.chan.st # "none")]
          BY <3>2, Zenon DEF AddChannel
        <5> QED
          BY <3>1, <5>1, Zenon
      <4>2. session'.socket_state = session.socket_state /\ session'.chan.rclose = r
        BY <1>0, <3>1, <4>1 DEF SessionFields, ChanFields
      <4>3. session'.chan.rclose => session.chan.rclose \/ p.type = "CLOSE"
        BY <4>1, <4>2, Zenon
      <4> QED
        BY <2>2, <4>2, <4>3, Zenon DEF Calmly
    <3>3. CASE AddToBrigade(p) \/ Reexchange(p)
      <4>1. session' = Counted
        BY <3>3 DEF AddToBrigade, Reexchange
      <4> QED
        BY <2>2, <3>1, <4>1 DEF Calmly
    <3> QED
      BY <2>3, <3>2, <3>3
  <2> QED
    BY <1>0, <1>2, <2>2, <2>4, <2>5, Stays DEF Adds
<1> QED
  BY <1>4, <1>5, <1>6 DEF Receive

LEMMA NotThereGoes ==
    ASSUME Shape, Good, NotThere
    PROVE  Moves /\ Adds /\ Calmly
<1>0. PcForm(pc) /\ Course(pc)
  BY DEF Shape, ClientShape, Good
<1>1. pc.at \notin Unbannered
  <2>1. Label \notin Unbannered
    BY DEF NotThere, Requires, Unbannered
  <2> QED
    BY <2>1, Bannered DEF Good
<1>2. Adds /\ Calmly
  BY DEF NotThere, Adds, Calmly
<1>3. CASE pc' = [pc EXCEPT !.wait = "read"]
  <2>1. Same(pc') /\ pc'.at = pc.at
    BY <1>0, <1>3 DEF Same, PcForm, PcFields
  <2> QED
    BY <1>0, <1>1, <1>2, <2>1, Stays
<1>4. CASE pc' = Failed /\ pc.kx # "none"
  BY <1>0, <1>1, <1>2, <1>4, KexFailedMoves DEF Failed
<1>5. CASE pc' = Failed /\ pc.kx = "none"
  <2>1. pc.at \in Requires
    BY <1>5 DEF NotThere, Label
  <2>2. pc.at \notin Late
    BY <2>1 DEF Requires, Late, Unbannered, Final, Freeing, Written
  <2>3. /\ pc.at # "write" /\ pc.at # "waitClosed"
    BY <2>1 DEF Requires
  <2>4. \/ pc' \in {Disconnects("SESSION_NOT_OPENED"), Disconnects("AUTHENTICATION_FAILED"),
                    Go("auth"), ChannelError("free1"), ChannelError("free")}
        \/ pc' = [pc EXCEPT !.wait = "ask"]
    BY <1>5, <2>3 DEF Failed, NextMethod
  <2>5. "auth" \notin Late
    BY DEF Late, Unbannered, Final, Freeing, Written
  <2>6. CASE pc' = [pc EXCEPT !.wait = "ask"]
    <3>1. Same(pc') /\ pc'.at = pc.at
      BY <1>0, <2>6 DEF Same, PcForm, PcFields
    <3> QED
      BY <1>0, <1>1, <1>2, <3>1, Stays
  <2>7. CASE pc' # [pc EXCEPT !.wait = "ask"]
    BY <1>0, <1>2, <2>2, <2>4, <2>5, <2>7, PcOps, Advances DEF Same
  <2> QED
    BY <2>6, <2>7
<1> QED
  BY <1>3, <1>4, <1>5 DEF NotThere

LEMMA KeyExchangeGoes ==
    ASSUME Shape, Good, KeyExchange
    PROVE  Moves /\ Adds /\ Calmly
<1>0. /\ PcForm(pc) /\ Course(pc) /\ DOMAIN session = SessionFields /\ Queue(outq)
  BY DEF Shape, ClientShape, Good
<1>1. pc.at \notin Unbannered /\ tcp' = tcp
  <2>1. Label \notin Unbannered /\ tcp' = tcp
    BY DEF KeyExchange, SendKexinit, TakeKexinit, SendRequest, TakeGroup, SendInit, Burn,
       TakeReply, SendNewkeys, TakeNewkeys, At, Takes, Unbannered
  <2> QED
    BY <2>1, Bannered DEF Good
<1>2. ASSUME pc' = KexFailed \/ pc' = Returned \/ \E k : pc' = GoKex(k)
      PROVE  Moves
  BY <1>0, <1>1, <1>2, KexFailedMoves, PcOps, Stays
<1>3. CASE SendKexinit \/ SendRequest \/ SendInit \/ SendNewkeys
  <2>1. /\ session'.chan = session.chan /\ session'.socket_state = session.socket_state
        /\ Adds
    <3>1. CASE SendKexinit
      <4> DEFINE s == [session EXCEPT !.exchanging = TRUE, !.kex = No, !.lkex = @ + 1]
      <4>1. DOMAIN s = SessionFields /\ s.chan = session.chan
            /\ s.socket_state = session.socket_state
        BY <1>0 DEF SessionFields
      <4>2. Send(s, Packet("KEXINIT", "", session.lkex + 1, NoHash), GoKex("KEXINIT"), KexFailed)
        BY <3>1 DEF SendKexinit
      <4> HIDE DEF s
      <4> QED
        BY <1>0, <4>1, <4>2, SendAdds DEF Packet, Form, Fields
    <3>2. CASE SendRequest
      BY <1>0, <3>2, SendAdds DEF SendRequest, Packet, Form, Fields
    <3>3. CASE SendInit
      BY <1>0, <3>3, SendAdds DEF SendInit, Packet, Form, Fields
    <3>4. CASE SendNewkeys
      BY <1>0, <3>4, SendAdds DEF SendNewkeys, Packet, Form, Fields
    <3> QED
      BY <1>3, <3>1, <3>2, <3>3, <3>4
  <2>2. Moves
    <3>1. \/ pc' = KexFailed
          \/ pc' \in {GoKex("KEXINIT"), GoKex("GROUP"), GoKex("BURN"), GoKex("REPLY"),
                      GoKex("NEWKEYS")}
      BY <1>3 DEF SendKexinit, SendRequest, SendInit, SendNewkeys, Send
    <3> QED
      BY <1>2, <3>1
  <2> QED
    BY <1>1, <2>1, <2>2 DEF Calmly
<1>4. CASE TakeKexinit \/ TakeGroup \/ Burn \/ TakeReply \/ TakeNewkeys
  <2>1. /\ session'.chan = session.chan /\ session'.socket_state = session.socket_state
        /\ outq' = outq
    <3>1. CASE TakeKexinit
      <4>1. PICK k, b, l, r : session' = [[session EXCEPT !.rkex = Answer.n] EXCEPT
                                            !.kex = k, !.burn = b, !.local = l, !.remote = r]
        BY <3>1, Zenon DEF TakeKexinit, agree_methods
      <4> QED
        BY <1>0, <3>1, <4>1 DEF TakeKexinit, SessionFields
    <3>2. CASE TakeNewkeys
      BY <1>0, <3>2 DEF TakeNewkeys, Install, SessionFields
    <3>3. CASE TakeGroup \/ Burn \/ TakeReply
      BY <1>0, <3>3 DEF TakeGroup, Burn, TakeReply, SessionFields
    <3> QED
      BY <1>4, <3>1, <3>2, <3>3
  <2>2. Moves
    <3>1. CASE TakeKexinit
      <4>1. \/ pc' = [pc EXCEPT !.kx = "none", !.at = "dead"]
            \/ pc' = KexFailed
            \/ pc' \in {GoKex("request"), GoKex("init")}
        BY <3>1 DEF TakeKexinit
      <4>2. CASE pc' = [pc EXCEPT !.kx = "none", !.at = "dead"]
        <5>1. Same(pc') /\ pc'.at = "dead"
          BY <1>0, <4>2 DEF Same, PcForm, PcFields
        <5> QED
          BY <1>0, <1>1, <5>1, Stays
      <4> QED
        BY <1>2, <4>1, <4>2
    <3>2. CASE TakeGroup
      <4>1. Same(pc') /\ pc'.at = pc.at
        BY <1>0, <3>2 DEF TakeGroup, GoKex, Same, PcForm, PcFields
      <4> QED
        BY <1>0, <1>1, <4>1, Stays
    <3>3. CASE Burn \/ TakeReply
      BY <1>2, <3>3 DEF Burn, TakeReply
    <3>4. CASE TakeNewkeys
      <4>1. CASE pc.at = "startup"
        <5>1. Same(pc') /\ pc'.at = "requestService"
          BY <1>0, <3>4, <4>1 DEF TakeNewkeys, Same, PcForm, PcFields
        <5>2. pc.at \notin Late /\ pc'.at \notin Late /\ pc'.left = pc.left
          BY <4>1, <5>1 DEF Late, Unbannered, Final, Freeing, Written, Same
        <5> QED
          BY <1>0, <5>1, <5>2, Advances
      <4>2. CASE pc.at # "startup"
        BY <1>2, <3>4, <4>2 DEF TakeNewkeys
      <4> QED
        BY <4>1, <4>2
    <3> QED
      BY <1>4, <3>1, <3>2, <3>3, <3>4
  <2> QED
    BY <1>1, <2>1, <2>2 DEF Calmly, Adds
<1> QED
  BY <1>3, <1>4 DEF KeyExchange

\* A step from one place to another, outside of a key exchange.
LEMMA GoesTo ==
    ASSUME PcForm(pc), Course(pc), pc.at \notin Late,
           \/ \E a : a \notin Late /\ pc' = Go(a)
           \/ \E r \in {"SESSION_NOT_OPENED", "AUTHENTICATION_FAILED", "FILE_NOT_FOUND"} :
                pc' = Disconnects(r)
           \/ \E a \in {"free", "free1"} : pc' = ChannelError(a)
    PROVE  Moves
BY PcOps, Advances DEF Same

LEMMA UserauthGoes ==
    ASSUME Shape, Good, Userauth
    PROVE  Moves /\ Adds /\ Calmly
<1>0. /\ PcForm(pc) /\ Course(pc) /\ DOMAIN session = SessionFields /\ Queue(outq)
  BY DEF Shape, ClientShape, Good
<1>1. /\ Waiting \cap Late = {} /\ "auth" \notin Late /\ "scp" \notin Late
      /\ "pk2" \notin Late /\ "keyboard" \notin Late /\ "password" \notin Late
  BY DEF Waiting, Late, Unbannered, Final, Freeing, Written
<1>2. Waiting \cap Stages = {} /\ "auth" \notin Stages
  BY DEF Waiting, Stages
<1>3. ASSUME NEW method, method # "piece", NEW label \in Waiting, NEW STATE h,
             Request(method, label, h)
      PROVE  Moves /\ Adds /\ Calmly
  <2>1. pc.at = "auth" /\ tcp' = tcp
    BY <1>0, <1>2, <1>3, LabelIsAt DEF Request, At
  <2>2. /\ session'.chan = session.chan /\ session'.socket_state = session.socket_state
        /\ Adds
    BY <1>0, <1>3, SendAdds DEF Request, Packet, Form, Fields
  <2>3. \/ pc' = Disconnects("AUTHENTICATION_FAILED")
        \/ Same(pc') /\ pc'.at \in {"auth", label}
    BY <1>0, <1>3, <2>1 DEF Request, Send, Same, PcForm, PcFields
  <2>4. Moves
    BY <1>0, <1>1, <2>1, <2>3, PcOps, Advances DEF Same
  <2> QED
    BY <2>1, <2>2, <2>4 DEF Calmly
<1>4. CASE \/ userauth_list \/ password_ex \/ keyboard_interactive_ex
           \/ hostbased_fromfile_ex \/ publickey_fromfile_ex
  BY <1>3, <1>4 DEF userauth_list, password_ex, keyboard_interactive_ex,
     hostbased_fromfile_ex, publickey_fromfile_ex, Waiting
<1>5. CASE KeyFileFails
  <2>1. pc.at = "auth"
    BY <1>0, <1>2, <1>5, LabelIsAt DEF KeyFileFails, At
  <2>2. pc' = Disconnects("AUTHENTICATION_FAILED") \/ (Same(pc') /\ pc'.at = "auth")
    BY <1>0, <1>5, <2>1 DEF KeyFileFails, Same, PcForm, PcFields
  <2>3. Moves
    BY <1>0, <1>1, <2>1, <2>2, PcOps, Advances DEF Same
  <2> QED
    BY <1>5, <2>3 DEF KeyFileFails, At, Adds, Calmly
<1>6. ASSUME NEW label \in Waiting, Takes(label),
             pc' \in {NextMethod, Go("scp"), Go("password"), Go("pk2"), Go("keyboard")}
      PROVE  Moves /\ tcp' = tcp
  <2>1. pc.at \in Waiting /\ tcp' = tcp
    BY <1>0, <1>2, <1>6, LabelIsAt DEF Takes
  <2>2. pc' \in {Disconnects("AUTHENTICATION_FAILED"), Go("auth"), Go("scp"), Go("password"),
                 Go("pk2"), Go("keyboard")}
    BY <1>6 DEF NextMethod
  <2>3. pc.at \notin Late
    BY <1>1, <2>1
  <2> QED
    BY <1>0, <1>1, <2>1, <2>2, <2>3, GoesTo
<1>7. CASE TakeSuccess \/ TakeFailure
  <2>1. PICK label \in Waiting : Takes(label) /\ pc' \in {NextMethod, Go("scp")}
    BY <1>7 DEF TakeSuccess, TakeFailure
  <2>2. /\ session'.chan = session.chan /\ session'.socket_state = session.socket_state
        /\ outq' = outq
    BY <1>0, <1>7 DEF TakeSuccess, TakeFailure, SessionFields
  <2> QED
    BY <1>6, <2>1, <2>2 DEF Adds, Calmly
<1>8. CASE TakeChangeRequest \/ TakePkOk \/ TakeInfoRequest
  <2>1. PICK label \in Waiting :
          Takes(label) /\ pc' \in {NextMethod, Go("password"), Go("pk2"), Go("keyboard")}
    BY <1>8 DEF TakeChangeRequest, TakePkOk, TakeInfoRequest, Send, Waiting
  <2>2. /\ session'.chan = session.chan /\ session'.socket_state = session.socket_state
        /\ Adds
    <3>1. CASE outq' = outq /\ session' = session
      BY <3>1 DEF Adds
    <3>2. CASE ~(outq' = outq /\ session' = session)
      BY <1>0, <1>8, <3>2, SendAdds
         DEF TakeChangeRequest, TakePkOk, TakeInfoRequest, Packet, Form, Fields
    <3> QED
      BY <3>1, <3>2
  <2> QED
    BY <1>6, <2>1, <2>2 DEF Calmly
<1> QED
  BY <1>4, <1>5, <1>7, <1>8 DEF Userauth

LEMMA ScpGoes ==
    ASSUME Shape, Good, Scp, ~WritePiece
    PROVE  Moves /\ Adds /\ Calmly
<1>0. /\ PcForm(pc) /\ Course(pc) /\ DOMAIN session = SessionFields
      /\ DOMAIN session.chan = ChanFields /\ Queue(outq)
  BY DEF Shape, ClientShape, Good
<1> DEFINE Places == {"scp", "open", "startExec", "exec", "ack1", "ack2", "line", "write"}
<1>1. Places \cap Late = {}
  BY DEF Late, Unbannered, Final, Freeing, Written
<1>2. /\ Places \cap Stages = {} /\ Written \cap Stages = {} /\ Written \cap Unbannered = {}
  BY DEF Stages, Written, Unbannered
<1>3. CASE OpenChannel
  <2>1. pc.at = "scp" /\ tcp' = tcp
    BY <1>0, <1>2, <1>3, LabelIsAt DEF OpenChannel, At
  <2>2. \/ pc' = Disconnects("FILE_NOT_FOUND") /\ UNCHANGED <<session, outq>>
        \/ Send([session EXCEPT !.chan.st = "open"], Packet("OPEN", "", 0, NoHash), Go("open"),
                ChannelError("free1"))
    BY <1>3 DEF OpenChannel
  <2>3. pc' \in {Disconnects("FILE_NOT_FOUND"), Go("open"), ChannelError("free1")}
    BY <2>2 DEF Send
  <2>4. Moves
    BY <1>0, <1>1, <2>1, <2>3, GoesTo
  <2>5. CASE UNCHANGED <<session, outq>>
    BY <2>1, <2>4, <2>5 DEF Adds, Calmly
  <2>6. CASE ~UNCHANGED <<session, outq>>
    <3> DEFINE s == [session EXCEPT !.chan.st = "open"]
    <3>1. /\ DOMAIN s = SessionFields /\ s.socket_state = session.socket_state
          /\ s.chan.rclose = session.chan.rclose
      BY <1>0 DEF SessionFields, ChanFields
    <3>2. Send(s, Packet("OPEN", "", 0, NoHash), Go("open"), ChannelError("free1"))
      BY <2>2, <2>6
    <3> HIDE DEF s
    <3>3. Adds /\ session'.chan = s.chan /\ session'.socket_state = s.socket_state
      <4> DEFINE p == Packet("OPEN", "", 0, NoHash)
      <4>1. Form(p) /\ p.tag = "" /\ p.type = "OPEN"
        BY DEF Packet, Form, Fields
      <4>2. Send(s, p, Go("open"), ChannelError("free1"))
        BY <3>2
      <4> HIDE DEF p
      <4> QED
        BY <1>0, <3>1, <4>1, <4>2, SendAdds
    <3> QED
      BY <2>1, <2>4, <3>1, <3>3 DEF Calmly
  <2> QED
    BY <2>5, <2>6
<1>4. CASE TakeOpen \/ TakeExec \/ TakeAck
  <2>1. pc.at \in {"open", "exec", "ack1", "ack2"} /\ tcp' = tcp /\ outq' = outq
    <3>1. \E label \in {"open", "exec", "ack1", "ack2"} : Takes(label)
      BY <1>4 DEF TakeOpen, TakeExec, TakeAck
    <3> QED
      BY <1>0, <1>2, <1>4, <3>1, LabelIsAt DEF Takes, TakeOpen, TakeExec, TakeAck
  <2>2. pc' \in {Go("startExec"), Go("ack1"), Go("line"), Go("write"), ChannelError("free1"),
                 ChannelError("free")}
    BY <1>4 DEF TakeOpen, TakeExec, TakeAck
  <2>3. pc.at \notin Late
    BY <1>1, <2>1
  <2>4. Moves
    BY <1>0, <1>1, <2>2, <2>3, GoesTo
  <2>5. /\ session'.socket_state = session.socket_state
        /\ session'.chan.rclose => session.chan.rclose
    <3>1. \/ session' = session
          \/ session' = [session EXCEPT !.chan.win = Answer.n]
          \/ session' = [session EXCEPT !.chan = NoChannel]
      BY <1>4 DEF TakeOpen, TakeExec, TakeAck
    <3>2. CASE session' = [session EXCEPT !.chan.win = Answer.n]
      BY <1>0, <3>2 DEF SessionFields, ChanFields
    <3>3. CASE session' = [session EXCEPT !.chan = NoChannel]
      BY <1>0, <3>3 DEF SessionFields, NoChannel
    <3> QED
      BY <3>1, <3>2, <3>3
  <2> QED
    BY <2>1, <2>4, <2>5 DEF Adds, Calmly
<1>5. CASE NoAck
  <2>1. pc.at \in {"ack1", "ack2"} /\ UNCHANGED <<tcp, session, outq>>
    BY <1>0, <1>2, <1>5, LabelIsAt DEF NoAck, At
  <2>2. pc' = ChannelError("free") \/ pc' = [pc EXCEPT !.wait = "read"]
    BY <1>5, Zenon DEF NoAck
  <2>3. pc.at \notin Late
    BY <1>1, <2>1
  <2>4. Moves
    <3>1. CASE pc' = ChannelError("free")
      BY <1>0, <2>3, <3>1, GoesTo
    <3>2. CASE pc' = [pc EXCEPT !.wait = "read"]
      <4>1. Same(pc') /\ pc'.at = pc.at
        BY <1>0, <3>2 DEF Same, PcForm, PcFields
      <4> QED
        BY <1>0, <2>3, <4>1, Stays DEF Late
    <3> QED
      BY <2>2, <3>1, <3>2
  <2> QED
    BY <2>1, <2>4 DEF Adds, Calmly
<1>6. CASE process_startup \/ SendLine
  <2>1. pc.at \in {"startExec", "line"} /\ tcp' = tcp
    BY <1>0, <1>2, <1>6, LabelIsAt DEF process_startup, SendLine, At
  <2>2. Adds /\ session'.chan = session.chan /\ session'.socket_state = session.socket_state
    <3>1. CASE process_startup
      <4> DEFINE p == Packet("EXEC", "", 0, NoHash)
      <4>1. Form(p) /\ p.tag = "" /\ p.type = "EXEC"
        BY DEF Packet, Form, Fields
      <4>2. Send(session, p, Go("exec"), ChannelError("free"))
        BY <3>1 DEF process_startup
      <4> HIDE DEF p
      <4> QED
        BY <1>0, <4>1, <4>2, SendAdds
    <3>2. CASE SendLine
      <4> DEFINE p == Packet("DATA", "line", 0, NoHash)
      <4>1. Form(p) /\ p.tag = "line" /\ p.type = "DATA"
        BY DEF Packet, Form, Fields
      <4>2. Send(session, p, Go("ack2"), ChannelError("free"))
        BY <3>2 DEF SendLine
      <4> HIDE DEF p
      <4> QED
        BY <1>0, <4>1, <4>2, SendAdds
    <3> QED
      BY <1>6, <3>1, <3>2
  <2>3. pc' \in {Go("exec"), Go("ack2"), ChannelError("free")}
    BY <1>6 DEF process_startup, SendLine, Send
  <2>4. Moves
    BY <1>0, <1>1, <2>1, <2>3, GoesTo
  <2> QED
    BY <2>1, <2>2, <2>4 DEF Calmly
<1>7. CASE WriteWaits
  <2>1. pc.at = "write" /\ UNCHANGED <<tcp, session, outq>>
    BY <1>0, <1>2, <1>7, LabelIsAt DEF WriteWaits, At
  <2>2. \/ pc' = [pc EXCEPT !.wait = "read"]
        \/ pc.left = 0 /\ pc' = Go("eof")
    BY <1>7 DEF WriteWaits
  <2>3. pc.at \notin Late
    BY <1>1, <2>1
  <2>4. Moves
    <3>1. CASE pc.left = 0 /\ pc' = Go("eof")
      <4>1. Same(pc') /\ pc'.at = "eof"
        BY <1>0, <3>1, PcOps
      <4> QED
        BY <1>0, <2>1, <3>1, <4>1
           DEF Course, Moves, Same, Unbannered, Final, Freeing, Written, Closing
    <3>2. CASE pc' = [pc EXCEPT !.wait = "read"]
      <4>1. Same(pc') /\ pc'.at = pc.at
        BY <1>0, <3>2 DEF Same, PcForm, PcFields
      <4> QED
        BY <1>0, <2>3, <4>1, Stays DEF Late
    <3> QED
      BY <2>2, <3>1, <3>2
  <2> QED
    BY <2>1, <2>4 DEF Adds, Calmly
<1>8. CASE send_eof
  <2>1. pc.at = "eof" /\ tcp' = tcp
    BY <1>0, <1>2, <1>8, LabelIsAt DEF send_eof, At, Written
  <2>2. Adds /\ session'.chan = session.chan /\ session'.socket_state = session.socket_state
    <3> DEFINE p == Packet("EOF", "", 0, NoHash)
    <3>1. Form(p) /\ p.tag = "" /\ p.type = "EOF"
      BY DEF Packet, Form, Fields
    <3>2. Send(session, p, Go("close"), Go("close"))
      BY <1>8 DEF send_eof
    <3> HIDE DEF p
    <3> QED
      BY <1>0, <3>1, <3>2, SendAdds
  <2>3. pc' = Go("close")
    BY <1>8 DEF send_eof, Send
  <2>4. Same(pc') /\ pc'.at = "close"
    BY <1>0, <2>3, PcOps
  <2>5. Moves
    BY <1>0, <2>1, <2>4
       DEF Course, Moves, Same, Unbannered, Final, Freeing, Written, Closing
  <2> QED
    BY <2>1, <2>2, <2>5 DEF Calmly
<1>9. CASE close
  <2> DEFINE s == [session EXCEPT !.chan.lclose = TRUE]
  <2>1. pc.at = "close" /\ tcp' = tcp
    BY <1>0, <1>2, <1>9, LabelIsAt DEF close, At, Written
  <2>2. /\ DOMAIN s = SessionFields /\ s.socket_state = session.socket_state
        /\ s.chan.rclose = session.chan.rclose
    BY <1>0 DEF SessionFields, ChanFields
  <2>3. Send(s, Packet("CLOSE", "", 0, NoHash), Go("waitClosed"), Go("waitClosed"))
    BY <1>9 DEF close
  <2> HIDE DEF s
  <2>4. /\ session'.chan = s.chan /\ session'.socket_state = s.socket_state
        /\ outq' = outq \/ \E e : /\ Form(e) /\ e.type = "CLOSE" /\ e.tag = ""
                                  /\ outq' = Append(outq, e)
    <3> DEFINE p == Packet("CLOSE", "", 0, NoHash)
    <3>1. Form(p) /\ p.tag = "" /\ p.type = "CLOSE"
      BY DEF Packet, Form, Fields
    <3>2. Send(s, p, Go("waitClosed"), Go("waitClosed"))
      BY <2>3
    <3> HIDE DEF p
    <3> QED
      BY <1>0, <2>2, <3>1, <3>2, SendForm
  <2>5. Same(pc') /\ pc'.at = "waitClosed"
    <3>1. pc' = Go("waitClosed")
      BY <2>3 DEF Send
    <3> QED
      BY <1>0, <3>1, PcOps
  <2>6. Moves /\ pc'.left = 0
    BY <1>0, <2>1, <2>5
       DEF Course, Moves, Same, Unbannered, Final, Freeing, Written, Closing
  <2>7. Adds
    BY <2>4, <2>5, <2>6 DEF Adds
  <2> QED
    BY <2>1, <2>2, <2>4, <2>6, <2>7 DEF Calmly
<1>10. CASE wait_closed
  <2>1. pc.at = "waitClosed" /\ UNCHANGED <<tcp, session, outq>>
    BY <1>0, <1>2, <1>10, LabelIsAt DEF wait_closed, At, Written
  <2>2. \/ pc' = [pc EXCEPT !.wait = "read"]
        \/ session.chan.rclose /\ pc' = [pc EXCEPT !.at = "free", !.cont = "0"]
    BY <1>10, Zenon DEF wait_closed
  <2>3. Moves
    <3>1. CASE session.chan.rclose /\ pc' = [pc EXCEPT !.at = "free", !.cont = "0"]
      <4>1. pc'.left = pc.left /\ pc'.at = "free" /\ pc'.cont = "0" /\ pc'.result = pc.result
        BY <1>0, <3>1 DEF PcForm, PcFields
      <4> QED
        BY <1>0, <2>1, <3>1, <4>1
           DEF Course, Moves, Unbannered, Final, Freeing, Written, Closing
    <3>2. CASE pc' = [pc EXCEPT !.wait = "read"]
      <4>1. Same(pc') /\ pc'.at = pc.at /\ pc.at \notin Unbannered
        BY <1>0, <2>1, <3>2 DEF Same, PcForm, PcFields, Unbannered
      <4> QED
        BY <1>0, <4>1, Stays
    <3> QED
      BY <2>2, <3>1, <3>2
  <2> QED
    BY <2>1, <2>3 DEF Adds, Calmly
<1> QED
  BY <1>3, <1>4, <1>5, <1>6, <1>7, <1>8, <1>9, <1>10 DEF Scp

\* A piece goes on its way: the connection is up, since the session has no result yet.
LEMMA WritePieceGood ==
    ASSUME Shape, Good, ClientKeeps, WritePiece
    PROVE  Good'
<1>0. /\ PcForm(pc) /\ Course(pc) /\ DOMAIN session = SessionFields
      /\ DOMAIN session.chan = ChanFields /\ Queue(outq)
  BY DEF Shape, ClientShape, Good
<1>1. pc.at = "write" /\ tcp' = tcp /\ pc.left > 0
  <2>1. "write" \notin Stages
    BY DEF Stages
  <2> QED
    BY <1>0, <2>1, LabelIsAt DEF WritePiece, At
<1>2. pc.result = "none" /\ pc.cont = "none" /\ pc.left \in Nat
  BY <1>0, <1>1 DEF Course, Final, Freeing
<1>3. tcp = "up"
  BY <1>2 DEF Good, Calm
<1> DEFINE s == [session EXCEPT !.chan.win = @ - 1]
           p == Packet("DATA", "piece", 0, NoHash)
<1>4. /\ DOMAIN s = SessionFields /\ s.socket_state = session.socket_state
      /\ s.chan.rclose = session.chan.rclose
  BY <1>0 DEF SessionFields, ChanFields
<1>5. Form(p) /\ p.tag = "piece" /\ p.type = "DATA"
  BY DEF Packet, Form, Fields
<1>6. Send(s, p, [pc EXCEPT !.left = @ - 1], Go("eof"))
  BY DEF WritePiece
<1> HIDE DEF s, p
<1>7. /\ session'.chan = s.chan /\ session'.socket_state = s.socket_state
      /\ pc' = [pc EXCEPT !.left = @ - 1]
      /\ \E e : Form(e) /\ e.type = "DATA" /\ e.tag = "piece" /\ outq' = Append(outq, e)
  BY <1>0, <1>3, <1>4, <1>5, <1>6, SendForm
<1>8. PICK e : Form(e) /\ e.type = "DATA" /\ e.tag = "piece" /\ outq' = Append(outq, e)
  BY <1>7
<1>9. Types(outq') = Types(outq) \cup {"DATA"} /\ Count(outq') = Count(outq) + 1
      /\ Count(outq) \in Nat
  BY <1>0, <1>8, QueueAppend, CountAppend, CountForm
<1>10. /\ srv' = srv /\ Coming' \subseteq Coming /\ srv.file \in Nat
  BY SrvForm DEF ClientKeeps, Delivered, Coming
<1>11. /\ pc'.at = "write" /\ pc'.result = "none" /\ pc'.cont = "none"
       /\ pc'.left = pc.left - 1 /\ pc'.left \in Nat
  BY <1>0, <1>1, <1>2, <1>7 DEF PcForm, PcFields
<1>12. "CLOSE" \notin Types(outq) /\ ~Answered
  BY <1>1, <1>2 DEF Good, Whole, Closing
<1>13. Order(outq') /\ ~Answered' /\ "CLOSE" \notin Types(outq')
  <2>1. Order(outq')
    BY <1>0, <1>2, <1>8, <1>12, OrderAppend DEF Good, Whole
  <2>2. ~Answered'
    BY <1>4, <1>7, <1>10, <1>12 DEF Answered
  <2> QED
    BY <1>9, <1>12, <2>1, <2>2
<1>14. Course(pc)'
  BY <1>11 DEF Course, Final, Freeing, Written
<1>15. Waits'
  BY <1>11 DEF Waits, Unbannered
<1>16. Calm'
  BY <1>1, <1>2, <1>3, <1>4, <1>7, <1>9, <1>10, <1>11 DEF Good, Calm, Unbannered
<1>17. Whole'
  <2>1. srv.file + Count(outq) + pc.left = Pieces
    BY DEF Good, Whole
  <2>2. srv'.file + Count(outq') + pc'.left = Pieces
    BY <1>2, <1>9, <1>10, <1>11, <2>1
  <2> QED
    BY <1>11, <1>13, <2>2 DEF Whole
<1> QED
  BY <1>14, <1>15, <1>16, <1>17 DEF Good

LEMMA EndingGoes ==
    ASSUME Shape, Good, Ending
    PROVE  Moves /\ Adds /\ Calmly
<1>0. /\ PcForm(pc) /\ Course(pc) /\ DOMAIN session = SessionFields
      /\ DOMAIN session.chan = ChanFields /\ Queue(outq)
  BY DEF Shape, ClientShape, Good
<1>1. Final \cap Stages = {} /\ Final \cap Unbannered = {}
  BY DEF Stages, Final, Freeing, Unbannered
<1>2. ASSUME pc.at \in Freeing, pc' = Continues
      PROVE  Moves
  <2>1. \/ pc.cont = "throw" /\ pc' = Disconnects("Channel_Error")
        \/ pc.cont = "0" /\ pc' = Disconnects("0")
        \/ pc.cont \notin {"throw", "0"} /\ pc' = [pc EXCEPT !.at = "done"]
    BY <1>2 DEF Continues
  <2>2. \/ /\ pc'.at = "disconnect" /\ pc'.cont = pc.cont /\ pc'.left = pc.left
           /\ pc'.result \in {"Channel_Error", "0"}
           /\ pc'.result = "0" => pc.cont = "0"
        \/ Same(pc') /\ pc'.at = "done"
    BY <1>0, <2>1 DEF Disconnects, Same, PcForm, PcFields
  <2> QED
    BY <1>0, <1>2, <2>2 DEF Course, Moves, Same, Unbannered, Final, Freeing, Written, Closing
<1>3. ASSUME pc.at \in Freeing, Same(pc'), pc'.at \in Freeing
      PROVE  Moves
  BY <1>0, <1>3 DEF Course, Moves, Same, Unbannered, Final, Freeing, Written, Closing
<1>4. CASE free
  <2> DEFINE s == [session EXCEPT !.chan.lclose = TRUE]
             next == [pc EXCEPT !.at = "free1", !.wait = "read"]
             p == Packet("CLOSE", "", 0, NoHash)
  <2>1. pc.at = "free" /\ tcp' = tcp /\ pc.cont # "none"
    <3>1. pc.at = "free" /\ tcp' = tcp
      BY <1>0, <1>4, LabelIsAt DEF free, At, Stages
    <3> QED
      BY <1>0, <3>1 DEF Course, Freeing
  <2>2. Same(next) /\ next.at = "free1"
    BY <1>0 DEF Same, PcForm, PcFields
  <2>3. /\ DOMAIN s = SessionFields /\ s.socket_state = session.socket_state
        /\ s.chan.rclose = session.chan.rclose
    BY <1>0 DEF SessionFields, ChanFields
  <2>4. Form(p) /\ p.tag = "" /\ p.type = "CLOSE"
    BY DEF Packet, Form, Fields
  <2>5. \/ Send(s, p, next, Continues)
        \/ pc' = next /\ UNCHANGED <<session, outq>>
    BY <1>4 DEF free
  <2>6. pc' = next \/ pc' = Continues
    BY <2>5 DEF Send
  <2>7. Continues.cont = pc.cont
    BY <1>0 DEF Continues, Disconnects, PcForm, PcFields
  <2> HIDE DEF s, next, p
  <2>8. Moves
    BY <1>2, <1>3, <2>1, <2>2, <2>6 DEF Freeing
  <2>9. pc'.cont # "none"
    BY <2>1, <2>2, <2>6, <2>7 DEF Same
  <2>10. CASE Send(s, p, next, Continues)
    <3>1. /\ session'.chan = s.chan /\ session'.socket_state = s.socket_state
          /\ outq' = outq \/ \E e : /\ Form(e) /\ e.type = "CLOSE" /\ e.tag = ""
                                    /\ outq' = Append(outq, e)
      BY <1>0, <2>3, <2>4, <2>10, SendForm
    <3>2. Adds
      BY <2>9, <3>1 DEF Adds
    <3> QED
      BY <2>1, <2>3, <2>8, <3>1, <3>2 DEF Calmly
  <2>11. CASE UNCHANGED <<session, outq>>
    BY <2>1, <2>8, <2>11 DEF Calmly, Adds
  <2> QED
    BY <2>5, <2>10, <2>11
<1>5. CASE Clear
  <2>1. pc.at = "free1" /\ UNCHANGED <<tcp, session, outq>>
    BY <1>0, <1>5, LabelIsAt DEF Clear, Takes, Stages
  <2>2. Same(pc') /\ pc'.at = pc.at
    BY <1>0, <1>5 DEF Clear, Same, PcForm, PcFields
  <2> QED
    BY <1>3, <2>1, <2>2 DEF Adds, Calmly, Freeing
<1>6. CASE Cleared
  <2>1. pc.at \in {"free1", "free2"} /\ UNCHANGED <<tcp, outq>>
    BY <1>0, <1>6, LabelIsAt DEF Cleared, At, Stages
  <2>2. Moves
    <3>1. CASE pc.at = "free1"
      <4>1. Same(pc') /\ pc'.at = "free2"
        BY <1>0, <1>6, <3>1 DEF Cleared, Same, PcForm, PcFields
      <4> QED
        BY <1>3, <3>1, <4>1 DEF Freeing
    <3>2. CASE pc.at # "free1"
      BY <1>2, <1>6, <2>1, <3>2 DEF Cleared, Freeing
    <3> QED
      BY <3>1, <3>2
  <2>3. /\ session'.socket_state = session.socket_state
        /\ session'.chan.rclose => session.chan.rclose
    <3>1. session' = session \/ session' = [session EXCEPT !.chan = NoChannel]
      BY <1>6 DEF Cleared
    <3>2. CASE session' = [session EXCEPT !.chan = NoChannel]
      BY <1>0, <3>2 DEF SessionFields, NoChannel
    <3> QED
      BY <3>1, <3>2
  <2> QED
    BY <2>1, <2>2, <2>3 DEF Adds, Calmly
<1>7. CASE disconnect
  <2> DEFINE p == Packet("DISCONNECT", "", 0, NoHash)
  <2>1. pc.at = "disconnect" /\ tcp' = tcp
    BY <1>0, <1>7, LabelIsAt DEF disconnect, At, Stages
  <2>2. Form(p) /\ p.tag = "" /\ p.type = "DISCONNECT"
    BY DEF Packet, Form, Fields
  <2>3. Send(session, p, Go("freeSession"), Go("freeSession"))
    BY <1>7 DEF disconnect
  <2> HIDE DEF p
  <2>4. pc' = Go("freeSession")
    BY <2>3 DEF Send
  <2>5. Same(pc') /\ pc'.at = "freeSession" /\ pc.result # "none"
    BY <1>0, <2>1, <2>4, PcOps DEF Course
  <2>6. Moves
    BY <1>0, <2>1, <2>5 DEF Course, Moves, Same, Unbannered, Final, Freeing, Written, Closing
  <2>7. /\ session'.chan = session.chan /\ session'.socket_state = session.socket_state
        /\ outq' = outq \/ \E e : /\ Form(e) /\ e.type = "DISCONNECT" /\ e.tag = ""
                                  /\ outq' = Append(outq, e)
    BY <1>0, <2>2, <2>3, SendForm
  <2>8. Adds
    BY <2>5, <2>7 DEF Adds, Same
  <2> QED
    BY <2>1, <2>6, <2>7, <2>8 DEF Calmly
<1>8. CASE session_free
  <2>1. pc.at = "freeSession" /\ UNCHANGED <<tcp, session, outq>>
    BY <1>0, <1>8, LabelIsAt DEF session_free, At, Stages
  <2>2. \/ Same(pc') /\ pc'.at = "done"
        \/ /\ pc'.left = pc.left /\ pc'.result = pc.result
           /\ pc'.at = "free" /\ pc'.cont = "end"
    BY <1>0, <1>8 DEF session_free, Same, PcForm, PcFields
  <2>3. Moves
    BY <1>0, <2>1, <2>2 DEF Course, Moves, Same, Unbannered, Final, Freeing, Written, Closing
  <2> QED
    BY <2>1, <2>3 DEF Adds, Calmly
<1> QED
  BY <1>4, <1>5, <1>6, <1>7, <1>8 DEF Ending

LEMMA StartupGood ==
    ASSUME Shape, Good, ClientKeeps, Startup, cause' = "none"
    PROVE  Good'
<1>0. /\ PcForm(pc) /\ Course(pc) /\ DOMAIN session = SessionFields
      /\ Queue(outq) /\ Queue(inq)
  BY DEF Shape, ClientShape, Good
<1>1. srv' = srv /\ Coming' \subseteq Coming /\ Types(inq) \subseteq Coming
  BY DEF ClientKeeps, Delivered, Coming
<1>2. ASSUME pc.at \in Unbannered
      PROVE  /\ pc.kx = "none" /\ pc.result = "none" /\ pc.cont = "none"
             /\ tcp = "up" /\ srv.exch /\ Types(outq) \subseteq {"BANNER"} /\ Count(outq) = 0
             /\ "CLOSE" \notin Types(outq) /\ ~Answered
  <2>1. /\ pc.kx = "none" /\ pc.result = "none" /\ pc.cont = "none"
        /\ srv.exch /\ Types(outq) \subseteq {"BANNER"}
    BY <1>0, <1>2 DEF Good, Waits, Course, Unbannered, Final, Freeing
  <2>2. tcp = "up"
    BY <2>1 DEF Good, Calm
  <2>3. \A i \in DOMAIN outq : outq[i].tag # "piece"
    BY <1>0, <2>1 DEF Types, Queue, Form
  <2>4. Count(outq) = 0
    BY <2>3, CountNone
  <2>5. "CLOSE" \notin Types(outq) /\ ~Answered
    BY <1>2, <2>1 DEF Good, Whole, Unbannered, Closing
  <2> QED
    BY <2>1, <2>2, <2>4, <2>5
<1>3. /\ Unbannered \cap Stages = {} /\ {"requestService", "service"} \cap Stages = {}
      /\ {"requestService", "service", "auth"} \cap Late = {}
  BY DEF Unbannered, Stages, Late, Final, Freeing, Written
<1>4. CASE Connect
  <2>1. pc.at = "connect"
    BY <1>0, <1>3, <1>4, LabelIsAt DEF Connect, At, Unbannered
  <2>2. UNCHANGED <<session, outq, inq, tcp>> /\ pc' = Go("sendBanner")
    BY <1>4 DEF Connect, At, Blame
  <2>3. Same(pc') /\ pc'.at = "sendBanner" /\ pc'.kx = pc.kx
    BY <1>0, <2>2, PcOps DEF Go, PcForm, PcFields
  <2>4. Course(pc)'
    BY <1>0, <2>1, <2>3 DEF Course, Same, Final, Freeing, Written
  <2>5. Waits' /\ Calm'
    BY <1>1, <2>1, <2>2, <2>3 DEF Good, Waits, Calm, Same, Unbannered, Coming
  <2>6. Whole'
    <3>1. Answered' => Answered
      BY <1>1, <2>2 DEF Answered
    <3> QED
      BY <1>1, <1>2, <2>1, <2>2, <2>3, <3>1 DEF Good, Whole, Same, Unbannered
  <2> QED
    BY <2>4, <2>5, <2>6 DEF Good
<1>5. CASE banner_send
  <2> DEFINE p == Packet("BANNER", "banner", 0, NoHash)
  <2>1. pc.at = "sendBanner" /\ pc.at \in Unbannered
    BY <1>0, <1>3, <1>5, LabelIsAt DEF banner_send, At, Unbannered
  <2>2. UNCHANGED <<session, inq, tcp>> /\ pc' = Go("banner") /\ outq' = <<p>>
    BY <1>2, <1>5, <2>1 DEF banner_send, At
  <2>3. Same(pc') /\ pc'.at = "banner" /\ pc'.kx = pc.kx
    BY <1>0, <2>2, PcOps DEF Go, PcForm, PcFields
  <2>4. Queue(<<p>>) /\ Types(<<p>>) = {"BANNER"}
    BY OnePacket
  <2> HIDE DEF p
  <2>5. \A i \in DOMAIN outq' : outq'[i].tag # "piece" /\ outq'[i].type # "CLOSE"
    BY <2>2, <2>4 DEF Types, Queue, Form
  <2>6. Count(outq') = 0 /\ Order(outq') /\ Types(outq') = {"BANNER"}
    BY <2>2, <2>4, <2>5, CountNone DEF Order
  <2>7. Course(pc)'
    BY <1>0, <2>1, <2>3 DEF Course, Same, Final, Freeing, Written
  <2>8. Waits' /\ Calm'
    BY <1>1, <2>1, <2>2, <2>3, <2>6 DEF Good, Waits, Calm, Same, Unbannered, Coming
  <2>9. Whole'
    <3>1. Answered' => Answered
      BY <1>1, <2>2 DEF Answered
    <3> QED
      BY <1>1, <1>2, <2>1, <2>2, <2>3, <2>6, <3>1 DEF Good, Whole, Same
  <2> QED
    BY <2>7, <2>8, <2>9 DEF Good
<1>6. CASE banner_receive
  <2>1. pc.at = "banner" /\ pc.at \in Unbannered
    BY <1>0, <1>3, <1>6, LabelIsAt DEF banner_receive, Unbannered
  <2>2. /\ inq' = Tail(inq) /\ inq # <<>> /\ Head(inq).tag # "greeting"
        /\ UNCHANGED <<session, outq, tcp>>
        /\ pc' = [pc EXCEPT !.at = "startup", !.kx = "kexinit"]
    BY <1>2, <1>6, <2>1 DEF banner_receive, Blame
  <2>3. Same(pc') /\ pc'.at = "startup"
    BY <1>0, <2>2 DEF Same, PcForm, PcFields
  <2>4. "BANNER" \notin Coming'
    BY <1>1, <2>1, <2>2 DEF Good, Waits, Coming
  <2>5. Course(pc)'
    BY <1>0, <2>1, <2>3 DEF Course, Same, Final, Freeing, Written
  <2>6. Waits' /\ Calm'
    BY <1>1, <2>1, <2>2, <2>3, <2>4 DEF Good, Waits, Calm, Same, Unbannered
  <2>7. Whole'
    <3>1. Answered' => Answered
      BY <1>1, <2>2 DEF Answered
    <3> QED
      BY <1>1, <1>2, <2>1, <2>2, <2>3, <3>1 DEF Good, Whole, Same
  <2> QED
    BY <2>5, <2>6, <2>7 DEF Good
<1>7. CASE RequestService
  <2> DEFINE p == Packet("SERVICE_REQUEST", "", 0, NoHash)
  <2>1. pc.at = "requestService" /\ tcp' = tcp
    BY <1>0, <1>3, <1>7, LabelIsAt DEF RequestService, At
  <2>2. Form(p) /\ p.tag = "" /\ p.type = "SERVICE_REQUEST"
    BY DEF Packet, Form, Fields
  <2>3. Send(session, p, Go("service"), Disconnects("SESSION_NOT_OPENED"))
    BY <1>7 DEF RequestService
  <2> HIDE DEF p
  <2>4. /\ Adds /\ pc' \in {Go("service"), Disconnects("SESSION_NOT_OPENED")}
        /\ session'.chan = session.chan /\ session'.socket_state = session.socket_state
    BY <1>0, <2>2, <2>3, SendAdds
  <2>5. Moves
    BY <1>0, <1>3, <2>1, <2>4, GoesTo
  <2> QED
    BY <2>1, <2>4, <2>5, Proceeds DEF Calmly
<1>8. CASE TakeService
  <2>1. pc.at = "service" /\ UNCHANGED <<tcp, session, outq>> /\ pc' = Go("auth")
    BY <1>0, <1>3, <1>8, LabelIsAt DEF TakeService, Takes
  <2>2. Moves
    BY <1>0, <1>3, <2>1, GoesTo
  <2> QED
    BY <2>1, <2>2, Proceeds DEF Calmly, Adds
<1> QED
  BY <1>4, <1>5, <1>6, <1>7, <1>8 DEF Startup

\* A server that exchanges keys, and has nothing but the client's banner to serve, waits.
LEMMA ServerWaits ==
    ASSUME Shape, srv.exch, Types(outq) \subseteq {"BANNER"}, Server, cause' = "none"
    PROVE  UNCHANGED <<inq, srv>>
<1>1. CASE Serve
  <2>1. PICK p \in Range(outq) : \/ ServeNot(p) \/ ServeBanner(p) \/ ServeKex(p)
                                 \/ ServeService(p) \/ ServeAuth(p) \/ ServeChannel(p)
    BY <1>1 DEF Serve
  <2>2. Serves(p)
    BY <2>1 DEF ServeNot, ServeBanner, ServeKex, ServeService, ServeAuth, ServeChannel
  <2>3. p.type = "BANNER"
    BY <2>2, QueueTail DEF Serves, Shape, ClientShape
  <2>4. ~ServeNot(p) /\ ~Heard(p)
    BY <2>3 DEF ServeNot, Heard
  <2> QED
    BY <2>1, <2>4 DEF ServeBanner, ServeKex, ServeService, ServeAuth, ServeChannel
<1>2. CASE ServerCloses \/ ServerRekeys \/ ServerBanner \/ Lost
  BY <1>2 DEF ServerCloses, ServerRekeys, ServerBanner, Lost, Blame
<1> QED
  BY <1>1, <1>2 DEF Server

LEMMA OrderTail ==
    ASSUME NEW q, Queue(q), q # <<>>, Order(q)
    PROVE  /\ Order(Tail(q))
           /\ Head(q).type = "CLOSE" => Count(Tail(q)) = 0
<1> DEFINE t == Tail(q)
           n == Len(q)
<1>1. /\ n \in Nat \ {0} /\ DOMAIN q = 1 .. n /\ Head(q) = q[1]
      /\ DOMAIN t = 1 .. n - 1 /\ \A i \in 1 .. n - 1 : t[i] = q[i + 1]
  BY DEF Queue
<1> HIDE DEF t, n
<1>2. \A i \in 1 .. n - 1 : i + 1 \in DOMAIN q /\ 1 \in DOMAIN q /\ 1 < i + 1
  BY <1>1
<1>3. \A i, j \in 1 .. n - 1 : i < j => i + 1 < j + 1
  BY <1>1
<1>4. ASSUME NEW i \in 1 .. n - 1, NEW j \in 1 .. n - 1, i < j, t[i].type = "CLOSE"
      PROVE  t[j].tag # "piece"
  BY <1>1, <1>2, <1>3, <1>4 DEF Order
<1>5. Order(t)
  BY <1>1, <1>4 DEF Order
<1>6. ASSUME Head(q).type = "CLOSE"
      PROVE  Count(t) = 0
  <2>1. \A i \in DOMAIN t : t[i].tag # "piece"
    BY <1>1, <1>2, <1>6 DEF Order
  <2> QED
    BY <2>1, CountNone
<1> QED
  BY <1>5, <1>6 DEF t

LEMMA ServerGood ==
    ASSUME Shape, Good, Server, cause' = "none"
    PROVE  Good'
<1>1. ServerKeeps
  BY ServerStep
<1>2. /\ UNCHANGED <<session, pc>> /\ Queue(outq) /\ Queue(outq') /\ ServerShape'
      /\ srv.file \in Nat /\ srv'.file \in Nat
      /\ Count(outq) \in Nat /\ Count(outq') \in Nat
      /\ "BANNER" \in Coming' => "BANNER" \in Coming
      /\ "DISCONNECT" \in Coming' => "DISCONNECT" \in Coming
      /\ "CLOSE" \in Coming' =>
            "CLOSE" \in Coming \/ (Served /\ Head(outq).type = "CLOSE")
      /\ (outq' = outq /\ srv'.file = srv.file) \/ Served
      /\ tcp' = tcp \/ (tcp' = "fin" /\ outq # <<>> /\ Head(outq).type = "DISCONNECT")
  BY <1>1, SrvForm, CountForm DEF ServerKeeps, ServerShape, Shape, ClientShape
<1>3. Course(pc)' /\ pc.left \in Nat
  BY <1>2 DEF Good, Course
<1>4. Types(outq') \subseteq Types(outq)
  BY <1>2, QueueTail DEF Served
<1>5. outq # <<>> => Head(outq).type \in Types(outq)
  BY <1>2, QueueTail
<1>6. Waits'
  <2>1. CASE pc.at \in Unbannered
    <3>1. UNCHANGED <<inq, srv>>
      BY <2>1, ServerWaits DEF Good, Waits
    <3> QED
      BY <1>2, <1>4, <3>1 DEF Good, Waits
  <2>2. CASE pc.at \notin Unbannered
    BY <1>2, <2>2 DEF Waits
  <2> QED
    BY <2>1, <2>2
<1>7. Calm'
  BY <1>2, <1>4, <1>5 DEF Good, Calm
<1>8. srv'.file + Count(outq') + pc'.left = Pieces /\ srv'.file >= srv.file
  <2>1. srv.file + Count(outq) + pc.left = Pieces
    BY DEF Good, Whole
  <2>2. CASE outq' = outq /\ srv'.file = srv.file
    BY <1>2, <2>1, <2>2
  <2>3. CASE Served
    <3>1. Count(outq) = Count(outq') + IF Head(outq).tag = "piece" THEN 1 ELSE 0
      BY <1>2, <2>3, CountTail DEF Served
    <3>2. srv'.file = srv.file + IF Head(outq).tag = "piece" THEN 1 ELSE 0
      BY <2>3 DEF Served
    <3> HIDE DEF Served
    <3>3. CASE Head(outq).tag = "piece"
      <4>1. Count(outq) = Count(outq') + 1 /\ srv'.file = srv.file + 1
        BY <3>1, <3>2, <3>3
      <4> QED
        BY <1>2, <1>3, <2>1, <4>1
    <3>4. CASE Head(outq).tag # "piece"
      BY <1>2, <1>3, <2>1, <3>1, <3>2, <3>4
    <3> QED
      BY <3>3, <3>4
  <2> QED
    BY <1>2, <2>2, <2>3
<1>9. ASSUME srv.file = Pieces PROVE srv'.file = Pieces
  BY <1>2, <1>3, <1>8, <1>9
<1>10. ASSUME pc.cont = "none"
       PROVE  /\ "CLOSE" \in Types(outq') \/ Answered' =>
                    pc.at \in Closing /\ pc.left = 0
              /\ Answered' => srv'.file = Pieces
              /\ Order(outq')
  <2>1. /\ "CLOSE" \in Types(outq) \/ Answered => pc.at \in Closing /\ pc.left = 0
        /\ Answered => srv.file = Pieces
        /\ Order(outq)
    BY <1>10 DEF Good, Whole
  <2>2. Order(outq')
    BY <1>2, <2>1, OrderTail DEF Served
  <2>3. Answered' => Answered \/ (Served /\ Head(outq).type = "CLOSE")
    BY <1>2 DEF Answered
  <2>4. "CLOSE" \in Types(outq') \/ Answered' => pc.at \in Closing /\ pc.left = 0
    BY <1>4, <1>5, <2>1, <2>3 DEF Served
  <2>5. ASSUME Answered' PROVE srv'.file = Pieces
    <3>1. CASE Answered
      BY <1>9, <2>1, <3>1
    <3>2. CASE ~Answered
      <4>1. outq # <<>> /\ Head(outq).type = "CLOSE" /\ outq' = Tail(outq)
        BY <2>3, <2>5, <3>2 DEF Served
      <4>2. Count(outq') = 0
        BY <1>2, <2>1, <4>1, OrderTail
      <4>3. pc'.left = 0
        BY <1>2, <2>4, <2>5
      <4> QED
        BY <1>2, <1>8, <4>2, <4>3
    <3> QED
      BY <3>1, <3>2
  <2> QED
    BY <2>2, <2>4, <2>5
<1>11. Whole'
  BY <1>2, <1>8, <1>9, <1>10 DEF Good, Whole
<1> QED
  BY <1>3, <1>6, <1>7, <1>11 DEF Good

\* What has gone wrong is not forgotten.
LEMMA CauseStays ==
    ASSUME Client, cause' = "none"
    PROVE  cause = "none"
<1>1. CASE Receive
  BY <1>1 DEF Receive, ReadError, ReadLost, ReadNothing, AddDisconnect, AddChannel,
     AddToBrigade, Reexchange, AddGarbage, AddBanner, Blame
<1>2. CASE NotThere
  BY <1>2 DEF NotThere
<1>3. CASE KeyExchange
  BY <1>3 DEF KeyExchange, SendKexinit, TakeKexinit, SendRequest, TakeGroup, SendInit, Burn,
     TakeReply, SendNewkeys, TakeNewkeys, Blame
<1>4. CASE Startup
  BY <1>4 DEF Startup, Connect, banner_send, banner_receive, RequestService, TakeService, Blame
<1>5. CASE Userauth
  BY <1>5 DEF Userauth, userauth_list, password_ex, keyboard_interactive_ex,
     hostbased_fromfile_ex, publickey_fromfile_ex, Request, KeyFileFails, TakeSuccess,
     TakeFailure, TakeChangeRequest, TakePkOk, TakeInfoRequest
<1>6. CASE Scp
  BY <1>6 DEF Scp, OpenChannel, TakeOpen, process_startup, TakeExec, TakeAck, NoAck, SendLine,
     WritePiece, WriteWaits, send_eof, close, wait_closed
<1>7. CASE Ending
  BY <1>7 DEF Ending, free, Clear, Cleared, disconnect, session_free
<1> QED
  BY <1>1, <1>2, <1>3, <1>4, <1>5, <1>6, <1>7 DEF Client

LEMMA UploadInit ==
    ASSUME Init
    PROVE  UploadInv
<1>1. PICK s \in Servers :
        /\ srv = [offers |-> s.offers, exch |-> TRUE, ck |-> 0, sk |-> 1, kex |-> No,
                  in |-> NoEnd,
                  out |-> [NoEnd EXCEPT !.seq = IF s.offers[1].guess = "none" THEN 1 ELSE 2],
                  id |-> NoHash, authed |-> FALSE, chan |-> "none", file |-> 0, held |-> <<>>]
        /\ inq = (IF s.greets THEN <<Packet("BANNER", "greeting", 0, NoHash)>> ELSE <<>>)
                 \o <<Packet("BANNER", "banner", 0, NoHash), Packet("KEXINIT", "", 1, NoHash)>>
                 \o (IF s.offers[1].guess = "none" THEN <<>>
                     ELSE <<Packet(s.offers[1].guess, "guess", 0, NoHash)>>)
  BY DEF Init
<1>2. /\ srv.exch /\ srv.held = <<>> /\ srv.file = 0
  <2>1. PICK o : srv = [offers |-> s.offers, exch |-> TRUE, ck |-> 0, sk |-> 1, kex |-> No,
                        in |-> NoEnd, out |-> o, id |-> NoHash, authed |-> FALSE,
                        chan |-> "none", file |-> 0, held |-> <<>>]
    BY <1>1, Zenon
  <2> QED
    BY <2>1
<1>3. /\ Queue(inq) /\ inq # <<>> /\ Types(inq) \subseteq {"BANNER", "KEXINIT"} \cup Guesses
      /\ Head(inq).tag = "greeting" \/ "BANNER" \notin Types(Tail(inq))
  BY <1>1, GreetingForm
<1>4. /\ pc.at = "connect" /\ pc.kx = "none" /\ pc.cont = "none" /\ pc.left = Pieces
      /\ pc.result = "none"
  <2>1. PICK p \in Programs :
          pc = [at |-> "connect", kx |-> "none", wait |-> "read", cont |-> "none",
                todo |-> p, left |-> Pieces, group |-> "none", result |-> "none"]
    BY DEF Init
  <2> QED
    BY <2>1
<1>5. session.socket_state = "CONNECTED" /\ ~session.chan.rclose
  BY DEF Init
<1>6. tcp = "up" /\ outq = <<>> /\ Pieces \in Nat
  BY SshSessionAssumption DEF Init
<1>7. Course(pc)
  BY <1>4, <1>6 DEF Course, Final, Freeing, Written
<1>8. Types(outq) = {} /\ Types(srv.held) = {} /\ Count(outq) = 0 /\ Order(outq)
  BY <1>2, <1>6, QueueEmpty, CountNone DEF Order
<1>9. Waits
  BY <1>2, <1>3, <1>4, <1>8 DEF Waits
<1>10. "DISCONNECT" \notin Coming /\ "CLOSE" \notin Coming
  BY <1>3, <1>8 DEF Coming, Guesses
<1>11. Calm
  BY <1>4, <1>5, <1>6, <1>8, <1>10 DEF Calm, Unbannered
<1>12. Whole
  BY <1>2, <1>4, <1>5, <1>6, <1>8, <1>10 DEF Whole, Answered
<1> QED
  BY <1>7, <1>9, <1>11, <1>12 DEF UploadInv, Good

LEMMA UploadStep ==
    ASSUME Shape, UploadInv, [Next]_vars
    PROVE  UploadInv'
<1> SUFFICES ASSUME cause' = "none"
             PROVE  Good'
  BY DEF UploadInv
<1>1. CASE Client
  <2>1. cause = "none"
    BY <1>1, CauseStays
  <2>2. Good /\ ClientKeeps
    BY <1>1, <2>1, ClientStep DEF UploadInv
  <2>3. CASE Receive \/ NotThere \/ KeyExchange \/ Userauth \/ (Scp /\ ~WritePiece) \/ Ending
    BY <2>2, <2>3, Proceeds, ReceiveGoes, NotThereGoes, KeyExchangeGoes, UserauthGoes, ScpGoes,
       EndingGoes
  <2>4. CASE Startup
    BY <2>2, <2>4, StartupGood
  <2>5. CASE WritePiece
    BY <2>2, <2>5, WritePieceGood
  <2> QED
    BY <1>1, <2>3, <2>4, <2>5 DEF Client
<1>2. CASE Server
  <2>1. cause = "none"
    BY <1>2, ServerStep DEF ServerKeeps
  <2> QED
    BY <1>2, <2>1, ServerGood DEF UploadInv
<1>3. CASE UNCHANGED vars
  BY <1>3 DEF vars, UploadInv, Good, Course, Waits, Calm, Whole, Answered, Coming
<1> QED
  BY <1>1, <1>2, <1>3 DEF Next

\* For every length of the file, and however often and wherever the server exchanges keys
\* again: scpFileFilename returns 0 only when the server has the whole file, as long as the
\* connection lasts and the remote scp does not fail.
THEOREM ZeroMeansWhole == Spec => []UploadWhole
<1>1. Init => (Shape /\ AuthInv) /\ UploadInv
  BY AuthInit, UploadInit
<1>2. (Shape /\ AuthInv) /\ UploadInv /\ [Next]_vars => ((Shape /\ AuthInv) /\ UploadInv)'
  BY AuthStep, UploadStep
<1>3. UploadInv => UploadWhole
  BY DEF UploadInv, Good, Whole, UploadWhole
<1> QED
  BY <1>1, <1>2, <1>3, PTL DEF Spec

----------------------------------------------------------------------------
(* The types of the session                                                *)

\* Where the thread may be with its result and what follows channel_free, whatever has
\* gone wrong.
Path(p) ==
    /\ p.result \in Results
    /\ p.cont \in {"none", "throw", "0", "end"}
    /\ p.at \in {"disconnect", "freeSession", "done"} \/ p.cont = "end" => p.result # "none"
    /\ p.at \in Freeing => p.cont # "none"
    /\ p.at \notin Stages

LEMMA PathGoes ==
    ASSUME PcForm(pc), Path(pc)
    PROVE  /\ \A a : a \notin {"disconnect", "freeSession", "done"} \cup Freeing \cup Stages => Path(Go(a))
           /\ \A k : Path(GoKex(k))
           /\ \A w : Path([pc EXCEPT !.wait = w])
           /\ \A r \in Results \ {"none"} : Path(Disconnects(r))
           /\ \A a \in Freeing : pc.cont # "end" => Path(ChannelError(a))
           /\ Path(Returned) /\ Path(KexFailed) /\ Path(NextMethod)
BY DEF PcForm, PcFields, Path, Go, GoKex, Disconnects, ChannelError, Returned, KexFailed,
   NextMethod, Results, Freeing, Stages

LEMMA PathFailed ==
    ASSUME PcForm(pc), Path(pc)
    PROVE  Path(Failed)
<1>1. CASE pc.kx # "none"
  BY <1>1, PathGoes DEF Failed
<1>2. CASE pc.kx = "none"
  <2>1. /\ Path(Disconnects("SESSION_NOT_OPENED")) /\ Path(NextMethod) /\ Path(Go("eof"))
        /\ Path([pc EXCEPT !.wait = "ask"])
    BY PathGoes DEF Results, Freeing, Stages
  <2>2. pc.at = "waitClosed" => Path([pc EXCEPT !.at = "free", !.cont = "0"])
    BY DEF PcForm, PcFields, Path, Freeing, Stages
  <2>3. pc.at \in {"open", "exec"} => Path(ChannelError("free1")) /\ Path(ChannelError("free"))
    BY DEF PcForm, PcFields, Path, Freeing, Stages, ChannelError
  <2> QED
    BY <1>2, <2>1, <2>2, <2>3 DEF Failed
<1> QED
  BY <1>1, <1>2

LEMMA SendPc ==
    ASSUME NEW STATE s, NEW STATE p, NEW STATE then, NEW STATE otherwise,
           Send(s, p, then, otherwise)
    PROVE  pc' \in {then, otherwise}
BY DEF Send

LEMMA PathReceive ==
    ASSUME PcForm(pc), Path(pc), Receive \/ NotThere
    PROVE  Path(pc')
<1>1. \A p : Path(Onward(p))
  BY PathGoes DEF Onward
<1>2. Path(Failed) /\ (\A k : Path(GoKex(k))) /\ (\A w : Path([pc EXCEPT !.wait = w]))
  BY PathGoes, PathFailed
<1>3. Path([pc EXCEPT !.kx = "none", !.at = "hung"]) /\ Path([pc EXCEPT !.kx = "none", !.at = "dead"])
  BY DEF PcForm, PcFields, Path, Freeing, Stages
<1>4. CASE NotThere
  BY <1>2, <1>4 DEF NotThere
<1>5. CASE ReadError \/ ReadLost \/ ReadNothing
  BY <1>2, <1>3, <1>5 DEF ReadError, ReadLost, ReadNothing
<1>6. ASSUME NEW p, AddDisconnect(p) \/ AddChannel(p) \/ AddToBrigade(p) \/ Reexchange(p)
                    \/ AddGarbage(p) \/ AddBanner(p)
      PROVE  Path(pc')
  BY <1>1, <1>2, <1>3, <1>6 DEF AddDisconnect, AddChannel, AddToBrigade, Reexchange, AddGarbage,
     AddBanner
<1> QED
  BY <1>4, <1>5, <1>6 DEF Receive

LEMMA PathKeyExchange ==
    ASSUME PcForm(pc), Path(pc), KeyExchange
    PROVE  Path(pc')
<1>1. (\A k : Path(GoKex(k))) /\ Path(KexFailed) /\ Path(Returned)
  BY PathGoes
<1>2. /\ Path([pc EXCEPT !.kx = "none", !.at = "dead"]) /\ \A g : Path([GoKex("init") EXCEPT !.group = g])
      /\ pc.at = "startup" => Path([pc EXCEPT !.kx = "none", !.at = "requestService"])
  BY DEF PcForm, PcFields, Path, Freeing, Stages, GoKex
<1>3. CASE SendKexinit \/ SendRequest \/ SendInit \/ SendNewkeys
  <2>1. CASE SendKexinit
    BY <1>1, <2>1 DEF SendKexinit, Send
  <2>2. CASE SendRequest
    BY <1>1, <2>2 DEF SendRequest, Send
  <2>3. CASE SendInit
    BY <1>1, <2>3 DEF SendInit, Send
  <2>4. CASE SendNewkeys
    BY <1>1, <2>4 DEF SendNewkeys, Send
  <2> QED
    BY <1>3, <2>1, <2>2, <2>3, <2>4
<1>4. CASE TakeKexinit \/ TakeGroup \/ Burn \/ TakeReply \/ TakeNewkeys
  BY <1>1, <1>2, <1>4 DEF TakeKexinit, TakeGroup, Burn, TakeReply, TakeNewkeys
<1> QED
  BY <1>3, <1>4 DEF KeyExchange

LEMMA PathStartup ==
    ASSUME PcForm(pc), Path(pc), Startup
    PROVE  Path(pc')
<1>1. /\ \A a \in {"sendBanner", "banner", "service", "auth"} : Path(Go(a))
      /\ Path(Disconnects("SESSION_NOT_OPENED"))
  BY PathGoes DEF Freeing, Stages, Results
<1>2. /\ Path([pc EXCEPT !.at = "done", !.result = "SESSION_NOT_OPENED"])
      /\ Path([pc EXCEPT !.at = "startup", !.kx = "kexinit"])
  BY DEF PcForm, PcFields, Path, Freeing, Stages, Results
<1> QED
  BY <1>1, <1>2, SendPc DEF Startup, Connect, banner_send, banner_receive, RequestService, TakeService

LEMMA PathUserauth ==
    ASSUME PcForm(pc), Path(pc), Userauth
    PROVE  Path(pc')
<1>1. /\ \A a \in {"scp", "auth", "password", "pk2", "keyboard"} : Path(Go(a))
      /\ Path(NextMethod) /\ Path(Disconnects("AUTHENTICATION_FAILED"))
  BY PathGoes DEF Freeing, Stages, Results
<1>2. /\ Path([pc EXCEPT !.todo = Tail(@)])
      /\ \A a \in {"list", "password", "keyboard", "hostbased", "pk1"} :
            Path([[pc EXCEPT !.todo = Tail(@)] EXCEPT !.at = a, !.wait = "ask"])
  BY DEF PcForm, PcFields, Path, Freeing, Stages
<1>3. [pc EXCEPT !.todo = Tail(@)].todo = Tail(pc.todo)
  BY DEF PcForm, PcFields
<1>4. ASSUME NEW a \in {"list", "password", "keyboard", "hostbased", "pk1"}, NEW method, NEW STATE h,
             Request(method, a, h)
      PROVE  Path(pc')
  <2>1. \/ pc' = [[pc EXCEPT !.todo = Tail(@)] EXCEPT !.at = a, !.wait = "ask"]
        \/ pc' = Disconnects("AUTHENTICATION_FAILED")
        \/ pc' = [pc EXCEPT !.todo = Tail(@)]
    BY <1>4, SendPc DEF Request
  <2> QED
    BY <1>1, <1>2, <2>1
<1>5. CASE userauth_list \/ password_ex \/ keyboard_interactive_ex \/ hostbased_fromfile_ex
           \/ publickey_fromfile_ex
  BY <1>4, <1>5 DEF userauth_list, password_ex, keyboard_interactive_ex, hostbased_fromfile_ex,
     publickey_fromfile_ex
<1>6. CASE KeyFileFails \/ TakeSuccess \/ TakeFailure
  BY <1>1, <1>2, <1>6 DEF KeyFileFails, TakeSuccess, TakeFailure
<1>7. CASE TakeChangeRequest \/ TakePkOk \/ TakeInfoRequest
  BY <1>1, <1>7, SendPc DEF TakeChangeRequest, TakePkOk, TakeInfoRequest
<1> QED
  BY <1>5, <1>6, <1>7 DEF Userauth

LEMMA PathScp ==
    ASSUME PcForm(pc), Path(pc), Scp
    PROVE  Path(pc')
<1>1. /\ \A a \in {"open", "startExec", "exec", "ack1", "line", "write", "ack2", "eof", "close",
                  "waitClosed"} : Path(Go(a))
      /\ Path(Disconnects("FILE_NOT_FOUND")) /\ Path([pc EXCEPT !.wait = "read"])
  BY PathGoes DEF Freeing, Stages, Results
<1>2. /\ Path([pc EXCEPT !.left = @ - 1])
      /\ pc.at \in {"scp", "open", "startExec", "exec", "ack1", "ack2", "line"} =>
            Path(ChannelError("free")) /\ Path(ChannelError("free1"))
      /\ Path([pc EXCEPT !.at = "free", !.cont = "0"])
  BY DEF PcForm, PcFields, Path, Freeing, Stages, ChannelError
<1>3. \A a \in {"scp", "open", "startExec", "exec", "ack1", "ack2", "line"} : Label = a => pc.at = a
  BY LabelIsAt DEF Stages
<1>4. CASE OpenChannel \/ process_startup \/ SendLine
  BY <1>1, <1>2, <1>3, <1>4 DEF OpenChannel, process_startup, SendLine, Send, At
<1>5. CASE TakeOpen \/ TakeExec \/ TakeAck \/ NoAck
  BY <1>1, <1>2, <1>3, <1>5 DEF TakeOpen, TakeExec, TakeAck, NoAck, Takes, At
<1>6. CASE WritePiece \/ WriteWaits \/ send_eof \/ close \/ wait_closed
  BY <1>1, <1>2, <1>6 DEF WritePiece, WriteWaits, send_eof, close, wait_closed, Send
<1> QED
  BY <1>4, <1>5, <1>6 DEF Scp

LEMMA PathEnding ==
    ASSUME PcForm(pc), Path(pc), Ending
    PROVE  Path(pc')
<1>1. \A a \in {"free", "free1", "free2", "disconnect", "freeSession"} : Label = a => pc.at = a
  BY LabelIsAt DEF Stages
<1>2. pc.at \in Freeing =>
         /\ \A a \in Freeing : Path([pc EXCEPT !.at = a, !.wait = "read"])
         /\ Path(Continues) /\ Path([pc EXCEPT !.wait = "read"])
  BY DEF PcForm, PcFields, Path, Freeing, Stages, Continues, Disconnects, Results
<1>3. pc.at \in {"disconnect", "freeSession"} =>
         /\ Path(Go("freeSession")) /\ Path([pc EXCEPT !.at = "done"])
         /\ Path([pc EXCEPT !.at = "free", !.cont = "end"])
  BY DEF PcForm, PcFields, Path, Freeing, Stages, Go
<1>4. CASE free \/ Clear \/ Cleared
  BY <1>1, <1>2, <1>4 DEF free, Clear, Cleared, Send, At, Takes, Freeing, Stages
<1>5. CASE disconnect \/ session_free
  BY <1>1, <1>3, <1>5 DEF disconnect, session_free, Send, At
<1> QED
  BY <1>4, <1>5 DEF Ending

LEMMA PathClient ==
    ASSUME PcForm(pc), Path(pc), Client
    PROVE  Path(pc')
BY PathReceive, PathKeyExchange, PathStartup, PathUserauth, PathScp, PathEnding DEF Client

----------------------------------------------------------------------------
(* The steps of the thread outside of the exchanges of keys                *)

\* The packets of an exchange, as the server and the client send them.
KexTypes == {"KEXINIT", "NEWKEYS", "K30", "K31", "K33"}
OwnTypes == {"BANNER", "KEXINIT", "NEWKEYS", "K30", "K32", "K34"}

\* What the session knows of its keys, but for the number of the next packet.
SameKeys ==
    /\ session'.exchanging = session.exchanging /\ session'.newkeys = session.newkeys
    /\ session'.kex = session.kex /\ session'.burn = session.burn
    /\ session'.lkex = session.lkex /\ session'.rkex = session.rkex
    /\ session'.id = session.id /\ session'.remote = session.remote
    /\ session'.socket_state = session.socket_state

\* A packet is written under the session's keys; only a connection that is up delivers it.
Wrote(p) ==
    /\ session'.local = [session.local EXCEPT !.seq = @ + 1]
    /\ \/ tcp = "up" /\ outq' = Append(outq, [p EXCEPT !.enc = Encoding(session.local, session.newkeys)])
       \/ tcp # "up" /\ outq' = outq

Speaks ==
    \/ session'.local = session.local /\ outq' = outq
    \/ \E p : Form(p) /\ p.type \notin OwnTypes /\ Wrote(p)

\* The places of a thread that has no session yet, or none any more.
Early == Unbannered \cup {"startup", "disconnect", "freeSession", "done", "dead", "hung"}

Outside ==
    /\ UNCHANGED <<tcp, inq, srv>>
    /\ SameKeys /\ Speaks
    /\ pc.kx = "none" /\ pc'.kx = "none"
    /\ \/ brigade' = brigade
       \/ Asked # 0 /\ Answer.type \notin KexTypes /\ brigade' = RemoveAt(brigade, Asked)
    /\ pc.at \in Early /\ session.chan.st = "none" => pc'.at \in Early \ {"startup"}
    /\ pc'.at \in Unbannered => pc.at \in Unbannered
    /\ pc.at \in Unbannered => UNCHANGED <<session, brigade, outq>>

\* The window only shrinks, but for the one that the channel is opened with; and each piece
\* that is sent is one less to be read.
Spends ==
    /\ session'.chan.st \in {"none", "open"}
    /\ session'.chan.win \in Nat
    /\ session'.chan.win <= session.chan.win \/ session'.chan.win \in {0, 1}
    /\ pc'.left \in Nat
    /\ Count(outq') + pc'.left <= Count(outq) + pc.left

\* A channel is opened with a window of one piece, and a piece at a time is added to it.
Ones(q) ==
    \A p \in Range(q) : p.type \in {"OPEN_CONFIRMATION", "WINDOW_ADJUST"} => p.n = 1

\* Where it starts from.
Sound ==
    /\ DOMAIN session = SessionFields /\ DOMAIN session.chan = ChanFields /\ PcForm(pc)
    /\ Queue(outq) /\ Queue(brigade) /\ Ones(brigade)
    /\ session.chan.st \in {"none", "open"} /\ session.chan.win \in Nat /\ pc.left \in Nat
    /\ pc.at \in Unbannered => pc.kx = "none"

\* A session that differs from this one in its channel at most.
Like(s) ==
    /\ DOMAIN s = SessionFields
    /\ s.exchanging = session.exchanging /\ s.newkeys = session.newkeys
    /\ s.kex = session.kex /\ s.burn = session.burn /\ s.lkex = session.lkex
    /\ s.rkex = session.rkex /\ s.id = session.id /\ s.remote = session.remote
    /\ s.socket_state = session.socket_state /\ s.local = session.local

LEMMA LikeChannel ==
    ASSUME DOMAIN session = SessionFields
    PROVE  /\ Like(session)
           /\ \A c : Like([session EXCEPT !.chan = c]) /\ [session EXCEPT !.chan = c].chan = c
           /\ Like([session EXCEPT !.authenticated = TRUE])
           /\ [session EXCEPT !.authenticated = TRUE].chan = session.chan
BY DEF SessionFields, Like

\* packet_write of something else than a packet of an exchange
LEMMA SendOutside ==
    ASSUME Sound, NEW STATE s, NEW STATE p, NEW STATE then, NEW STATE otherwise,
           Send(s, p, then, otherwise), Like(s), Form(p), p.type \notin OwnTypes
    PROVE  /\ SameKeys /\ Speaks
           /\ session'.chan = s.chan /\ pc' \in {then, otherwise}
           /\ p.tag # "piece" => Count(outq') = Count(outq)
           /\ Count(outq') = Count(outq) \/ (Count(outq') = Count(outq) + 1 /\ pc' = then)
<1> DEFINE e == [p EXCEPT !.enc = Encoding(session.local, session.newkeys)]
<1>1. s.local = session.local /\ s.newkeys = session.newkeys /\ DOMAIN s = SessionFields
  BY DEF Like
<1>3. /\ session' = [s EXCEPT !.local.seq = @ + 1]
      /\ \/ tcp = "up" /\ outq' = Append(outq, e) /\ pc' = then
         \/ tcp # "up" /\ outq' = outq /\ pc' \in {then, otherwise}
  BY <1>1 DEF Send
<1>4. Form(e) /\ e.tag = p.tag
  BY DEF Form, Fields
<1> HIDE DEF e
<1>5. SameKeys /\ session'.chan = s.chan /\ session'.local = [session.local EXCEPT !.seq = @ + 1]
  BY <1>3 DEF Like, SessionFields, SameKeys
<1>6. Speaks
  BY <1>3, <1>5 DEF Speaks, Wrote, e
<1>7. Count(Append(outq, e)) = Count(outq) + IF p.tag = "piece" THEN 1 ELSE 0
  BY <1>4, CountAppend DEF Sound
<1>8. Count(outq) \in Nat
  BY CountForm DEF Sound
<1>9. /\ p.tag # "piece" => Count(Append(outq, e)) = Count(outq)
      /\ Count(Append(outq, e)) \in {Count(outq), Count(outq) + 1}
  BY <1>7, <1>8
<1> QED
  BY <1>3, <1>5, <1>6, <1>9

\* The types a wait is for.
WantTypes == {Wants[j] : j \in DOMAIN Wants}

\* packet_askv_ex finds a packet of a type that is asked for, the first such type, or none.
LEMMA AskedFound ==
    ASSUME Queue(brigade)
    PROVE  /\ Asked = 0 => \A i \in DOMAIN brigade : brigade[i].type \notin WantTypes
           /\ Asked # 0 =>
                /\ Asked \in DOMAIN brigade /\ Answer.type \in WantTypes
                /\ \E j \in DOMAIN Wants :
                     /\ Answer.type = Wants[j]
                     /\ \A k \in DOMAIN Wants : k < j => Hits(Wants[k]) = {}
<1> DEFINE types == {j \in DOMAIN Wants : Hits(Wants[j]) # {}}
           first == CHOOSE j \in types : \A k \in types : j <= k
           hits == Hits(Wants[first])
<1>1. Asked = IF types = {} THEN 0 ELSE CHOOSE i \in hits : \A k \in hits : i <= k
  BY DEF Asked
<1>2. types \subseteq Nat /\ DOMAIN brigade \subseteq Nat \ {0} /\ DOMAIN Wants \subseteq Nat
  BY WantsNumbers DEF Queue
<1>3. CASE types = {}
  <2>1. \A i \in DOMAIN brigade : brigade[i].type \notin WantTypes
    BY <1>3 DEF WantTypes, Hits
  <2> QED
    BY <1>1, <1>3, <2>1
<1>4. CASE types # {}
  <2>1. \E j \in types : \A k \in types : j <= k
    BY <1>2, <1>4, Least
  <2>2. first \in types /\ \A k \in types : first <= k
    BY <2>1
  <2>3. hits # {} /\ hits \subseteq DOMAIN brigade
    BY <2>2 DEF Hits
  <2>4. first \in DOMAIN Wants
    BY <2>2
  <2>5. \A i \in hits : brigade[i].type = Wants[first]
    BY DEF Hits
  <2>9. \A k \in DOMAIN Wants : k \notin types => Hits(Wants[k]) = {}
    OBVIOUS
  <2> HIDE DEF types, first, hits
  <2>10. \A k \in DOMAIN Wants : k < first => k \notin types
    <3>1. first \in Nat /\ \A k \in types : k \in Nat /\ first <= k
      BY <1>2, <2>2
    <3> QED
      BY <3>1
  <2>6. \E i \in hits : \A k \in hits : i <= k
    BY <1>2, <2>3, Least
  <2>7. Asked \in hits
    BY <1>1, <1>4, <2>6
  <2>8. Asked # 0 /\ Asked \in DOMAIN brigade /\ Answer.type = Wants[first]
    BY <1>2, <2>3, <2>5, <2>7 DEF Answer
  <2> QED
    BY <2>4, <2>8, <2>9, <2>10 DEF WantTypes
<1> QED
  BY <1>3, <1>4

\* What is waited for at each place.
LEMMA WantedThere ==
    /\ Label \in {"request", "init", "newkeys", "kexinit"} => WantTypes = {}
    /\ Label = "KEXINIT" => WantTypes = {"KEXINIT"}
    /\ Label = "GROUP" => WantTypes = {"K31"}
    /\ Label = "REPLY" => WantTypes = IF session.kex = "gex" THEN {"K33"} ELSE {"K31"}
    /\ Label = "NEWKEYS" => WantTypes = {"NEWKEYS"}
    /\ Label \notin Stages => WantTypes \cap KexTypes = {}
    /\ Label = "open" => WantTypes = {"OPEN_CONFIRMATION", "OPEN_FAILURE"}
<1> DEFINE OfSeq(w) == {w[j] : j \in DOMAIN w}
<1>1. /\ OfSeq(<<>>) = {}
      /\ \A x, y, z : /\ OfSeq(<<x>>) = {x}
                      /\ OfSeq(<<x, y>>) = {x, y}
                      /\ OfSeq(<<x, y, z>>) = {x, y, z}
  OBVIOUS
<1>2. WantTypes = OfSeq(Wants)
  BY DEF WantTypes
<1> HIDE DEF OfSeq
<1>3. Label \in {"request", "init", "newkeys", "kexinit"} => Wants = <<>>
  BY DEF Wants
<1>4. /\ Label = "KEXINIT" => Wants = <<"KEXINIT">>
      /\ Label = "GROUP" => Wants = <<"K31">>
      /\ Label = "REPLY" => Wants = IF session.kex = "gex" THEN <<"K33">> ELSE <<"K31">>
      /\ Label = "NEWKEYS" => Wants = <<"NEWKEYS">>
      /\ Label = "open" => Wants = <<"OPEN_CONFIRMATION", "OPEN_FAILURE">>
  BY DEF Wants
<1>5. Label \notin Stages =>
        Wants \in {<<>>, <<"SERVICE_ACCEPT">>, <<"DATA">>, <<"SUCCESS", "FAILURE">>,
                   <<"OPEN_CONFIRMATION", "OPEN_FAILURE">>,
                   <<"CHANNEL_SUCCESS", "CHANNEL_FAILURE">>, <<"SUCCESS", "FAILURE", "M60">>}
  BY DEF Wants, Stages
<1>6. Label \notin Stages => WantTypes \cap KexTypes = {}
  BY <1>1, <1>2, <1>5 DEF KexTypes
<1> QED
  BY <1>1, <1>2, <1>3, <1>4, <1>6

LEMMA TakesOutside ==
    ASSUME Queue(brigade), NEW label, label \notin Stages, Takes(label)
    PROVE  /\ brigade' = RemoveAt(brigade, Asked) /\ Asked # 0 /\ Answer.type \notin KexTypes
           /\ UNCHANGED <<tcp, inq, srv>>
BY AskedFound, WantedThere DEF Takes

\* A step outside of an exchange leaves the thread outside.
LEMMA PcOutside ==
    ASSUME PcForm(pc), pc.kx = "none"
    PROVE  /\ \A a : Go(a).kx = "none" /\ Go(a).at = a /\ Go(a).left = pc.left
           /\ \A r : Disconnects(r).kx = "none" /\ Disconnects(r).at = "disconnect"
                     /\ Disconnects(r).left = pc.left
           /\ \A a : ChannelError(a).kx = "none" /\ ChannelError(a).at = a
                     /\ ChannelError(a).left = pc.left
           /\ \A w : [pc EXCEPT !.wait = w].kx = "none" /\ [pc EXCEPT !.wait = w].at = pc.at
                     /\ [pc EXCEPT !.wait = w].left = pc.left
           /\ NextMethod.kx = "none" /\ NextMethod.at \in {"disconnect", "auth"}
           /\ NextMethod.left = pc.left
BY DEF PcForm, PcFields, Go, Disconnects, ChannelError, NextMethod

Leaves(p) == p.kx = "none" /\ p.left = pc.left /\ p.at \notin Unbannered \cup {"startup"}

\* A step that sends no packet, or one that is no piece of the file.
LEMMA OutsideForm ==
    ASSUME Sound, UNCHANGED <<tcp, inq, srv>>, SameKeys, Speaks, Count(outq') = Count(outq),
           pc.kx = "none", pc.at \notin Unbannered, Leaves(pc'),
           pc.at \in Early /\ session.chan.st = "none" => pc'.at \in Early,
           brigade' = brigade \/ (Asked # 0 /\ Answer.type \notin KexTypes /\ brigade' = RemoveAt(brigade, Asked)),
           \/ session'.chan = session.chan
           \/ session'.chan = NoChannel
           \/ session'.chan.st = "open" /\ session'.chan.win = session.chan.win
           \/ session'.chan.st = session.chan.st /\ session'.chan.win = 1
    PROVE  Outside /\ Spends
<1>1. Count(outq) \in Nat
  BY CountForm DEF Sound
<1>2. Outside
  BY DEF Outside, Leaves
<1>3. Spends
  BY <1>1 DEF Spends, Sound, Leaves, NoChannel
<1> QED
  BY <1>2, <1>3

LEMMA AuthOutside ==
    ASSUME Sound, RequestService \/ TakeService \/ Userauth
    PROVE  Outside /\ Spends
<1>0. /\ DOMAIN session = SessionFields /\ Queue(brigade) /\ PcForm(pc) /\ Queue(outq)
      /\ Like(session)
  BY LikeChannel DEF Sound
<1>1. \A a \in {"requestService", "service", "auth"} \cup Waiting :
         Label = a => pc.kx = "none" /\ pc.at = a
  BY <1>0, LabelIsAt DEF Stages, Waiting
<1>2. \A a \in {"requestService", "service", "auth"} \cup Waiting : a \notin Early /\ a \notin Unbannered
  BY DEF Waiting, Early, Unbannered
<1>3. ASSUME NEW type, NEW tag, NEW n, NEW h, tag # "piece",
             type \in {"SERVICE_REQUEST", "USERAUTH_REQUEST", "INFO_RESPONSE"}
      PROVE  /\ Form(Packet(type, tag, n, h)) /\ Packet(type, tag, n, h).tag # "piece"
             /\ Packet(type, tag, n, h).type \notin OwnTypes
  BY <1>3, PacketForm DEF OwnTypes
<1>4. pc.kx = "none" =>
        /\ \A a \in {"service", "auth", "scp", "password", "pk2", "keyboard"} : Leaves(Go(a))
        /\ \A r : Leaves(Disconnects(r))
        /\ Leaves(NextMethod)
  BY <1>0, PcOutside DEF Leaves, Unbannered
<1>5. pc.kx = "none" /\ pc.at = "auth" =>
        /\ Leaves([pc EXCEPT !.todo = Tail(@)])
        /\ \A a \in Waiting : Leaves([[pc EXCEPT !.todo = Tail(@)] EXCEPT !.at = a, !.wait = "ask"])
  BY <1>0 DEF PcForm, PcFields, Leaves, Unbannered, Waiting
<1>6. CASE RequestService
  <2>1. /\ Send(session, Packet("SERVICE_REQUEST", "", 0, NoHash), Go("service"),
                Disconnects("SESSION_NOT_OPENED"))
        /\ Label = "requestService" /\ UNCHANGED <<tcp, inq, srv, brigade>>
    BY <1>6 DEF RequestService, At
  <2> DEFINE p == Packet("SERVICE_REQUEST", "", 0, NoHash)
  <2>3. Form(p) /\ p.tag # "piece" /\ p.type \notin OwnTypes
    BY <1>3
  <2>4. Send(session, p, Go("service"), Disconnects("SESSION_NOT_OPENED"))
    BY <2>1
  <2> HIDE DEF p
  <2>2. /\ SameKeys /\ Speaks /\ session'.chan = session.chan /\ Count(outq') = Count(outq)
        /\ pc' \in {Go("service"), Disconnects("SESSION_NOT_OPENED")}
    BY <1>0, <2>3, <2>4, SendOutside
  <2> QED
    BY <1>1, <1>2, <1>4, <2>1, <2>2, OutsideForm
<1>7. CASE TakeService
  <2>1. /\ brigade' = RemoveAt(brigade, Asked) /\ Asked # 0 /\ Answer.type \notin KexTypes
        /\ UNCHANGED <<tcp, inq, srv, session, outq>> /\ pc' = Go("auth") /\ Label = "service"
    BY <1>0, <1>7, TakesOutside DEF TakeService, Stages, Takes
  <2> QED
    BY <1>1, <1>2, <1>4, <2>1, OutsideForm DEF SameKeys, Speaks
<1>8. ASSUME NEW a \in Waiting, NEW method, method # "piece", NEW STATE h, Request(method, a, h)
      PROVE  Outside /\ Spends
  <2> DEFINE p == [pc EXCEPT !.todo = Tail(@)]
             then == [p EXCEPT !.at = a, !.wait = "ask"]
             otherwise == IF p.todo = <<>> THEN Disconnects("AUTHENTICATION_FAILED") ELSE p
  <2>1. /\ Send(session, Packet("USERAUTH_REQUEST", method, 0, h), then, otherwise)
        /\ Label = "auth" /\ UNCHANGED <<tcp, inq, srv, brigade>>
    BY <1>8 DEF Request, At
  <2>2. pc.kx = "none" /\ pc.at = "auth"
    BY <1>1, <2>1
  <2>3. Leaves(then) /\ Leaves(otherwise)
    BY <1>4, <1>5, <2>2
  <2> HIDE DEF then, otherwise, p
  <2>4. /\ SameKeys /\ Speaks /\ session'.chan = session.chan /\ Count(outq') = Count(outq)
        /\ pc' \in {then, otherwise}
    BY <1>0, <1>3, <1>8, <2>1, SendOutside
  <2> QED
    BY <1>2, <2>1, <2>2, <2>3, <2>4, OutsideForm
<1>9. CASE userauth_list \/ password_ex \/ keyboard_interactive_ex \/ hostbased_fromfile_ex
           \/ publickey_fromfile_ex
  BY <1>8, <1>9 DEF userauth_list, password_ex, keyboard_interactive_ex, hostbased_fromfile_ex,
     publickey_fromfile_ex, Waiting
<1>10. CASE KeyFileFails
  <2>1. Label = "auth" /\ UNCHANGED <<tcp, inq, srv, brigade, session, outq>>
    BY <1>10 DEF KeyFileFails, At
  <2>2. pc' \in {Disconnects("AUTHENTICATION_FAILED"), [pc EXCEPT !.todo = Tail(@)]}
    BY <1>10 DEF KeyFileFails
  <2>3. Leaves(pc')
    BY <1>1, <1>4, <1>5, <2>1, <2>2
  <2> QED
    BY <1>1, <1>2, <2>1, <2>3, OutsideForm DEF SameKeys, Speaks
<1>11. ASSUME NEW label \in Waiting, Takes(label)
       PROVE  /\ brigade' = RemoveAt(brigade, Asked) /\ Asked # 0 /\ Answer.type \notin KexTypes
              /\ UNCHANGED <<tcp, inq, srv>>
              /\ pc.kx = "none" /\ pc.at \notin Unbannered /\ pc.at \notin Early
  <2>1. label \notin Stages
    BY DEF Waiting, Stages
  <2>2. Label = label
    BY <1>11 DEF Takes
  <2> QED
    BY <1>0, <1>1, <1>2, <1>11, <2>1, <2>2, TakesOutside
<1>12. CASE TakeSuccess
  <2>1. PICK label \in Waiting : Takes(label)
    BY <1>12 DEF TakeSuccess
  <2>2. session' = [session EXCEPT !.authenticated = TRUE] /\ pc' = Go("scp") /\ outq' = outq
    BY <1>12 DEF TakeSuccess
  <2>3. SameKeys /\ Speaks /\ session'.chan = session.chan
    BY <1>0, <2>2, LikeChannel DEF SameKeys, Speaks, Like
  <2>4. Leaves(pc')
    BY <1>4, <1>11, <2>1, <2>2
  <2> QED
    BY <1>11, <2>1, <2>2, <2>3, <2>4, OutsideForm
<1>13. CASE TakeFailure
  <2>1. PICK label \in Waiting : Takes(label)
    BY <1>13 DEF TakeFailure
  <2>2. UNCHANGED <<session, outq>> /\ pc' = NextMethod
    BY <1>13 DEF TakeFailure
  <2>3. Leaves(pc')
    BY <1>4, <1>11, <2>1, <2>2
  <2> QED
    BY <1>11, <2>1, <2>2, <2>3, OutsideForm DEF SameKeys, Speaks
<1>14. CASE TakeChangeRequest \/ TakePkOk \/ TakeInfoRequest
  <2>1. PICK label \in Waiting : Takes(label)
    BY <1>14 DEF TakeChangeRequest, TakePkOk, TakeInfoRequest, Waiting
  <2>2. \/ UNCHANGED <<session, outq>> /\ pc' = NextMethod
        \/ Send(session, Packet("USERAUTH_REQUEST", "change", 0, NoHash), Go("password"), NextMethod)
        \/ Send(session, Packet("USERAUTH_REQUEST", "signed", 0, session.id), Go("pk2"), NextMethod)
        \/ Send(session, Packet("INFO_RESPONSE", "", 0, NoHash), Go("keyboard"), NextMethod)
    BY <1>14 DEF TakeChangeRequest, TakePkOk, TakeInfoRequest
  <2>3. /\ SameKeys /\ Speaks /\ session'.chan = session.chan /\ Count(outq') = Count(outq)
        /\ pc' \in {Go("password"), Go("pk2"), Go("keyboard"), NextMethod}
    <3>1. CASE UNCHANGED <<session, outq>> /\ pc' = NextMethod
      BY <3>1 DEF SameKeys, Speaks
    <3>2. CASE Send(session, Packet("USERAUTH_REQUEST", "change", 0, NoHash), Go("password"), NextMethod)
      BY <1>0, <1>3, <3>2, SendOutside
    <3>3. CASE Send(session, Packet("USERAUTH_REQUEST", "signed", 0, session.id), Go("pk2"), NextMethod)
      <4> DEFINE p == Packet("USERAUTH_REQUEST", "signed", 0, session.id)
      <4>1. Form(p) /\ p.tag # "piece" /\ p.type \notin OwnTypes
        BY <1>3
      <4>2. Send(session, p, Go("pk2"), NextMethod)
        BY <3>3
      <4> HIDE DEF p
      <4> QED
        BY <1>0, <4>1, <4>2, SendOutside
    <3>4. CASE Send(session, Packet("INFO_RESPONSE", "", 0, NoHash), Go("keyboard"), NextMethod)
      <4> DEFINE p == Packet("INFO_RESPONSE", "", 0, NoHash)
      <4>1. Form(p) /\ p.tag # "piece" /\ p.type \notin OwnTypes
        BY <1>3
      <4>2. Send(session, p, Go("keyboard"), NextMethod)
        BY <3>4
      <4> HIDE DEF p
      <4> QED
        BY <1>0, <4>1, <4>2, SendOutside
    <3> QED
      BY <2>2, <3>1, <3>2, <3>3, <3>4
  <2>4. Leaves(pc')
    BY <1>4, <1>11, <2>1, <2>3
  <2> QED
    BY <1>11, <2>1, <2>3, <2>4, OutsideForm
<1> QED
  BY <1>6, <1>7, <1>9, <1>10, <1>12, <1>13, <1>14 DEF Userauth

\* The places of the upload and of the end.
Uploading == {"scp", "open", "startExec", "exec", "ack1", "ack2", "line", "write", "eof", "close",
              "waitClosed"} \cup Freeing

\* A step of the upload that sends one packet, no piece, or none.
LEMMA UploadSends ==
    ASSUME Sound, NEW STATE s, NEW type, NEW tag, NEW STATE then, NEW STATE otherwise,
           Send(s, Packet(type, tag, 0, NoHash), then, otherwise), Like(s),
           \/ s.chan = session.chan
           \/ s.chan.st = "open" /\ s.chan.win = session.chan.win
           \/ s.chan.st = session.chan.st /\ s.chan.win = session.chan.win,
           type \notin OwnTypes, tag # "piece",
           pc.kx = "none", pc.at \notin Unbannered,
           pc.at \notin Early \/ pc.at = "disconnect", pc.at = "disconnect" => then.at \in Early /\ otherwise.at \in Early,
           Leaves(then), Leaves(otherwise), UNCHANGED <<tcp, inq, srv, brigade>>
    PROVE  Outside /\ Spends
<1> DEFINE p == Packet(type, tag, 0, NoHash)
<1>1. Form(p) /\ p.tag # "piece" /\ p.type \notin OwnTypes
  BY PacketForm
<1>2. Send(s, p, then, otherwise)
  OBVIOUS
<1> HIDE DEF p
<1>3. /\ SameKeys /\ Speaks /\ session'.chan = s.chan /\ Count(outq') = Count(outq)
      /\ pc' \in {then, otherwise}
  BY <1>1, <1>2, SendOutside
<1>4. Count(outq) \in Nat
  BY CountForm DEF Sound
<1>5. Outside
  BY <1>3 DEF Outside, Leaves, Early
<1>6. Spends
  BY <1>3, <1>4 DEF Spends, Sound, Leaves
<1> QED
  BY <1>5, <1>6

\* A step of the upload that sends nothing.
LEMMA UploadStays ==
    ASSUME Sound, UNCHANGED <<tcp, inq, srv, outq>>, pc.kx = "none", pc.at \notin Unbannered,
           Leaves(pc'), pc.at \in Early /\ session.chan.st = "none" => pc'.at \in Early,
           brigade' = brigade \/ (Asked # 0 /\ Answer.type \notin KexTypes /\ brigade' = RemoveAt(brigade, Asked)),
           Like(session'),
           \/ session'.chan = session.chan
           \/ session'.chan = NoChannel
           \/ session'.chan.st = session.chan.st /\ session'.chan.win = 1
    PROVE  Outside /\ Spends
BY OutsideForm DEF Like, SameKeys, Speaks

LEMMA ScpOutside ==
    ASSUME Sound, Scp
    PROVE  Outside /\ Spends
<1>0. /\ DOMAIN session = SessionFields /\ Queue(brigade) /\ PcForm(pc) /\ Queue(outq)
      /\ Like(session) /\ \A c : Like([session EXCEPT !.chan = c]) /\ [session EXCEPT !.chan = c].chan = c
  BY LikeChannel DEF Sound
<1>1. \A a \in Uploading : Label = a => pc.kx = "none" /\ pc.at = a
  BY <1>0, LabelIsAt DEF Stages, Uploading, Freeing
<1>2. \A a \in Uploading : a \notin Early /\ a \notin Unbannered
  BY DEF Uploading, Freeing, Early, Unbannered
<1>3. pc.kx = "none" =>
        /\ \A a \in Uploading : Leaves(Go(a)) /\ Leaves(ChannelError(a))
        /\ \A r : Leaves(Disconnects(r))
  BY <1>0, <1>2, PcOutside DEF Leaves, Unbannered, Early
<1>4. pc.kx = "none" /\ pc.at \in Uploading =>
        /\ \A w : Leaves([pc EXCEPT !.wait = w])
        /\ Leaves([pc EXCEPT !.at = "free", !.cont = "0"])
  BY <1>0, <1>2 DEF PcForm, PcFields, Leaves, Unbannered, Early
<1>5. CASE OpenChannel
  <2>1. pc.kx = "none" /\ pc.at = "scp" /\ UNCHANGED <<tcp, inq, srv, brigade>>
    BY <1>1, <1>5 DEF OpenChannel, At, Uploading
  <2>2. CASE pc' = Disconnects("FILE_NOT_FOUND") /\ UNCHANGED <<session, outq>>
    BY <1>0, <1>2, <1>3, <2>1, <2>2, UploadStays DEF Uploading
  <2>3. CASE Send([session EXCEPT !.chan.st = "open"], Packet("OPEN", "", 0, NoHash), Go("open"),
                  ChannelError("free1"))
    <3> DEFINE s == [session EXCEPT !.chan.st = "open"]
    <3>1. Like(s) /\ s.chan.st = "open" /\ s.chan.win = session.chan.win
      BY <1>0 DEF Sound, SessionFields, ChanFields, Like
    <3>2. Send(s, Packet("OPEN", "", 0, NoHash), Go("open"), ChannelError("free1"))
      BY <2>3
    <3> HIDE DEF s
    <3> QED
      BY <1>2, <1>3, <2>1, <3>1, <3>2, UploadSends DEF Uploading, Freeing, OwnTypes
  <2> QED
    BY <1>5, <2>2, <2>3 DEF OpenChannel
<1>6. CASE TakeOpen
  <2>1. Takes("open") /\ Label = "open"
    BY <1>6 DEF TakeOpen, Takes
  <2>2. /\ pc.kx = "none" /\ pc.at = "open" /\ UNCHANGED <<tcp, inq, srv, outq>>
        /\ brigade' = RemoveAt(brigade, Asked) /\ Asked # 0 /\ Answer.type \notin KexTypes
    BY <1>0, <1>1, <1>6, <2>1, TakesOutside DEF TakeOpen, Uploading, Stages
  <2>3. CASE Answer.type = "OPEN_CONFIRMATION"
    <3>1. Answer.n = 1
      BY <1>0, <2>2, <2>3, AskedFound DEF Sound, Ones, Answer, Range
    <3>2. session' = [session EXCEPT !.chan.win = 1] /\ pc' = Go("startExec")
      BY <1>6, <2>3, <3>1 DEF TakeOpen
    <3>3. Like(session') /\ session'.chan.st = session.chan.st /\ session'.chan.win = 1
      BY <1>0, <3>2 DEF Sound, SessionFields, ChanFields, Like
    <3> QED
      BY <1>2, <1>3, <2>2, <3>2, <3>3, UploadStays DEF Uploading
  <2>4. CASE Answer.type # "OPEN_CONFIRMATION"
    <3>1. session' = [session EXCEPT !.chan = NoChannel] /\ pc' = ChannelError("free1")
      BY <1>6, <2>4 DEF TakeOpen
    <3> QED
      BY <1>0, <1>2, <1>3, <2>2, <3>1, UploadStays DEF Uploading, Freeing
  <2> QED
    BY <2>3, <2>4
<1>7. CASE process_startup \/ SendLine \/ send_eof
  <2>1. /\ pc.kx = "none" /\ pc.at \in {"startExec", "line", "eof"} /\ UNCHANGED <<tcp, inq, srv, brigade>>
    BY <1>1, <1>7 DEF process_startup, SendLine, send_eof, At, Uploading
  <2>2. CASE Send(session, Packet("EXEC", "", 0, NoHash), Go("exec"), ChannelError("free"))
    BY <1>0, <1>2, <1>3, <2>1, <2>2, UploadSends DEF Uploading, Freeing, OwnTypes
  <2>3. CASE Send(session, Packet("DATA", "line", 0, NoHash), Go("ack2"), ChannelError("free"))
    BY <1>0, <1>2, <1>3, <2>1, <2>3, UploadSends DEF Uploading, Freeing, OwnTypes
  <2>4. CASE Send(session, Packet("EOF", "", 0, NoHash), Go("close"), Go("close"))
    BY <1>0, <1>2, <1>3, <2>1, <2>4, UploadSends DEF Uploading, Freeing, OwnTypes
  <2> QED
    BY <1>7, <2>2, <2>3, <2>4 DEF process_startup, SendLine, send_eof
<1>8. CASE close
  <2> DEFINE s == [session EXCEPT !.chan.lclose = TRUE]
  <2>1. /\ pc.kx = "none" /\ pc.at = "close" /\ UNCHANGED <<tcp, inq, srv, brigade>>
    BY <1>1, <1>8 DEF close, At, Uploading
  <2>2. Like(s) /\ s.chan.st = session.chan.st /\ s.chan.win = session.chan.win
    BY <1>0 DEF Sound, SessionFields, ChanFields, Like
  <2>3. Send(s, Packet("CLOSE", "", 0, NoHash), Go("waitClosed"), Go("waitClosed"))
    BY <1>8 DEF close
  <2> HIDE DEF s
  <2> QED
    BY <1>2, <1>3, <2>1, <2>2, <2>3, UploadSends DEF Uploading, OwnTypes
<1>9. CASE TakeExec
  <2>1. Takes("exec") /\ Label = "exec"
    BY <1>9 DEF TakeExec, Takes
  <2>2. /\ pc.kx = "none" /\ pc.at = "exec" /\ UNCHANGED <<tcp, inq, srv, outq, session>>
        /\ brigade' = RemoveAt(brigade, Asked) /\ Asked # 0 /\ Answer.type \notin KexTypes
    BY <1>0, <1>1, <1>9, <2>1, TakesOutside DEF TakeExec, Uploading, Stages
  <2>3. Leaves(pc')
    BY <1>3, <1>9, <2>2 DEF TakeExec, Uploading, Freeing
  <2> QED
    BY <1>0, <1>2, <2>2, <2>3, UploadStays DEF Uploading
<1>10. CASE TakeAck
  <2>1. PICK label \in {"ack1", "ack2"} : Takes(label) /\ Label = label
    BY <1>10 DEF TakeAck, Takes
  <2>2. /\ pc.kx = "none" /\ pc.at = label /\ UNCHANGED <<tcp, inq, srv, outq, session>>
        /\ brigade' = RemoveAt(brigade, Asked) /\ Asked # 0 /\ Answer.type \notin KexTypes
    BY <1>0, <1>1, <1>10, <2>1, TakesOutside DEF TakeAck, Uploading, Stages
  <2>3. Leaves(pc')
    BY <1>3, <1>10, <2>2 DEF TakeAck, Uploading, Freeing
  <2> QED
    BY <1>0, <1>2, <2>2, <2>3, UploadStays DEF Uploading
<1>11. CASE NoAck \/ WriteWaits \/ wait_closed
  <2>1. /\ pc.kx = "none" /\ pc.at \in {"ack1", "ack2", "write", "waitClosed"}
        /\ UNCHANGED <<tcp, inq, srv, outq, session, brigade>>
    BY <1>1, <1>11 DEF NoAck, WriteWaits, wait_closed, At, Uploading
  <2>2. Leaves(pc')
    BY <1>3, <1>4, <1>11, <2>1 DEF NoAck, WriteWaits, wait_closed, Uploading, Freeing
  <2> QED
    BY <1>0, <1>2, <2>1, <2>2, UploadStays DEF Uploading
<1>12. CASE WritePiece
  <2> DEFINE s == [session EXCEPT !.chan.win = @ - 1]
             p == Packet("DATA", "piece", 0, NoHash)
             then == [pc EXCEPT !.left = @ - 1]
  <2>1. /\ pc.kx = "none" /\ pc.at = "write" /\ UNCHANGED <<tcp, inq, srv, brigade>>
        /\ pc.left > 0 /\ session.chan.win > 0
    BY <1>1, <1>12 DEF WritePiece, At, Uploading
  <2>2. Like(s) /\ s.chan.st = session.chan.st /\ s.chan.win = session.chan.win - 1
    BY <1>0 DEF Sound, SessionFields, ChanFields, Like
  <2>3. Send(s, p, then, Go("eof"))
    BY <1>12 DEF WritePiece
  <2>4. Form(p) /\ p.type \notin OwnTypes
    BY DEF Form, Fields, Packet, OwnTypes
  <2>5. /\ then.kx = "none" /\ then.at = "write" /\ then.left = pc.left - 1
        /\ Go("eof").kx = "none" /\ Go("eof").at = "eof" /\ Go("eof").left = pc.left
    BY <1>0, <2>1 DEF PcForm, PcFields, Go
  <2> HIDE DEF s, p, then
  <2>6. /\ SameKeys /\ Speaks /\ session'.chan = s.chan /\ pc' \in {then, Go("eof")}
        /\ Count(outq') = Count(outq) \/ (Count(outq') = Count(outq) + 1 /\ pc' = then)
    BY <2>2, <2>3, <2>4, SendOutside
  <2>7. Count(outq) \in Nat
    BY <1>0, CountForm
  <2>8. Outside
    BY <1>2, <2>1, <2>5, <2>6 DEF Outside, Uploading
  <2>9. Spends
    BY <2>1, <2>2, <2>5, <2>6, <2>7 DEF Spends, Sound
  <2> QED
    BY <2>8, <2>9
<1> QED
  BY <1>5, <1>6, <1>7, <1>8, <1>9, <1>10, <1>11, <1>12 DEF Scp

LEMMA EndingOutside ==
    ASSUME Sound, Ending
    PROVE  Outside /\ Spends
<1>0. /\ DOMAIN session = SessionFields /\ Queue(brigade) /\ PcForm(pc) /\ Queue(outq)
      /\ Like(session) /\ \A c : Like([session EXCEPT !.chan = c]) /\ [session EXCEPT !.chan = c].chan = c
  BY LikeChannel DEF Sound
<1>1. \A a \in {"free", "free1", "free2", "disconnect", "freeSession"} :
         Label = a => pc.kx = "none" /\ pc.at = a
  BY <1>0, LabelIsAt DEF Stages
<1>2. \A a \in Freeing \cup {"disconnect", "freeSession"} : a \notin Unbannered
  BY DEF Freeing, Unbannered
<1>3. pc.kx = "none" /\ pc.at \in Freeing \cup {"disconnect", "freeSession"} =>
        /\ \A a \in Freeing : Leaves([pc EXCEPT !.at = a, !.wait = "read"])
        /\ Leaves([pc EXCEPT !.wait = "read"])
        /\ Leaves(Continues)
        /\ Leaves(Go("freeSession")) /\ Go("freeSession").at = "freeSession"
        /\ Leaves([pc EXCEPT !.at = "done"]) /\ [pc EXCEPT !.at = "done"].at = "done"
        /\ Leaves([pc EXCEPT !.at = "free", !.cont = "end"])
  BY <1>0 DEF PcForm, PcFields, Leaves, Unbannered, Freeing, Continues, Disconnects, Go
<1>4. CASE free
  <2> DEFINE s == [session EXCEPT !.chan.lclose = TRUE]
             then == [pc EXCEPT !.at = "free1", !.wait = "read"]
  <2>1. pc.kx = "none" /\ pc.at = "free" /\ UNCHANGED <<tcp, inq, srv, brigade>>
    BY <1>1, <1>4 DEF free, At
  <2>2. Leaves(then) /\ Leaves(Continues) /\ pc.at \notin Unbannered /\ pc.at \notin Early
    BY <1>3, <2>1 DEF Freeing, Unbannered, Early
  <2>3. CASE Send(s, Packet("CLOSE", "", 0, NoHash), then, Continues)
    <3>1. Like(s) /\ s.chan.st = session.chan.st /\ s.chan.win = session.chan.win
      BY <1>0 DEF Sound, SessionFields, ChanFields, Like
    <3>2. pc.at # "disconnect"
      BY <2>1
    <3> HIDE DEF s, then
    <3> QED
      BY <2>1, <2>2, <2>3, <3>1, <3>2, UploadSends DEF OwnTypes
  <2>4. CASE pc' = then /\ UNCHANGED <<session, outq>>
    BY <1>0, <2>1, <2>2, <2>4, UploadStays
  <2> QED
    BY <1>4, <2>3, <2>4 DEF free
<1>5. CASE Clear
  <2>1. Takes("free1") /\ Label = "free1" /\ UNCHANGED <<session, outq>> /\ pc' = [pc EXCEPT !.wait = "read"]
    BY <1>5 DEF Clear, Takes
  <2>2. /\ pc.kx = "none" /\ pc.at = "free1" /\ UNCHANGED <<tcp, inq, srv>>
        /\ brigade' = RemoveAt(brigade, Asked) /\ Asked # 0 /\ Answer.type \notin KexTypes
    BY <1>0, <1>1, <2>1, TakesOutside DEF Stages
  <2>3. pc.at \notin Unbannered /\ pc.at \notin Early /\ Leaves(pc')
    BY <1>3, <2>1, <2>2 DEF Unbannered, Early, Freeing
  <2> QED
    BY <1>0, <2>1, <2>2, <2>3, UploadStays
<1>6. CASE Cleared
  <2>1. pc.kx = "none" /\ pc.at \in {"free1", "free2"} /\ UNCHANGED <<tcp, inq, srv, brigade, outq>>
    BY <1>1, <1>6 DEF Cleared, At
  <2>2. pc.at \notin Unbannered /\ pc.at \notin Early /\ Leaves(pc')
    BY <1>3, <1>6, <2>1 DEF Cleared, Unbannered, Early, Freeing
  <2>3. session' = session \/ session' = [session EXCEPT !.chan = NoChannel]
    BY <1>6 DEF Cleared
  <2>4. Like(session') /\ session'.chan \in {session.chan, NoChannel}
    BY <1>0, <2>3
  <2> QED
    BY <2>1, <2>2, <2>4, UploadStays
<1>7. CASE disconnect
  <2>1. /\ pc.kx = "none" /\ pc.at = "disconnect" /\ UNCHANGED <<tcp, inq, srv, brigade>>
        /\ Send(session, Packet("DISCONNECT", "", 0, NoHash), Go("freeSession"), Go("freeSession"))
    BY <1>1, <1>7 DEF disconnect, At
  <2>2. Leaves(Go("freeSession")) /\ Go("freeSession").at \in Early /\ pc.at \notin Unbannered
    BY <1>3, <2>1 DEF Unbannered, Early
  <2> QED
    BY <1>0, <2>1, <2>2, UploadSends DEF OwnTypes
<1>8. CASE session_free
  <2>1. /\ pc.kx = "none" /\ pc.at = "freeSession" /\ UNCHANGED <<tcp, inq, srv, brigade, session, outq>>
    BY <1>1, <1>8 DEF session_free, At
  <2>2. /\ pc.at \notin Unbannered /\ Leaves(pc')
        /\ session.chan.st = "none" => pc'.at \in Early
    BY <1>3, <1>8, <2>1 DEF session_free, Unbannered, Early
  <2> QED
    BY <1>0, <2>1, <2>2, UploadStays
<1> QED
  BY <1>4, <1>5, <1>6, <1>7, <1>8 DEF Ending

LEMMA ConnectOutside ==
    ASSUME Sound, Connect
    PROVE  Outside /\ Spends
<1>1. /\ pc.kx = "none" /\ pc.at = "connect" /\ UNCHANGED <<tcp, inq, srv, brigade, session, outq>>
  BY LabelIsAt DEF Connect, At, Stages, Sound
<1>2. /\ pc'.kx = "none" /\ pc'.left = pc.left /\ pc'.at \in {"sendBanner", "done"}
  BY <1>1 DEF Connect, Go, Sound, PcForm, PcFields
<1>3. Count(outq) \in Nat
  BY CountForm DEF Sound
<1>4. Outside
  BY <1>1, <1>2 DEF Outside, SameKeys, Speaks, Early, Unbannered
<1>5. Spends
  BY <1>1, <1>2, <1>3 DEF Spends, Sound
<1> QED
  BY <1>4, <1>5

\* Every step of the thread outside of the exchanges of keys and of its reading, but for
\* those that deal with the banners.
LEMMA OutsideStep ==
    ASSUME Sound, Connect \/ RequestService \/ TakeService \/ Userauth \/ Scp \/ Ending
    PROVE  Outside /\ Spends
BY ConnectOutside, AuthOutside, ScpOutside, EndingOutside

----------------------------------------------------------------------------
(* The window                                                              *)

\* The pieces that are granted by the packets of a queue.
GrantsAt(q) == {i \in DOMAIN q : q[i].type = "WINDOW_ADJUST"}
Grants(q) == Cardinality(GrantsAt(q))

LEMMA GrantsForm ==
    ASSUME NEW q, Queue(q)
    PROVE  IsFiniteSet(GrantsAt(q)) /\ Grants(q) \in Nat
<1>1. Len(q) \in Nat /\ DOMAIN q = 1 .. Len(q)
  BY DEF Queue
<1>2. IsFiniteSet(1 .. Len(q)) /\ GrantsAt(q) \in SUBSET (1 .. Len(q))
  BY <1>1, FS_Interval DEF GrantsAt
<1>3. IsFiniteSet(GrantsAt(q))
  BY <1>2, FS_Subset
<1> QED
  BY <1>3, FS_CardinalityType DEF Grants

LEMMA GrantsNone ==
    ASSUME NEW q, "WINDOW_ADJUST" \notin Types(q)
    PROVE  Grants(q) = 0
<1>1. GrantsAt(q) = {}
  BY DEF GrantsAt, Types
<1> QED
  BY <1>1, FS_EmptySet DEF Grants

\* A queue of one packet
LEMMA GrantsOne ==
    ASSUME NEW p
    PROVE  Grants(<<p>>) = IF p.type = "WINDOW_ADJUST" THEN 1 ELSE 0
<1>1. DOMAIN <<p>> = {1} /\ <<p>>[1] = p
  OBVIOUS
<1>2. CASE p.type = "WINDOW_ADJUST"
  <2>1. GrantsAt(<<p>>) = {1}
    BY <1>1, <1>2 DEF GrantsAt
  <2> QED
    BY <1>2, <2>1, FS_Singleton DEF Grants
<1>3. CASE p.type # "WINDOW_ADJUST"
  <2>1. GrantsAt(<<p>>) = {}
    BY <1>1, <1>3 DEF GrantsAt
  <2> QED
    BY <1>3, <2>1, FS_EmptySet DEF Grants
<1> QED
  BY <1>2, <1>3

\* What is at each place of two queues, one after the other.
LEMMA QueueJoin ==
    ASSUME NEW q, NEW r, Queue(q), Queue(r)
    PROVE  /\ Queue(q \o r) /\ Len(q \o r) = Len(q) + Len(r)
           /\ Len(q) \in Nat /\ Len(r) \in Nat
           /\ DOMAIN q = 1 .. Len(q) /\ DOMAIN r = 1 .. Len(r)
           /\ DOMAIN (q \o r) = 1 .. Len(q) + Len(r)
           /\ \A i \in 1 .. Len(q) : (q \o r)[i] = q[i]
           /\ \A i \in 1 .. Len(r) : (q \o r)[i + Len(q)] = r[i]
           /\ \A k \in 1 .. Len(q) + Len(r) :
                (q \o r)[k] = IF k <= Len(q) THEN q[k] ELSE r[k - Len(q)]
<1>1. q \in Seq(Range(q) \cup Range(r)) /\ r \in Seq(Range(q) \cup Range(r))
  <2>1. q \in Seq(Range(q)) /\ r \in Seq(Range(r))
    BY DEF Queue
  <2> QED
    BY <2>1, SeqMonotonic
<1>2. /\ q \o r \in Seq(Range(q) \cup Range(r)) /\ Len(q \o r) = Len(q) + Len(r)
      /\ Len(q) \in Nat /\ Len(r) \in Nat
      /\ \A i \in 1 .. Len(q) : (q \o r)[i] = q[i]
      /\ \A i \in 1 .. Len(r) : (q \o r)[i + Len(q)] = r[i]
  BY <1>1, JoinParts
<1>3. /\ DOMAIN q = 1 .. Len(q) /\ DOMAIN r = 1 .. Len(r) /\ DOMAIN (q \o r) = 1 .. Len(q \o r)
  BY <1>1, <1>2
<1>4. Queue(q \o r)
  BY QueueConcat
<1>5. ASSUME NEW k \in 1 .. Len(q) + Len(r), ~(k <= Len(q))
      PROVE  (q \o r)[k] = r[k - Len(q)]
  <2>1. k - Len(q) \in 1 .. Len(r) /\ (k - Len(q)) + Len(q) = k
    BY <1>2, <1>5
  <2> QED
    BY <1>2, <2>1
<1> HIDE DEF Queue
<1> QED
  BY <1>2, <1>3, <1>4, <1>5

LEMMA GrantsConcat ==
    ASSUME NEW q, NEW r, Queue(q), Queue(r)
    PROVE  Grants(q \o r) = Grants(q) + Grants(r)
<1> DEFINE S == GrantsAt(r)
           T == GrantsAt(q \o r) \ GrantsAt(q)
           f == [i \in S |-> i + Len(q)]
<1>1. /\ Queue(q \o r) /\ Len(q) \in Nat /\ Len(r) \in Nat
      /\ DOMAIN q = 1 .. Len(q) /\ DOMAIN r = 1 .. Len(r)
      /\ DOMAIN (q \o r) = 1 .. Len(q) + Len(r)
      /\ \A i \in 1 .. Len(q) : (q \o r)[i] = q[i]
      /\ \A i \in 1 .. Len(r) : (q \o r)[i + Len(q)] = r[i]
  BY QueueJoin
<1>2. /\ IsFiniteSet(GrantsAt(q)) /\ IsFiniteSet(S) /\ IsFiniteSet(GrantsAt(q \o r))
      /\ Grants(q) \in Nat /\ Grants(r) \in Nat
  BY <1>1, GrantsForm
<1>3. GrantsAt(q) \subseteq GrantsAt(q \o r) /\ GrantsAt(q) \subseteq 1 .. Len(q)
  BY <1>1 DEF GrantsAt
<1>4. S \subseteq 1 .. Len(r) /\ \A i \in S : i + Len(q) \in T
  BY <1>1 DEF GrantsAt
<1>5. ASSUME NEW j \in T
      PROVE  \E i \in S : f[i] = j
  <2>1. j \in 1 .. Len(q) + Len(r) /\ (q \o r)[j].type = "WINDOW_ADJUST" /\ j \notin GrantsAt(q)
    BY <1>1 DEF GrantsAt
  <2>2. j \notin 1 .. Len(q)
    BY <1>1, <2>1 DEF GrantsAt
  <2>3. j - Len(q) \in 1 .. Len(r) /\ (j - Len(q)) + Len(q) = j
    BY <1>1, <2>1, <2>2
  <2>4. r[j - Len(q)] = (q \o r)[j]
    BY <1>1, <2>3
  <2>5. j - Len(q) \in S
    BY <1>1, <2>1, <2>3, <2>4 DEF GrantsAt
  <2>6. f[j - Len(q)] = j
    BY <2>3, <2>5
  <2> QED
    BY <2>5, <2>6
<1>6. f \in [S -> T] /\ \A a, b \in S : f[a] = f[b] => a = b
  BY <1>1, <1>4
<1>7. IsFiniteSet(T) /\ GrantsAt(q) \cap T = {} /\ GrantsAt(q) \cup T = GrantsAt(q \o r)
  <2>1. T \in SUBSET GrantsAt(q \o r)
    OBVIOUS
  <2>2. IsFiniteSet(T)
    BY <1>2, <2>1, FS_Subset
  <2> QED
    BY <1>3, <2>2
<1> HIDE DEF S, T, f
<1>8. f \in Bijection(S, T)
  BY <1>5, <1>6, Zenon DEF Bijection, Injection, IsInjective, Surjection
<1>9. Cardinality(T) = Cardinality(S)
  BY <1>2, <1>8, FS_Bijection DEF ExistsBijection
<1>10. Cardinality(GrantsAt(q) \cup T) = Cardinality(GrantsAt(q)) + Cardinality(T)
  <2>1. /\ Cardinality(GrantsAt(q) \cup T) = Cardinality(GrantsAt(q)) + Cardinality(T)
                                              - Cardinality(GrantsAt(q) \cap T)
    BY <1>2, <1>7, FS_Union
  <2>2. Cardinality(GrantsAt(q) \cap T) = 0
    BY <1>7, FS_EmptySet
  <2>3. Cardinality(GrantsAt(q)) \in Nat /\ Cardinality(T) \in Nat
    BY <1>2, <1>7, FS_CardinalityType
  <2> QED
    BY <2>1, <2>2, <2>3
<1> QED
  BY <1>7, <1>9, <1>10 DEF Grants, S

LEMMA GrantsTail ==
    ASSUME NEW q, Queue(q), q # <<>>
    PROVE  Grants(q) = Grants(Tail(q)) + IF Head(q).type = "WINDOW_ADJUST" THEN 1 ELSE 0
<1>1. Queue(Tail(q)) /\ Form(Head(q))
  BY QueueTail
<1>2. Queue(<<Head(q)>>)
  BY <1>1, QueueOne
<1>3. q = <<Head(q)>> \o Tail(q)
  BY HeadTailProperties DEF Queue
<1>4. Grants(<<Head(q)>> \o Tail(q)) = Grants(<<Head(q)>>) + Grants(Tail(q))
  BY <1>1, <1>2, GrantsConcat
<1>5. Grants(Tail(q)) \in Nat
  BY <1>1, GrantsForm
<1>6. Grants(<<Head(q)>>) \in Nat
  BY <1>2, GrantsForm
<1> QED
  <2>1. Grants(<<Head(q)>>) = IF Head(q).type = "WINDOW_ADJUST" THEN 1 ELSE 0
    BY GrantsOne
  <2>2. Grants(q) = Grants(<<Head(q)>>) + Grants(Tail(q))
    BY <1>3, <1>4
  <2> QED
    BY <1>5, <1>6, <2>1, <2>2

\* Encoding changes nothing of it.
LEMMA GrantsEncoded ==
    ASSUME NEW e, NEW ps, Queue(ps)
    PROVE  Grants(Encoded(e, ps)) = Grants(ps)
<1>1. /\ DOMAIN Encoded(e, ps) = DOMAIN ps
      /\ \A i \in DOMAIN ps : /\ Encoded(e, ps)[i].type = ps[i].type
                              /\ Encoded(e, ps)[i].n = ps[i].n
  BY DEF Encoded, Queue, Form, Fields
<1>2. GrantsAt(Encoded(e, ps)) = GrantsAt(ps)
  BY <1>1 DEF GrantsAt
<1> QED
  BY <1>2 DEF Grants

\* A queue without the packet at one place
LEMMA QueueRemoved ==
    ASSUME NEW q, Queue(q), NEW i \in DOMAIN q
    PROVE  /\ Queue(RemoveAt(q, i)) /\ Len(RemoveAt(q, i)) = Len(q) - 1
           /\ Len(q) \in Nat \ {0} /\ DOMAIN q = 1 .. Len(q)
           /\ DOMAIN RemoveAt(q, i) = 1 .. Len(q) - 1
           /\ \A k \in 1 .. Len(q) - 1 : RemoveAt(q, i)[k] = q[IF k < i THEN k ELSE k + 1]
<1> DEFINE a == SubSeq(q, 1, i - 1)
           b == SubSeq(q, i + 1, Len(q))
<1>1. Len(q) \in Nat \ {0} /\ DOMAIN q = 1 .. Len(q) /\ i \in 1 .. Len(q) /\ Queue(RemoveAt(q, i))
  BY QueueRemoveAt DEF Queue
<1>2. \A k \in 1 .. Len(q) : q[k] \in Range(q)
  BY <1>1 DEF Range
<1>3. /\ a \in Seq(Range(q)) /\ Len(a) = i - 1 /\ \A k \in 1 .. i - 1 : a[k] = q[k]
  <2>1. /\ a \in Seq(Range(q))
        /\ Len(a) = IF 1 <= i - 1 THEN (i - 1) - 1 + 1 ELSE 0
        /\ \A k \in 1 .. (i - 1) - 1 + 1 : a[k] = q[1 + k - 1]
    BY <1>1, <1>2, SubSeqProperties
  <2> HIDE DEF a
  <2> QED
    BY <1>1, <2>1
<1>4. /\ b \in Seq(Range(q)) /\ Len(b) = Len(q) - i /\ \A k \in 1 .. Len(q) - i : b[k] = q[i + k]
  <2>1. /\ b \in Seq(Range(q))
        /\ Len(b) = IF i + 1 <= Len(q) THEN Len(q) - (i + 1) + 1 ELSE 0
        /\ \A k \in 1 .. Len(q) - (i + 1) + 1 : b[k] = q[(i + 1) + k - 1]
    BY <1>1, <1>2, SubSeqProperties
  <2> HIDE DEF b
  <2>2. Len(b) = Len(q) - i
    BY <1>1, <2>1
  <2>3. \A k \in 1 .. Len(q) - i : k \in 1 .. Len(q) - (i + 1) + 1 /\ (i + 1) + k - 1 = i + k
    BY <1>1
  <2> QED
    BY <2>1, <2>2, <2>3, Zenon
<1>5. RemoveAt(q, i) = a \o b
  BY DEF RemoveAt
<1> HIDE DEF a, b
<1>6. /\ a \o b \in Seq(Range(q)) /\ Len(a \o b) = Len(a) + Len(b)
      /\ \A k \in 1 .. Len(a) : (a \o b)[k] = a[k]
      /\ \A k \in 1 .. Len(b) : (a \o b)[k + Len(a)] = b[k]
  <2>1. a \in Seq(Range(q)) /\ b \in Seq(Range(q))
    BY <1>3, <1>4
  <2> QED
    BY <2>1, JoinParts
<1>7. Len(a \o b) = Len(q) - 1 /\ DOMAIN (a \o b) = 1 .. Len(q) - 1
  <2>1. Len(a \o b) = Len(q) - 1
    BY <1>1, <1>3, <1>4, <1>6
  <2>2. DOMAIN (a \o b) = 1 .. Len(a \o b)
    BY <1>6, Zenon, LenProperties
  <2> QED
    BY <2>1, <2>2
<1>8. ASSUME NEW k \in 1 .. Len(q) - 1
      PROVE  (a \o b)[k] = q[IF k < i THEN k ELSE k + 1]
  <2>1. CASE k < i
    BY <1>1, <1>3, <1>6, <2>1
  <2>2. CASE ~(k < i)
    <3>1. k - (i - 1) \in 1 .. Len(b) /\ (k - (i - 1)) + Len(a) = k /\ i + (k - (i - 1)) = k + 1
      BY <1>1, <1>3, <1>4, <2>2
    <3>2. (a \o b)[k] = b[k - (i - 1)] /\ b[k - (i - 1)] = q[i + (k - (i - 1))]
      BY <1>4, <1>6, <3>1
    <3> QED
      BY <2>2, <3>1, <3>2
  <2> QED
    BY <2>1, <2>2
<1> QED
  BY <1>1, <1>5, <1>7, <1>8

\* What the packets of a queue are, when others are added or some taken.
LEMMA RangeOf ==
    ASSUME NEW q, Queue(q)
    PROVE  /\ q # <<>> => Head(q) \in Range(q) /\ Range(Tail(q)) \subseteq Range(q)
           /\ \A i \in DOMAIN q : q[i] \in Range(q) /\ Range(RemoveAt(q, i)) \subseteq Range(q)
           /\ \A r : Queue(r) => Range(q \o r) = Range(q) \cup Range(r)
           /\ \A p : Range(Append(q, p)) = Range(q) \cup {p}
<1>1. Len(q) \in Nat /\ DOMAIN q = 1 .. Len(q) /\ q \in Seq(Range(q))
  BY DEF Queue
<1>2. ASSUME q # <<>>
      PROVE  Head(q) \in Range(q) /\ Range(Tail(q)) \subseteq Range(q)
  <2>1. Tail(q) \in Seq(Range(q)) /\ Head(q) \in Range(q)
    BY <1>1, <1>2
  <2> QED
    BY <2>1 DEF Range
<1>3. ASSUME NEW r, Queue(r)
      PROVE  Range(q \o r) = Range(q) \cup Range(r)
  <2>1. /\ Len(q) \in Nat /\ Len(r) \in Nat /\ DOMAIN r = 1 .. Len(r)
        /\ DOMAIN (q \o r) = 1 .. Len(q) + Len(r)
        /\ \A k \in 1 .. Len(q) : (q \o r)[k] = q[k]
        /\ \A k \in 1 .. Len(r) : (q \o r)[k + Len(q)] = r[k]
        /\ \A k \in 1 .. Len(q) + Len(r) :
             (q \o r)[k] = IF k <= Len(q) THEN q[k] ELSE r[k - Len(q)]
    BY <1>3, QueueJoin
  <2>2. ASSUME NEW k \in 1 .. Len(q) + Len(r)
        PROVE  (q \o r)[k] \in Range(q) \cup Range(r)
    <3>1. (k <= Len(q) /\ k \in 1 .. Len(q)) \/ (~(k <= Len(q)) /\ k - Len(q) \in 1 .. Len(r))
      BY <2>1
    <3> QED
      BY <1>1, <2>1, <3>1 DEF Range
  <2>3. ASSUME NEW k \in 1 .. Len(r)
        PROVE  r[k] \in Range(q \o r)
    <3>1. k + Len(q) \in 1 .. Len(q) + Len(r)
      BY <2>1
    <3> QED
      BY <2>1, <3>1 DEF Range
  <2>4. ASSUME NEW k \in 1 .. Len(q)
        PROVE  q[k] \in Range(q \o r)
    <3>1. k \in 1 .. Len(q) + Len(r)
      BY <2>1
    <3> QED
      BY <2>1, <3>1 DEF Range
  <2> QED
    BY <1>1, <2>1, <2>2, <2>3, <2>4 DEF Range
<1>4. ASSUME NEW p
      PROVE  Range(Append(q, p)) = Range(q) \cup {p}
  <2>1. /\ DOMAIN Append(q, p) = 1 .. Len(q) + 1
        /\ \A i \in 1 .. Len(q) : Append(q, p)[i] = q[i]
        /\ Append(q, p)[Len(q) + 1] = p
    BY <1>1, AppendForm
  <2>2. 1 .. Len(q) + 1 = 1 .. Len(q) \cup {Len(q) + 1}
    BY <1>1
  <2> QED
    BY <1>1, <2>1, <2>2 DEF Range
<1>5. ASSUME NEW i \in DOMAIN q
      PROVE  q[i] \in Range(q) /\ Range(RemoveAt(q, i)) \subseteq Range(q)
  <2>1. /\ DOMAIN RemoveAt(q, i) = 1 .. Len(q) - 1 /\ i \in 1 .. Len(q)
        /\ \A k \in 1 .. Len(q) - 1 : RemoveAt(q, i)[k] = q[IF k < i THEN k ELSE k + 1]
    BY <1>1, <1>5, QueueRemoved
  <2>2. \A k \in 1 .. Len(q) - 1 : (IF k < i THEN k ELSE k + 1) \in DOMAIN q
    BY <1>1, <2>1
  <2> QED
    BY <2>1, <2>2 DEF Range
<1> QED
  BY <1>2, <1>3, <1>4, <1>5

\* Encoding changes nothing of a packet but its encoding.
LEMMA RangeEncoded ==
    ASSUME NEW e, NEW ps, Queue(ps)
    PROVE  \A p \in Range(Encoded(e, ps)) :
              \E r \in Range(ps) : p.type = r.type /\ p.n = r.n /\ p.h = r.h /\ p.tag = r.tag
<1>1. /\ DOMAIN Encoded(e, ps) = DOMAIN ps
      /\ \A i \in DOMAIN ps : /\ Encoded(e, ps)[i].type = ps[i].type
                              /\ Encoded(e, ps)[i].n = ps[i].n
                              /\ Encoded(e, ps)[i].h = ps[i].h
                              /\ Encoded(e, ps)[i].tag = ps[i].tag
  BY DEF Encoded, Queue, Form, Fields
<1> HIDE DEF Queue
<1> QED
  BY <1>1 DEF Range

\* Where a wait may leave the thread: at its place, further on, or at the end.
LEMMA FailedGoes ==
    ASSUME PcForm(pc)
    PROVE  /\ Failed.kx = "none" /\ Failed.left = pc.left
           /\ pc.at \notin Unbannered => Failed.at \notin Unbannered \cup {"startup"} \/ Failed.at = pc.at
           /\ pc.at = "startup" /\ pc.kx # "none" => Failed.at = "disconnect"
BY DEF PcForm, PcFields, Failed, KexFailed, Returned, Disconnects, NextMethod, Go, ChannelError,
   Unbannered

\* A step of packet_read, and of the wait it is called from
LEMMA ReceiveForm ==
    ASSUME PcForm(pc), pc.kx # "none" => pc.at \notin Early \ {"startup"},
           pc.kx \notin {"none", "kexinit"} => session.exchanging, Receive \/ NotThere
    PROVE  /\ UNCHANGED <<tcp, outq, srv>>
           /\ pc'.left = pc.left
           /\ pc.at \notin Unbannered /\ pc'.at \notin Unbannered
           /\ pc'.kx \in {pc.kx, "none", "kexinit"}
           /\ pc'.kx # "none" => pc'.at = pc.at
           /\ pc'.kx # pc.kx /\ pc'.kx # "none" => pc.at \notin Early /\ ~session.exchanging
           /\ pc.at \in Early => pc.at = "startup" /\ pc'.at \in Early /\ pc.kx # "none"
           /\ pc.at = "startup" /\ pc'.kx = "none" => pc'.at # "startup"
           /\ pc'.kx \in {"newkeys", "NEWKEYS"} => pc'.group = pc.group
<1>0. (Requires \cup Loops) \cap Early = {} /\ Unbannered \subseteq Early
  BY DEF Requires, Loops, Early, Unbannered
<1>1. Label \in Requires \cup Loops
  BY DEF Receive, ReadError, ReadLost, ReadNothing, NotThere, AddDisconnect, AddChannel, AddToBrigade,
     Reexchange, AddGarbage, AddBanner, Receives, Reads
<1>2. /\ pc.at \notin Unbannered
      /\ pc.kx = "none" => pc.at \notin Early
      /\ pc.at \in Early => pc.at = "startup" /\ pc.kx # "none"
  BY <1>0, <1>1 DEF Label, Unbannered, Early
<1>3. /\ UNCHANGED <<tcp, outq, srv>>
      /\ \/ pc' = Failed
         \/ pc' \in {[pc EXCEPT !.kx = "none", !.at = a] : a \in {"hung", "dead"}}
         \/ pc' \in {[pc EXCEPT !.wait = w] : w \in {"ask", "again", "read"}}
         \/ pc' = GoKex("kexinit") /\ ~session.exchanging /\ Reads
  <2>1. ASSUME NEW p, Onward(p) = pc'
        PROVE  pc' \in {[pc EXCEPT !.wait = w] : w \in {"ask", "again", "read"}}
    BY <2>1 DEF Onward
  <2>2. CASE ReadError \/ ReadLost \/ ReadNothing \/ NotThere
    BY <2>2 DEF ReadError, ReadLost, ReadNothing, NotThere
  <2>3. ASSUME NEW p, AddDisconnect(p) \/ AddChannel(p) \/ AddToBrigade(p) \/ AddGarbage(p)
                      \/ AddBanner(p) \/ Reexchange(p)
        PROVE  <1>3!1 /\ <1>3!2
    BY <2>1, <2>3 DEF AddDisconnect, AddChannel, AddToBrigade, AddGarbage, AddBanner, Reexchange, Receives
  <2> QED
    BY <2>2, <2>3 DEF Receive
<1>4. CASE pc' = Failed
  BY <1>2, <1>3, <1>4, FailedGoes DEF PcForm, PcFields, Early, Unbannered, Failed, KexFailed, Returned,
     Disconnects, NextMethod, Go, ChannelError
<1>5. CASE pc' \in {[pc EXCEPT !.kx = "none", !.at = a] : a \in {"hung", "dead"}}
  BY <1>2, <1>3, <1>5 DEF PcForm, PcFields, Early, Unbannered
<1>6. CASE pc' \in {[pc EXCEPT !.wait = w] : w \in {"ask", "again", "read"}}
  BY <1>2, <1>3, <1>6 DEF PcForm, PcFields, Early, Unbannered
<1>7. CASE pc' = GoKex("kexinit") /\ ~session.exchanging /\ Reads
  <2>1. pc.kx # "kexinit"
    BY <1>7 DEF Reads, Label, Requires, Loops
  <2> QED
    BY <1>2, <1>3, <1>7, <2>1 DEF PcForm, PcFields, GoKex, Early
<1> QED
  BY <1>3, <1>4, <1>5, <1>6, <1>7

\* What the session is within, whatever has gone wrong: the window counts what is granted,
\* which is no more than what the server has of the file, and one piece.
Within ==
    /\ session.socket_state \in {"CONNECTED", "DISCONNECTED"}
    /\ session.chan.st \in {"none", "open"} /\ session.chan.win \in Nat
    /\ pc.kx \notin {"none", "kexinit"} => session.exchanging
    /\ pc.kx # "none" => pc.at \notin Early \ {"startup"}
    /\ tcp \in {"up", "fin", "reset"} /\ cause \in Causes
    /\ Path(pc)
    /\ pc.left \in Nat /\ srv.file + Count(outq) + pc.left <= Pieces
    /\ Grants(inq) + Grants(srv.held) <= srv.file
    /\ session.chan.win + Grants(inq) + Grants(srv.held) <= 1 + srv.file
    /\ Ones(inq) /\ Ones(brigade) /\ Ones(srv.held)

LEMMA WithinSound ==
    ASSUME Shape, Within
    PROVE  /\ Sound
           /\ Grants(inq) \in Nat /\ Grants(srv.held) \in Nat /\ Count(outq) \in Nat
           /\ srv.file \in Nat
<1>1. Queue(outq) /\ Queue(inq) /\ Queue(srv.held)
  BY DEF Shape, ClientShape, ServerShape
<1>2. Count(outq) \in Nat /\ Grants(inq) \in Nat /\ Grants(srv.held) \in Nat
  BY <1>1, CountForm, GrantsForm
<1>3. srv.file \in Nat
  BY DEF Shape, ServerShape
<1>4. pc.at \in Unbannered => pc.kx = "none"
  BY DEF Within, Early, Unbannered
<1>5. Sound
  BY <1>4 DEF Shape, ClientShape, Within, Sound
<1> QED
  BY <1>2, <1>3, <1>5

\* A packet that is read leaves the queue; what it grants is added to the window.
LEMMA ReceivedForm ==
    ASSUME Shape, Within, NEW p,
           AddDisconnect(p) \/ AddChannel(p) \/ AddToBrigade(p) \/ Reexchange(p) \/ AddGarbage(p)
           \/ AddBanner(p)
    PROVE  /\ inq # <<>> /\ p = Head(inq) /\ inq' = Tail(inq) /\ srv' = srv
           /\ brigade' \in {brigade, Append(brigade, p)}
           /\ session'.socket_state \in {"CONNECTED", "DISCONNECTED"}
           /\ session'.exchanging = session.exchanging /\ session'.id = session.id
           /\ session'.lkex = session.lkex /\ session'.rkex = session.rkex
           /\ session'.kex = session.kex
           /\ session'.chan.st = session.chan.st /\ session'.chan.win \in Nat
           /\ session'.chan.win + Grants(inq') <= session.chan.win + Grants(inq)
           /\ cause' \in Causes
<1>1. /\ DOMAIN session = SessionFields /\ DOMAIN session.chan = ChanFields /\ Queue(inq)
      /\ session.chan.win \in Nat /\ session.socket_state \in {"CONNECTED", "DISCONNECTED"}
      /\ Ones(inq) /\ cause \in Causes
  BY DEF Shape, ClientShape, Within
<1>2. /\ inq # <<>> /\ p = Head(inq) /\ inq' = Tail(inq) /\ srv' = srv
      /\ brigade' \in {brigade, Append(brigade, p)}
  BY DEF AddDisconnect, AddChannel, AddToBrigade, Reexchange, AddGarbage, AddBanner, Receives
<1>3. /\ Grants(inq) = Grants(inq') + IF p.type = "WINDOW_ADJUST" THEN 1 ELSE 0
      /\ Grants(inq') \in Nat
      /\ p.type = "WINDOW_ADJUST" => p.n = 1
  <2>1. Queue(Tail(inq)) /\ Head(inq) \in Range(inq)
    BY <1>1, <1>2, QueueTail, RangeOf
  <2> QED
    BY <1>1, <1>2, <2>1, GrantsTail, GrantsForm DEF Ones
<1>4. /\ DOMAIN Counted = SessionFields /\ Counted.chan = session.chan
      /\ Counted.socket_state = session.socket_state /\ Counted.exchanging = session.exchanging
      /\ Counted.id = session.id /\ Counted.lkex = session.lkex /\ Counted.rkex = session.rkex
      /\ Counted.kex = session.kex
  BY <1>1 DEF Counted, SessionFields
<1>5. cause' \in Causes
  BY <1>1 DEF AddDisconnect, AddChannel, AddToBrigade, Reexchange, AddGarbage, AddBanner, Blame, Causes
<1>6. CASE AddChannel(p)
  <2>1. PICK w, r :
          /\ session' = [Counted EXCEPT !.chan.win = w, !.chan.rclose = r]
          /\ w \in {session.chan.win, IF p.type = "WINDOW_ADJUST" THEN session.chan.win + p.n
                                      ELSE session.chan.win}
    <3> DEFINE w == IF p.type = "WINDOW_ADJUST" /\ session.chan.st # "none"
                    THEN Counted.chan.win + p.n ELSE Counted.chan.win
    <3>1. PICK r : session' = [Counted EXCEPT !.chan.win = w, !.chan.rclose = r]
      BY <1>6, Zenon DEF AddChannel
    <3>2. w \in {session.chan.win, IF p.type = "WINDOW_ADJUST" THEN session.chan.win + p.n
                                   ELSE session.chan.win}
      BY <1>4
    <3> HIDE DEF w
    <3> QED
      BY <3>1, <3>2
  <2>2. session'.chan.win = w /\ session'.chan.st = session.chan.st
    BY <1>1, <1>4, <2>1 DEF SessionFields, ChanFields
  <2>3. w \in Nat /\ w + Grants(inq') <= session.chan.win + Grants(inq)
    BY <1>1, <1>3, <2>1
  <2>4. /\ session'.socket_state = session.socket_state /\ session'.exchanging = session.exchanging
        /\ session'.id = session.id /\ session'.lkex = session.lkex /\ session'.rkex = session.rkex
        /\ session'.kex = session.kex
    BY <1>4, <2>1 DEF SessionFields
  <2> QED
    BY <1>1, <1>2, <1>5, <2>2, <2>3, <2>4
<1>7. CASE ~AddChannel(p)
  <2>1. session' \in {session, Counted, [Counted EXCEPT !.socket_state = "DISCONNECTED"]}
    BY <1>7 DEF AddDisconnect, AddToBrigade, Reexchange, AddGarbage, AddBanner
  <2>2. /\ session'.chan = session.chan /\ session'.exchanging = session.exchanging
        /\ session'.id = session.id /\ session'.lkex = session.lkex /\ session'.rkex = session.rkex
        /\ session'.kex = session.kex
        /\ session'.socket_state \in {"CONNECTED", "DISCONNECTED"}
    BY <1>1, <1>4, <2>1 DEF SessionFields
  <2>3. session.chan.win + Grants(inq') <= session.chan.win + Grants(inq)
    BY <1>1, <1>3
  <2> QED
    BY <1>1, <1>2, <1>5, <2>2, <2>3
<1> QED
  BY <1>6, <1>7


\* What a part of an exchange of keys leaves the session with
KexGoes ==
    /\ session'.chan = session.chan /\ session'.socket_state = session.socket_state
    /\ pc'.kx \notin {"none", "kexinit"} => session'.exchanging
    /\ pc'.left = pc.left
    /\ pc'.at = pc.at \/ (pc'.kx = "none" /\ pc'.at \in {"disconnect", "dead", "requestService"})
    /\ pc.at = "startup" /\ pc'.kx = "none" => pc'.at # "startup"
    /\ cause' \in Causes
    /\ Count(outq') = Count(outq)

Ends(a) == [pc EXCEPT !.kx = "none", !.at = a]
InGroup(g) == [GoKex("init") EXCEPT !.group = g]

LEMMA KexPlaces ==
    ASSUME PcForm(pc)
    PROVE  /\ \A k : GoKex(k).kx = k /\ GoKex(k).at = pc.at /\ GoKex(k).left = pc.left
                     /\ GoKex(k).group = pc.group
           /\ KexFailed.kx = "none" /\ KexFailed.left = pc.left
           /\ KexFailed.at \in {pc.at, "disconnect"} /\ KexFailed.at # "startup"
           /\ Returned.kx = "none" /\ Returned.left = pc.left /\ Returned.at = pc.at
           /\ \A a : Ends(a).kx = "none" /\ Ends(a).at = a /\ Ends(a).left = pc.left
           /\ \A g : InGroup(g).kx = "init" /\ InGroup(g).at = pc.at /\ InGroup(g).left = pc.left
BY DEF Ends, InGroup, PcForm, PcFields, GoKex, KexFailed, Returned, Disconnects

LEMMA CountOther ==
    ASSUME NEW q, NEW e, Queue(q), e.tag # "piece"
    PROVE  Count(Append(q, e)) = Count(q)
<1>1. Count(Append(q, e)) = Count(q) + IF e.tag = "piece" THEN 1 ELSE 0
  BY CountAppend
<1>2. Count(q) \in Nat
  BY CountForm
<1> QED
  BY <1>1, <1>2

\* packet_write of a packet of the exchange
LEMMA KexSends ==
    ASSUME Shape, cause' = cause, cause \in Causes,
           NEW STATE s, NEW STATE p, NEW k, k # "none", DOMAIN s = SessionFields,
           s.chan = session.chan, s.socket_state = session.socket_state, s.exchanging = TRUE,
           Form(p), p.tag # "piece", Send(s, p, GoKex(k), KexFailed)
    PROVE  KexGoes /\ pc' \in {GoKex(k), KexFailed}
<1>0. PcForm(pc) /\ Queue(outq)
  BY DEF Shape, ClientShape
<1>1. Form(p) /\ p.tag # "piece"
  OBVIOUS
<1>2. Send(s, p, GoKex(k), KexFailed)
  OBVIOUS
<1>3. /\ session'.chan = session.chan /\ session'.socket_state = session.socket_state
      /\ session'.exchanging = TRUE
  BY <1>2 DEF Send, SessionFields
<1>4. /\ pc' \in {GoKex(k), KexFailed}
      /\ outq' = outq \/ \E e : Form(e) /\ e.tag # "piece" /\ outq' = Append(outq, e)
  <2>1. \/ pc' = KexFailed /\ outq' = outq /\ tcp # "up"
        \/ pc' = GoKex(k) /\ outq' = outq /\ tcp # "up"
        \/ /\ pc' = GoKex(k)
           /\ \E e : /\ Form(e) /\ e.type = p.type /\ e.tag = p.tag
                     /\ outq' = Append(outq, e)
    BY <1>0, <1>1, <1>2, SendForm
  <2>2. pc' = GoKex(k) \/ pc' = KexFailed
    BY <2>1, Zenon
  <2>3. outq' = outq \/ \E e : Form(e) /\ e.tag # "piece" /\ outq' = Append(outq, e)
    BY <1>1, <2>1, Zenon
  <2> QED
    BY <2>2, <2>3
<1>5. Count(outq') = Count(outq)
  <2>1. CASE outq' = outq
    BY <2>1
  <2>2. CASE outq' # outq
    <3>1. PICK e : Form(e) /\ e.tag # "piece" /\ outq' = Append(outq, e)
      BY <1>4, <2>2
    <3> QED
      BY <1>0, <3>1, CountOther
  <2> QED
    BY <2>1, <2>2
<1>6. pc' = GoKex(k) \/ pc' = KexFailed
  BY <1>4
<1> QED
  BY <1>0, <1>3, <1>5, <1>6, KexPlaces DEF KexGoes

\* The parts of an exchange of keys, as far as the session is within its bounds
LEMMA KexForm ==
    ASSUME Shape, Within, KeyExchange
    PROVE  /\ UNCHANGED <<tcp, inq, srv>>
           /\ brigade' = brigade \/ (Asked # 0 /\ brigade' = RemoveAt(brigade, Asked))
           /\ pc.kx # "none"
           /\ KexGoes
<1>0. /\ DOMAIN session = SessionFields /\ PcForm(pc) /\ Queue(outq) /\ cause \in Causes
      /\ pc.kx \notin {"none", "kexinit"} => session.exchanging
      /\ pc.at \notin Stages
  BY DEF Shape, ClientShape, Within, Path
<1>1. \A k \in Stages : Label = k => pc.kx = k /\ k # "none"
  BY <1>0 DEF Label, Stages
<1>2. /\ UNCHANGED <<tcp, inq, srv>>
      /\ brigade' = brigade \/ (Asked # 0 /\ brigade' = RemoveAt(brigade, Asked))
  BY DEF KeyExchange, SendKexinit, TakeKexinit, SendRequest, TakeGroup, SendInit, Burn, TakeReply,
     SendNewkeys, TakeNewkeys, Takes, At
<1>3. CASE SendKexinit
  <2> DEFINE s == [session EXCEPT !.exchanging = TRUE, !.kex = No, !.lkex = @ + 1]
             n == session.lkex + 1
             p == Packet("KEXINIT", "", n, NoHash)
  <2>1. pc.kx = "kexinit" /\ Send(s, p, GoKex("KEXINIT"), KexFailed) /\ cause' = cause
    BY <1>1, <1>3 DEF SendKexinit, At, Stages
  <2>2. DOMAIN s = SessionFields /\ s.chan = session.chan /\ s.socket_state = session.socket_state
        /\ s.exchanging = TRUE
    BY <1>0 DEF SessionFields
  <2>4. Form(p) /\ p.tag # "piece"
    BY DEF Packet, Form, Fields
  <2> HIDE DEF s, n, p
  <2>3. KexGoes
    BY <1>0, <2>1, <2>2, <2>4, KexSends
  <2> QED
    BY <1>2, <2>1, <2>3
<1>4. CASE SendRequest \/ SendInit \/ SendNewkeys
  <2>1. pc.kx \in {"request", "init", "newkeys"} /\ cause' = cause
    BY <1>1, <1>4 DEF SendRequest, SendInit, SendNewkeys, At, Stages
  <2>2. ASSUME NEW STATE p, NEW k, k # "none", Form(p), p.tag # "piece",
               Send(session, p, GoKex(k), KexFailed)
        PROVE  KexGoes
    <3>1. session.exchanging = TRUE
      BY <1>0, <2>1
    <3> QED
      BY <1>0, <2>1, <2>2, <3>1, KexSends
  <2>3. ASSUME SendRequest \/ SendNewkeys
        PROVE  KexGoes
    <3> DEFINE p == Packet("K34", "", 0, NoHash)
               q == Packet("NEWKEYS", "", 0, NoHash)
    <3>1. \/ Send(session, p, GoKex("GROUP"), KexFailed)
          \/ Send(session, q, GoKex("NEWKEYS"), KexFailed)
      BY <2>3 DEF SendRequest, SendNewkeys
    <3>2. Form(p) /\ p.tag # "piece" /\ Form(q) /\ q.tag # "piece"
      BY DEF Packet, Form, Fields
    <3> HIDE DEF p, q
    <3> QED
      BY <2>2, <3>1, <3>2
  <2>4. ASSUME SendInit
        PROVE  KexGoes
    <3> DEFINE p == Packet(IF session.kex = "gex" THEN "K32" ELSE "K30", "", 0, NoHash)
    <3>1. \/ Send(session, p, GoKex("BURN"), KexFailed)
          \/ Send(session, p, GoKex("REPLY"), KexFailed)
      BY <2>4 DEF SendInit
    <3>2. Form(p) /\ p.tag # "piece"
      BY DEF Packet, Form, Fields
    <3> HIDE DEF p
    <3> QED
      BY <2>2, <3>1, <3>2
  <2>6. KexGoes
    BY <1>4, <2>3, <2>4
  <2> QED
    BY <1>2, <2>1, <2>6
<1>5. CASE TakeKexinit \/ TakeGroup \/ Burn \/ TakeReply
  <2>1. pc.kx \in {"KEXINIT", "GROUP", "BURN", "REPLY"} /\ outq' = outq
    BY <1>1, <1>5 DEF TakeKexinit, TakeGroup, Burn, TakeReply, Takes, Stages
  <2>2. /\ session'.chan = session.chan /\ session'.socket_state = session.socket_state
        /\ session'.exchanging = session.exchanging
    <3>1. CASE TakeKexinit
      <4>1. PICK k, b, l, r : session' = [[session EXCEPT !.rkex = Answer.n] EXCEPT
                                            !.kex = k, !.burn = b, !.local = l, !.remote = r]
        BY <3>1, Zenon DEF TakeKexinit, agree_methods
      <4> QED
        BY <1>0, <4>1 DEF SessionFields
    <3>2. CASE TakeGroup \/ Burn \/ TakeReply
      BY <1>0, <3>2 DEF TakeGroup, Burn, TakeReply, SessionFields
    <3> QED
      BY <1>5, <3>1, <3>2
  <2>3. cause' \in Causes
    BY <1>0, <1>5 DEF TakeKexinit, TakeGroup, Burn, TakeReply, Blame, Causes
  <2>4. \/ pc' = KexFailed \/ pc' = Ends("dead")
        \/ \E k : k # "none" /\ pc' = GoKex(k)
        \/ \E g : pc' = InGroup(g)
    BY <1>5 DEF Ends, InGroup, TakeKexinit, TakeGroup, Burn, TakeReply
  <2>5. KexGoes
    <3>1. /\ pc'.kx \notin {"none", "kexinit"} => session'.exchanging
          /\ Count(outq') = Count(outq)
      BY <1>0, <2>1, <2>2
    <3>2. CASE pc' = KexFailed \/ pc' = Ends("dead")
      BY <1>0, <2>2, <2>3, <3>1, <3>2, KexPlaces DEF KexGoes
    <3>3. ASSUME NEW k, k # "none", pc' = GoKex(k)
          PROVE  KexGoes
      BY <1>0, <2>2, <2>3, <3>1, <3>3, KexPlaces DEF KexGoes
    <3>4. ASSUME NEW g, pc' = InGroup(g)
          PROVE  KexGoes
      BY <1>0, <2>1, <2>2, <2>3, <3>1, <3>4, KexPlaces DEF KexGoes
    <3> QED
      BY <2>4, <3>2, <3>3, <3>4
  <2> QED
    BY <1>2, <2>1, <2>5
<1>6. CASE TakeNewkeys
  <2>1. pc.kx = "NEWKEYS" /\ outq' = outq /\ cause' = cause /\ session' = Install
    BY <1>1, <1>6 DEF TakeNewkeys, Takes, Stages
  <2>2. session'.chan = session.chan /\ session'.socket_state = session.socket_state
    BY <1>0, <2>1 DEF Install, SessionFields
  <2>3. IF pc.at = "startup" THEN pc' = Ends("requestService") ELSE pc' = Returned
    BY <1>6 DEF TakeNewkeys, Ends
  <2>4. KexGoes
    BY <1>0, <2>1, <2>2, <2>3, KexPlaces DEF KexGoes
  <2> QED
    BY <1>2, <2>1, <2>4
<1> QED
  BY <1>3, <1>4, <1>5, <1>6 DEF KeyExchange

\* What a step of the thread must keep
LEMMA WithinKeeps ==
    ASSUME Shape, Within, srv' = srv, Queue(outq'), Queue(inq'),
           tcp' = tcp, cause' \in Causes, Path(pc'),
           Range(inq') \subseteq Range(inq), Range(brigade') \subseteq Range(brigade) \cup Range(inq),
           session'.socket_state \in {"CONNECTED", "DISCONNECTED"},
           session'.chan.st \in {"none", "open"}, session'.chan.win \in Nat,
           Grants(inq') <= Grants(inq),
           \/ session'.chan.win + Grants(inq') <= session.chan.win + Grants(inq)
           \/ session'.chan.win \in {0, 1},
           pc'.left \in Nat, Count(outq') + pc'.left <= Count(outq) + pc.left,
           pc'.kx \notin {"none", "kexinit"} => session'.exchanging,
           pc'.kx # "none" => pc'.at \notin Early \ {"startup"}
    PROVE  Within'
<1>1. /\ Grants(inq) \in Nat /\ Grants(srv.held) \in Nat /\ Count(outq) \in Nat /\ srv.file \in Nat
      /\ Grants(inq') \in Nat /\ Count(outq') \in Nat
  BY WithinSound, GrantsForm, CountForm
<1>2. /\ session.chan.win \in Nat /\ pc.left \in Nat /\ srv.file + Count(outq) + pc.left <= Pieces
      /\ Grants(inq) + Grants(srv.held) <= srv.file
      /\ session.chan.win + Grants(inq) + Grants(srv.held) <= 1 + srv.file
      /\ Ones(inq) /\ Ones(brigade) /\ Ones(srv.held) /\ tcp \in {"up", "fin", "reset"}
  BY DEF Within
<1>3. Ones(inq)' /\ Ones(brigade)' /\ Ones(srv.held)'
  BY <1>2 DEF Ones
<1>4. Pieces \in Nat
  BY SshSessionAssumption
<1>5. srv.file + Count(outq') + pc'.left <= Pieces
  BY <1>1, <1>2, <1>4
<1>6. Grants(inq') + Grants(srv.held) <= srv.file
  BY <1>1, <1>2
<1>7. session'.chan.win + Grants(inq') + Grants(srv.held) <= 1 + srv.file
  BY <1>1, <1>2
<1> HIDE DEF Ones, Path, Early
<1> QED
  BY <1>2, <1>3, <1>5, <1>6, <1>7 DEF Within

LEMMA WithinClient ==
    ASSUME Shape, Within, Client
    PROVE  Within'
<1>0. /\ Queue(outq) /\ Queue(inq) /\ Queue(brigade) /\ Queue(outq') /\ Queue(inq')
      /\ PcForm(pc) /\ Path(pc') /\ DOMAIN session = SessionFields
      /\ Count(outq) \in Nat /\ Grants(inq) \in Nat /\ Grants(inq') \in Nat
  <2>1. ClientKeeps
    BY ClientStep
  <2>2. PcForm(pc) /\ Path(pc')
    BY PathClient DEF Shape, ClientShape, Within
  <2> QED
    BY <2>1, <2>2, CountForm, GrantsForm DEF ClientKeeps, Delivered, Shape, ClientShape
<1>1. /\ session.chan.win \in Nat /\ session.chan.st \in {"none", "open"} /\ pc.left \in Nat
      /\ session.socket_state \in {"CONNECTED", "DISCONNECTED"} /\ cause \in Causes
      /\ pc.kx \notin {"none", "kexinit"} => session.exchanging
      /\ pc.kx # "none" => pc.at \notin Early \ {"startup"}
  BY DEF Within
<1>2. Range(RemoveAt(brigade, Asked)) \subseteq Range(brigade) \/ Asked = 0
  <2>1. Asked # 0 => Asked \in DOMAIN brigade
    BY <1>0, AskedFound
  <2> QED
    BY <1>0, <2>1, RangeOf
<1>3. CASE Connect \/ RequestService \/ TakeService \/ Userauth \/ Scp \/ Ending
  <2>1. Outside /\ Spends
    BY <1>3, WithinSound, OutsideStep
  <2>2. /\ srv' = srv /\ inq' = inq /\ tcp' = tcp /\ pc'.kx = "none"
        /\ session'.socket_state = session.socket_state
        /\ Range(brigade') \subseteq Range(brigade)
    BY <1>2, <2>1 DEF Outside, SameKeys
  <2>3. cause' \in Causes
    <3>1. cause' \in {cause, "lost"}
      BY <1>3 DEF Connect, RequestService, TakeService, Userauth, Scp, Ending, Blame, userauth_list,
         password_ex, keyboard_interactive_ex, hostbased_fromfile_ex, publickey_fromfile_ex, Request,
         KeyFileFails, TakeSuccess, TakeFailure, TakeChangeRequest, TakePkOk, TakeInfoRequest,
         OpenChannel, TakeOpen, process_startup, TakeExec, TakeAck, NoAck, SendLine, WritePiece,
         WriteWaits, send_eof, close, wait_closed, free, Clear, Cleared, disconnect, session_free
    <3> QED
      BY <1>1, <3>1 DEF Causes
  <2>4. /\ session'.chan.st \in {"none", "open"} /\ session'.chan.win \in Nat
        /\ session'.chan.win <= session.chan.win \/ session'.chan.win \in {0, 1}
        /\ pc'.left \in Nat /\ Count(outq') + pc'.left <= Count(outq) + pc.left
    BY <2>1 DEF Spends
  <2>5. /\ Grants(inq') <= Grants(inq)
        /\ \/ session'.chan.win + Grants(inq') <= session.chan.win + Grants(inq)
           \/ session'.chan.win \in {0, 1}
    BY <1>0, <1>1, <2>2, <2>4
  <2> QED
    BY <1>0, <1>1, <2>2, <2>3, <2>4, <2>5, WithinKeeps
<1>4. CASE Receive \/ NotThere
  <2>1. /\ UNCHANGED <<tcp, outq, srv>> /\ pc'.left = pc.left
        /\ pc'.kx \in {pc.kx, "none", "kexinit"}
        /\ pc'.kx # "none" => pc'.at = pc.at
        /\ pc.at \in Early => pc.at = "startup"
    BY <1>0, <1>1, <1>4, ReceiveForm
  <2>2. Count(outq') + pc'.left <= Count(outq) + pc.left
    BY <1>0, <1>1, <2>1
  <2>3. CASE ReadError \/ ReadLost \/ ReadNothing \/ NotThere
    <3>1. /\ UNCHANGED <<inq, brigade, cause>>
          /\ session'.chan = session.chan /\ session'.exchanging = session.exchanging
          /\ session'.socket_state \in {"CONNECTED", "DISCONNECTED"}
      BY <1>0, <1>1, <2>3 DEF ReadError, ReadLost, ReadNothing, NotThere, SessionFields
    <3>2. /\ Grants(inq') <= Grants(inq)
          /\ session'.chan.win + Grants(inq') <= session.chan.win + Grants(inq)
      BY <1>0, <1>1, <3>1
    <3> QED
      BY <1>0, <1>1, <2>1, <2>2, <3>1, <3>2, WithinKeeps
  <2>4. ASSUME NEW p,
               AddDisconnect(p) \/ AddChannel(p) \/ AddToBrigade(p) \/ Reexchange(p)
               \/ AddGarbage(p) \/ AddBanner(p)
        PROVE  Within'
    <3>1. /\ inq # <<>> /\ p = Head(inq) /\ inq' = Tail(inq)
          /\ brigade' \in {brigade, Append(brigade, p)}
          /\ session'.socket_state \in {"CONNECTED", "DISCONNECTED"}
          /\ session'.exchanging = session.exchanging
          /\ session'.chan.st = session.chan.st /\ session'.chan.win \in Nat
          /\ session'.chan.win + Grants(inq') <= session.chan.win + Grants(inq)
          /\ cause' \in Causes
      BY <2>4, ReceivedForm
    <3>2. /\ Range(inq') \subseteq Range(inq) /\ p \in Range(inq)
          /\ Range(brigade') \subseteq Range(brigade) \cup Range(inq)
      <4>1. p \in Range(inq) /\ Range(Tail(inq)) \subseteq Range(inq)
        BY <1>0, <3>1, RangeOf
      <4>2. Range(Append(brigade, p)) = Range(brigade) \cup {p}
        BY <1>0, RangeOf
      <4>3. CASE brigade' = brigade
        BY <3>1, <4>1, <4>3
      <4>4. CASE brigade' = Append(brigade, p)
        <5>1. Range(brigade') = Range(brigade) \cup {p}
          BY <4>2, <4>4
        <5> QED
          BY <3>1, <4>1, <5>1
      <4> QED
        BY <3>1, <4>3, <4>4
    <3>3. Grants(inq') <= Grants(inq)
      <4>1. Grants(inq) = Grants(inq') + IF p.type = "WINDOW_ADJUST" THEN 1 ELSE 0
        BY <1>0, <3>1, GrantsTail
      <4> QED
        BY <1>0, <4>1
    <3> QED
      BY <1>0, <1>1, <2>1, <2>2, <3>1, <3>2, <3>3, WithinKeeps
  <2> QED
    BY <1>4, <2>3, <2>4 DEF Receive
<1>5. CASE KeyExchange
  <2>1. /\ UNCHANGED <<tcp, inq, srv>> /\ Range(brigade') \subseteq Range(brigade)
        /\ pc.kx # "none" /\ KexGoes
    BY <1>2, <1>5, KexForm
  <2>2. /\ session'.chan = session.chan /\ session'.socket_state = session.socket_state
        /\ pc'.kx \notin {"none", "kexinit"} => session'.exchanging
        /\ pc'.left = pc.left /\ cause' \in Causes /\ Count(outq') = Count(outq)
        /\ pc'.kx # "none" => pc'.at = pc.at
    BY <2>1 DEF KexGoes
  <2>3. /\ Grants(inq') <= Grants(inq)
        /\ session'.chan.win + Grants(inq') <= session.chan.win + Grants(inq)
        /\ Count(outq') + pc'.left <= Count(outq) + pc.left
    BY <1>0, <1>1, <2>1, <2>2
  <2> QED
    BY <1>0, <1>1, <2>1, <2>2, <2>3, WithinKeeps
<1>6. CASE banner_send
  <2> DEFINE p == Packet("BANNER", "banner", 0, NoHash)
  <2>1. /\ UNCHANGED <<session, brigade, inq, srv, tcp, cause>>
        /\ outq' \in {outq, <<p>>}
    BY <1>6 DEF banner_send, At
  <2>2. \A i \in DOMAIN <<p>> : <<p>>[i].tag # "piece"
    BY DEF Packet
  <2>3. Count(<<p>>) = 0
    BY <2>2, CountNone
  <2> HIDE DEF p
  <2>4. Label = "sendBanner"
    BY <1>6 DEF banner_send, At
  <2>5. pc.kx = "none" /\ pc'.kx = "none" /\ pc'.left = pc.left
    BY <1>0, <1>6, <2>4, LabelIsAt, PcOutside DEF banner_send, Stages
  <2>6. Count(outq') + pc'.left <= Count(outq) + pc.left
    BY <1>0, <1>1, <2>1, <2>3, <2>5
  <2>7. /\ Grants(inq') <= Grants(inq)
        /\ session'.chan.win + Grants(inq') <= session.chan.win + Grants(inq)
    BY <1>0, <1>1, <2>1
  <2> QED
    BY <1>0, <1>1, <2>1, <2>5, <2>6, <2>7, WithinKeeps
<1>7. CASE banner_receive
  <2>1. /\ UNCHANGED <<session, brigade, outq, srv, tcp>> /\ Label = "banner"
    BY <1>7 DEF banner_receive
  <2>2. pc.kx = "none" /\ pc'.left = pc.left /\ (pc'.kx # "none" => pc'.kx = "kexinit" /\ pc'.at = "startup")
    <3>1. pc.kx = "none"
      BY <1>0, <2>1, LabelIsAt DEF Stages
    <3>2. pc' = [pc EXCEPT !.at = "startup", !.kx = "kexinit"] \/ pc' = Disconnects("SESSION_NOT_OPENED")
      BY <1>7 DEF banner_receive
    <3> QED
      BY <1>0, <3>1, <3>2 DEF Disconnects, PcForm, PcFields
  <2>3. inq' = inq \/ (inq # <<>> /\ inq' = Tail(inq))
    BY <1>7 DEF banner_receive
  <2>4. cause' \in Causes
    BY <1>1, <1>7 DEF banner_receive, Blame, Causes
  <2>5. Range(inq') \subseteq Range(inq) /\ Grants(inq') <= Grants(inq)
    <3>1. CASE inq' = inq
      BY <1>0, <3>1
    <3>2. CASE inq # <<>> /\ inq' = Tail(inq)
      <4>1. Grants(inq) = Grants(inq') + IF Head(inq).type = "WINDOW_ADJUST" THEN 1 ELSE 0
        BY <1>0, <3>2, GrantsTail
      <4>2. Grants(inq') <= Grants(inq)
        BY <1>0, <4>1
      <4> QED
        BY <1>0, <3>2, <4>2, RangeOf
    <3> QED
      BY <2>3, <3>1, <3>2
  <2>6. /\ session'.chan.win + Grants(inq') <= session.chan.win + Grants(inq)
        /\ Count(outq') + pc'.left <= Count(outq) + pc.left
    BY <1>0, <1>1, <2>1, <2>2, <2>5
  <2> QED
    BY <1>0, <1>1, <2>1, <2>2, <2>4, <2>5, <2>6, WithinKeeps
<1> QED
  BY <1>3, <1>4, <1>5, <1>6, <1>7 DEF Client, Startup

\* What the server says of its own: no hash, and one piece at a time of the window.
Said(p) == p.h = NoHash /\ (p.type \in {"OPEN_CONFIRMATION", "WINDOW_ADJUST"} => p.n = 1)
Plainly(ps) == Queue(ps) /\ \A p \in Range(ps) : Said(p)

Alike(p, r) == p.type = r.type /\ p.n = r.n /\ p.h = r.h

\* The packets that are added to those on their way, or held back
Brings(ps) ==
    /\ Grants(inq') + Grants(srv'.held) = Grants(inq) + Grants(srv.held) + Grants(ps)
    /\ \A p \in Range(inq') : \E r \in Range(inq) \cup Range(srv.held) \cup Range(ps) : Alike(p, r)
    /\ \A p \in Range(srv'.held) : \E r \in Range(srv.held) \cup Range(ps) : Alike(p, r)

LEMMA OneRange ==
    ASSUME NEW p
    PROVE  Range(<<p>>) = {p}
<1>1. DOMAIN <<p>> = {1} /\ <<p>>[1] = p
  OBVIOUS
<1> QED
  BY <1>1 DEF Range

LEMMA PlainOne ==
    ASSUME NEW type, NEW tag, NEW n, tag # "piece",
           type \in {"OPEN_CONFIRMATION", "WINDOW_ADJUST"} => n = 1
    PROVE  /\ Plainly(<<Packet(type, tag, n, NoHash)>>)
           /\ Types(<<Packet(type, tag, n, NoHash)>>) = {type}
<1> DEFINE p == Packet(type, tag, n, NoHash)
<1>1. Form(p) /\ Said(p) /\ p.type = type
  BY DEF Packet, Form, Fields, Said
<1> HIDE DEF p
<1>2. Queue(<<p>>) /\ Types(<<p>>) = {type} /\ Range(<<p>>) = {p}
  BY <1>1, QueueOne, OneRange
<1>3. Plainly(<<p>>)
  BY <1>1, <1>2 DEF Plainly
<1> QED
  BY <1>2, <1>3 DEF p

LEMMA PlainJoin ==
    ASSUME NEW a, NEW b, Plainly(a), Plainly(b)
    PROVE  Plainly(a \o b) /\ Types(a \o b) = Types(a) \cup Types(b)
BY QueueConcat, RangeOf DEF Plainly

LEMMA PlainNone == Plainly(<<>>)
BY QueueEmpty DEF Plainly, Range

LEMMA PlainTwo ==
    ASSUME NEW p, NEW q, Form(p), Form(q), Said(p), Said(q),
           p.type # "WINDOW_ADJUST", q.type # "WINDOW_ADJUST"
    PROVE  Plainly(<<p, q>>) /\ Grants(<<p, q>>) = 0
<1>1. Range(<<p, q>>) = {p, q}
  <2>1. DOMAIN <<p, q>> = {1, 2} /\ <<p, q>>[1] = p /\ <<p, q>>[2] = q
    OBVIOUS
  <2> QED
    BY <2>1 DEF Range
<1>2. Queue(<<p, q>>) /\ Types(<<p, q>>) = {p.type, q.type}
  BY TwoPackets
<1>3. Grants(<<p, q>>) = 0
  BY <1>2, GrantsNone
<1> QED
  BY <1>1, <1>2, <1>3 DEF Plainly

LEMMA SendsBrings ==
    ASSUME Queue(inq), Queue(srv.held), NEW STATE s, NEW STATE ps, Queue(ps), s.held = srv.held, DOMAIN s = SrvFields,
           Sends(s, ps)
    PROVE  Brings(ps) /\ srv'.file = s.file /\ srv'.id = s.id /\ srv'.held = srv.held
<1>1. inq' = inq \o Encoded(s.out, ps) /\ srv' = [s EXCEPT !.out.seq = @ + Len(ps)]
  BY DEF Sends
<1>2. srv'.file = s.file /\ srv'.id = s.id /\ srv'.held = srv.held
  BY <1>1 DEF SrvFields
<1> DEFINE e == Encoded(s.out, ps)
<1>3. Queue(e) /\ Grants(e) = Grants(ps)
  BY QueueEncoded, GrantsEncoded
<1>4. \A p \in Range(e) : \E r \in Range(ps) : Alike(p, r)
  BY RangeEncoded DEF Alike
<1>5. inq' = inq \o e
  BY <1>1
<1> HIDE DEF e
<1>6. Grants(inq') = Grants(inq) + Grants(ps) /\ Range(inq') = Range(inq) \cup Range(e)
  <2>1. Grants(inq \o e) = Grants(inq) + Grants(e) /\ Range(inq \o e) = Range(inq) \cup Range(e)
    BY <1>3, GrantsConcat, RangeOf
  <2> QED
    BY <1>3, <1>5, <2>1
<1>7. Grants(inq) \in Nat /\ Grants(srv.held) \in Nat /\ Grants(ps) \in Nat
  BY GrantsForm
<1>8. Grants(inq') + Grants(srv'.held) = Grants(inq) + Grants(srv.held) + Grants(ps)
  BY <1>2, <1>6, <1>7
<1>9. \A p \in Range(inq') : \E r \in Range(inq) \cup Range(srv.held) \cup Range(ps) : Alike(p, r)
  BY <1>4, <1>6 DEF Alike
<1> QED
  BY <1>2, <1>8, <1>9 DEF Brings, Alike

LEMMA RepliesBrings ==
    ASSUME Queue(inq), Queue(srv.held), NEW STATE s, NEW STATE ps, Queue(ps), s.held = srv.held, DOMAIN s = SrvFields,
           Replies(s, ps)
    PROVE  Brings(ps) /\ srv'.file = s.file /\ srv'.id = s.id
<1>1. CASE s.exch
  <2>1. srv' = [s EXCEPT !.held = srv.held \o ps] /\ inq' = inq
    BY <1>1 DEF Replies
  <2>2. srv'.held = srv.held \o ps /\ srv'.file = s.file /\ srv'.id = s.id
    BY <2>1 DEF SrvFields
  <2>3. /\ Grants(srv.held \o ps) = Grants(srv.held) + Grants(ps)
        /\ Range(srv.held \o ps) = Range(srv.held) \cup Range(ps)
    BY GrantsConcat, RangeOf
  <2>4. Grants(inq) \in Nat /\ Grants(srv.held) \in Nat /\ Grants(ps) \in Nat
    BY GrantsForm
  <2>5. Grants(inq') + Grants(srv'.held) = Grants(inq) + Grants(srv.held) + Grants(ps)
    BY <2>1, <2>2, <2>3, <2>4
  <2> QED
    BY <2>1, <2>2, <2>3, <2>5 DEF Brings, Alike
<1>2. CASE ~s.exch
  BY <1>2, SendsBrings DEF Replies
<1> QED
  BY <1>1, <1>2

\* What a step of the server comes to: it says something, or replies in an exchange of keys.
Says1(ps) ==
    /\ Plainly(ps) /\ Brings(ps) /\ srv'.id = srv.id /\ srv.file + Grants(ps) <= srv'.file
Rekeys(ps) ==
    /\ outq # <<>> /\ Head(outq).type \in {"K30", "K32"} /\ outq' = Tail(outq)
    /\ Queue(ps) /\ Grants(ps) = 0 /\ Brings(ps)
    /\ \A p \in Range(ps) : /\ p.type \in {"K31", "K33", "NEWKEYS"}
                            /\ p.h \in {NoHash, ServerHash}
    /\ srv'.id = ServerKey[2] /\ srv'.file = srv.file /\ srv'.held = <<>>
Serving ==
    /\ UNCHANGED <<session, brigade, pc>>
    /\ outq' = outq \/ (outq # <<>> /\ outq' = Tail(outq))
    /\ srv'.file + Count(outq') <= srv.file + Count(outq)
    /\ tcp' \in {"up", "fin", "reset"}
    /\ cause' \in Causes
    /\ \/ /\ inq' \in {inq, <<>>} /\ srv'.id = srv.id /\ srv'.file = srv.file
          /\ srv'.held = srv.held
       \/ \E ps : Says1(ps)
       \/ \E ps : Rekeys(ps)

\* A packet that is heard is gone; it may have been a piece.
LEMMA Passed ==
    ASSUME Shape, NEW p, Serves(p)
    PROVE  /\ UNCHANGED <<session, brigade, pc>>
           /\ outq # <<>> /\ outq' = Tail(outq) /\ p = Head(outq)
           /\ srv.file \in Nat
           /\ Count(outq) \in Nat /\ Count(outq') \in Nat
           /\ Count(outq') <= Count(outq)
           /\ p.tag = "piece" => Count(outq) = Count(outq') + 1
<1>1. /\ UNCHANGED <<session, brigade, pc>>
      /\ outq # <<>> /\ outq' = Tail(outq) /\ p = Head(outq) /\ Queue(outq) /\ Queue(outq')
      /\ srv.file \in Nat
  BY ServesForm DEF Shape, ClientShape, ServerShape
<1>2. Count(outq) = Count(outq') + IF p.tag = "piece" THEN 1 ELSE 0
  BY <1>1, CountTail
<1>3. Count(outq) \in Nat /\ Count(outq') \in Nat
  BY <1>1, CountForm
<1> QED
  BY <1>1, <1>2, <1>3

\* What a packet is answered with, from a record like the server's own
LEMMA Answering ==
    ASSUME Shape, Within, NEW p, Serves(p), NEW STATE s, NEW STATE ps, Plainly(ps),
           Replies(s, ps) \/ Sends(s, ps), DOMAIN s = SrvFields, s.held = srv.held, s.id = srv.id,
           \/ s.file = srv.file /\ Grants(ps) = 0
           \/ s.file = srv.file + 1 /\ Grants(ps) = 1 /\ p.tag = "piece",
           tcp' \in {"up", "fin", "reset"}, cause' \in Causes
    PROVE  Serving
<1>1. Queue(inq) /\ Queue(srv.held) /\ Queue(ps)
  BY DEF Shape, ServerShape, Plainly
<1>2. Brings(ps) /\ srv'.file = s.file /\ srv'.id = s.id
  BY <1>1, SendsBrings, RepliesBrings
<1>3. /\ UNCHANGED <<session, brigade, pc>>
      /\ outq # <<>> /\ outq' = Tail(outq)
      /\ srv.file \in Nat /\ Count(outq) \in Nat /\ Count(outq') \in Nat
      /\ Count(outq') <= Count(outq)
      /\ p.tag = "piece" => Count(outq) = Count(outq') + 1
  BY Passed
<1>4. /\ srv'.file + Count(outq') <= srv.file + Count(outq)
      /\ srv.file + Grants(ps) <= srv'.file
  BY <1>2, <1>3
<1>5. Says1(ps)
  BY <1>2, <1>4 DEF Says1
<1> QED
  BY <1>3, <1>4, <1>5 DEF Serving

LEMMA Quietly ==
    ASSUME Shape, Within, NEW p, Serves(p), inq' = inq, srv'.id = srv.id, srv'.file = srv.file,
           srv'.held = srv.held, tcp' \in {"up", "fin", "reset"}, cause' \in Causes
    PROVE  Serving
<1>1. /\ UNCHANGED <<session, brigade, pc>>
      /\ outq # <<>> /\ outq' = Tail(outq)
      /\ srv.file \in Nat /\ Count(outq) \in Nat /\ Count(outq') \in Nat
      /\ Count(outq') <= Count(outq)
  BY Passed
<1>2. srv'.file + Count(outq') <= srv.file + Count(outq)
  BY <1>1
<1> QED
  BY <1>1, <1>2 DEF Serving

LEMMA Next1Is ==
    ASSUME Shape
    PROVE  /\ DOMAIN Next1 = SrvFields /\ Next1.held = srv.held /\ Next1.id = srv.id
           /\ Next1.file = srv.file
BY DEF Shape, ServerShape, Next1, SrvFields

\* What grants nothing
LEMMA AnswersNone ==
    ASSUME Shape, Within, NEW p, Serves(p), NEW STATE s, NEW STATE ps, Plainly(ps),
           "WINDOW_ADJUST" \notin Types(ps), Replies(s, ps) \/ Sends(s, ps),
           DOMAIN s = SrvFields, s.held = srv.held, s.id = srv.id, s.file = srv.file,
           tcp' \in {"up", "fin", "reset"}, cause' \in Causes
    PROVE  Serving
<1>1. Grants(ps) = 0
  BY GrantsNone DEF Plainly
<1> QED
  BY <1>1, Answering

LEMMA ServeNotServing ==
    ASSUME Shape, Within, NEW p, ServeNot(p)
    PROVE  Serving
<1>1. Serves(p) /\ tcp' = "fin" /\ cause' \in Causes
  BY DEF ServeNot, Blame, Within, Causes
<1>2. CASE p.type = "DISCONNECT"
  BY <1>1, <1>2, Quietly DEF ServeNot
<1>3. CASE p.type # "DISCONNECT"
  <2> DEFINE ps == <<Packet("DISCONNECT", "", 0, NoHash)>>
  <2>1. Sends(Next1, ps)
    BY <1>3 DEF ServeNot
  <2>2. Plainly(ps) /\ Types(ps) = {"DISCONNECT"}
    BY PlainOne
  <2> HIDE DEF ps
  <2> QED
    BY <1>1, <2>1, <2>2, AnswersNone, Next1Is
<1> QED
  BY <1>2, <1>3

LEMMA ServeOtherServing ==
    ASSUME Shape, Within, NEW p, ServeBanner(p) \/ ServeService(p) \/ ServeAuth(p)
    PROVE  Serving
<1>0. Serves(p) /\ tcp' \in {"up", "fin", "reset"} /\ cause' \in Causes
  BY DEF ServeBanner, ServeService, ServeAuth, Within
<1>1. CASE ServeBanner(p)
  BY <1>0, <1>1, Quietly DEF ServeBanner
<1>2. CASE ServeService(p)
  <2> DEFINE ps == <<Packet("SERVICE_ACCEPT", "", 0, NoHash)>>
  <2>1. Replies(Next1, ps)
    BY <1>2 DEF ServeService
  <2>2. Plainly(ps) /\ Types(ps) = {"SERVICE_ACCEPT"}
    BY PlainOne
  <2> HIDE DEF ps
  <2> QED
    BY <1>0, <2>1, <2>2, AnswersNone, Next1Is
<1>3. ASSUME NEW type \in {"M60", "FAILURE"}, Replies(Next1, <<Packet(type, "", 0, NoHash)>>)
      PROVE  Serving
  <2> DEFINE ps == <<Packet(type, "", 0, NoHash)>>
  <2>1. Replies(Next1, ps)
    BY <1>3
  <2>2. Plainly(ps) /\ Types(ps) = {type}
    BY PlainOne
  <2> HIDE DEF ps
  <2> QED
    BY <1>0, <2>1, <2>2, AnswersNone, Next1Is
<1>4. CASE Replies([Next1 EXCEPT !.authed = TRUE], <<Packet("SUCCESS", "", 0, NoHash)>>)
  <2> DEFINE ps == <<Packet("SUCCESS", "", 0, NoHash)>>
             s == [Next1 EXCEPT !.authed = TRUE]
  <2>1. Replies(s, ps)
    BY <1>4
  <2>2. Plainly(ps) /\ Types(ps) = {"SUCCESS"}
    BY PlainOne
  <2>3. DOMAIN s = SrvFields /\ s.held = srv.held /\ s.id = srv.id /\ s.file = srv.file
    BY Next1Is DEF SrvFields
  <2> HIDE DEF ps, s
  <2> QED
    BY <1>0, <2>1, <2>2, <2>3, AnswersNone
<1>5. CASE ServeAuth(p)
  BY <1>3, <1>4, <1>5 DEF ServeAuth
<1> QED
  BY <1>1, <1>2, <1>5

LEMMA ServeKexServing ==
    ASSUME Shape, Within, NEW p, ServeKex(p)
    PROVE  Serving
<1>0. /\ Serves(p) /\ UNCHANGED <<tcp, cause>>
      /\ tcp' \in {"up", "fin", "reset"} /\ cause' \in Causes
      /\ p.type \in {"KEXINIT", "K34", "K30", "K32", "NEWKEYS"}
  BY DEF ServeKex, Within
<1>1. CASE p.type \in {"KEXINIT", "NEWKEYS"}
  <2>1. inq' = inq
    BY <1>1 DEF ServeKex
  <2>2. srv'.held = srv.held /\ srv'.id = srv.id /\ srv'.file = srv.file
    <3>1. CASE p.type = "KEXINIT"
      <4>1. PICK c, k : srv' = [Next1 EXCEPT !.ck = c, !.kex = k]
        BY <3>1, Zenon DEF ServeKex
      <4> QED
        BY <4>1, Next1Is DEF SrvFields
    <3>2. CASE p.type = "NEWKEYS"
      <4>1. PICK e : srv' = [srv EXCEPT !.in = e]
        BY <3>2 DEF ServeKex
      <4> QED
        BY <4>1 DEF Shape, ServerShape, SrvFields
    <3> QED
      BY <1>1, <3>1, <3>2
  <2> QED
    BY <1>0, <2>1, <2>2, Quietly
<1>2. CASE p.type = "K34"
  <2> DEFINE ps == <<Packet("K31", "gex", 0, NoHash)>>
  <2>1. Sends(Next1, ps)
    BY <1>2 DEF ServeKex
  <2>2. Plainly(ps) /\ Types(ps) = {"K31"}
    BY PlainOne
  <2> HIDE DEF ps
  <2> QED
    BY <1>0, <2>1, <2>2, AnswersNone, Next1Is
<1>3. CASE p.type \in {"K30", "K32"}
  <2> DEFINE type == IF p.type = "K30" THEN "K31" ELSE "K33"
             hash == ServerHash
             a == Packet(type, "reply", 0, hash)
             b == Packet("NEWKEYS", "", 0, NoHash)
             ps == <<a, b>>
             e == End([srv.out EXCEPT !.seq = @ + 2], "sc", ServerKey)
             f == [e EXCEPT !.seq = @ + Len(srv.held)]
             i == ServerKey[2]
             x == Encoded(srv.out, ps)
             y == Encoded(e, srv.held)
  <2>1. /\ inq' = inq \o x \o y
        /\ srv' = [Next1 EXCEPT !.out = f, !.held = <<>>, !.id = i, !.exch = FALSE]
    BY <1>3 DEF ServeKex
  <2>2. type \in {"K31", "K33"}
    OBVIOUS
  <2> HIDE DEF type, e, f, i, hash
  <2>3. Form(a) /\ a.type = type /\ a.h = hash /\ Form(b) /\ b.type = "NEWKEYS" /\ b.h = NoHash
    BY DEF Packet, Form, Fields
  <2> HIDE DEF a, b
  <2>4. Queue(ps) /\ Types(ps) = {type, "NEWKEYS"} /\ Range(ps) = {a, b}
    <3>1. DOMAIN <<a, b>> = {1, 2} /\ <<a, b>>[1] = a /\ <<a, b>>[2] = b
      OBVIOUS
    <3> QED
      BY <2>3, <3>1, TwoPackets DEF Range
  <2>5. /\ Queue(ps) /\ Grants(ps) = 0
        /\ \A r \in Range(ps) : /\ r.type \in {"K31", "K33", "NEWKEYS"}
                                /\ r.h \in {NoHash, hash}
    BY <2>2, <2>3, <2>4, GrantsNone
  <2> HIDE DEF ps
  <2>6. Queue(inq) /\ Queue(srv.held)
    BY DEF Shape, ServerShape
  <2>7. /\ Queue(x) /\ Grants(x) = 0 /\ \A q \in Range(x) : \E r \in Range(ps) : Alike(q, r)
        /\ Queue(y) /\ Grants(y) = Grants(srv.held)
        /\ \A q \in Range(y) : \E r \in Range(srv.held) : Alike(q, r)
    BY <2>5, <2>6, QueueEncoded, GrantsEncoded, RangeEncoded DEF Alike
  <2> HIDE DEF x, y
  <2>8. /\ Grants(inq') = Grants(inq) + Grants(srv.held)
        /\ Range(inq') = Range(inq) \cup Range(x) \cup Range(y)
    <3>1. /\ Queue(inq \o x) /\ Grants(inq \o x) = Grants(inq) + 0
          /\ Range(inq \o x) = Range(inq) \cup Range(x)
      BY <2>6, <2>7, QueueConcat, GrantsConcat, RangeOf
    <3>2. /\ Grants((inq \o x) \o y) = Grants(inq \o x) + Grants(y)
          /\ Range((inq \o x) \o y) = Range(inq \o x) \cup Range(y)
      BY <2>7, <3>1, GrantsConcat, RangeOf
    <3>3. Grants(inq) \in Nat
      BY <2>6, GrantsForm
    <3> QED
      BY <2>1, <2>7, <3>1, <3>2, <3>3
  <2>9. /\ srv'.held = <<>> /\ srv'.id = i /\ srv'.file = srv.file
    BY <2>1, Next1Is DEF SrvFields
  <2>10. Grants(srv'.held) = 0 /\ Range(srv'.held) = {}
    <3>1. Grants(<<>>) = 0 /\ Range(<<>>) = {}
      BY QueueEmpty, GrantsNone DEF Range
    <3> QED
      BY <2>9, <3>1
  <2>11. Brings(ps)
    <3>1. Grants(inq) \in Nat /\ Grants(srv.held) \in Nat
      BY <2>6, GrantsForm
    <3>2. Grants(inq') + Grants(srv'.held) = Grants(inq) + Grants(srv.held) + Grants(ps)
      BY <2>5, <2>8, <2>10, <3>1
    <3>3. \A q \in Range(inq') : \E r \in Range(inq) \cup Range(srv.held) \cup Range(ps) : Alike(q, r)
      BY <2>7, <2>8 DEF Alike
    <3> QED
      BY <2>10, <3>2, <3>3 DEF Brings
  <2>12. Rekeys(ps)
    <3>1. outq # <<>> /\ outq' = Tail(outq) /\ Head(outq).type \in {"K30", "K32"}
      BY <1>0, <1>3, Passed
    <3> QED
      BY <2>5, <2>9, <2>11, <3>1 DEF Rekeys, i, hash
  <2>13. srv'.file + Count(outq') <= srv.file + Count(outq)
    BY <1>0, <2>9, Passed
  <2>14. UNCHANGED <<session, brigade, pc>> /\ outq # <<>> /\ outq' = Tail(outq)
    BY <1>0, Passed
  <2> QED
    BY <1>0, <2>12, <2>13, <2>14 DEF Serving
<1> QED
  BY <1>0, <1>1, <1>2, <1>3

LEMMA BlameCauses ==
    ASSUME Within
    PROVE  /\ \A what \in Causes : Blame(what) => cause' \in Causes
           /\ cause \in Causes
BY DEF Within, Blame

\* A piece is answered by one more of the window, and the last one by a byte as well.
LEMMA PiecePlain ==
    ASSUME NEW last
    PROVE  LET ps == <<Packet("WINDOW_ADJUST", "", 1, NoHash)>>
                     \o IF last = Pieces THEN <<Packet("DATA", "ok", 0, NoHash)>> ELSE <<>>
           IN  Plainly(ps) /\ Grants(ps) = 1
<1> DEFINE a == <<Packet("WINDOW_ADJUST", "", 1, NoHash)>>
           b == IF last = Pieces THEN <<Packet("DATA", "ok", 0, NoHash)>> ELSE <<>>
<1>1. Plainly(a) /\ Types(a) = {"WINDOW_ADJUST"}
  BY PlainOne
<1>2. Grants(a) = 1
  <2> DEFINE p == Packet("WINDOW_ADJUST", "", 1, NoHash)
  <2>1. p.type = "WINDOW_ADJUST"
    BY DEF Packet
  <2> HIDE DEF p
  <2>2. Grants(<<p>>) = 1
    BY <2>1, GrantsOne
  <2> QED
    BY <2>2 DEF p
<1>3. Plainly(b) /\ Grants(b) = 0
  <2>1. CASE last = Pieces
    <3> DEFINE c == <<Packet("DATA", "ok", 0, NoHash)>>
    <3>1. Plainly(c) /\ Types(c) = {"DATA"}
      BY PlainOne
    <3>2. b = c
      BY <2>1
    <3> HIDE DEF b, c
    <3>3. "WINDOW_ADJUST" \notin Types(c)
      BY <3>1
    <3>4. Grants(c) = 0
      BY <3>3, GrantsNone
    <3> QED
      BY <3>1, <3>2, <3>4
  <2>2. CASE last # Pieces
    <3>1. b = <<>>
      BY <2>2
    <3>2. Plainly(<<>>) /\ Grants(<<>>) = 0
      BY PlainNone, QueueEmpty, GrantsNone
    <3> HIDE DEF b
    <3> QED
      BY <3>1, <3>2
  <2> QED
    BY <2>1, <2>2
<1> HIDE DEF a, b
<1>4. Plainly(a \o b)
  BY <1>1, <1>3, PlainJoin
<1>5. Grants(a \o b) = Grants(a) + Grants(b)
  BY <1>1, <1>3, GrantsConcat DEF Plainly
<1>6. Grants(a \o b) = 1
  BY <1>2, <1>3, <1>5
<1> QED
  BY <1>4, <1>6 DEF a, b

LEMMA ServeChannelServing ==
    ASSUME Shape, Within, NEW p, ServeChannel(p)
    PROVE  Serving
<1>0. /\ Serves(p) /\ tcp' \in {"up", "fin", "reset"} /\ cause' \in Causes
  <2>1. cause' = cause \/ Blame("refused")
    BY DEF ServeChannel
  <2>2. "refused" \in Causes
    BY DEF Causes
  <2>3. cause' \in Causes
    BY <2>1, <2>2, BlameCauses
  <2>4. Serves(p) /\ tcp' = tcp
    BY DEF ServeChannel
  <2> QED
    BY <2>3, <2>4 DEF Within
<1>1. ASSUME NEW type \in {"OPEN_FAILURE", "CHANNEL_FAILURE", "DATA"}, NEW tag, tag # "piece",
             Replies(Next1, <<Packet(type, tag, 0, NoHash)>>)
      PROVE  Serving
  <2> DEFINE ps == <<Packet(type, tag, 0, NoHash)>>
  <2>1. Replies(Next1, ps)
    BY <1>1
  <2>2. Plainly(ps) /\ Types(ps) = {type}
    BY <1>1, PlainOne
  <2> HIDE DEF ps
  <2> QED
    BY <1>0, <2>1, <2>2, AnswersNone, Next1Is
<1>2. ASSUME NEW type \in {"OPEN_CONFIRMATION", "CLOSE"}, NEW n, type = "OPEN_CONFIRMATION" => n = 1,
             NEW st, Replies([Next1 EXCEPT !.chan = st], <<Packet(type, "", n, NoHash)>>)
      PROVE  Serving
  <2> DEFINE ps == <<Packet(type, "", n, NoHash)>>
             s == [Next1 EXCEPT !.chan = st]
  <2>1. Replies(s, ps)
    BY <1>2
  <2>2. Plainly(ps) /\ Types(ps) = {type}
    BY <1>2, PlainOne
  <2>3. DOMAIN s = SrvFields /\ s.held = srv.held /\ s.id = srv.id /\ s.file = srv.file
    BY Next1Is DEF SrvFields
  <2> HIDE DEF ps, s
  <2> QED
    BY <1>0, <2>1, <2>2, <2>3, AnswersNone
<1>3. CASE Replies(Next1, <<Packet("CHANNEL_SUCCESS", "", 0, NoHash),
                            Packet("DATA", "ok", 0, NoHash)>>)
  <2> DEFINE a == Packet("CHANNEL_SUCCESS", "", 0, NoHash)
             b == Packet("DATA", "ok", 0, NoHash)
             ps == <<a, b>>
  <2>1. /\ Form(a) /\ a.type = "CHANNEL_SUCCESS" /\ Form(b) /\ b.type = "DATA"
        /\ Said(a) /\ Said(b)
    BY DEF Packet, Form, Fields, Said
  <2>2. Replies(Next1, ps)
    BY <1>3
  <2> HIDE DEF a, b
  <2>3. Plainly(ps) /\ Grants(ps) = 0
    BY <2>1, PlainTwo
  <2> HIDE DEF ps
  <2> QED
    BY <1>0, <2>2, <2>3, Answering, Next1Is
<1>4. CASE p.type = "DATA" /\ p.tag = "piece"
  <2> DEFINE s == [Next1 EXCEPT !.file = @ + 1]
             ps == <<Packet("WINDOW_ADJUST", "", 1, NoHash)>>
                   \o IF s.file = Pieces THEN <<Packet("DATA", "ok", 0, NoHash)>> ELSE <<>>
  <2>1. Replies(s, ps)
    BY <1>4 DEF ServeChannel
  <2>2. DOMAIN s = SrvFields /\ s.held = srv.held /\ s.id = srv.id /\ s.file = srv.file + 1
    BY Next1Is DEF SrvFields
  <2> HIDE DEF s
  <2>3. Plainly(ps) /\ Grants(ps) = 1
    BY PiecePlain
  <2> HIDE DEF ps
  <2> QED
    BY <1>0, <1>4, <2>1, <2>2, <2>3, Answering
<1>5. CASE srv' = Next1 /\ UNCHANGED inq
  BY <1>0, <1>5, Quietly, Next1Is
<1>6. CASE p.type = "OPEN"
  BY <1>1, <1>2, <1>6 DEF ServeChannel
<1>7. CASE p.type = "EXEC"
  BY <1>1, <1>3, <1>7 DEF ServeChannel
<1>8. CASE p.type = "DATA" /\ p.tag = "line"
  BY <1>1, <1>8 DEF ServeChannel
<1>9. CASE p.type \in {"EOF", "CLOSE"}
  BY <1>2, <1>5, <1>9 DEF ServeChannel
<1> QED
  BY <1>4, <1>6, <1>7, <1>8, <1>9 DEF ServeChannel

\* What the server says unasked
LEMMA Unasked ==
    ASSUME Shape, Within, NEW STATE s, NEW STATE ps, Plainly(ps), "WINDOW_ADJUST" \notin Types(ps),
           Sends(s, ps), DOMAIN s = SrvFields, s.held = srv.held, s.id = srv.id, s.file = srv.file,
           UNCHANGED <<session, brigade, pc, tcp, outq>>, cause' \in Causes
    PROVE  Serving
<1>1. Grants(ps) = 0
  BY GrantsNone DEF Plainly
<1>2. Queue(inq) /\ Queue(srv.held) /\ Queue(ps) /\ srv.file \in Nat /\ Count(outq) \in Nat
  BY CountForm DEF Shape, ServerShape, ClientShape, Plainly
<1>3. Brings(ps) /\ srv'.file = srv.file /\ srv'.id = srv.id
  BY <1>2, SendsBrings
<1>4. Says1(ps)
  BY <1>1, <1>2, <1>3 DEF Says1
<1>5. srv'.file + Count(outq') <= srv.file + Count(outq) /\ tcp' \in {"up", "fin", "reset"}
  BY <1>2, <1>3 DEF Within
<1> QED
  BY <1>4, <1>5 DEF Serving

LEMMA ServerServing ==
    ASSUME Shape, Within, Server
    PROVE  Serving
<1>1. CASE Serve
  BY <1>1, ServeNotServing, ServeOtherServing, ServeKexServing, ServeChannelServing DEF Serve
<1>2. CASE ServerCloses
  <2> DEFINE ps == <<Packet("CLOSE", "", 0, NoHash)>>
             s == [srv EXCEPT !.chan = "closed"]
  <2>1. Sends(s, ps)
    BY <1>2 DEF ServerCloses
  <2>2. Plainly(ps) /\ Types(ps) = {"CLOSE"}
    BY PlainOne
  <2>3. DOMAIN s = SrvFields /\ s.held = srv.held /\ s.id = srv.id /\ s.file = srv.file
    BY DEF Shape, ServerShape, SrvFields
  <2> HIDE DEF ps, s
  <2>4. cause' \in Causes /\ UNCHANGED <<session, brigade, pc, tcp, outq>>
    BY <1>2 DEF ServerCloses, Blame, Within, Causes
  <2> QED
    BY <2>1, <2>2, <2>3, <2>4, Unasked
<1>3. CASE ServerRekeys
  <2> DEFINE o == Offer(srv.sk + 1)
             a == <<Packet("KEXINIT", "", srv.sk + 1, NoHash)>>
             b == IF o.guess = "none" THEN <<>> ELSE <<Packet(o.guess, "guess", 0, NoHash)>>
             ps == a \o b
             s == [srv EXCEPT !.exch = TRUE, !.sk = @ + 1]
  <2>1. o.guess \in Guesses
    <3>1. srv.sk + 1 \in Nat \ {0}
      BY SrvForm
    <3> QED
      BY <3>1, OfferGuess, SrvForm
  <2>2. Plainly(a) /\ Types(a) = {"KEXINIT"}
    BY PlainOne
  <2>3. Sends(s, ps) /\ UNCHANGED <<session, brigade, pc, tcp, outq>> /\ cause' \in Causes
    BY <1>3 DEF ServerRekeys, Within
  <2>4. DOMAIN s = SrvFields /\ s.held = srv.held /\ s.id = srv.id /\ s.file = srv.file
    BY DEF Shape, ServerShape, SrvFields
  <2> HIDE DEF o, a, s
  <2>5. Plainly(b) /\ Types(b) \subseteq {"K30", "K31", "K33"}
    <3>1. CASE o.guess = "none"
      <4>1. b = <<>>
        BY <3>1
      <4> HIDE DEF b
      <4> QED
        BY <4>1, PlainNone, QueueEmpty
    <3>2. CASE o.guess # "none"
      <4> DEFINE c == <<Packet(o.guess, "guess", 0, NoHash)>>
      <4>1. Plainly(c) /\ Types(c) = {o.guess}
        BY <2>1, PlainOne DEF Guesses
      <4>2. b = c
        BY <3>2
      <4>3. o.guess \in {"K30", "K31", "K33"}
        BY <2>1, <3>2 DEF Guesses
      <4> HIDE DEF b, c
      <4> QED
        BY <4>1, <4>2, <4>3
    <3> QED
      BY <3>1, <3>2
  <2> HIDE DEF b
  <2>6. Plainly(ps) /\ Types(ps) \subseteq {"KEXINIT", "K30", "K31", "K33"}
    BY <2>2, <2>5, PlainJoin
  <2> HIDE DEF ps
  <2> QED
    BY <2>3, <2>4, <2>6, Unasked
<1>4. CASE ServerBanner
  <2> DEFINE ps == <<Packet("USERAUTH_BANNER", "", 0, NoHash)>>
  <2>1. Sends(srv, ps) /\ UNCHANGED <<session, brigade, pc, tcp, outq>> /\ cause' \in Causes
    BY <1>4 DEF ServerBanner, Within
  <2>2. Plainly(ps) /\ Types(ps) = {"USERAUTH_BANNER"}
    BY PlainOne
  <2> HIDE DEF ps
  <2>3. DOMAIN srv = SrvFields
    BY DEF Shape, ServerShape
  <2> QED
    BY <2>1, <2>2, <2>3, Unasked
<1>5. CASE Lost
  <2>1. UNCHANGED <<session, brigade, pc, outq, srv>> /\ tcp' \in {"fin", "reset"}
        /\ inq' \in {inq, <<>>}
    BY <1>5 DEF Lost
  <2>2. cause' \in Causes
    BY <1>5 DEF Lost, Blame, Within, Causes
  <2>3. srv'.file + Count(outq') <= srv.file + Count(outq)
    <3>1. srv.file \in Nat /\ Count(outq) \in Nat
      BY CountForm DEF Shape, ServerShape, ClientShape
    <3> QED
      BY <2>1, <3>1
  <2> QED
    BY <2>1, <2>2, <2>3 DEF Serving
<1> QED
  BY <1>1, <1>2, <1>3, <1>4, <1>5 DEF Server

LEMMA WithinServed ==
    ASSUME Shape, Within, Serving, Queue(inq'), Queue(srv'.held), Queue(outq'), srv'.file \in Nat
    PROVE  Within'
<1>1. /\ Queue(inq) /\ Queue(srv.held) /\ Queue(outq) /\ srv.file \in Nat /\ Pieces \in Nat
      /\ session.chan.win \in Nat /\ pc.left \in Nat
      /\ srv.file + Count(outq) + pc.left <= Pieces
      /\ Grants(inq) + Grants(srv.held) <= srv.file
      /\ session.chan.win + Grants(inq) + Grants(srv.held) <= 1 + srv.file
      /\ Ones(inq) /\ Ones(brigade) /\ Ones(srv.held)
  BY SshSessionAssumption DEF Within, Shape, ServerShape, ClientShape
<1>2. /\ Grants(inq) \in Nat /\ Grants(srv.held) \in Nat /\ Count(outq) \in Nat
      /\ Grants(inq') \in Nat /\ Grants(srv'.held) \in Nat /\ Count(outq') \in Nat
  BY <1>1, GrantsForm, CountForm
<1>3. /\ UNCHANGED <<session, brigade, pc>>
      /\ srv'.file + Count(outq') <= srv.file + Count(outq)
      /\ tcp' \in {"up", "fin", "reset"} /\ cause' \in Causes
  BY DEF Serving
<1> DEFINE Bounds ==
              /\ Grants(inq') + Grants(srv'.held)
                    <= Grants(inq) + Grants(srv.held) + (srv'.file - srv.file)
              /\ Ones(inq') /\ Ones(srv'.held)
<1>4. Bounds
  <2>1. CASE /\ inq' \in {inq, <<>>} /\ srv'.file = srv.file /\ srv'.held = srv.held
    <3>1. Grants(<<>>) = 0 /\ Ones(<<>>)
      BY QueueEmpty, GrantsNone DEF Ones, Range
    <3>2. /\ Grants(inq') <= Grants(inq) /\ Grants(srv'.held) = Grants(srv.held)
          /\ Ones(inq') /\ Ones(srv'.held)
      BY <1>1, <1>2, <2>1, <3>1
    <3> QED
      BY <1>1, <1>2, <2>1, <3>2
  <2>2. ASSUME NEW ps, Brings(ps), Queue(ps), srv.file + Grants(ps) <= srv'.file,
               \A p \in Range(ps) : p.type \in {"OPEN_CONFIRMATION", "WINDOW_ADJUST"} => p.n = 1
        PROVE  Bounds
    <3>1. Grants(ps) \in Nat
      BY <2>2, GrantsForm
    <3>2. Grants(inq') + Grants(srv'.held) = Grants(inq) + Grants(srv.held) + Grants(ps)
      BY <2>2 DEF Brings
    <3>3. Grants(inq') + Grants(srv'.held) <= Grants(inq) + Grants(srv.held) + (srv'.file - srv.file)
      BY <1>1, <1>2, <2>2, <3>1, <3>2
    <3> DEFINE P == Range(inq) \cup Range(srv.held) \cup Range(ps)
    <3>4. \A r \in P : r.type \in {"OPEN_CONFIRMATION", "WINDOW_ADJUST"} => r.n = 1
      BY <1>1, <2>2 DEF Ones
    <3>5. /\ \A p \in Range(inq') : \E r \in P : Alike(p, r)
          /\ \A p \in Range(srv'.held) : \E r \in P : Alike(p, r)
      BY <2>2 DEF Brings
    <3> HIDE DEF P
    <3>6. Ones(inq') /\ Ones(srv'.held)
      BY <3>4, <3>5 DEF Alike, Ones
    <3> QED
      BY <3>3, <3>6
  <2>3. ASSUME NEW ps, Says1(ps)
        PROVE  Bounds
    BY <2>2, <2>3 DEF Says1, Plainly, Said
  <2>4. ASSUME NEW ps, Rekeys(ps)
        PROVE  Bounds
    <3>1. srv.file + Grants(ps) <= srv'.file
      BY <1>1, <2>4 DEF Rekeys
    <3>2. \A p \in Range(ps) : p.type \in {"OPEN_CONFIRMATION", "WINDOW_ADJUST"} => p.n = 1
      BY <2>4 DEF Rekeys
    <3> QED
      BY <2>2, <2>4, <3>1, <3>2 DEF Rekeys
  <2> QED
    BY <2>1, <2>3, <2>4 DEF Serving
<1>5. /\ srv'.file + Count(outq') + pc.left <= Pieces
      /\ Grants(inq') + Grants(srv'.held) <= srv'.file
      /\ session.chan.win + Grants(inq') + Grants(srv'.held) <= 1 + srv'.file
  BY <1>1, <1>2, <1>3, <1>4
<1>6. /\ Path(pc)' /\ session' = session /\ pc' = pc /\ brigade' = brigade
      /\ session.socket_state \in {"CONNECTED", "DISCONNECTED"}
      /\ session.chan.st \in {"none", "open"}
      /\ pc.kx \notin {"none", "kexinit"} => session.exchanging
      /\ pc.kx # "none" => pc.at \notin Early \ {"startup"}
  BY <1>3 DEF Within
<1>7. Ones(inq)' /\ Ones(brigade)' /\ Ones(srv.held)'
  BY <1>1, <1>4, <1>6
<1> HIDE DEF Path, Early
<1> QED
  BY <1>1, <1>3, <1>5, <1>6, <1>7 DEF Within

LEMMA WithinServer ==
    ASSUME Shape, Within, Server
    PROVE  Within'
<1>1. Serving
  BY ServerServing
<1>2. Queue(inq') /\ Queue(outq') /\ Queue(srv'.held) /\ srv'.file \in Nat
  BY ServerStep DEF ServerKeeps, ServerShape
<1> QED
  BY <1>1, <1>2, WithinServed

\* What the server has sent when the connection is made covers no exchange.
LEMMA GreetingPlain ==
    ASSUME NEW s \in Servers
    PROVE  LET q == (IF s.greets THEN <<Packet("BANNER", "greeting", 0, NoHash)>> ELSE <<>>)
                    \o <<Packet("BANNER", "banner", 0, NoHash), Packet("KEXINIT", "", 1, NoHash)>>
                    \o (IF s.offers[1].guess = "none" THEN <<>>
                        ELSE <<Packet(s.offers[1].guess, "guess", 0, NoHash)>>)
           IN  Plainly(q) /\ Grants(q) = 0
<1> DEFINE g == s.offers[1].guess
           w == <<Packet("BANNER", "greeting", 0, NoHash)>>
           a == IF s.greets THEN w ELSE <<>>
           x == Packet("BANNER", "banner", 0, NoHash)
           y == Packet("KEXINIT", "", 1, NoHash)
           b == <<x, y>>
           z == <<Packet(g, "guess", 0, NoHash)>>
           c == IF g = "none" THEN <<>> ELSE z
<1>1. g \in Guesses
  <2>1. s.offers # <<>> /\ s.offers \in Seq(Range(s.offers))
        /\ \A i \in DOMAIN s.offers : s.offers[i].guess \in Guesses
    BY SshSessionAssumption DEF Guesses
  <2>2. 1 \in DOMAIN s.offers
    BY <2>1
  <2> QED
    BY <2>1, <2>2
<1> HIDE DEF g
<1>2. Plainly(w) /\ Types(w) = {"BANNER"}
  BY PlainOne
<1>3. g # "none" => Plainly(z) /\ Types(z) = {g}
  BY <1>1, PlainOne DEF Guesses
<1>4. Form(x) /\ Said(x) /\ x.type = "BANNER" /\ Form(y) /\ Said(y) /\ y.type = "KEXINIT"
  BY DEF Packet, Form, Fields, Said
<1> HIDE DEF w, x, y, z
<1>5. Plainly(b) /\ Types(b) = {"BANNER", "KEXINIT"}
  BY <1>4, PlainTwo, TwoPackets
<1>6. Plainly(a) /\ Types(a) \subseteq {"BANNER"}
  BY <1>2, PlainNone, QueueEmpty
<1>7. Plainly(c) /\ Types(c) \subseteq Guesses
  BY <1>1, <1>3, PlainNone, QueueEmpty
<1> HIDE DEF a, b, c
<1>8. Plainly(a \o b) /\ Types(a \o b) = Types(a) \cup Types(b)
  BY <1>5, <1>6, PlainJoin
<1>9. Plainly((a \o b) \o c) /\ Types((a \o b) \o c) = Types(a \o b) \cup Types(c)
  BY <1>7, <1>8, PlainJoin
<1>10. "WINDOW_ADJUST" \notin Types((a \o b) \o c)
  BY <1>5, <1>6, <1>7, <1>8, <1>9 DEF Guesses
<1>11. Plainly(a \o b \o c) /\ Grants(a \o b \o c) = 0
  BY <1>9, <1>10, GrantsNone
<1> QED
  BY <1>11 DEF a, b, c, w, x, y, z, g

LEMMA WithinInit ==
    ASSUME Init
    PROVE  Within /\ Plainly(inq)
<1>1. PICK s \in Servers :
        /\ srv = [offers |-> s.offers, exch |-> TRUE, ck |-> 0, sk |-> 1, kex |-> No,
                  in |-> NoEnd,
                  out |-> [NoEnd EXCEPT !.seq = IF s.offers[1].guess = "none" THEN 1 ELSE 2],
                  id |-> NoHash, authed |-> FALSE, chan |-> "none", file |-> 0, held |-> <<>>]
        /\ inq = (IF s.greets THEN <<Packet("BANNER", "greeting", 0, NoHash)>> ELSE <<>>)
                 \o <<Packet("BANNER", "banner", 0, NoHash), Packet("KEXINIT", "", 1, NoHash)>>
                 \o (IF s.offers[1].guess = "none" THEN <<>>
                     ELSE <<Packet(s.offers[1].guess, "guess", 0, NoHash)>>)
  BY DEF Init
<1>2. srv.held = <<>> /\ srv.file = 0
  <2>1. PICK o : srv = [offers |-> s.offers, exch |-> TRUE, ck |-> 0, sk |-> 1, kex |-> No,
                        in |-> NoEnd, out |-> o, id |-> NoHash, authed |-> FALSE,
                        chan |-> "none", file |-> 0, held |-> <<>>]
    BY <1>1, Zenon
  <2> QED
    BY <2>1
<1>3. Plainly(inq) /\ Grants(inq) = 0
  BY <1>1, GreetingPlain
<1>4. /\ pc.at = "connect" /\ pc.kx = "none" /\ pc.cont = "none" /\ pc.left = Pieces
      /\ pc.result = "none"
  <2>1. PICK p \in Programs :
          pc = [at |-> "connect", kx |-> "none", wait |-> "read", cont |-> "none",
                todo |-> p, left |-> Pieces, group |-> "none", result |-> "none"]
    BY DEF Init
  <2> QED
    BY <2>1
<1>5. /\ session.socket_state = "CONNECTED" /\ session.chan.st = "none" /\ session.chan.win = 0
      /\ brigade = <<>> /\ outq = <<>> /\ tcp = "up" /\ cause = "none"
  BY DEF Init
<1>6. /\ Grants(<<>>) = 0 /\ Count(<<>>) = 0 /\ Ones(<<>>)
  BY QueueEmpty, GrantsNone, CountNone DEF Ones, Range
<1>7. Ones(inq) /\ Ones(brigade) /\ Ones(srv.held)
  BY <1>2, <1>3, <1>5, <1>6 DEF Plainly, Said, Ones
<1>8. Path(pc)
  BY <1>4 DEF Path, Results, Freeing, Stages
<1>9. /\ pc.left \in Nat /\ srv.file + Count(outq) + pc.left <= Pieces
      /\ Grants(inq) + Grants(srv.held) <= srv.file
      /\ session.chan.win + Grants(inq) + Grants(srv.held) <= 1 + srv.file
  BY <1>2, <1>3, <1>4, <1>5, <1>6, SshSessionAssumption
<1> QED
  BY <1>3, <1>4, <1>5, <1>7, <1>8, <1>9 DEF Within, Causes

LEMMA WithinStep ==
    ASSUME Shape, Within, [Next]_vars
    PROVE  Within'
<1>1. CASE UNCHANGED vars
  BY <1>1 DEF vars, Within, Path, Ones
<1> QED
  BY <1>1, WithinClient, WithinServer DEF Next

LEMMA WithinTypeOK ==
    ASSUME Shape, Within
    PROVE  TypeOK
<1>1. /\ session.chan.win \in Nat /\ pc.left \in Nat /\ srv.file \in Nat /\ Pieces \in Nat
      /\ Count(outq) \in Nat /\ Grants(inq) \in Nat /\ Grants(srv.held) \in Nat
      /\ srv.file + Count(outq) + pc.left <= Pieces
      /\ session.chan.win + Grants(inq) + Grants(srv.held) <= 1 + srv.file
  BY WithinSound, SshSessionAssumption DEF Within
<1>2. session.chan.win \in 0 .. Pieces + 1 /\ pc.left \in 0 .. Pieces /\ srv.file \in 0 .. Pieces
  BY <1>1
<1> QED
  BY <1>2 DEF Within, Path, TypeOK

\* For every server, program and length of the file, whatever goes wrong: the window of the
\* channel is never more than what was granted, no more is left to write than the file has,
\* the session is marked as exchanging keys for as long as an exchange is going on, and
\* the thread has no end without a result.
THEOREM SessionTypes == Spec => []TypeOK
<1>1. Init => (Shape /\ AuthInv) /\ Within
  BY AuthInit, WithinInit
<1>2. (Shape /\ AuthInv) /\ Within /\ [Next]_vars => ((Shape /\ AuthInv) /\ Within)'
  BY AuthStep, WithinStep
<1>3. Shape /\ Within => TypeOK
  BY WithinTypeOK
<1> QED
  BY <1>1, <1>2, <1>3, PTL DEF Spec

----------------------------------------------------------------------------
(* The id of the session                                                   *)

\* The packets that begin an exchange, to each of which there is one reply
Inits(q) == {i \in DOMAIN q : q[i].type \in {"K30", "K32"}}

\* Before the first of them is sent.
Unsent == pc.at \in Unbannered \cup {"startup"} /\
          (pc.at \in Unbannered \/ pc.kx \in {"kexinit", "KEXINIT", "request", "GROUP", "init"})

\* As long as the session has no id, there is one exchange of keys, in its start, and it
\* has one reply, whose hash is the server's id.
Fresh ==
    /\ \A p \in Range(inq) \cup Range(brigade) : p.h \in {NoHash, srv.id}
    /\ pc.at \in Early /\ session.chan.st = "none"
    /\ pc.kx # "none" => pc.at = "startup"
    /\ pc.kx \notin {"none", "kexinit"} => session.lkex # 0
    /\ pc.kx \in {"newkeys", "NEWKEYS"} => Hash = srv.id
    /\ Inits(outq) # {} => srv.id = NoHash
    /\ \A i, j \in Inits(outq) : i = j
    /\ Unsent => srv.id = NoHash /\ Inits(outq) = {}

IdInv ==
    /\ session.lkex \in Nat
    /\ \A p \in Range(srv.held) : p.h = NoHash
    /\ IF session.id = NoHash THEN Fresh ELSE srv.id = session.id

LEMMA InitsAppend ==
    ASSUME NEW q, NEW e, Queue(q)
    PROVE  Inits(Append(q, e)) = Inits(q) \cup (IF e.type \in {"K30", "K32"} THEN {Len(q) + 1} ELSE {})
<1>1. /\ DOMAIN q = 1 .. Len(q) /\ Len(q) \in Nat
      /\ DOMAIN Append(q, e) = 1 .. Len(q) + 1
      /\ \A i \in 1 .. Len(q) : Append(q, e)[i] = q[i]
      /\ Append(q, e)[Len(q) + 1] = e
  BY AppendProperties, LenProperties DEF Queue
<1>2. \A i : i \in 1 .. Len(q) + 1 <=> i \in 1 .. Len(q) \/ i = Len(q) + 1
  BY <1>1
<1>3. Len(q) + 1 \notin 1 .. Len(q)
  BY <1>1
<1> QED
  BY <1>1, <1>2, <1>3 DEF Inits

LEMMA InitsTail ==
    ASSUME NEW q, Queue(q), q # <<>>
    PROVE  /\ \A i \in Inits(Tail(q)) : i + 1 \in Inits(q) /\ i \in Nat \ {0}
           /\ Head(q).type \in {"K30", "K32"} => 1 \in Inits(q)
<1>1. /\ Len(q) \in Nat \ {0} /\ DOMAIN q = 1 .. Len(q)
      /\ DOMAIN Tail(q) = 1 .. Len(q) - 1
      /\ \A i \in 1 .. Len(q) - 1 : Tail(q)[i] = q[i + 1]
      /\ Head(q) = q[1]
  BY DEF Queue
<1>2. \A i \in 1 .. Len(q) - 1 : i + 1 \in 1 .. Len(q) /\ i \in Nat \ {0}
  BY <1>1
<1>3. 1 \in 1 .. Len(q)
  BY <1>1
<1> QED
  BY <1>1, <1>2, <1>3 DEF Inits

\* A step of the thread that leaves the session without its id, or with it
LEMMA IdKeeps ==
    ASSUME Shape, IdInv, srv' = srv, session'.id = session.id, session'.lkex \in Nat,
           Range(inq') \subseteq Range(inq), Range(brigade') \subseteq Range(brigade) \cup Range(inq),
           session.id = NoHash =>
              /\ pc'.at \in Early /\ session'.chan.st = "none"
              /\ pc'.kx # "none" => pc'.at = "startup"
              /\ pc'.kx \notin {"none", "kexinit"} => session'.lkex # 0
              /\ pc'.kx \in {"newkeys", "NEWKEYS"} => Hash' = srv.id
              /\ Inits(outq') # {} => srv.id = NoHash
              /\ \A i, j \in Inits(outq') : i = j
              /\ Unsent' => srv.id = NoHash /\ Inits(outq') = {}
    PROVE  IdInv'
<1>1. session.id = NoHash => Fresh'
  BY DEF IdInv, Fresh, Inits
<1> QED
  BY <1>1 DEF IdInv

LEMMA IdOutside ==
    ASSUME Shape, IdInv, Outside, session'.chan.st \in {"none", "open"}, session.id = NoHash => session'.chan.st = "none"
    PROVE  IdInv'
<1>1. /\ srv' = srv /\ inq' = inq /\ session'.id = session.id /\ session'.lkex = session.lkex
      /\ pc.kx = "none" /\ pc'.kx = "none"
  BY DEF Outside, SameKeys
<1>2. Range(brigade') \subseteq Range(brigade) \cup Range(inq)
  <2>1. Asked # 0 => Asked \in DOMAIN brigade
    BY AskedFound DEF Shape, ClientShape
  <2>2. Queue(brigade)
    BY DEF Shape, ClientShape
  <2> QED
    BY <2>1, <2>2, RangeOf DEF Outside
<1>3. Inits(outq') = Inits(outq)
  <2>1. outq' = outq \/ \E e : e.type \notin {"K30", "K32"} /\ outq' = Append(outq, e)
    <3>1. ASSUME NEW p, Form(p), p.type \notin OwnTypes, Wrote(p)
          PROVE  outq' = outq \/ \E e : e.type \notin {"K30", "K32"} /\ outq' = Append(outq, e)
      <4> DEFINE e == [p EXCEPT !.enc = Encoding(session.local, session.newkeys)]
      <4>1. e.type = p.type
        BY <3>1 DEF Form, Fields
      <4>2. outq' = outq \/ outq' = Append(outq, e)
        BY <3>1 DEF Wrote
      <4> HIDE DEF e
      <4> QED
        BY <3>1, <4>1, <4>2 DEF OwnTypes
    <3> QED
      BY <3>1 DEF Outside, Speaks
  <2>2. Queue(outq)
    BY DEF Shape, ClientShape
  <2> QED
    BY <2>1, <2>2, InitsAppend
<1>4. CASE session.id = NoHash
  <2>1. Fresh /\ session.lkex \in Nat
    BY <1>4 DEF IdInv
  <2>2. /\ pc'.at \in Early \ {"startup"}
        /\ Unsent' => Unsent
    BY <1>1, <2>1 DEF Fresh, Outside, Unsent
  <2> QED
    BY <1>1, <1>2, <1>3, <2>1, <2>2, IdKeeps DEF Fresh
<1>5. CASE session.id # NoHash
  BY <1>1, <1>2, <1>5, IdKeeps DEF IdInv
<1> QED
  BY <1>4, <1>5

LEMMA IdReceive ==
    ASSUME Shape, Within, IdInv, Receive \/ NotThere, session'.chan.st # "none" => session.chan.st # "none" \/ pc.at = "scp"
    PROVE  IdInv'
<1>0. /\ DOMAIN session = SessionFields /\ PcForm(pc) /\ Queue(inq) /\ Queue(brigade)
      /\ pc.kx # "none" => pc.at \notin Early \ {"startup"}
      /\ pc.kx \notin {"none", "kexinit"} => session.exchanging
  BY DEF Shape, ClientShape, Within
<1>1. /\ UNCHANGED <<outq, srv>>
      /\ pc.at \notin Unbannered /\ pc'.at \notin Unbannered
      /\ pc'.kx \in {pc.kx, "none", "kexinit"}
      /\ pc'.kx # "none" => pc'.at = pc.at
      /\ pc'.kx # pc.kx /\ pc'.kx # "none" => pc.at \notin Early
      /\ pc.at \in Early => pc.at = "startup" /\ pc'.at \in Early /\ pc.kx # "none"
      /\ pc'.kx \in {"newkeys", "NEWKEYS"} => pc'.group = pc.group
  BY <1>0, ReceiveForm
<1>2. /\ session'.id = session.id /\ session'.lkex = session.lkex /\ session'.rkex = session.rkex
      /\ session'.kex = session.kex
      /\ Range(inq') \subseteq Range(inq)
      /\ Range(brigade') \subseteq Range(brigade) \cup Range(inq)
  <2>1. CASE ReadError \/ ReadLost \/ ReadNothing \/ NotThere
    BY <1>0, <2>1 DEF ReadError, ReadLost, ReadNothing, NotThere, SessionFields
  <2>2. ASSUME NEW p,
               AddDisconnect(p) \/ AddChannel(p) \/ AddToBrigade(p) \/ Reexchange(p)
               \/ AddGarbage(p) \/ AddBanner(p)
        PROVE  <1>2
    <3>1. /\ inq # <<>> /\ p = Head(inq) /\ inq' = Tail(inq)
          /\ brigade' \in {brigade, Append(brigade, p)}
          /\ session'.id = session.id /\ session'.lkex = session.lkex
          /\ session'.rkex = session.rkex /\ session'.kex = session.kex
      BY <2>2, ReceivedForm
    <3>2. p \in Range(inq) /\ Range(Tail(inq)) \subseteq Range(inq)
      BY <1>0, <3>1, RangeOf
    <3>3. Range(Append(brigade, p)) = Range(brigade) \cup {p}
      BY <1>0, RangeOf
    <3>4. CASE brigade' = brigade
      BY <3>1, <3>2, <3>4
    <3>5. CASE brigade' = Append(brigade, p)
      <4>1. Range(brigade') = Range(brigade) \cup {p}
        BY <3>3, <3>5
      <4> QED
        BY <3>1, <3>2, <4>1
    <3> QED
      BY <3>1, <3>4, <3>5
  <2> QED
    BY <2>1, <2>2 DEF Receive
<1>3. CASE session.id = NoHash
  <2>1. Fresh /\ session.lkex \in Nat
    BY <1>3 DEF IdInv
  <2>2. /\ pc'.at \in Early /\ session'.chan.st = "none"
        /\ pc'.kx \in {pc.kx, "none"}
        /\ pc'.kx # "none" => pc'.at = "startup"
    BY <1>1, <2>1 DEF Fresh, Early, Unbannered
  <2>3. pc'.kx \notin {"none", "kexinit"} => session'.lkex # 0
    BY <1>2, <2>1, <2>2 DEF Fresh
  <2>4. pc'.kx \in {"newkeys", "NEWKEYS"} => Hash' = srv.id
    BY <1>1, <1>2, <2>1, <2>2 DEF Fresh, Hash, Group
  <2>5. Unsent' => Unsent
    BY <1>1, <2>1, <2>2 DEF Fresh, Unsent
  <2>6. /\ Inits(outq') # {} => srv.id = NoHash
        /\ \A i, j \in Inits(outq') : i = j
        /\ Unsent' => srv.id = NoHash /\ Inits(outq') = {}
    BY <1>1, <2>1, <2>5 DEF Fresh
  <2> QED
    BY <1>1, <1>2, <2>1, <2>2, <2>3, <2>4, <2>6, IdKeeps
<1>4. CASE session.id # NoHash
  BY <1>1, <1>2, <1>4, IdKeeps DEF IdInv
<1> QED
  BY <1>3, <1>4

\* packet_write of a packet of the exchange, as far as the id goes
LEMMA IdSends ==
    ASSUME Shape, NEW STATE s, NEW STATE p, NEW STATE then, NEW STATE otherwise,
           DOMAIN s = SessionFields, Form(p), Send(s, p, then, otherwise)
    PROVE  /\ session'.id = s.id /\ session'.lkex = s.lkex /\ session'.rkex = s.rkex
           /\ session'.kex = s.kex /\ session'.chan = s.chan
           /\ pc' \in {then, otherwise}
           /\ Inits(outq') \subseteq Inits(outq) \cup (IF p.type \in {"K30", "K32"} THEN {Len(outq) + 1} ELSE {})
           /\ Inits(outq') = Inits(outq) \/ pc' = then
<1> DEFINE e == [p EXCEPT !.enc = Encoding(s.local, s.newkeys)]
<1>1. e.type = p.type
  BY DEF Form, Fields
<1>2. \/ outq' = Append(outq, e) /\ pc' = then
      \/ outq' = outq /\ pc' \in {then, otherwise}
  BY DEF Send
<1> HIDE DEF e
<1>3. Inits(Append(outq, e)) = Inits(outq) \cup (IF p.type \in {"K30", "K32"} THEN {Len(outq) + 1} ELSE {})
  BY <1>1, InitsAppend DEF Shape, ClientShape
<1>4. /\ session'.id = s.id /\ session'.lkex = s.lkex /\ session'.rkex = s.rkex
      /\ session'.kex = s.kex /\ session'.chan = s.chan
  BY DEF Send, SessionFields
<1> QED
  BY <1>2, <1>3, <1>4

\* What an exchange of keys that is not the first leaves
LEMMA IdLater ==
    ASSUME Shape, Within, IdInv, KeyExchange
    PROVE  /\ srv' = srv /\ inq' = inq
           /\ Range(brigade') \subseteq Range(brigade) \cup Range(inq)
           /\ session'.lkex \in Nat
           /\ session'.chan = session.chan
           /\ session'.id = session.id \/ (TakeNewkeys /\ session.id = NoHash)
<1>0. DOMAIN session = SessionFields /\ Queue(brigade) /\ session.lkex \in Nat
  BY DEF Shape, ClientShape, IdInv
<1>1. /\ UNCHANGED <<inq, srv>>
      /\ brigade' = brigade \/ (Asked # 0 /\ brigade' = RemoveAt(brigade, Asked))
      /\ session'.chan = session.chan
  BY KexForm DEF KexGoes
<1>2. Range(brigade') \subseteq Range(brigade) \cup Range(inq)
  <2>1. Asked # 0 => Asked \in DOMAIN brigade
    BY <1>0, AskedFound
  <2> QED
    BY <1>0, <1>1, <2>1, RangeOf
<1>3. /\ session'.lkex \in {session.lkex, session.lkex + 1}
      /\ session'.id = session.id \/ (TakeNewkeys /\ session.id = NoHash)
  <2>1. CASE SendKexinit
    <3> DEFINE s == [session EXCEPT !.exchanging = TRUE, !.kex = No, !.lkex = @ + 1]
               n == session.lkex + 1
               p == Packet("KEXINIT", "", n, NoHash)
    <3>1. DOMAIN s = SessionFields /\ s.id = session.id /\ s.lkex = n
      BY <1>0 DEF SessionFields
    <3>2. Send(s, p, GoKex("KEXINIT"), KexFailed)
      BY <2>1 DEF SendKexinit
    <3>3. Form(p)
      BY PacketForm
    <3> HIDE DEF s, p
    <3>4. session'.id = s.id /\ session'.lkex = s.lkex
      BY <3>1, <3>2, <3>3, IdSends
    <3> QED
      BY <3>1, <3>4
  <2>2. CASE SendRequest \/ SendInit \/ SendNewkeys
    <3>1. \E s : session' = [session EXCEPT !.local = s]
      BY <1>0, <2>2 DEF SendRequest, SendInit, SendNewkeys, Send
    <3> QED
      BY <1>0, <3>1 DEF SessionFields
  <2>3. CASE TakeKexinit
    <3>1. PICK k, b, l, r : session' = [[session EXCEPT !.rkex = Answer.n] EXCEPT
                                            !.kex = k, !.burn = b, !.local = l, !.remote = r]
      BY <2>3, Zenon DEF TakeKexinit, agree_methods
    <3> QED
      BY <1>0, <3>1 DEF SessionFields
  <2>4. CASE TakeGroup \/ Burn \/ TakeReply
    BY <1>0, <2>4 DEF TakeGroup, Burn, TakeReply, SessionFields
  <2>5. CASE TakeNewkeys
    BY <1>0, <2>5 DEF TakeNewkeys, Install, SessionFields
  <2> QED
    BY <2>1, <2>2, <2>3, <2>4, <2>5 DEF KeyExchange
<1>4. session'.lkex \in Nat
  BY <1>0, <1>3
<1> QED
  BY <1>1, <1>2, <1>3, <1>4

\* An exchange that fails in the start of the session ends it.
LEMMA FreshPlaces ==
    ASSUME PcForm(pc), pc.at = "startup"
    PROVE  /\ KexFailed.kx = "none" /\ KexFailed.at = "disconnect"
           /\ \A k : GoKex(k).kx = k /\ GoKex(k).at = "startup" /\ GoKex(k).group = pc.group
           /\ \A g : InGroup(g).kx = "init" /\ InGroup(g).at = "startup"
           /\ Ends("dead").kx = "none" /\ Ends("dead").at = "dead"
BY DEF PcForm, PcFields, KexFailed, Disconnects, GoKex, InGroup, Ends

\* The first exchange of keys has one reply, whose hash becomes the id.
LEMMA IdFirst ==
    ASSUME Shape, Within, IdInv, KeyExchange, session.id = NoHash, ~TakeNewkeys
    PROVE  IdInv'
<1>0. /\ DOMAIN session = SessionFields /\ PcForm(pc) /\ Queue(brigade) /\ Queue(outq)
      /\ session.lkex \in Nat /\ Fresh /\ pc.at \notin Stages
  BY DEF Shape, ClientShape, IdInv, Within, Path
<1>1. /\ srv' = srv /\ Range(inq') \subseteq Range(inq)
      /\ Range(brigade') \subseteq Range(brigade) \cup Range(inq)
      /\ session'.lkex \in Nat /\ session'.chan.st = "none" /\ session'.id = session.id
  BY <1>0, IdLater DEF Fresh
<1>2. \A k \in Stages : Label = k => pc.kx = k /\ k # "none"
  BY <1>0 DEF Label
<1>3. pc.kx # "none" /\ pc.at = "startup"
  BY <1>0, KexForm DEF Fresh
<1>4. /\ KexFailed.kx = "none" /\ KexFailed.at = "disconnect"
      /\ \A k : GoKex(k).kx = k /\ GoKex(k).at = "startup" /\ GoKex(k).group = pc.group
      /\ \A g : InGroup(g).kx = "init" /\ InGroup(g).at = "startup"
      /\ Ends("dead").kx = "none" /\ Ends("dead").at = "dead"
  BY <1>0, <1>3, FreshPlaces
<1> DEFINE Trying == {"kexinit", "KEXINIT", "request", "GROUP", "init"}
\* What is left to show where no packet begins an exchange
<1>5. ASSUME pc'.at = "startup" \/ (pc'.kx = "none" /\ pc'.at \in {"disconnect", "dead"}),
             pc'.kx \notin {"none", "kexinit"} => session'.lkex # 0,
             pc'.kx \in {"newkeys", "NEWKEYS"} => Hash' = srv.id,
             Inits(outq') = Inits(outq), pc'.kx \in Trying => pc.kx \in Trying
      PROVE  IdInv'
  <2>1. Unsent' => Unsent
    BY <1>3, <1>5 DEF Unsent, Unbannered
  <2>2. pc'.at \in Early /\ (pc'.kx # "none" => pc'.at = "startup")
    BY <1>5 DEF Early
  <2>3. /\ Inits(outq') # {} => srv.id = NoHash
        /\ \A i, j \in Inits(outq') : i = j
        /\ Unsent' => srv.id = NoHash /\ Inits(outq') = {}
    BY <1>0, <1>5, <2>1 DEF Fresh
  <2> QED
    BY <1>1, <1>5, <2>2, <2>3, IdKeeps
<1>6. CASE SendKexinit
  <2> DEFINE s == [session EXCEPT !.exchanging = TRUE, !.kex = No, !.lkex = @ + 1]
             n == session.lkex + 1
             p == Packet("KEXINIT", "", n, NoHash)
  <2>0. Label = "kexinit"
    BY <1>6 DEF SendKexinit, At
  <2>1. DOMAIN s = SessionFields /\ s.lkex = n /\ n # 0 /\ pc.kx = "kexinit"
    BY <1>0, <1>2, <2>0 DEF SessionFields, Stages
  <2>2. Send(s, p, GoKex("KEXINIT"), KexFailed)
    BY <1>6 DEF SendKexinit
  <2>3. Form(p) /\ p.type = "KEXINIT"
    BY DEF Packet, Form, Fields
  <2> HIDE DEF s, n, p
  <2>4. /\ session'.lkex = s.lkex /\ pc' \in {GoKex("KEXINIT"), KexFailed}
        /\ Inits(outq') \subseteq Inits(outq) \cup {}
    BY <2>1, <2>2, <2>3, IdSends
  <2>5. Unsent
    BY <1>3, <2>1 DEF Unsent
  <2>6. Inits(outq') = Inits(outq)
    BY <1>0, <2>4, <2>5 DEF Fresh
  <2> QED
    BY <1>4, <1>5, <2>1, <2>4, <2>6
<1>7. CASE SendRequest \/ SendNewkeys
  <2>0. Label \in {"request", "newkeys"}
    BY <1>7 DEF SendRequest, SendNewkeys, At
  <2>1. session.lkex # 0 /\ pc.kx \in {"request", "newkeys"}
    BY <1>0, <1>2, <2>0 DEF Fresh, Stages
  <2>2. ASSUME NEW p, NEW k, Form(p), p.type \notin {"K30", "K32"},
               Send(session, p, GoKex(k), KexFailed),
               <<k, pc.kx>> \in {<<"GROUP", "request">>, <<"NEWKEYS", "newkeys">>}
        PROVE  IdInv'
    <3>1. /\ session'.lkex = session.lkex /\ session'.rkex = session.rkex
          /\ session'.kex = session.kex /\ pc' \in {GoKex(k), KexFailed}
          /\ Inits(outq') = Inits(outq)
      <4> DEFINE e == [p EXCEPT !.enc = Encoding(session.local, session.newkeys)]
      <4>1. e.type = p.type
        BY <2>2 DEF Form, Fields
      <4>2. \/ outq' = Append(outq, e) /\ pc' = GoKex(k)
            \/ outq' = outq /\ pc' \in {GoKex(k), KexFailed}
        BY <2>2 DEF Send
      <4> HIDE DEF e
      <4>3. Inits(Append(outq, e)) = Inits(outq)
        BY <1>0, <2>2, <4>1, InitsAppend
      <4>4. /\ session'.lkex = session.lkex /\ session'.rkex = session.rkex
            /\ session'.kex = session.kex
        BY <1>0, <2>2 DEF Send, SessionFields
      <4> QED
        BY <4>2, <4>3, <4>4
    <3>2. pc'.kx \in {"newkeys", "NEWKEYS"} => Hash' = srv.id
      <4>1. CASE pc'.kx \in {"newkeys", "NEWKEYS"}
        <5>1. pc' = GoKex(k) /\ k = "NEWKEYS" /\ pc.kx = "newkeys"
          BY <1>4, <2>2, <3>1, <4>1
        <5>2. Hash' = Hash
          BY <1>4, <3>1, <5>1 DEF Hash, Group
        <5> QED
          BY <1>0, <5>1, <5>2 DEF Fresh
      <4> QED
        BY <4>1
    <3>3. pc'.at = "startup" \/ (pc'.kx = "none" /\ pc'.at \in {"disconnect", "dead"})
      BY <1>4, <3>1
    <3>4. pc'.kx \in Trying => pc.kx \in Trying
      BY <1>4, <2>2, <3>1
    <3> QED
      BY <1>5, <2>1, <3>1, <3>2, <3>3, <3>4
  <2>3. CASE SendRequest
    <3> DEFINE p == Packet("K34", "", 0, NoHash)
    <3>1. Form(p) /\ p.type \notin {"K30", "K32"}
      BY DEF Packet, Form, Fields
    <3>2. Send(session, p, GoKex("GROUP"), KexFailed)
      BY <2>3 DEF SendRequest
    <3>3. Label = "request"
      BY <2>3 DEF SendRequest, At
    <3>4. <<"GROUP", pc.kx>> = <<"GROUP", "request">>
      BY <1>2, <3>3 DEF Stages
    <3> HIDE DEF p
    <3> QED
      BY <2>2, <3>1, <3>2, <3>4
  <2>4. CASE SendNewkeys
    <3> DEFINE p == Packet("NEWKEYS", "", 0, NoHash)
    <3>1. Form(p) /\ p.type \notin {"K30", "K32"}
      BY DEF Packet, Form, Fields
    <3>2. Send(session, p, GoKex("NEWKEYS"), KexFailed)
      BY <2>4 DEF SendNewkeys
    <3>3. Label = "newkeys"
      BY <2>4 DEF SendNewkeys, At
    <3>4. <<"NEWKEYS", pc.kx>> = <<"NEWKEYS", "newkeys">>
      BY <1>2, <3>3 DEF Stages
    <3> HIDE DEF p
    <3> QED
      BY <2>2, <3>1, <3>2, <3>4
  <2> QED
    BY <1>7, <2>3, <2>4
<1>8. CASE SendInit
  <2> DEFINE p == Packet(IF session.kex = "gex" THEN "K32" ELSE "K30", "", 0, NoHash)
             then == GoKex(IF session.burn THEN "BURN" ELSE "REPLY")
  <2>0. Label = "init"
    BY <1>8 DEF SendInit, At
  <2>1. Send(session, p, then, KexFailed) /\ pc.kx = "init"
    BY <1>2, <1>8, <2>0 DEF SendInit, Stages
  <2>2. Form(p)
    BY PacketForm
  <2>3. then.kx \in {"BURN", "REPLY"} /\ then.at = "startup"
    BY <1>4
  <2> HIDE DEF p, then
  <2>4. /\ session'.lkex = session.lkex /\ pc' \in {then, KexFailed}
        /\ Inits(outq') \subseteq Inits(outq) \cup {Len(outq) + 1}
    BY <1>0, <2>1, <2>2, IdSends
  <2>5. Unsent
    BY <1>3, <2>1 DEF Unsent
  <2>6. Inits(outq) = {} /\ srv.id = NoHash /\ session.lkex # 0
    BY <1>0, <2>1, <2>5 DEF Fresh
  <2>7. \A i, j \in Inits(outq') : i = j
    BY <2>4, <2>6
  <2>8. pc'.at \in Early /\ (pc'.kx # "none" => pc'.at = "startup") /\ ~Unsent'
        /\ pc'.kx \notin {"newkeys", "NEWKEYS"}
    BY <1>4, <2>3, <2>4 DEF Early, Unsent, Unbannered
  <2> QED
    BY <1>1, <2>4, <2>6, <2>7, <2>8, IdKeeps
<1>9. CASE TakeReply
  <2>1. /\ pc.kx = "REPLY" /\ outq' = outq /\ session' = session /\ Asked # 0
        /\ pc' = IF Answer.h = Hash THEN GoKex("newkeys") ELSE KexFailed
    BY <1>2, <1>9 DEF TakeReply, Takes, Stages
  <2>2. session.lkex # 0
    BY <1>0, <2>1 DEF Fresh
  <2>3. Answer.h \in {NoHash, srv.id}
    <3>1. Answer \in Range(brigade)
      BY <1>0, <2>1, AskedFound, RangeOf DEF Answer
    <3> QED
      BY <1>0, <3>1 DEF Fresh
  <2>4. Hash # NoHash
    BY <2>2 DEF Hash, NoHash
  <2>5. pc'.kx \in {"newkeys", "NEWKEYS"} => Hash' = srv.id
    <3>1. CASE Answer.h = Hash
      <4>1. pc'.group = pc.group
        BY <1>4, <2>1, <3>1
      <4>2. Hash' = Hash
        BY <2>1, <4>1 DEF Hash, Group
      <4> QED
        BY <2>3, <2>4, <3>1, <4>2
    <3> QED
      BY <1>4, <2>1, <3>1
  <2> QED
    BY <1>4, <1>5, <2>1, <2>2, <2>5
<1>10. CASE TakeKexinit \/ TakeGroup \/ Burn
  <2>1. outq' = outq /\ pc.kx \in {"KEXINIT", "GROUP", "BURN"}
    BY <1>2, <1>10 DEF TakeKexinit, TakeGroup, Burn, Takes, Stages
  <2>2. session.lkex # 0
    BY <1>0, <2>1 DEF Fresh
  <2>3. session'.lkex = session.lkex
    <3>1. CASE TakeKexinit
      <4>1. PICK k, b, l, r : session' = [[session EXCEPT !.rkex = Answer.n] EXCEPT
                                            !.kex = k, !.burn = b, !.local = l, !.remote = r]
        BY <3>1, Zenon DEF TakeKexinit, agree_methods
      <4> QED
        BY <1>0, <4>1 DEF SessionFields
    <3>2. CASE TakeGroup \/ Burn
      BY <1>0, <3>2 DEF TakeGroup, Burn, SessionFields
    <3> QED
      BY <1>10, <3>1, <3>2
  <2>4. \/ pc' = KexFailed \/ pc' = Ends("dead")
        \/ \E k \in {"request", "init"} : pc' = GoKex(k) /\ pc.kx = "KEXINIT"
        \/ pc' = GoKex("REPLY")
        \/ \E g : pc' = InGroup(g) /\ pc.kx = "GROUP"
    BY <1>2, <1>10 DEF Ends, InGroup, TakeKexinit, TakeGroup, Burn, Takes, Stages
  <2>5. pc'.kx \in {"none", "REPLY"} \/ (pc'.kx \in {"request", "init"} /\ pc.kx \in {"KEXINIT", "GROUP"})
    BY <1>4, <2>4
  <2>6. pc'.at = "startup" \/ (pc'.kx = "none" /\ pc'.at \in {"disconnect", "dead"})
    BY <1>4, <2>4
  <2> QED
    BY <1>5, <2>1, <2>2, <2>3, <2>5, <2>6
<1> QED
  BY <1>6, <1>7, <1>8, <1>9, <1>10 DEF KeyExchange

LEMMA IdKex ==
    ASSUME Shape, Within, IdInv, KeyExchange
    PROVE  IdInv'
<1>0. /\ DOMAIN session = SessionFields /\ PcForm(pc) /\ pc.at \notin Stages
  BY DEF Shape, ClientShape, Within, Path
<1>1. /\ srv' = srv /\ Range(inq') \subseteq Range(inq)
      /\ Range(brigade') \subseteq Range(brigade) \cup Range(inq)
      /\ session'.lkex \in Nat
      /\ session'.id = session.id \/ (TakeNewkeys /\ session.id = NoHash)
  BY IdLater
<1>2. CASE session.id # NoHash
  BY <1>1, <1>2, IdKeeps DEF IdInv
<1>3. CASE session.id = NoHash /\ TakeNewkeys
  <2>1. pc.kx = "NEWKEYS" /\ session' = Install
    BY <1>0, <1>3 DEF TakeNewkeys, Takes, Label, Stages
  <2>2. session'.id = Hash
    BY <1>0, <1>3, <2>1 DEF Install, SessionFields
  <2>3. Hash = srv.id /\ session.lkex # 0 /\ \A p \in Range(srv.held) : p.h = NoHash
    BY <1>3, <2>1 DEF IdInv, Fresh
  <2>4. Hash # NoHash
    BY <2>3 DEF Hash, NoHash
  <2> HIDE DEF Hash
  <2> QED
    BY <1>1, <2>2, <2>3, <2>4 DEF IdInv
<1> QED
  BY <1>1, <1>2, <1>3, IdFirst

\* The banners come before all else.
LEMMA IdBanners ==
    ASSUME Shape, Within, IdInv, banner_send \/ banner_receive
    PROVE  IdInv'
<1>0. /\ Queue(inq) /\ PcForm(pc) /\ pc.at \notin Stages
  BY DEF Shape, ClientShape, Within, Path
<1>1. /\ session' = session /\ srv' = srv /\ brigade' = brigade
      /\ inq' = inq \/ (inq # <<>> /\ inq' = Tail(inq))
  BY DEF banner_send, banner_receive, At
<1>2. Range(inq') \subseteq Range(inq)
  BY <1>0, <1>1, RangeOf
<1>3. Label \in {"sendBanner", "banner"}
  BY DEF banner_send, banner_receive, At
<1>4. pc.kx = "none" /\ pc.at \in Unbannered
  BY <1>0, <1>3 DEF Label, PcForm, Stages, Unbannered
<1>5. /\ pc'.at \in Early /\ (pc'.kx # "none" => pc'.at = "startup")
      /\ pc'.kx \in {"none", "kexinit"}
  <2>1. \/ pc' \in {Go("banner"), Disconnects("SESSION_NOT_OPENED")}
        \/ pc' = [pc EXCEPT !.at = "startup", !.kx = "kexinit"]
    <3>1. CASE banner_send
      BY <3>1 DEF banner_send
    <3>2. CASE banner_receive
      BY <3>2 DEF banner_receive
    <3> QED
      BY <3>1, <3>2
  <2> QED
    BY <1>0, <1>4, <2>1 DEF Go, Disconnects, PcForm, PcFields, Early, Unbannered
<1>6. Inits(outq') \subseteq Inits(outq)
  <2> DEFINE p == Packet("BANNER", "banner", 0, NoHash)
  <2>1. outq' = outq \/ outq' = <<p>>
    BY DEF banner_send, banner_receive
  <2>2. p.type = "BANNER"
    BY DEF Packet
  <2> HIDE DEF p
  <2>3. Inits(<<p>>) = {}
    <3>1. DOMAIN <<p>> = {1} /\ <<p>>[1] = p
      OBVIOUS
    <3> QED
      BY <2>2, <3>1 DEF Inits
  <2> QED
    BY <2>1, <2>3
<1>7. CASE session.id = NoHash
  <2>1. Fresh
    BY <1>7 DEF IdInv
  <2>2. srv.id = NoHash /\ Inits(outq) = {}
    BY <1>4, <2>1 DEF Fresh, Unsent
  <2>3. Inits(outq') = {}
    BY <1>6, <2>2
  <2> QED
    BY <1>1, <1>2, <1>5, <1>7, <2>1, <2>2, <2>3, IdKeeps DEF IdInv, Fresh
<1>8. CASE session.id # NoHash
  BY <1>1, <1>2, <1>8, IdKeeps DEF IdInv
<1> QED
  BY <1>7, <1>8

LEMMA IdClient ==
    ASSUME Shape, Within, IdInv, Client
    PROVE  IdInv'
<1>1. session'.chan.st # "none" => session.chan.st # "none" \/ pc.at = "scp"
  BY ClientStep DEF ClientKeeps, Earned
<1>2. CASE Connect \/ RequestService \/ TakeService \/ Userauth \/ Scp \/ Ending
  <2>1. Outside /\ session'.chan.st \in {"none", "open"}
    BY <1>2, WithinSound, OutsideStep DEF Spends
  <2>2. session.id = NoHash => session'.chan.st = "none"
    BY <1>1 DEF IdInv, Fresh, Early, Unbannered
  <2> QED
    BY <2>1, <2>2, IdOutside
<1>3. CASE Receive \/ NotThere
  BY <1>1, <1>3, IdReceive
<1>4. CASE KeyExchange
  BY <1>4, IdKex
<1>5. CASE banner_send \/ banner_receive
  BY <1>5, IdBanners
<1> QED
  BY <1>2, <1>3, <1>4, <1>5 DEF Client, Startup

LEMMA IdServer ==
    ASSUME Shape, Within, IdInv, Server
    PROVE  IdInv'
<1>1. Serving
  BY ServerServing
<1>2. /\ UNCHANGED <<session, brigade, pc>>
      /\ outq' = outq \/ (outq # <<>> /\ outq' = Tail(outq))
  BY <1>1 DEF Serving
<1>3. /\ Queue(outq) /\ srv.sk \in Nat \ {0}
      /\ session.lkex \in Nat /\ \A p \in Range(srv.held) : p.h = NoHash
  BY DEF Shape, ClientShape, ServerShape, IdInv
<1>4. Hash' = Hash /\ (Unsent' <=> Unsent)
  BY <1>2 DEF Hash, Group, Unsent
<1>5. /\ Inits(outq) = {} => Inits(outq') = {}
      /\ (\A i, j \in Inits(outq) : i = j) => \A i, j \in Inits(outq') : i = j
  <2>1. CASE outq' = outq
    BY <2>1
  <2>2. CASE outq # <<>> /\ outq' = Tail(outq)
    <3>1. \A i \in Inits(outq') : i + 1 \in Inits(outq) /\ i \in Nat \ {0}
      BY <1>3, <2>2, InitsTail
    <3> QED
      BY <3>1
  <2> QED
    BY <1>2, <2>1, <2>2
<1>6. CASE inq' \in {inq, <<>>} /\ srv'.id = srv.id /\ srv'.held = srv.held
  <2>1. Range(inq') \subseteq Range(inq)
    BY <1>6 DEF Range
  <2>2. session.id = NoHash => Fresh'
    BY <1>2, <1>4, <1>5, <1>6, <2>1 DEF IdInv, Fresh
  <2> QED
    BY <1>2, <1>3, <1>6, <2>2 DEF IdInv
<1>7. ASSUME NEW ps, Says1(ps)
      PROVE  IdInv'
  <2>1. /\ srv'.id = srv.id /\ \A p \in Range(ps) : p.h = NoHash
        /\ \A p \in Range(inq') : \E r \in Range(inq) \cup Range(srv.held) \cup Range(ps) : Alike(p, r)
        /\ \A p \in Range(srv'.held) : \E r \in Range(srv.held) \cup Range(ps) : Alike(p, r)
    BY <1>7 DEF Says1, Brings, Plainly, Said
  <2>2. \A p \in Range(srv'.held) : p.h = NoHash
    BY <1>3, <2>1 DEF Alike
  <2>3. session.id = NoHash => \A p \in Range(inq') : p.h \in {NoHash, srv.id}
    BY <1>3, <2>1 DEF Alike, IdInv, Fresh
  <2>4. session.id = NoHash => Fresh'
    BY <1>2, <1>4, <1>5, <2>1, <2>3 DEF IdInv, Fresh
  <2> QED
    BY <1>2, <1>3, <2>1, <2>2, <2>4 DEF IdInv
<1>8. ASSUME NEW ps, Rekeys(ps)
      PROVE  IdInv'
  <2>1. /\ outq # <<>> /\ Head(outq).type \in {"K30", "K32"} /\ outq' = Tail(outq)
        /\ \A p \in Range(ps) : p.h \in {NoHash, ServerHash}
        /\ \A p \in Range(inq') : \E r \in Range(inq) \cup Range(srv.held) \cup Range(ps) : Alike(p, r)
        /\ srv'.id = ServerKey[2] /\ srv'.held = <<>>
    BY <1>8 DEF Rekeys, Brings
  <2>2. srv'.id = IF srv.id = NoHash THEN ServerHash ELSE srv.id
    BY <2>1 DEF ServerKey
  <2>3. ServerHash # NoHash
    BY <1>3 DEF ServerHash, NoHash
  <2>4. \A p \in Range(srv'.held) : p.h = NoHash
    BY <2>1 DEF Range
  <2> HIDE DEF NoHash
  <2>5. CASE session.id # NoHash
    BY <1>2, <1>3, <2>2, <2>4, <2>5 DEF IdInv
  <2>6. CASE session.id = NoHash
    <3>1. Fresh
      BY <2>6 DEF IdInv
    <3>2. 1 \in Inits(outq)
      BY <1>3, <2>1, InitsTail
    <3>3. srv.id = NoHash /\ srv'.id = ServerHash /\ ~Unsent
      BY <2>2, <3>1, <3>2 DEF Fresh
    <3>4. Inits(outq') = {}
      <4>1. \A i \in Inits(outq') : i + 1 \in Inits(outq) /\ i \in Nat \ {0}
        BY <1>3, <2>1, InitsTail
      <4>2. \A i \in Inits(outq') : i + 1 = 1
        BY <3>1, <3>2, <4>1 DEF Fresh
      <4> QED
        BY <4>1, <4>2
    <3>5. \A p \in Range(inq') \cup Range(brigade) : p.h \in {NoHash, ServerHash}
      BY <1>3, <2>1, <3>1, <3>3 DEF Alike, Fresh
    <3>6. pc.kx \notin {"newkeys", "NEWKEYS"}
      <4>1. CASE pc.kx \in {"newkeys", "NEWKEYS"}
        <5>1. Hash = NoHash /\ session.lkex # 0
          BY <3>1, <3>3, <4>1 DEF Fresh
        <5> QED
          BY <5>1 DEF Hash, NoHash
      <4> QED
        BY <4>1
    <3>7. Fresh'
      BY <1>2, <1>4, <3>1, <3>3, <3>4, <3>5, <3>6 DEF Fresh
    <3> QED
      BY <1>2, <1>3, <2>4, <2>6, <3>7 DEF IdInv
  <2> QED
    BY <2>5, <2>6
<1> QED
  BY <1>1, <1>6, <1>7, <1>8 DEF Serving

LEMMA IdInit ==
    ASSUME Init
    PROVE  IdInv
<1>1. PICK s \in Servers :
        srv = [offers |-> s.offers, exch |-> TRUE, ck |-> 0, sk |-> 1, kex |-> No,
               in |-> NoEnd,
               out |-> [NoEnd EXCEPT !.seq = IF s.offers[1].guess = "none" THEN 1 ELSE 2],
               id |-> NoHash, authed |-> FALSE, chan |-> "none", file |-> 0, held |-> <<>>]
  BY DEF Init
<1>2. srv.held = <<>> /\ srv.id = NoHash
  <2>1. PICK o, h : h = NoHash /\ srv = [offers |-> s.offers, exch |-> TRUE, ck |-> 0, sk |-> 1, kex |-> No,
                        in |-> NoEnd, out |-> o, id |-> h, authed |-> FALSE,
                        chan |-> "none", file |-> 0, held |-> <<>>]
    BY <1>1, Zenon
  <2> QED
    BY <2>1
<1>3. \A p \in Range(inq) : p.h = NoHash
  BY WithinInit DEF Plainly, Said
<1>4. pc.at = "connect" /\ pc.kx = "none"
  <2>1. PICK p \in Programs :
          pc = [at |-> "connect", kx |-> "none", wait |-> "read", cont |-> "none",
                todo |-> p, left |-> Pieces, group |-> "none", result |-> "none"]
    BY DEF Init
  <2> QED
    BY <2>1
<1>5. /\ session.id = NoHash /\ session.lkex = 0 /\ session.chan.st = "none"
      /\ brigade = <<>> /\ outq = <<>>
  <2>1. PICK h : h = NoHash /\ session =
            [socket_state |-> "CONNECTED", exchanging |-> FALSE, newkeys |-> FALSE,
             authenticated |-> FALSE, kex |-> No, burn |-> FALSE, lkex |-> 0, rkex |-> 0,
             id |-> h, local |-> NoEnd, remote |-> NoEnd,
             chan |-> [st |-> "none", win |-> 0, lclose |-> FALSE, rclose |-> FALSE]]
    BY Zenon DEF Init
  <2>2. session.id = NoHash /\ session.lkex = 0 /\ session.chan.st = "none"
    BY <2>1
  <2> QED
    BY <2>2 DEF Init
<1>6. Inits(outq) = {} /\ Range(brigade) = {} /\ Range(srv.held) = {}
  BY <1>2, <1>5 DEF Inits, Range
<1> QED
  BY <1>2, <1>3, <1>4, <1>5, <1>6 DEF IdInv, Fresh, Early, Unbannered

LEMMA IdStep ==
    ASSUME Shape, Within, IdInv, [Next]_vars
    PROVE  IdInv'
<1>1. CASE UNCHANGED vars
  BY <1>1 DEF vars, IdInv, Fresh, Unsent, Hash, Group, Inits
<1> QED
  BY <1>1, IdClient, IdServer DEF Next

\* For every server and program, and however often keys are exchanged again: once both ends
\* have an id of the session it is the same one, the hash of the first exchange.
THEOREM OneId == Spec => []SameId
<1>1. Init => (Shape /\ AuthInv) /\ Within /\ IdInv
  BY AuthInit, WithinInit, IdInit
<1>2. (Shape /\ AuthInv) /\ Within /\ IdInv /\ [Next]_vars => ((Shape /\ AuthInv) /\ Within /\ IdInv)'
  BY AuthStep, WithinStep, IdStep
<1>3. IdInv => SameId
  BY DEF IdInv, SameId
<1> QED
  BY <1>1, <1>2, <1>3, PTL DEF Spec

=============================================================================
