------------------------------ MODULE SshChannel ------------------------------
(***************************************************************************)
(* The channels of one SSH connection as libssh2 implements them: the      *)
(* calls of channel.c and the packet brigade of packet.c that they share.  *)
(* There is one thread.  A call that waits reads whatever packet arrives,  *)
(* for its own channel or for another, and packet_add files it.            *)
(*                                                                         *)
(* A byte is its number in its stream, a packet's length is that of its    *)
(* payload, and the numbers a channel has at the two ends are the same.    *)
(* Keys are exchanged elsewhere (SshSession); forwarded connections, which *)
(* the agent never asks for, are always refused.                           *)
(***************************************************************************)
EXTENDS Integers, Sequences, FiniteSets, SequencesExt, SeqOps

CONSTANTS
    WindowDefault,  \* LIBSSH2_CHANNEL_WINDOW_DEFAULT
    PacketDefault,  \* LIBSSH2_CHANNEL_PACKET_DEFAULT
    MinAdjust,      \* LIBSSH2_CHANNEL_MINADJUST
    StreamId,       \* bytes of a stream number, which EXTENDED_DATA has in its header
    Word,           \* unsigned long counts modulo this
    PeerWindow,     \* the window and the packet size of the server
    PeerPacket,
    Programs,       \* the calls a program makes, one sequence for each program
    MaxChannels,    \* bounds: channels opened, bytes and unasked packets of
    MaxBytes,       \* the server
    MaxInFlight     \* packets under way in one direction; a sender waits

Ids == 0 .. MaxChannels - 1
Modes == {"NORMAL", "IGNORE", "MERGE"}
Types == {"DATA", "EXTENDED_DATA"}

\* A call, the channel it is made of, and its size or option.
Commands ==
    [op : {"open", "setenv", "pty", "x11", "exec", "adjust", "read", "read_stderr", "write",
           "eof", "close", "wait_closed", "free"}, c : Ids, arg : Nat]
    \cup [op : {"blocking"}, c : Ids, arg : BOOLEAN]
    \cup [op : {"flush"}, c : Ids, arg : Types \cup {"ALL"}]
    \cup [op : {"extended"}, c : Ids, arg : Modes]

ASSUME SshChannelAssumption ==
    /\ {WindowDefault, PacketDefault, MinAdjust, StreamId, PeerWindow, PeerPacket,
        MaxChannels} \subseteq Nat \ {0}
    /\ {MaxBytes, MaxInFlight} \subseteq Nat
    /\ Word \in Nat /\ {WindowDefault, StreamId, PeerWindow} \subseteq 0 .. Word - 1
    /\ Programs \subseteq Seq(Commands)

VARIABLES
    ch,             \* session->channels, by local id
    next_channel,
    brigade,        \* session->packets
    socket_state,
    todo,           \* the calls the program is still to make
    call,           \* the call in progress
    outq, inq,      \* packets on their way to the server and from it
    tcp,            \* "up"; "fin": closed by the server; "reset"
    peer,           \* the server's view of each channel
    noise,          \* unasked packets so far
    delivered,      \* history: the bytes that were read from each stream
    uneven,         \* history: channels on which DATA was flushed or streams merged
    ignored,        \* history: channels on which a stream was ignored
    wrapped         \* history: channels whose window was granted past its width

clientVars == <<ch, next_channel, brigade, socket_state>>
history == <<delivered, uneven, ignored, wrapped>>
vars == <<clientVars, todo, call, outq, inq, tcp, peer, noise, history>>

Stream(p) == IF p.type = "DATA" THEN 0 ELSE 1
Streams == Ids \X {0, 1}

Packet(type, c, n) == [type |-> type, ch |-> c, bytes |-> <<>>, n |-> n]
Data(s, c, bytes) == [type |-> IF s = 0 THEN "DATA" ELSE "EXTENDED_DATA", ch |-> c,
                      bytes |-> bytes, n |-> Len(bytes)]
IsData(p, c) == p.type \in Types /\ p.ch = c

\* op, the position in it, its channel, stream, size and count; over is history: the
\* server had closed the channel when it was to be freed.
Idle == [op |-> "none", pc |-> "idle", c |-> 0, s |-> 0, n |-> 0, k |-> 0,
         over |-> FALSE]
Call(op, pc, c) == [Idle EXCEPT !.op = op, !.pc = pc, !.c = c]

Init ==
    /\ ch = <<>>
    /\ next_channel = 0
    /\ brigade = <<>>
    /\ socket_state = "CONNECTED"
    /\ todo \in Programs
    /\ call = Idle
    /\ outq = <<>>
    /\ inq = <<>>
    /\ tcp = "up"
    /\ peer = [c \in Ids |-> [st |-> "none", win |-> 0, credit |-> 0, owes |-> 0,
                              runs |-> FALSE, eof |-> FALSE, sent |-> [s \in {0, 1} |-> 0]]]
    /\ noise = 0
    /\ delivered = [s \in Streams |-> <<>>]
    /\ uneven = {}
    /\ ignored = {}
    /\ wrapped = {}

----------------------------------------------------------------------------
(* Sending                                                                 *)

\* packet_write succeeds while the connection is up, may succeed once on a connection
\* the server has closed, and fails after a reset.  It waits while the buffers are full.
SendResults ==
    CASE tcp = "up" -> {b \in {TRUE} : Len(outq) < MaxInFlight}
      [] tcp = "fin" -> BOOLEAN
      [] OTHER -> {FALSE}

\* Only a connection that is up delivers the packet.
Out(p, ok) == IF ok /\ tcp = "up" THEN Append(outq, p) ELSE outq

\* receive_window_adjust: a small refund is queued until there is more of it; one that
\* cannot be sent is queued as well.
Total(chan, n) == (n + chan.adjust_queue) % Word
Queues(chan, n, force) == ~force /\ Total(chan, n) < MinAdjust
Adjusted(chan, n, force, ok) ==
    IF Queues(chan, n, force) \/ ~ok THEN [chan EXCEPT !.adjust_queue = Total(chan, n)]
    ELSE [chan EXCEPT !.adjust_queue = 0, !.rwin = (@ + Total(chan, n)) % Word]

receive_window_adjust(chans, c, n, force) ==
    \E ok \in SendResults :
        /\ ch' = [chans EXCEPT ![c] = Adjusted(@, n, force, ok)]
        /\ outq' = IF \/ Queues(chans[c], n, force)
                      \/ n = 0 /\ chans[c].adjust_queue = 0 THEN outq
                   ELSE Out(Packet("WINDOW_ADJUST", c, Total(chans[c], n)), ok)
        /\ wrapped' = IF /\ ok /\ ~Queues(chans[c], n, force)
                         /\ chans[c].rwin + Total(chans[c], n) >= Word
                      THEN wrapped \cup {c} ELSE wrapped

----------------------------------------------------------------------------
(* Receiving: packet_add                                                   *)

Known(c) == c \in DOMAIN ch

AddDisconnect(p) ==
    /\ p.type = "DISCONNECT"
    /\ socket_state' = "DISCONNECTED"
    /\ UNCHANGED <<ch, brigade, outq, ignored, wrapped>>

\* IGNORE and DEBUG, and what is for a channel that is not known (any more).
AddNothing(p) ==
    /\ \/ p.type = "IGNORE"
       \/ /\ p.type \in Types \cup {"EOF", "EXIT_STATUS", "CLOSE", "WINDOW_ADJUST"}
          /\ ~Known(p.ch)
    /\ UNCHANGED <<ch, brigade, socket_state, outq, ignored, wrapped>>

\* Extended data that is ignored is refunded, although nothing was deducted for it.
AddIgnored(p) ==
    /\ p.type = "EXTENDED_DATA" /\ Known(p.ch) /\ ch[p.ch].mode = "IGNORE"
    /\ receive_window_adjust(ch, p.ch, p.n, FALSE)
    /\ ignored' = ignored \cup {p.ch}
    /\ UNCHANGED <<brigade, socket_state>>

\* Mutant: the window does not shrink.
AddData_NoShrink(p) ==
    /\ p.type \in Types /\ Known(p.ch)
    /\ p.type = "EXTENDED_DATA" => ch[p.ch].mode # "IGNORE"
    /\ ch' = [ch EXCEPT ![p.ch].reof = FALSE]
    /\ brigade' = Append(brigade, p)
    /\ UNCHANGED <<socket_state, outq, ignored, wrapped>>

\* Data beyond the packet size or the window is cut off, and without a window all of it
\* is dropped.  A packet that had to be cut for the window leaves the window as it is.
AddData(p) ==
    /\ p.type \in Types /\ Known(p.ch)
    /\ p.type = "EXTENDED_DATA" => ch[p.ch].mode # "IGNORE"
    /\ LET chan == ch[p.ch]
           n == IF p.n > PacketDefault THEN PacketDefault ELSE p.n
           kept == IF n > chan.rwin THEN chan.rwin ELSE n
       IN  IF chan.rwin = 0 THEN UNCHANGED <<ch, brigade>>
           ELSE /\ ch' = [ch EXCEPT ![p.ch].reof = FALSE,
                                    ![p.ch].rwin = IF n > chan.rwin THEN @ ELSE @ - n]
                /\ brigade' = Append(brigade, [p EXCEPT !.bytes = SubSeq(@, 1, kept),
                                                        !.n = kept])
    /\ UNCHANGED <<socket_state, outq, ignored, wrapped>>

AddEof(p) ==
    /\ p.type = "EOF" /\ Known(p.ch)
    /\ ch' = [ch EXCEPT ![p.ch].reof = TRUE]
    /\ UNCHANGED <<brigade, socket_state, outq, ignored, wrapped>>

AddExitStatus(p) ==
    /\ p.type = "EXIT_STATUS" /\ Known(p.ch)
    /\ ch' = [ch EXCEPT ![p.ch].exit_status = p.n]
    /\ UNCHANGED <<brigade, socket_state, outq, ignored, wrapped>>

\* Mutant: taken for the end of the data only.
AddClose_AsEof(p) ==
    /\ p.type = "CLOSE" /\ Known(p.ch)
    /\ ch' = [ch EXCEPT ![p.ch].reof = TRUE]
    /\ UNCHANGED <<brigade, socket_state, outq, ignored, wrapped>>

AddClose(p) ==
    /\ p.type = "CLOSE" /\ Known(p.ch)
    /\ ch' = [ch EXCEPT ![p.ch].rclose = TRUE]
    /\ UNCHANGED <<brigade, socket_state, outq, ignored, wrapped>>

\* forwarded-tcpip and x11 without a listener or a callback for them: refused.
AddOpen(p) ==
    /\ p.type = "OPEN_FORWARDED"
    /\ \E ok \in SendResults : outq' = Out(Packet("OPEN_FAILURE", p.ch, 0), ok)
    /\ UNCHANGED <<ch, brigade, socket_state, ignored, wrapped>>

AddWindowAdjust(p) ==
    /\ p.type = "WINDOW_ADJUST" /\ Known(p.ch)
    /\ ch' = [ch EXCEPT ![p.ch].lwin = (@ + p.n) % Word]
    /\ UNCHANGED <<brigade, socket_state, outq, ignored, wrapped>>

\* Everything else waits in the brigade for somebody to ask for it.
AddToBrigade(p) ==
    /\ p.type \in {"OPEN_CONFIRMATION", "OPEN_FAILURE", "SUCCESS", "FAILURE", "OPEN_OTHER"}
    /\ brigade' = Append(brigade, p)
    /\ UNCHANGED <<ch, socket_state, outq, ignored, wrapped>>

packet_add(p) ==
    \/ AddDisconnect(p) \/ AddNothing(p) \/ AddIgnored(p) \/ AddData(p) \/ AddEof(p)
    \/ AddExitStatus(p) \/ AddClose(p) \/ AddOpen(p) \/ AddWindowAdjust(p)
    \/ AddToBrigade(p)

----------------------------------------------------------------------------
(* Receiving: packet_read                                                  *)

\* A packet has arrived and is read.
Receive ==
    /\ socket_state = "CONNECTED"
    /\ inq # <<>>
    /\ packet_add(Head(inq))
    /\ inq' = Tail(inq)
    /\ UNCHANGED <<next_channel, tcp, peer, noise, delivered, uneven>>

\* A blocking read after a reset returns -1.  Its first count, compared as unsigned, is
\* taken for a whole block of whatever the stack held; whether that passes for a length
\* decides if the socket counts as lost.
ReadError ==
    /\ socket_state = "CONNECTED"
    /\ tcp = "reset" /\ inq = <<>>
    /\ socket_state' \in {"CONNECTED", "DISCONNECTED"}
    /\ UNCHANGED <<ch, next_channel, brigade, outq, inq, tcp, peer, noise, history>>

\* A read that does not block finds nothing yet, or the connection gone in the middle
\* of a packet (and then returns -1).
NothingYet == UNCHANGED <<clientVars, outq, inq, tcp, peer, noise, history>>

----------------------------------------------------------------------------
(* Waiting for an answer: packet_requirev_ex and packet_ask_ex             *)

Replies(op) == IF op = "open" THEN <<"OPEN_CONFIRMATION", "OPEN_FAILURE">>
               ELSE <<"SUCCESS", "FAILURE">>

\* packet_askv_ex: the types in their order, each time the first packet for the channel.
Found(types, c) == {i \in DOMAIN brigade : brigade[i].type = types /\ brigade[i].ch = c}
Answers == LET first == Found(Replies(call.op)[1], call.c)
           IN  IF first # {} THEN first ELSE Found(Replies(call.op)[2], call.c)
Asked == CHOOSE i \in Answers : \A j \in Answers : i <= j

Unlinked(c) == [d \in DOMAIN ch \ {c} |-> ch[d]]

\* The answer is there: the channel is open, or the request was heard.
Answered ==
    /\ call.pc \in {"first", "again"}
    /\ Answers # {}
    /\ brigade[Asked].type # "OPEN_FAILURE"
    /\ brigade' = Without(brigade, Asked)
    /\ ch' = IF call.op = "open"
             THEN [ch EXCEPT ![call.c].lwin = brigade[Asked].n, ![call.c].confirmed = TRUE]
             ELSE ch
    /\ call' = Idle
    /\ UNCHANGED <<next_channel, socket_state, outq, inq, tcp, peer, noise, history>>

\* channel_error: the channel is unlinked and its packets are cleared.
OpenFailed ==
    /\ call.pc \in {"first", "again"} /\ call.op = "open"
    /\ Answers # {}
    /\ brigade[Asked].type = "OPEN_FAILURE"
    /\ brigade' = Without(brigade, Asked)
    /\ ch' = Unlinked(call.c)
    /\ call' = [call EXCEPT !.pc = "pollData"]
    /\ UNCHANGED <<next_channel, socket_state, outq, inq, tcp, peer, noise, history>>

NotThere ==
    /\ call.pc = "first"
    /\ Answers = {}
    /\ call' = [call EXCEPT !.pc = "wait"]
    /\ UNCHANGED <<clientVars, outq, inq, tcp, peer, noise, history>>

\* A packet arrives.  If its type is one that is asked for the brigade is looked at again.
AwaitPacket ==
    /\ call.pc = "wait"
    /\ Receive
    /\ call' = [call EXCEPT !.pc = IF Head(inq).type \in Range(Replies(call.op)) THEN "again"
                                   ELSE "wait"]

\* The caller is told that there is no answer: the packet of the right type was for
\* another channel, or the connection is lost.
GiveUp ==
    /\ ch' = IF call.op = "open" THEN Unlinked(call.c) ELSE ch
    /\ call' = IF call.op = "open" THEN [call EXCEPT !.pc = "pollData"] ELSE Idle

NoAnswer ==
    /\ call.pc \in {"again", "wait"}
    /\ IF call.pc = "again" THEN Answers = {} ELSE socket_state = "DISCONNECTED"
    /\ GiveUp
    /\ UNCHANGED <<next_channel, brigade, socket_state, outq, inq, tcp, peer, noise, history>>

AwaitError ==
    /\ call.pc = "wait"
    /\ socket_state = "CONNECTED" /\ tcp = "reset" /\ inq = <<>>
    /\ socket_state' \in {"CONNECTED", "DISCONNECTED"}
    /\ GiveUp
    /\ UNCHANGED <<next_channel, brigade, outq, inq, tcp, peer, noise, history>>

----------------------------------------------------------------------------
(* Opening a channel and making requests of it                             *)

\* channel_nextid
nextid == LET used == DOMAIN ch \cup {next_channel}
          IN  CHOOSE id \in used : \A d \in used : d <= id

NewChannel == [confirmed |-> FALSE, lwin |-> 0, rwin |-> WindowDefault, adjust_queue |-> 0,
               leof |-> FALSE, lclose |-> FALSE, reof |-> FALSE, rclose |-> FALSE,
               blocking |-> FALSE, mode |-> "NORMAL", exit_status |-> 0]

\* channel_open_ex; channel_direct_tcpip_ex opens one of another type.
open_ex ==
    /\ call = Idle
    /\ nextid < MaxChannels
    /\ next_channel' = nextid + 1
    /\ \E ok \in SendResults :
          /\ outq' = Out(Packet("OPEN", nextid, WindowDefault), ok)
          /\ ch' = IF ok THEN [c \in DOMAIN ch \cup {nextid} |->
                                  IF c = nextid THEN NewChannel ELSE ch[c]]
                   ELSE ch
          /\ call' = Call("open", IF ok THEN "first" ELSE "pollData", nextid)
    /\ UNCHANGED <<brigade, socket_state, inq, tcp, peer, noise, history>>

\* The calls that send a CHANNEL_REQUEST and wait for its answer: setenv_ex,
\* request_pty_ex, x11_req_ex and process_startup.
Request(type, c) ==
    /\ call = Idle
    /\ \E ok \in SendResults :
          /\ outq' = Out(Packet(type, c, 0), ok)
          /\ call' = IF ok THEN Call("request", "first", c) ELSE Idle
    /\ UNCHANGED <<clientVars, inq, tcp, peer, noise, history>>

setenv_ex(c) == Request("REQUEST", c)
request_pty_ex(c) == Request("REQUEST", c)
x11_req_ex(c) == Request("REQUEST", c)
process_startup(c) == Request("EXEC", c)

set_blocking(c, blocking) ==
    /\ call = Idle
    /\ ch' = [ch EXCEPT ![c].blocking = blocking]
    /\ UNCHANGED <<next_channel, brigade, socket_state, call, outq, inq, tcp, peer, noise,
                   history>>

----------------------------------------------------------------------------
(* Reading                                                                 *)

\* The packets of a channel that a flush is for.
Flushes(p, c, which) ==
    /\ IsData(p, c)
    /\ which = "ALL" \/ which = p.type

\* Too little by a stream number for DATA, which has none.
FlushRefund(p) == IF p.type = "DATA" THEN p.n - StreamId ELSE p.n

\* Nothing is refunded if the sum happens to be zero.
Flush(chans, c, which) ==
    LET flushed == {i \in DOMAIN brigade : Flushes(brigade[i], c, which)}
        refunds == [i \in DOMAIN brigade |->
                      IF i \in flushed THEN FlushRefund(brigade[i]) ELSE 0]
        refund == SumOf(refunds) % Word
    IN  /\ brigade' = Picked(brigade, DOMAIN brigade \ flushed)
        /\ IF refund = 0 THEN ch' = chans /\ UNCHANGED <<outq, wrapped>>
           ELSE receive_window_adjust(chans, c, refund, FALSE)
        /\ uneven' = IF \E i \in flushed : refunds[i] # brigade[i].n
                     THEN uneven \cup {c} ELSE uneven
        /\ UNCHANGED <<next_channel, socket_state, call, inq, tcp, peer, noise, delivered,
                       ignored>>

flush_ex(c, which) ==
    /\ call = Idle
    /\ Flush(ch, c, which)

handle_extended_data(c, mode) ==
    /\ call = Idle
    /\ LET chans == [ch EXCEPT ![c].mode = mode]
       IN  IF mode = "IGNORE" THEN Flush(chans, c, "EXTENDED_DATA")
           ELSE /\ ch' = chans
                /\ UNCHANGED <<next_channel, brigade, socket_state, call, outq, inq, tcp,
                               peer, noise, history>>

\* The refund that is queued is sent now.
force_adjust(c) ==
    /\ call = Idle
    /\ receive_window_adjust(ch, c, 0, TRUE)
    /\ UNCHANGED <<next_channel, brigade, socket_state, call, inq, tcp, peer, noise,
                   delivered, uneven, ignored>>

read_ex(c, s, n) ==
    /\ call = Idle
    /\ call' = [Call("read", "drain", c) EXCEPT !.s = s, !.n = n]
    /\ UNCHANGED <<clientVars, outq, inq, tcp, peer, noise, history>>

\* Packets that wait at the socket are read without blocking, after one that blocks if
\* it is not the first round.
ReadPacket ==
    /\ call.pc \in {"drain", "block"}
    /\ Receive
    /\ call' = [call EXCEPT !.pc = "drain"]

ReadNothing ==
    /\ \/ call.pc = "drain"
       \/ call.pc = "block" /\ socket_state = "DISCONNECTED"
    /\ call' = [call EXCEPT !.pc = "take"]
    /\ NothingYet

ReadFails ==
    /\ call.pc = "block"
    /\ ReadError
    /\ call' = [call EXCEPT !.pc = "take"]

\* The packets the read is for: its own stream, or both if they are merged.
Readable ==
    {i \in DOMAIN brigade :
        /\ IsData(brigade[i], call.c)
        /\ \/ Stream(brigade[i]) = call.s
           \/ call.s = 0 /\ ch[call.c].mode = "MERGE"}

\* Mutant: the packet that came last.
ReadNext_Last == CHOOSE i \in Readable : \A j \in Readable : i >= j

ReadNext == CHOOSE i \in Readable : \A j \in Readable : i <= j

\* A packet that was read to its end is refunded, by the header of the stream the caller
\* asked for: too much by a stream number if it was merged.
ReadRefund(p, s) == IF p.type = "EXTENDED_DATA" /\ s = 0 THEN p.n + StreamId ELSE p.n

Take ==
    /\ call.pc = "take"
    /\ call.k < call.n
    /\ Readable # {}
    /\ LET p == brigade[ReadNext]
           all == call.n - call.k >= Len(p.bytes)
           want == IF all THEN Len(p.bytes) ELSE call.n - call.k
           refund == ReadRefund(p, call.s)
       IN  /\ delivered' = [delivered EXCEPT ![<<call.c, Stream(p)>>] =
                                @ \o SubSeq(p.bytes, 1, want)]
           /\ call' = [call EXCEPT !.k = @ + want]
           /\ IF all
              THEN /\ brigade' = Without(brigade, ReadNext)
                   /\ receive_window_adjust(ch, call.c, refund, FALSE)
                   /\ uneven' = IF refund = p.n THEN uneven ELSE uneven \cup {call.c}
              ELSE /\ brigade' = [brigade EXCEPT ![ReadNext].bytes =
                                    SubSeq(@, want + 1, Len(@))]
                   /\ UNCHANGED <<ch, outq, uneven, wrapped>>
    /\ UNCHANGED <<next_channel, socket_state, inq, tcp, peer, noise, ignored>>

\* A blocking read without a byte goes round again until the server closes the channel.
ReadEnds ==
    /\ call.pc = "take"
    /\ call.k = call.n \/ Readable = {}
    /\ call' = IF ch[call.c].blocking /\ call.k = 0 /\ ~ch[call.c].rclose
               THEN [call EXCEPT !.pc = "block"] ELSE Idle
    /\ UNCHANGED <<clientVars, outq, inq, tcp, peer, noise, history>>

----------------------------------------------------------------------------
(* Writing                                                                 *)

write_ex(c, n) ==
    /\ call = Idle
    /\ ~ch[c].lclose
    /\ ch[c].blocking \/ ch[c].lwin > 0
    /\ call' = [Call("write", "write", c) EXCEPT !.n = n]
    /\ UNCHANGED <<clientVars, outq, inq, tcp, peer, noise, history>>

\* One packet, no larger than the server's window and packet size.
bufwrite == LET limits == {call.n, ch[call.c].lwin, PeerPacket}
            IN  CHOOSE n \in limits : \A m \in limits : n <= m

WriteData ==
    /\ call.pc = "write"
    /\ ch[call.c].lwin > 0
    /\ \E ok \in SendResults :
          /\ outq' = Out(Data(0, call.c, [i \in 1 .. bufwrite |-> 0]), ok)
          /\ ch' = IF ok THEN [ch EXCEPT ![call.c].lwin = @ - bufwrite] ELSE ch
          /\ call' = IF ~ok \/ bufwrite = call.n \/ ~ch[call.c].blocking THEN Idle
                     ELSE [call EXCEPT !.n = @ - bufwrite]
    /\ UNCHANGED <<next_channel, brigade, socket_state, inq, tcp, peer, noise, history>>

\* Without a window packets are read until there is one.  A lost socket is no error here:
\* packet_read returns 0 and the loop goes on.
WriteWaits ==
    /\ call.pc = "write"
    /\ ch[call.c].lwin = 0
    /\ Receive
    /\ UNCHANGED call

WriteFails ==
    /\ call.pc = "write"
    /\ ch[call.c].lwin = 0
    /\ ReadError
    /\ call' = Idle

send_eof(c) ==
    /\ call = Idle
    /\ \E ok \in SendResults :
          /\ outq' = Out(Packet("EOF", c, 0), ok)
          /\ ch' = [ch EXCEPT ![c].leof = @ \/ ok]
    /\ UNCHANGED <<next_channel, brigade, socket_state, call, inq, tcp, peer, noise, history>>

\* What window_read_ex and window_write_ex report.
window_read(c) == ch[c].rwin
window_write(c) == ch[c].lwin

\* The bytes of a stream that were sent and not read, in the brigade and on the way.
Pending(s) ==
    LET BytesIn(packets) ==
            Concat([i \in DOMAIN packets |->
                      IF IsData(packets[i], s[1]) /\ Stream(packets[i]) = s[2]
                      THEN packets[i].bytes ELSE <<>>])
    IN  BytesIn(brigade) \o BytesIn(inq)

\* Mutant: without a look at the brigade.
eof_NoMask(c) == ch[c].reof

\* The end of the data is not reported while there is data to be read.
eof(c) == ch[c].reof /\ ~\E p \in Range(brigade) : IsData(p, c)

----------------------------------------------------------------------------
(* Closing                                                                 *)

\* Sent once; the channel counts as closed even if the packet could not be sent.
Close(c, ok) ==
    /\ ch' = [ch EXCEPT ![c].lclose = TRUE]
    /\ outq' = Out(Packet("CLOSE", c, 0), ok)

close(c) ==
    /\ call = Idle
    /\ ~ch[c].lclose
    /\ \E ok \in SendResults : Close(c, ok)
    /\ UNCHANGED <<next_channel, brigade, socket_state, call, inq, tcp, peer, noise, history>>

wait_closed(c) ==
    /\ call = Idle
    /\ call' = Call("wait_closed", "closing", c)
    /\ UNCHANGED <<clientVars, outq, inq, tcp, peer, noise, history>>

WaitPacket ==
    /\ call.pc = "closing"
    /\ ~ch[call.c].rclose
    /\ Receive
    /\ UNCHANGED call

WaitEnds ==
    /\ call.pc = "closing"
    /\ ch[call.c].rclose \/ socket_state = "DISCONNECTED"
    /\ call' = Idle
    /\ UNCHANGED <<clientVars, outq, inq, tcp, peer, noise, history>>

WaitFails ==
    /\ call.pc = "closing"
    /\ ~ch[call.c].rclose
    /\ ReadError
    /\ call' = Idle

\* channel_free closes the channel first, unless the socket is lost, and gives up if that
\* fails; a second call then gets further.
free(c) ==
    /\ call = Idle
    /\ LET freeing == [Call("free", "pollData", c) EXCEPT !.over = ch[c].rclose]
       IN  IF ch[c].lclose \/ socket_state = "DISCONNECTED"
           THEN call' = freeing /\ UNCHANGED <<ch, outq>>
           ELSE \E ok \in SendResults :
                  /\ Close(c, ok)
                  /\ call' = IF ok THEN freeing ELSE Idle
    /\ UNCHANGED <<next_channel, brigade, socket_state, inq, tcp, peer, noise, history>>

\* The packets of the channel are cleared, DATA before EXTENDED_DATA.  Each look at the
\* brigade reads a packet from the socket first, but the look begins where the brigade
\* began BEFORE that packet: of an empty brigade nothing is looked at.
Scan(pc) == IF pc = "pollData" THEN "scanData" ELSE "scanExt"
Miss(pc) == IF pc \in {"pollData", "scanData"} THEN "pollExt" ELSE "unlink"

PollPacket ==
    /\ call.pc \in {"pollData", "pollExt"}
    /\ Receive
    /\ call' = [call EXCEPT !.pc = IF brigade = <<>> THEN Miss(@) ELSE Scan(@)]

PollNothing ==
    /\ call.pc \in {"pollData", "pollExt"}
    /\ \E pc \in {Scan(call.pc)} \cup (IF tcp = "reset" THEN {Miss(call.pc)} ELSE {}) :
          call' = [call EXCEPT !.pc = pc]
    /\ NothingYet

\* Mutant: one packet of each type.
Clear_Once ==
    /\ call.pc \in {"scanData", "scanExt"}
    /\ LET found == Found(IF call.pc = "scanData" THEN "DATA" ELSE "EXTENDED_DATA", call.c)
           first == CHOOSE i \in found : \A j \in found : i <= j
       IN  /\ brigade' = IF found = {} THEN brigade ELSE Without(brigade, first)
           /\ call' = [call EXCEPT !.pc = Miss(@)]
    /\ UNCHANGED <<ch, next_channel, socket_state, outq, inq, tcp, peer, noise, history>>

Clear ==
    /\ call.pc \in {"scanData", "scanExt"}
    /\ LET found == Found(IF call.pc = "scanData" THEN "DATA" ELSE "EXTENDED_DATA", call.c)
           first == CHOOSE i \in found : \A j \in found : i <= j
       IN  /\ brigade' = IF found = {} THEN brigade ELSE Without(brigade, first)
           /\ call' = [call EXCEPT !.pc = IF found = {} THEN Miss(@) ELSE "pollData"]
    /\ UNCHANGED <<ch, next_channel, socket_state, outq, inq, tcp, peer, noise, history>>

\* The channel is forgotten.
Unlink ==
    /\ call.pc = "unlink"
    /\ ch' = Unlinked(call.c)
    /\ call' = Idle
    /\ UNCHANGED <<next_channel, brigade, socket_state, outq, inq, tcp, peer, noise, history>>

----------------------------------------------------------------------------
(* The server, which keeps to the protocol                                 *)

\* It has room for its answers; of its own accord it sends when there is room for it.
Sends(p) == inq' = Append(inq, p)
Ready == tcp = "up" /\ Len(inq) < MaxInFlight
ServerOnly == UNCHANGED <<clientVars, todo, call, history>>

\* It answers OPEN and REQUEST as it likes, CLOSE with CLOSE, takes the data it has
\* granted a window for, and disconnects when a window grows past its width.
Serve ==
    /\ tcp = "up"
    /\ outq # <<>>
    /\ outq' = Tail(outq)
    /\ LET p == Head(outq)
           c == p.ch
       IN  \/ /\ p.type = "OPEN"
              /\ peer' = [peer EXCEPT ![c].st = "open", ![c].win = p.n,
                                      ![c].credit = PeerWindow]
              /\ Sends(Packet("OPEN_CONFIRMATION", c, PeerWindow))
              /\ UNCHANGED tcp
           \/ /\ p.type = "OPEN"
              /\ Sends(Packet("OPEN_FAILURE", c, 0))
              /\ UNCHANGED <<peer, tcp>>
           \/ /\ p.type \in {"REQUEST", "EXEC"}
              /\ IF peer[c].st = "open"
                 THEN \E type \in {"SUCCESS", "FAILURE"} :
                         /\ Sends(Packet(type, c, 0))
                         /\ peer' = [peer EXCEPT ![c].runs =
                                        @ \/ <<p.type, type>> = <<"EXEC", "SUCCESS">>]
                 ELSE UNCHANGED <<inq, peer>>
              /\ UNCHANGED tcp
           \/ /\ p.type = "DATA"
              /\ peer' = [peer EXCEPT ![c].credit = @ - p.n, ![c].owes = @ + p.n]
              /\ UNCHANGED <<inq, tcp>>
           \/ /\ p.type = "WINDOW_ADJUST"
              /\ IF peer[c].st = "open" /\ peer[c].win + p.n >= Word
                 THEN Sends(Packet("DISCONNECT", c, 0)) /\ tcp' = "fin" /\ UNCHANGED peer
                 ELSE /\ peer' = [peer EXCEPT ![c].win =
                                    IF peer[c].st = "open" THEN @ + p.n ELSE @]
                      /\ UNCHANGED <<inq, tcp>>
           \/ /\ p.type = "CLOSE"
              /\ IF peer[c].st = "open"
                 THEN /\ Sends(Packet("CLOSE", c, 0))
                      /\ peer' = [peer EXCEPT ![c].st = "closed"]
                 ELSE UNCHANGED <<inq, peer>>
              /\ UNCHANGED tcp
           \/ /\ p.type \in {"EOF", "OPEN_FAILURE"}
              /\ UNCHANGED <<inq, peer, tcp>>
    /\ UNCHANGED noise
    /\ ServerOnly

\* What is left of the bound.
Unspent == MaxBytes - noise - MapThenSumSet(LAMBDA d : peer[d[1]].sent[d[2]], Streams)

\* A program that was started sends its output.
ServerData(c, s) ==
    /\ Ready /\ peer[c].st = "open" /\ peer[c].runs /\ ~peer[c].eof
    /\ \E n \in 1 .. PacketDefault :
          /\ n <= peer[c].win
          /\ n <= Unspent
          /\ Sends(Data(s, c, [i \in 1 .. n |-> peer[c].sent[s] + i]))
          /\ peer' = [peer EXCEPT ![c].win = @ - n, ![c].sent[s] = @ + n]
    /\ UNCHANGED <<outq, tcp, noise>>
    /\ ServerOnly

\* What it has consumed it grants again.
ServerCredit(c) ==
    /\ Ready /\ peer[c].st = "open" /\ peer[c].owes > 0
    /\ Sends(Packet("WINDOW_ADJUST", c, peer[c].owes))
    /\ peer' = [peer EXCEPT ![c].credit = @ + peer[c].owes, ![c].owes = 0]
    /\ UNCHANGED <<outq, tcp, noise>>
    /\ ServerOnly

\* The program at the other end is done: exit status, end of data, CLOSE.
ServerEof(c) ==
    /\ Ready /\ peer[c].st = "open" /\ peer[c].runs /\ ~peer[c].eof
    /\ inq' = inq \o <<Packet("EXIT_STATUS", c, 1), Packet("EOF", c, 0)>>
    /\ peer' = [peer EXCEPT ![c].eof = TRUE]
    /\ UNCHANGED <<outq, tcp, noise>>
    /\ ServerOnly

ServerClose(c) ==
    /\ Ready /\ peer[c].st = "open" /\ peer[c].eof
    /\ Sends(Packet("CLOSE", c, 0))
    /\ peer' = [peer EXCEPT ![c].st = "closed"]
    /\ UNCHANGED <<outq, tcp, noise>>
    /\ ServerOnly

ServerNoise ==
    /\ Ready /\ noise = 0 /\ Unspent > 0
    /\ \E type \in {"IGNORE", "OPEN_FORWARDED", "OPEN_OTHER"} : Sends(Packet(type, 0, 0))
    /\ noise' = noise + 1
    /\ UNCHANGED <<outq, tcp, peer>>
    /\ ServerOnly

\* It disconnects, or ends without a word; or the connection is reset.
ServerQuits ==
    /\ tcp = "up"
    /\ tcp' = "fin"
    /\ inq' \in {inq, Append(inq, Packet("DISCONNECT", 0, 0))}
    /\ outq' = <<>>
    /\ UNCHANGED <<peer, noise>>
    /\ ServerOnly

Reset ==
    /\ tcp # "reset"
    /\ tcp' = "reset"
    /\ inq' = <<>>
    /\ outq' = <<>>
    /\ UNCHANGED <<peer, noise>>
    /\ ServerOnly

----------------------------------------------------------------------------
(* The thread that makes the calls, and the whole                          *)

\* The channels the program was given; of one that was refused it makes no use.
Mine == {c \in DOMAIN ch : ch[c].confirmed}

\* A call that returns at once.
Returns(o) ==
    /\ call = Idle
    /\ o.op # "open"
    /\ \/ o.c \notin Mine
       \/ o.c \in Mine /\ o.op = "close" /\ ch[o.c].lclose
       \/ /\ o.c \in Mine /\ o.op = "write"
          /\ ch[o.c].lclose \/ (~ch[o.c].blocking /\ ch[o.c].lwin = 0)
    /\ UNCHANGED <<clientVars, call, outq, inq, tcp, peer, noise, history>>

Begin(o) ==
    \/ Returns(o)
    \/ o.op = "open" /\ open_ex
    \/ /\ o.c \in Mine
       /\ \/ o.op = "setenv" /\ setenv_ex(o.c)
          \/ o.op = "pty" /\ request_pty_ex(o.c)
          \/ o.op = "x11" /\ x11_req_ex(o.c)
          \/ o.op = "exec" /\ process_startup(o.c)
          \/ o.op = "blocking" /\ set_blocking(o.c, o.arg)
          \/ o.op = "flush" /\ flush_ex(o.c, o.arg)
          \/ o.op = "extended" /\ handle_extended_data(o.c, o.arg)
          \/ o.op = "adjust" /\ force_adjust(o.c)
          \/ o.op = "read" /\ read_ex(o.c, 0, o.arg)
          \/ o.op = "read_stderr" /\ read_ex(o.c, 1, o.arg)
          \/ o.op = "write" /\ write_ex(o.c, o.arg)
          \/ o.op = "eof" /\ send_eof(o.c)
          \/ o.op = "close" /\ close(o.c)
          \/ o.op = "wait_closed" /\ wait_closed(o.c)
          \/ o.op = "free" /\ free(o.c)

\* The call in progress goes on.
Goes ==
    \/ Answered \/ OpenFailed \/ NotThere \/ AwaitPacket \/ NoAnswer \/ AwaitError
    \/ ReadPacket \/ ReadNothing \/ ReadFails \/ Take \/ ReadEnds
    \/ WriteData \/ WriteWaits \/ WriteFails
    \/ WaitPacket \/ WaitEnds \/ WaitFails
    \/ PollPacket \/ PollNothing \/ Clear \/ Unlink

Client ==
    \/ todo # <<>> /\ Begin(Head(todo)) /\ todo' = Tail(todo)
    \/ Goes /\ UNCHANGED todo

Server ==
    \/ Serve
    \/ \E c \in Ids : ServerCredit(c) \/ ServerEof(c) \/ ServerClose(c)
                      \/ \E s \in {0, 1} : ServerData(c, s)
    \/ ServerNoise \/ ServerQuits \/ Reset

Next == Client \/ Server

Spec == Init /\ [][Next]_vars

\* The thread goes on, and the server serves what arrives and grants its window again.
FairSpec ==
    /\ Spec
    /\ WF_vars(Client)
    /\ WF_vars(Serve)
    /\ \A c \in Ids : WF_vars(ServerCredit(c))

----------------------------------------------------------------------------
(* Properties                                                              *)

PacketTypes == Types \cup {"OPEN", "OPEN_CONFIRMATION", "OPEN_FAILURE", "REQUEST", "EXEC",
    "SUCCESS", "FAILURE", "WINDOW_ADJUST", "EXIT_STATUS", "EOF", "CLOSE", "DISCONNECT",
    "IGNORE", "OPEN_FORWARDED", "OPEN_OTHER"}
Packets == [type : PacketTypes, ch : Ids, bytes : Seq(Nat), n : Nat]
ChannelRecords ==
    [confirmed : BOOLEAN, lwin : 0 .. Word - 1, rwin : 0 .. Word - 1,
     adjust_queue : 0 .. Word - 1, leof : BOOLEAN, lclose : BOOLEAN, reof : BOOLEAN,
     rclose : BOOLEAN, blocking : BOOLEAN, mode : Modes, exit_status : Nat]
PeerRecords ==
    [st : {"none", "open", "closed"}, win : Nat, credit : Int, owes : Nat, runs : BOOLEAN,
     eof : BOOLEAN, sent : [{0, 1} -> Nat]]
Calls ==
    [op : {"none", "open", "request", "read", "write", "wait_closed", "free"},
     pc : {"idle", "first", "again", "wait", "drain", "block", "take", "write", "closing",
           "pollData", "scanData", "pollExt", "scanExt", "unlink"},
     c : Ids, s : {0, 1}, n : Nat, k : Nat, over : BOOLEAN]

\* The state is well formed.
TypeOK ==
    /\ DOMAIN ch \subseteq Ids
    /\ ch \in [DOMAIN ch -> ChannelRecords]
    /\ next_channel \in 0 .. MaxChannels
    /\ {brigade, outq, inq} \subseteq Seq(Packets)
    /\ socket_state \in {"CONNECTED", "DISCONNECTED"}
    /\ todo \in Seq(Commands)
    /\ call \in Calls /\ call.k <= call.n
    /\ call.op \notin {"none", "open"} => call.c \in Mine
    /\ tcp \in {"up", "fin", "reset"}
    /\ peer \in [Ids -> PeerRecords]
    /\ noise \in Nat
    /\ \A p \in Range(brigade) :
          p.type \in Types => p.n <= PacketDefault /\ Len(p.bytes) <= p.n
    /\ delivered \in [Streams -> Seq(Nat)]
    /\ uneven \cup ignored \cup wrapped \subseteq Ids

\* What the packets of a channel grant and what data there is in them.
Adjusts(packets, c) ==
    SumOf([i \in DOMAIN packets |->
             IF packets[i].type = "WINDOW_ADJUST" /\ packets[i].ch = c
             THEN packets[i].n ELSE 0])
DataOf(packets, c) ==
    SumOf([i \in DOMAIN packets |-> IF IsData(packets[i], c) THEN packets[i].n ELSE 0])
Live(c) == /\ c \in Mine /\ peer[c].st = "open"
           /\ tcp = "up" /\ socket_state = "CONNECTED"

\* The two ends agree on how much the server may send: what window_read_ex reports is
\* what the server has left, what it has sent and what it was granted and has not heard
\* of.  A stream that is ignored is refunded although it took nothing, and then it is
\* more.  (A flush of short DATA packets grants a negative number, which takes the
\* window past its width; data on the way may then be dropped.)
WindowsAgree ==
    \A c \in Ids \ wrapped : Live(c) =>
        LET granted == peer[c].win + Adjusts(outq, c) + DataOf(inq, c)
        IN  window_read(c) >= granted /\ (c \notin ignored => window_read(c) = granted)

\* Reading gives back exactly the window that the data took (channel_read_ex); only a
\* flush of DATA, merged streams and ignored ones do not.
RefundsExact ==
    \A c \in Mine \ (uneven \cup ignored) : <<call.op, call.c>> # <<"free", c>> =>
        ch[c].rwin + ch[c].adjust_queue + DataOf(brigade, c) = WindowDefault

\* The server is never sent more than it granted (channel_write_ex), and what
\* window_write_ex reports may really be written.
NotOverrun ==
    \A c \in Mine : window_write(c) + DataOf(outq, c) + Adjusts(inq, c) <= peer[c].credit

\* Flow control: neither end believes that it may send what the other does not expect,
\* and no window leaks away; and every variable has its type.
FlowControl == TypeOK /\ WindowsAgree /\ RefundsExact /\ NotOverrun

\* When channel_eof reports the end, everything the server sent has been read.
EofMeansAll == \A c \in Mine, s \in {0, 1} : eof(c) => Pending(<<c, s>>) = <<>>

\* The packet that ends the wait for an answer is the answer: a caller is not told that
\* its request failed because the answer to another one arrived (packet_requirev_ex).
AnswerIsMine == call.pc = "again" => Answers # {}

\* A channel that the server had closed before channel_free was called leaves no packet
\* behind.  (One that it closes meanwhile may: the brigade was empty when the look at it
\* began.)
FreedClean ==
    call.over /\ call.pc = "unlink" /\ tcp # "reset" => DataOf(brigade, call.c) = 0

\* The channels share one brigade, and each gets its own packets out of it, all of them.
BrigadeSorted == AnswerIsMine /\ FreedClean

\* What is read from the channels is what the server sent: the abstract queues.
Pipe == INSTANCE BytePipe WITH
    MaxPacket <- PacketDefault,
    up <- tcp = "up",
    open <- [s \in Streams |-> s[1] \in DOMAIN ch \ wrapped],
    sent <- [s \in Streams |-> peer[s[1]].sent[s[2]]],
    queue <- [s \in Streams |-> IF s[1] \in DOMAIN ch \ wrapped THEN Pending(s) ELSE <<>>],
    delivered <- [s \in Streams |-> IF s[1] \in wrapped THEN <<>> ELSE delivered[s]]

\* Data on the way through packet_add, the brigade, channel_read_ex and channel_flush_ex
\* is neither lost from the middle nor repeated, reordered or given to another channel.
PipeSpec == Pipe!Spec

\* A read that waits for the server to send more is meant to wait.  A write to a channel
\* that the server has closed, and a request of one, wait for a window and an answer that
\* never come.
Excused ==
    \/ call.op = "read" /\ peer[call.c].st = "open" /\ Pending(<<call.c, call.s>>) = <<>>
    \/ call.op \in {"write", "request"} /\ peer[call.c].st = "closed"

\* Every call returns while the connection lasts, whatever arrives in between.
CallsReturn == []<>(call = Idle \/ tcp # "up" \/ socket_state = "DISCONNECTED" \/ Excused)

=============================================================================
