------------------------------- MODULE BytePipe -------------------------------
(***************************************************************************)
(* What the channels of a connection promise to the program that reads     *)
(* from them: each stream is a queue of bytes.  The server appends to it,  *)
(* a read takes a prefix, a flush (or the decision to ignore the stream)   *)
(* throws a prefix away, and a lost connection loses a suffix.  A byte is  *)
(* never lost from the middle, repeated, or moved to another stream.       *)
(***************************************************************************)
EXTENDS Naturals, Sequences

CONSTANTS
    Streams,
    MaxPacket       \* bytes the server sends at once

VARIABLES
    up,             \* the connection
    open,           \* open[s]: somebody may read the stream
    sent,           \* sent[s]: how many bytes the server has sent
    queue,          \* queue[s]: the bytes that are still to be read
    delivered       \* delivered[s]: those that were read

vars == <<up, open, sent, queue, delivered>>

Init ==
    /\ up = TRUE
    /\ open = [s \in Streams |-> FALSE]
    /\ sent = [s \in Streams |-> 0]
    /\ queue = [s \in Streams |-> <<>>]
    /\ delivered = [s \in Streams |-> <<>>]

\* Streams are opened and closed; what is left in a closed one is gone.
Open ==
    /\ UNCHANGED <<up, sent, delivered>>
    /\ open' # open
    /\ open' \in [Streams -> BOOLEAN]
    /\ \A s \in Streams : open[s] => open'[s]
    /\ UNCHANGED queue

Close ==
    /\ UNCHANGED <<up, sent, delivered>>
    /\ open' # open
    /\ open' \in [Streams -> BOOLEAN]
    /\ \A s \in Streams : open'[s] => open[s]
    /\ queue' = [s \in Streams |-> IF open[s] /\ ~open'[s] THEN <<>> ELSE queue[s]]

\* Nothing is promised of a stream any more, not even that what was read was right.
Void ==
    /\ UNCHANGED <<up, sent>>
    /\ open' # open
    /\ open' \in [Streams -> BOOLEAN]
    /\ \A s \in Streams : open'[s] => open[s]
    /\ queue' = [s \in Streams |-> IF open[s] /\ ~open'[s] THEN <<>> ELSE queue[s]]
    /\ delivered' = [s \in Streams |-> IF open[s] /\ ~open'[s] THEN <<>> ELSE delivered[s]]

\* The bytes of a stream are numbered.
Send(s) ==
    /\ up
    /\ UNCHANGED <<up, open, delivered>>
    /\ \E n \in 1 .. MaxPacket :
          /\ sent' = [sent EXCEPT ![s] = @ + n]
          /\ queue' = IF ~open[s] THEN queue
                      ELSE [queue EXCEPT ![s] = @ \o [i \in 1 .. n |-> sent[s] + i]]

Deliver(s) ==
    /\ UNCHANGED <<up, open, sent>>
    /\ delivered' # delivered
    /\ \E n \in 1 .. Len(queue[s]) :
          /\ delivered' = [delivered EXCEPT ![s] = @ \o SubSeq(queue[s], 1, n)]
          /\ queue' = [queue EXCEPT ![s] = SubSeq(@, n + 1, Len(@))]

\* One flush may be of several streams.
Skip ==
    /\ UNCHANGED <<up, open, sent, delivered>>
    /\ DOMAIN queue' = Streams
    /\ \A s \in Streams :
          \E n \in 0 .. Len(queue[s]) : queue'[s] = SubSeq(queue[s], n + 1, Len(queue[s]))

Cut ==
    /\ up' = FALSE
    /\ UNCHANGED <<open, sent, delivered>>
    /\ DOMAIN queue' = Streams
    /\ \A s \in Streams :
          \E n \in 0 .. Len(queue[s]) : queue'[s] = SubSeq(queue[s], 1, n)

Next ==
    \/ Open \/ Close \/ Void
    \/ \E s \in Streams : Send(s) \/ Deliver(s)
    \/ Cut
    \/ Skip

Spec == Init /\ [][Next]_vars
=============================================================================
