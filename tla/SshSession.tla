------------------------------ MODULE SshSession ------------------------------
(***************************************************************************)
(* An upload over SSH as Pandora_Ssh_Client makes it, with the parts of    *)
(* libssh2 that it rests on: banners, key exchange and re-exchange         *)
(* (kex.c), the packets under their keys (packet.c), authentication        *)
(* (userauth.c), scp_send_ex (scp.c) and the end of the session            *)
(* (session.c).                                                            *)
(*                                                                         *)
(* There is one thread.  It waits by reading packets, and a KEXINIT that   *)
(* it reads while it waits for something else starts a re-exchange inside  *)
(* that wait.  The server keeps to the protocol, may exchange keys again   *)
(* at any moment, and may vanish.  A key is what it is derived from, and a *)
(* packet carries how it was encoded.  The window of the channel counts    *)
(* pieces of the file; its arithmetic is in SshChannel.                    *)
(***************************************************************************)
EXTENDS Integers, Sequences, FiniteSets, SequencesExt

CONSTANTS
    Servers,        \* [greets, offers]: a line before the banner; the KEXINITs, the
                    \* last of which is repeated
    Programs,       \* the authentication methods a program tries, in their order
    Pieces,         \* the length of the file
    MaxRekeys,      \* bounds: re-exchanges, banners and questions of the server
    MaxNoise,
    MaxQuestions

\* A server that guesses sends a packet of a key exchange.
ASSUME SshSessionAssumption ==
    /\ {Pieces, MaxRekeys, MaxNoise, MaxQuestions} \subseteq Nat
    /\ \A s \in Servers :
          /\ s.offers # <<>> /\ s.offers \in Seq(Range(s.offers))
          /\ \A i \in DOMAIN s.offers : s.offers[i].guess \in {"none", "K30", "K31", "K33"}

VARIABLES
    session,        \* the LIBSSH2_SESSION
    brigade,        \* session->packets
    pc,             \* where the thread is
    tcp,            \* "up"; "fin": closed by the server; "reset"
    inq, outq,      \* packets on their way from the server and to it
    srv,            \* the server
    noise,          \* banners and questions so far
    cause           \* history: the first thing that kept the upload from going well

vars == <<session, brigade, pc, tcp, inq, outq, srv, noise, cause>>

\* An exchange hash stands for the two KEXINITs and the group that it covers.
NoHash == <<0, 0, "none">>
NoKey == <<NoHash, NoHash>>
No == "no method"
NoEnd == [crypt |-> No, ctx |-> No, mac |-> No, comp |-> No, key |-> NoKey, z |-> 0,
          seq |-> 0]

\* crypt is the method, whose block size is used; ctx the cipher that works.
Block(crypt) == IF crypt \in {"aes256", "aes128"} THEN 16 ELSE 8
Plain == [block |-> 8, ctx |-> No, mac |-> No, comp |-> No, key |-> NoKey, z |-> 0,
          seq |-> 0]
Encoding(e, on) ==
    IF on THEN [block |-> Block(e.crypt), ctx |-> e.ctx, mac |-> e.mac, comp |-> e.comp,
                key |-> e.key, z |-> IF e.comp = "zlib" THEN e.z ELSE 0, seq |-> e.seq]
    ELSE Plain

Packet(type, tag, n, h) == [type |-> type, tag |-> tag, n |-> n, h |-> h, enc |-> Plain]

Init ==
    /\ session = [socket_state |-> "CONNECTED", exchanging |-> FALSE, newkeys |-> FALSE,
                  authenticated |-> FALSE, kex |-> No, burn |-> FALSE, lkex |-> 0, rkex |-> 0,
                  id |-> NoHash, local |-> NoEnd, remote |-> NoEnd,
                  chan |-> [st |-> "none", win |-> 0, lclose |-> FALSE, rclose |-> FALSE]]
    /\ brigade = <<>>
    /\ \E p \in Programs :
          pc = [at |-> "connect", kx |-> "none", wait |-> "read", cont |-> "none",
                todo |-> p, left |-> Pieces, group |-> "none", result |-> "none"]
    /\ tcp = "up"
    /\ outq = <<>>
    /\ \E s \in Servers :
          /\ srv = [offers |-> s.offers, exch |-> TRUE, ck |-> 0, sk |-> 1, kex |-> No,
                    in |-> NoEnd,
                    out |-> [NoEnd EXCEPT !.seq = IF s.offers[1].guess = "none" THEN 1 ELSE 2], id |-> NoHash, authed |-> FALSE,
                    chan |-> "none", file |-> 0, held |-> <<>>]
          /\ inq = (IF s.greets THEN <<Packet("BANNER", "greeting", 0, NoHash)>> ELSE <<>>)
                   \o <<Packet("BANNER", "banner", 0, NoHash), Packet("KEXINIT", "", 1, NoHash)>>
                   \o (IF s.offers[1].guess = "none" THEN <<>>
                       ELSE <<Packet(s.offers[1].guess, "guess", 0, NoHash)>>)
    /\ noise = 0
    /\ cause = "none"

Blame(what) == cause' = IF cause = "none" THEN what ELSE cause

----------------------------------------------------------------------------
(* Where the thread is                                                     *)

\* A key exchange, first or nested, is in charge while it lasts.
Label == IF pc.kx # "none" THEN pc.kx ELSE pc.at

Go(at) == [pc EXCEPT !.at = at, !.wait = "ask"]
GoKex(kx) == [pc EXCEPT !.kx = kx, !.wait = "ask"]
Disconnects(result) == [pc EXCEPT !.kx = "none", !.at = "disconnect", !.result = result]

\* After a nested exchange, whatever came of it, the read that met the KEXINIT returns.
Loops == {"ack1", "ack2", "write", "waitClosed", "free1", "free2"}
Returned == [pc EXCEPT !.kx = "none", !.wait = IF pc.at \in Loops THEN "ask" ELSE "read"]
KexFailed == IF pc.at = "startup" THEN Disconnects("SESSION_NOT_OPENED") ELSE Returned

\* connectWithPublicKey gives up; a program with more methods goes on.
NextMethod == IF pc.todo = <<>> THEN Disconnects("AUTHENTICATION_FAILED") ELSE Go("auth")
ChannelError(at) == [pc EXCEPT !.at = at, !.wait = "read", !.cont = "throw"]

\* What a wait comes to that gets -1: from packet_require it is the caller's failure, the
\* loops of channel_read and channel_free do not care.
Failed ==
    IF pc.kx # "none" THEN KexFailed
    ELSE CASE pc.at = "service" -> Disconnects("SESSION_NOT_OPENED")
           [] pc.at \in {"list", "password", "hostbased", "pk1", "pk2", "keyboard"} -> NextMethod
           [] pc.at = "open" -> ChannelError("free1")
           [] pc.at = "exec" -> ChannelError("free")
           [] pc.at = "write" -> Go("eof")
           [] pc.at = "waitClosed" -> [pc EXCEPT !.at = "free", !.cont = "0"]
           [] OTHER -> [pc EXCEPT !.wait = "ask"]

----------------------------------------------------------------------------
(* packet_write                                                            *)

\* It succeeds while the connection is up, and may do so once more on one that the
\* server has closed; only a connection that is up delivers the packet.
Send(s, p, then, otherwise) ==
    /\ session' = [s EXCEPT !.local.seq = @ + 1]
    /\ \/ /\ tcp # "reset"
          /\ outq' = IF tcp = "up"
                     THEN Append(outq, [p EXCEPT !.enc = Encoding(s.local, s.newkeys)])
                     ELSE outq
          /\ pc' = then
       \/ /\ tcp # "up"
          /\ outq' = outq
          /\ pc' = otherwise

----------------------------------------------------------------------------
(* packet_read and packet_add                                              *)

\* The types a wait is for, in the order they are asked for.  packet_burn asks for any,
\* by number.
ByNumber == <<"SERVICE_ACCEPT", "KEXINIT", "NEWKEYS", "K30", "K31", "K33", "FAILURE", "SUCCESS",
              "USERAUTH_BANNER", "M60", "OPEN_CONFIRMATION", "OPEN_FAILURE", "DATA",
              "CHANNEL_SUCCESS", "CHANNEL_FAILURE">>
Wants ==
    CASE Label = "KEXINIT" -> <<"KEXINIT">>
      [] Label = "GROUP" -> <<"K31">>
      [] Label = "BURN" -> ByNumber
      [] Label = "REPLY" -> IF session.kex = "gex" THEN <<"K33">> ELSE <<"K31">>
      [] Label = "NEWKEYS" -> <<"NEWKEYS">>
      [] Label = "service" -> <<"SERVICE_ACCEPT">>
      [] Label \in {"list", "hostbased", "pk2"} -> <<"SUCCESS", "FAILURE">>
      [] Label \in {"password", "keyboard", "pk1"} -> <<"SUCCESS", "FAILURE", "M60">>
      [] Label = "open" -> <<"OPEN_CONFIRMATION", "OPEN_FAILURE">>
      [] Label = "exec" -> <<"CHANNEL_SUCCESS", "CHANNEL_FAILURE">>
      [] Label \in {"ack1", "ack2", "free1"} -> <<"DATA">>
      [] OTHER -> <<>>

\* packet_askv_ex: the place in the brigade of the packet that is asked for, or 0.
Hits(type) == {i \in DOMAIN brigade : brigade[i].type = type}
Asked ==
    LET types == {j \in DOMAIN Wants : Hits(Wants[j]) # {}}
    IN  IF types = {} THEN 0
        ELSE LET first == CHOOSE j \in types : \A k \in types : j <= k
                 hits == Hits(Wants[first])
             IN  CHOOSE i \in hits : \A k \in hits : i <= k
Answer == brigade[Asked]

Requires == {"KEXINIT", "GROUP", "BURN", "REPLY", "NEWKEYS", "service", "list", "hostbased",
             "password", "keyboard", "pk1", "pk2", "open", "exec"}

\* The wait goes on, unless the packet is of a type that it is for.
Onward(p) ==
    IF Label \notin Requires THEN [pc EXCEPT !.wait = "ask"]
    ELSE [pc EXCEPT !.wait = IF Contains(Wants, p.type) THEN "again" ELSE "read"]

Reads == pc.wait = "read" /\ Label \in Requires \cup Loops
Readable(p) == p.enc = Encoding(session.remote, session.newkeys)

\* The sequence number of a packet counts before the packet is dealt with.
Counted == [session EXCEPT !.remote.seq = @ + 1]

Receives(p) ==
    /\ Reads
    /\ session.socket_state = "CONNECTED"
    /\ inq # <<>>
    /\ p = Head(inq)
    /\ inq' = Tail(inq)
    /\ UNCHANGED <<tcp, outq, srv, noise>>

AddDisconnect(p) ==
    /\ Receives(p) /\ Readable(p)
    /\ p.type = "DISCONNECT"
    /\ session' = [Counted EXCEPT !.socket_state = "DISCONNECTED"]
    /\ pc' = Onward(p)
    /\ UNCHANGED <<brigade, cause>>

\* What is about the channel changes it, if it is still there.
AddChannel(p) ==
    /\ Receives(p) /\ Readable(p)
    /\ p.type \in {"WINDOW_ADJUST", "CLOSE"}
    /\ session' = [Counted EXCEPT
                     !.chan.win = IF p.type = "WINDOW_ADJUST" /\ session.chan.st # "none"
                                  THEN @ + p.n ELSE @,
                     !.chan.rclose = @ \/ (p.type = "CLOSE" /\ session.chan.st # "none")]
    /\ pc' = Onward(p)
    /\ UNCHANGED <<brigade, cause>>

AddToBrigade(p) ==
    /\ Receives(p) /\ Readable(p)
    /\ p.type \notin {"DISCONNECT", "WINDOW_ADJUST", "CLOSE", "BANNER"}
    /\ p.type = "KEXINIT" => session.exchanging
    /\ session' = Counted
    /\ brigade' = IF p.type = "DATA" /\ session.chan.st = "none" THEN brigade
                  ELSE Append(brigade, p)
    /\ pc' = Onward(p)
    /\ UNCHANGED cause

\* Mutant: the packet counts after it is dealt with.
Reexchange_CountsLate(p) ==
    /\ Receives(p) /\ Readable(p)
    /\ p.type = "KEXINIT" /\ ~session.exchanging
    /\ session' = session
    /\ brigade' = Append(brigade, p)
    /\ pc' = GoKex("kexinit")
    /\ UNCHANGED cause

\* The server wants new keys: kex_exchange is called from within the wait.
Reexchange(p) ==
    /\ Receives(p) /\ Readable(p)
    /\ p.type = "KEXINIT" /\ ~session.exchanging
    /\ session' = Counted
    /\ brigade' = Append(brigade, p)
    /\ pc' = GoKex("kexinit")
    /\ UNCHANGED cause

\* Read with other keys or methods: a length that makes no sense ends the connection, a
\* wrong MAC drops the packet but not its type, and the wait goes on or fails.
AddGarbage(p) ==
    /\ Receives(p) /\ ~Readable(p)
    /\ Blame("garbled")
    /\ \/ /\ session' = [Counted EXCEPT !.socket_state = "DISCONNECTED"]
          /\ pc' = Failed
       \/ /\ session' = Counted
          /\ pc' \in {Onward(p), Failed}
    /\ UNCHANGED brigade

\* A banner that is taken for a packet, whose length is then beyond a gigabyte: it cannot
\* be allocated, or all that follows is waited for.
AddBanner(p) ==
    /\ Receives(p) /\ Readable(p)
    /\ p.type = "BANNER"
    /\ pc' \in {Failed, [pc EXCEPT !.kx = "none", !.at = "hung"]}
    /\ UNCHANGED <<session, brigade, cause>>

\* Nothing more comes after a reset.  Without a cipher the -1 is taken for a length and
\* what the heap holds for a packet, which may end in a crash.
ReadError ==
    /\ Reads
    /\ session.socket_state = "CONNECTED" /\ tcp = "reset" /\ inq = <<>>
    /\ \/ /\ \E st \in {"CONNECTED", "DISCONNECTED"} : session' = [session EXCEPT !.socket_state = st]
          /\ pc' = Failed
       \/ /\ ~session.newkeys
          /\ pc' = [pc EXCEPT !.kx = "none", !.at = "dead"]
          /\ session' = session
    /\ UNCHANGED <<brigade, tcp, inq, outq, srv, noise, cause>>

\* On a lost connection packet_read returns 0 at once: packet_require gives up, wait_closed
\* and channel_free end, channel_read and channel_write ask again without end.
ReadLost ==
    /\ Reads
    /\ session.socket_state = "DISCONNECTED"
    /\ pc' = IF pc.kx = "none" /\ pc.at = "write" THEN [pc EXCEPT !.wait = "ask"] ELSE Failed
    /\ UNCHANGED <<session, brigade, tcp, inq, outq, srv, noise, cause>>

\* channel_free reads without blocking.
ReadNothing ==
    /\ Reads
    /\ pc.kx = "none" /\ pc.at \in {"free1", "free2"}
    /\ session.socket_state = "CONNECTED"
    /\ pc' = [pc EXCEPT !.wait = "ask"]
    /\ UNCHANGED <<session, brigade, tcp, inq, outq, srv, noise, cause>>

Receive ==
    \/ ReadError \/ ReadLost \/ ReadNothing
    \/ \E p \in Range(inq) :
          \/ AddDisconnect(p) \/ AddChannel(p) \/ AddToBrigade(p) \/ Reexchange(p)
          \/ AddGarbage(p) \/ AddBanner(p)

\* The brigade was asked and has nothing: the first time it is read on, after a packet of
\* a type that was asked for it is a failure, but for packet_burn.
NotThere ==
    /\ Label \in Requires
    /\ pc.wait \in {"ask", "again"} /\ Asked = 0
    /\ pc' = IF pc.wait = "again" /\ Label # "BURN" THEN Failed ELSE [pc EXCEPT !.wait = "read"]
    /\ UNCHANGED <<session, brigade, tcp, inq, outq, srv, noise, cause>>

Takes(label) ==
    /\ Label = label
    /\ pc.wait \in {"ask", "again"} /\ Asked # 0
    /\ brigade' = RemoveAt(brigade, Asked)
    /\ UNCHANGED <<tcp, inq, srv, noise>>

At(label) ==
    /\ Label = label
    /\ UNCHANGED <<tcp, inq, srv, noise>>

----------------------------------------------------------------------------
(* Key exchange                                                            *)

\* The built-in lists, in the order of preference; the agent sets no others.
Kex == <<"group14", "gex", "group1">>
HostKeys == <<"rsa", "dss">>
Crypts == <<"aes256", "aes128", "3des">>
Macs == <<"sha1", "md5">>
Comps == <<"plain", "zlib">>

\* kex_agree_instr for one method after the other
Agree(list, offered) ==
    LET common == {i \in DOMAIN list : list[i] \in offered}
    IN  IF common = {} THEN No ELSE list[CHOOSE i \in common : \A j \in common : i <= j]

Offer(n) == srv.offers[IF n <= Len(srv.offers) THEN n ELSE Len(srv.offers)]

agree_kex(list) == Agree(Kex, Range(list))
agree_hostkey(offered) == Agree(HostKeys, offered)
agree_crypt(offered) == Agree(Crypts, offered)
agree_mac(offered) == Agree(Macs, offered)
agree_comp(offered) == Agree(Comps, offered)

\* The methods in the order they are agreed on.
AgreedOn(o) == <<agree_kex(o.kex), agree_hostkey(o.hostkey),
                agree_crypt(o.crypt.cs), agree_crypt(o.crypt.sc),
                agree_mac(o.mac.cs), agree_mac(o.mac.sc),
                agree_comp(o.comp.cs), agree_comp(o.comp.sc)>>
Agreed == [o \in UNION {Range(s.offers) : s \in Servers} |-> AgreedOn(o)]
AllAgreed(o) == ~Contains(Agreed[o], No)

\* Each method is in use as soon as it is agreed on, up to the first that is not; a zlib
\* stream is begun for each direction that has one.
agree_methods(s, o) ==
    LET Pick(i, old) == IF \A j \in 1 .. i : Agreed[o][j] # No THEN Agreed[o][i] ELSE old
        Stream(comp, old) == IF AllAgreed(o) /\ comp = "zlib" THEN s.lkex ELSE old
    IN  [s EXCEPT !.kex = Pick(1, @), !.burn = o.follows /\ Agreed[o][1] # Head(o.kex),
                  !.local = [@ EXCEPT !.crypt = Pick(3, @), !.mac = Pick(5, @),
                                      !.comp = Pick(7, @), !.z = Stream(Agreed[o][7], @)],
                  !.remote = [@ EXCEPT !.crypt = Pick(4, @), !.mac = Pick(6, @),
                                       !.comp = Pick(8, @), !.z = Stream(Agreed[o][8], @)]]

\* Packets of this exchange are read and written otherwise than before it.
Switches(e, crypt, mac, comp) ==
    /\ session.newkeys
    /\ Block(crypt) # Block(e.crypt) \/ mac # e.mac \/ comp # e.comp \/ comp = "zlib"

\* kexinit.  The flag prevents an exchange inside this one.
SendKexinit ==
    /\ At("kexinit")
    /\ Send([session EXCEPT !.exchanging = TRUE, !.kex = No, !.lkex = @ + 1],
            Packet("KEXINIT", "", session.lkex + 1, NoHash), GoKex("KEXINIT"), KexFailed)
    /\ UNCHANGED <<brigade, cause>>

\* The search for a host key method runs over the end of the list if there is none.
TakeKexinit ==
    /\ Takes("KEXINIT")
    /\ LET o == Offer(Answer.n)
           c == Agreed[o]
       IN  /\ session' = agree_methods([session EXCEPT !.rkex = Answer.n], o)
           /\ pc' = CASE c[1] # No /\ c[2] = No -> [pc EXCEPT !.kx = "none", !.at = "dead"]
                      [] ~AllAgreed(o) /\ (c[1] = No \/ c[2] # No) -> KexFailed
                      [] OTHER -> GoKex(IF c[1] = "gex" THEN "request" ELSE "init")
           /\ Blame(IF ~AllAgreed(o) THEN "methods"
                    ELSE IF \/ Switches(session.local, c[3], c[5], c[7])
                            \/ Switches(session.remote, c[4], c[6], c[8])
                         THEN "switched" ELSE "none")
    /\ UNCHANGED outq

\* The numbers of the group exchange and of the plain one overlap: 31 is the reply of the
\* one and the group of the other.
SendRequest ==
    /\ At("request")
    /\ Send(session, Packet("K34", "", 0, NoHash), GoKex("GROUP"), KexFailed)
    /\ UNCHANGED <<brigade, cause>>

TakeGroup ==
    /\ Takes("GROUP")
    /\ pc' = [GoKex("init") EXCEPT !.group = Answer.tag]
    /\ Blame(IF Answer.tag = "guess" THEN "guess" ELSE "none")
    /\ UNCHANGED <<session, outq>>

SendInit ==
    /\ At("init")
    /\ Send(session, Packet(IF session.kex = "gex" THEN "K32" ELSE "K30", "", 0, NoHash),
            GoKex(IF session.burn THEN "BURN" ELSE "REPLY"), KexFailed)
    /\ UNCHANGED <<brigade, cause>>

Burn ==
    /\ Takes("BURN")
    /\ session' = [session EXCEPT !.burn = FALSE]
    /\ pc' = GoKex("REPLY")
    /\ Blame(IF Answer.tag # "guess" THEN "guess" ELSE "none")
    /\ UNCHANGED outq

\* The methods group1 and group14 have one group each.
Group == IF session.kex = "gex" THEN pc.group ELSE session.kex
Hash == <<session.lkex, session.rkex, Group>>

\* The signature covers what the server hashed.
TakeReply ==
    /\ Takes("REPLY")
    /\ pc' = IF Answer.h = Hash THEN GoKex("newkeys") ELSE KexFailed
    /\ Blame(IF Answer.h = Hash THEN "none" ELSE "signature")
    /\ UNCHANGED <<session, outq>>

SendNewkeys ==
    /\ At("newkeys")
    /\ Send(session, Packet("NEWKEYS", "", 0, NoHash), GoKex("NEWKEYS"), KexFailed)
    /\ UNCHANGED <<brigade, cause>>

Rekeyed(e, key) == [e EXCEPT !.ctx = e.crypt, !.key = key]

\* Mutant: the exchange is still going on when it is over.
Install_StillExchanging ==
    LET id == IF session.id = NoHash THEN Hash ELSE session.id
        key == <<Hash, id>>
    IN  [session EXCEPT !.newkeys = TRUE, !.id = id,
                        !.local = Rekeyed(@, key), !.remote = Rekeyed(@, key)]

\* The id of the session is the hash of the first exchange, and goes into every key.
Install ==
    LET id == IF session.id = NoHash THEN Hash ELSE session.id
        key == <<Hash, id>>
    IN  [session EXCEPT !.newkeys = TRUE, !.id = id, !.exchanging = FALSE,
                        !.local = Rekeyed(@, key), !.remote = Rekeyed(@, key)]

\* Both directions change when the server's NEWKEYS is there.
TakeNewkeys ==
    /\ Takes("NEWKEYS")
    /\ session' = Install
    /\ pc' = IF pc.at = "startup" THEN [pc EXCEPT !.kx = "none", !.at = "requestService"]
             ELSE Returned
    /\ UNCHANGED <<outq, cause>>

KeyExchange ==
    \/ SendKexinit \/ TakeKexinit \/ SendRequest \/ TakeGroup \/ SendInit \/ Burn
    \/ TakeReply \/ SendNewkeys \/ TakeNewkeys

----------------------------------------------------------------------------
(* newConnection and session_startup                                       *)

\* connectWithPublicKey ignores that there is no session; scpFileFilename then returns.
Connect ==
    /\ At("connect")
    /\ \/ pc' = Go("sendBanner") /\ UNCHANGED cause
       \/ pc' = [pc EXCEPT !.at = "done", !.result = "SESSION_NOT_OPENED"] /\ Blame("lost")
    /\ UNCHANGED <<session, brigade, outq>>

banner_send ==
    /\ At("sendBanner")
    /\ \/ /\ tcp # "reset"
          /\ outq' = <<Packet("BANNER", "banner", 0, NoHash)>>
          /\ pc' = Go("banner")
       \/ /\ tcp # "up"
          /\ outq' = outq
          /\ pc' = Disconnects("SESSION_NOT_OPENED")
    /\ UNCHANGED <<session, brigade, cause>>

\* The first line is the banner, whatever it says.  An end of file is waited out for ever.
banner_receive ==
    /\ Label = "banner"
    /\ \/ /\ inq # <<>>
          /\ inq' = Tail(inq)
          /\ pc' = [pc EXCEPT !.at = "startup", !.kx = "kexinit"]
          /\ Blame(IF Head(inq).tag = "greeting" THEN "greeting" ELSE "none")
       \/ /\ inq = <<>> /\ tcp = "reset"
          /\ pc' = Disconnects("SESSION_NOT_OPENED")
          /\ UNCHANGED <<inq, cause>>
    /\ UNCHANGED <<session, brigade, tcp, outq, srv, noise>>

RequestService ==
    /\ At("requestService")
    /\ Send(session, Packet("SERVICE_REQUEST", "", 0, NoHash), Go("service"),
            Disconnects("SESSION_NOT_OPENED"))
    /\ UNCHANGED <<brigade, cause>>

TakeService ==
    /\ Takes("service")
    /\ pc' = Go("auth")
    /\ UNCHANGED <<session, outq, cause>>

Startup == Connect \/ banner_send \/ banner_receive \/ RequestService \/ TakeService

----------------------------------------------------------------------------
(* Authentication                                                          *)

\* A method is tried, and its answer waited for.
Request(method, label, h) ==
    /\ At("auth")
    /\ Head(pc.todo) = method
    /\ LET p == [pc EXCEPT !.todo = Tail(@)]
       IN  Send(session, Packet("USERAUTH_REQUEST", method, 0, h),
                [p EXCEPT !.at = label, !.wait = "ask"],
                IF p.todo = <<>> THEN Disconnects("AUTHENTICATION_FAILED") ELSE p)
    /\ UNCHANGED <<brigade, cause>>

\* The method none, whose refusal lists the others.
userauth_list == Request("list", "list", NoHash)
password_ex == Request("password", "password", NoHash)
keyboard_interactive_ex == Request("keyboard", "keyboard", NoHash)

\* The signature covers the id of the session.
hostbased_fromfile_ex == Request("hostbased", "hostbased", session.id)

\* First the server is asked, without a signature.
publickey_fromfile_ex == Request("publickey", "pk1", NoHash)

\* file_read_publickey or file_read_privatekey fails.
KeyFileFails ==
    /\ At("auth")
    /\ Head(pc.todo) \in {"publickey", "hostbased"}
    /\ pc' = IF Tail(pc.todo) = <<>> THEN Disconnects("AUTHENTICATION_FAILED")
             ELSE [pc EXCEPT !.todo = Tail(@)]
    /\ UNCHANGED <<session, brigade, outq, cause>>

Waiting == {"list", "password", "hostbased", "pk1", "pk2", "keyboard"}

\* Mutant: an answer that is not a refusal is an acceptance.
TakeSuccess_NotRefused ==
    \E label \in Waiting :
        /\ Takes(label)
        /\ Answer.type # "FAILURE"
        /\ session' = [session EXCEPT !.authenticated = TRUE]
        /\ pc' = Go("scp")
        /\ UNCHANGED <<outq, cause>>

TakeSuccess ==
    \E label \in Waiting :
        /\ Takes(label)
        /\ Answer.type = "SUCCESS"
        /\ session' = [session EXCEPT !.authenticated = TRUE]
        /\ pc' = Go("scp")
        /\ UNCHANGED <<outq, cause>>

TakeFailure ==
    \E label \in Waiting :
        /\ Takes(label)
        /\ Answer.type = "FAILURE"
        /\ pc' = NextMethod
        /\ UNCHANGED <<session, outq, cause>>

\* PASSWD_CHANGEREQ: the callback has another password, or there is none.
TakeChangeRequest ==
    /\ Takes("password")
    /\ Answer.type = "M60"
    /\ \/ Send(session, Packet("USERAUTH_REQUEST", "change", 0, NoHash), Go("password"), NextMethod)
       \/ pc' = NextMethod /\ UNCHANGED <<session, outq>>
    /\ UNCHANGED cause

\* PK_OK: the private key is read and signs the request.
TakePkOk ==
    /\ Takes("pk1")
    /\ Answer.type = "M60"
    /\ \/ Send(session, Packet("USERAUTH_REQUEST", "signed", 0, session.id), Go("pk2"), NextMethod)
       \/ pc' = NextMethod /\ UNCHANGED <<session, outq>>
    /\ UNCHANGED cause

\* INFO_REQUEST: the callback answers, and the wait begins again.
TakeInfoRequest ==
    /\ Takes("keyboard")
    /\ Answer.type = "M60"
    /\ Send(session, Packet("INFO_RESPONSE", "", 0, NoHash), Go("keyboard"), NextMethod)
    /\ UNCHANGED cause

Userauth ==
    \/ userauth_list \/ password_ex \/ keyboard_interactive_ex \/ hostbased_fromfile_ex
    \/ publickey_fromfile_ex \/ KeyFileFails \/ TakeSuccess \/ TakeFailure
    \/ TakeChangeRequest \/ TakePkOk \/ TakeInfoRequest

----------------------------------------------------------------------------
(* scpFileFilename and scp_send_ex                                         *)

\* The file is not there, or a channel is opened for it.
OpenChannel ==
    /\ At("scp")
    /\ \/ pc' = Disconnects("FILE_NOT_FOUND") /\ UNCHANGED <<session, outq>>
       \/ Send([session EXCEPT !.chan.st = "open"], Packet("OPEN", "", 0, NoHash), Go("open"),
               ChannelError("free1"))
    /\ UNCHANGED <<brigade, cause>>

NoChannel == [st |-> "none", win |-> 0, lclose |-> FALSE, rclose |-> FALSE]

TakeOpen ==
    /\ Takes("open")
    /\ IF Answer.type = "OPEN_CONFIRMATION"
       THEN /\ session' = [session EXCEPT !.chan.win = Answer.n]
            /\ pc' = Go("startExec")
       ELSE /\ session' = [session EXCEPT !.chan = NoChannel]
            /\ pc' = ChannelError("free1")
    /\ UNCHANGED <<outq, cause>>

process_startup ==
    /\ At("startExec")
    /\ Send(session, Packet("EXEC", "", 0, NoHash), Go("exec"), ChannelError("free"))
    /\ UNCHANGED <<brigade, cause>>

TakeExec ==
    /\ Takes("exec")
    /\ pc' = IF Answer.type = "CHANNEL_SUCCESS" THEN Go("ack1") ELSE ChannelError("free")
    /\ UNCHANGED <<session, outq, cause>>

\* channel_read of one byte: a zero is the go-ahead for the line with the size, or for
\* the content.
TakeAck ==
    \E label \in {"ack1", "ack2"} :
        /\ Takes(label)
        /\ pc' = IF Answer.tag # "ok" THEN ChannelError("free")
                 ELSE IF label = "ack1" THEN Go("line") ELSE Go("write")
        /\ UNCHANGED <<session, outq, cause>>

\* Nothing to read yet: a closed channel has no more, else a packet is waited for.
NoAck ==
    /\ \E label \in {"ack1", "ack2"} : At(label)
    /\ pc.wait = "ask" /\ Asked = 0
    /\ pc' = IF session.chan.rclose THEN ChannelError("free") ELSE [pc EXCEPT !.wait = "read"]
    /\ UNCHANGED <<session, brigade, outq, cause>>

SendLine ==
    /\ At("line")
    /\ Send(session, Packet("DATA", "line", 0, NoHash), Go("ack2"), ChannelError("free"))
    /\ UNCHANGED <<brigade, cause>>

\* Mutant: the channel does not block, so that one write is all there is.
WritePiece_Once ==
    /\ At("write")
    /\ pc.wait = "ask" /\ pc.left > 0 /\ session.chan.win > 0
    /\ Send([session EXCEPT !.chan.win = @ - 1], Packet("DATA", "piece", 0, NoHash),
            Go("eof"), Go("eof"))
    /\ UNCHANGED <<brigade, cause>>

\* A write that fails ends the loop.  The count it returns has no sign, so that the
\* caller goes on as after a whole write.
WritePiece ==
    /\ At("write")
    /\ pc.wait = "ask" /\ pc.left > 0 /\ session.chan.win > 0
    /\ Send([session EXCEPT !.chan.win = @ - 1], Packet("DATA", "piece", 0, NoHash),
            [pc EXCEPT !.left = @ - 1], Go("eof"))
    /\ UNCHANGED <<brigade, cause>>

\* No window, which is waited for even when the channel is closed; or nothing left.
WriteWaits ==
    /\ At("write")
    /\ pc.wait = "ask" /\ (pc.left = 0 \/ session.chan.win = 0)
    /\ pc' = IF pc.left = 0 THEN Go("eof") ELSE [pc EXCEPT !.wait = "read"]
    /\ UNCHANGED <<session, brigade, outq, cause>>

send_eof ==
    /\ At("eof")
    /\ Send(session, Packet("EOF", "", 0, NoHash), Go("close"), Go("close"))
    /\ UNCHANGED <<brigade, cause>>

close ==
    /\ At("close")
    /\ Send([session EXCEPT !.chan.lclose = TRUE], Packet("CLOSE", "", 0, NoHash),
            Go("waitClosed"), Go("waitClosed"))
    /\ UNCHANGED <<brigade, cause>>

wait_closed ==
    /\ At("waitClosed")
    /\ pc.wait = "ask"
    /\ pc' = IF session.chan.rclose THEN [pc EXCEPT !.at = "free", !.cont = "0"]
             ELSE [pc EXCEPT !.wait = "read"]
    /\ UNCHANGED <<session, brigade, outq, cause>>

Scp ==
    \/ OpenChannel \/ TakeOpen \/ process_startup \/ TakeExec \/ TakeAck \/ NoAck \/ SendLine
    \/ WritePiece \/ WriteWaits \/ send_eof \/ close \/ wait_closed

----------------------------------------------------------------------------
(* channel_free, disconnect and session_free                               *)

Continues == CASE pc.cont = "throw" -> Disconnects("Channel_Error")
               [] pc.cont = "0" -> Disconnects("0")
               [] OTHER -> [pc EXCEPT !.at = "done"]

\* A channel that cannot be closed stays, and session_free comes back to it.
free ==
    /\ At("free")
    /\ IF ~session.chan.lclose /\ session.socket_state = "CONNECTED"
       THEN Send([session EXCEPT !.chan.lclose = TRUE], Packet("CLOSE", "", 0, NoHash),
                 [pc EXCEPT !.at = "free1", !.wait = "read"], Continues)
       ELSE /\ pc' = [pc EXCEPT !.at = "free1", !.wait = "read"]
            /\ UNCHANGED <<session, outq>>
    /\ UNCHANGED <<brigade, cause>>

\* The packets of the channel are cleared.  Each look at a stream is preceded by a read,
\* whose packet it may miss (see SshChannel); after two that find nothing the channel goes.
Clear ==
    /\ Takes("free1")
    /\ pc' = [pc EXCEPT !.wait = "read"]
    /\ UNCHANGED <<session, outq, cause>>

Cleared ==
    /\ \E label \in {"free1", "free2"} : At(label)
    /\ pc.wait = "ask"
    /\ IF pc.at = "free1" THEN pc' = [pc EXCEPT !.at = "free2", !.wait = "read"] /\ session' = session
       ELSE pc' = Continues /\ session' = [session EXCEPT !.chan = NoChannel]
    /\ UNCHANGED <<brigade, outq, cause>>

disconnect ==
    /\ At("disconnect")
    /\ Send(session, Packet("DISCONNECT", "", 0, NoHash), Go("freeSession"), Go("freeSession"))
    /\ UNCHANGED <<brigade, cause>>

session_free ==
    /\ At("freeSession")
    /\ pc' = IF session.chan.st = "none" THEN [pc EXCEPT !.at = "done"]
             ELSE [pc EXCEPT !.at = "free", !.cont = "end"]
    /\ UNCHANGED <<session, brigade, outq, cause>>

Ending == free \/ Clear \/ Cleared \/ disconnect \/ session_free

Client == Receive \/ NotThere \/ KeyExchange \/ Startup \/ Userauth \/ Scp \/ Ending

----------------------------------------------------------------------------
(* The server                                                              *)

\* Its packets, encoded one after the other.
Encoded(e, ps) == [i \in DOMAIN ps |->
                    [ps[i] EXCEPT !.enc = Encoding([e EXCEPT !.seq = @ + i - 1], e.key # NoKey)]]
Sends(s, ps) ==
    /\ inq' = inq \o Encoded(s.out, ps)
    /\ srv' = [s EXCEPT !.out.seq = @ + Len(ps)]

\* While it exchanges keys it holds back everything else.
Replies(s, ps) ==
    IF s.exch THEN srv' = [s EXCEPT !.held = @ \o ps] /\ UNCHANGED inq ELSE Sends(s, ps)

Serves(p) ==
    /\ tcp = "up" /\ outq # <<>>
    /\ p = Head(outq)
    /\ outq' = Tail(outq)
    /\ UNCHANGED <<session, brigade, pc>>

Heard(p) == /\ p.type # "BANNER"
            /\ p.enc = Encoding(srv.in, srv.in.key # NoKey)
Next1 == [srv EXCEPT !.in.seq = @ + 1]

\* A packet that cannot be read, or methods that cannot be agreed on, end the connection.
ServeNot(p) ==
    /\ Serves(p)
    /\ p.type # "BANNER"
    /\ \/ ~Heard(p) /\ Blame("garbled")
       \/ Heard(p) /\ p.type = "KEXINIT" /\ ~AllAgreed(Offer(srv.sk)) /\ Blame("methods")
       \/ Heard(p) /\ p.type = "DISCONNECT" /\ UNCHANGED cause
    /\ IF p.type = "DISCONNECT" THEN UNCHANGED <<inq, srv>>
       ELSE Sends(Next1, <<Packet("DISCONNECT", "", 0, NoHash)>>)
    /\ tcp' = "fin"
    /\ UNCHANGED noise

ServeBanner(p) ==
    /\ Serves(p) /\ p.type = "BANNER"
    /\ UNCHANGED <<inq, srv, tcp, noise, cause>>

End(e, dir, key) ==
    LET c == Agreed[Offer(srv.sk)]
        i == IF dir = "cs" THEN 3 ELSE 4
    IN  [crypt |-> c[i], ctx |-> c[i], mac |-> c[i + 2], comp |-> c[i + 4], key |-> key,
         z |-> srv.ck, seq |-> e.seq]

ServerHash == <<srv.ck, srv.sk, srv.kex>>
ServerKey == <<ServerHash, IF srv.id = NoHash THEN ServerHash ELSE srv.id>>

\* The reply and NEWKEYS go out together; what was held back follows with the new keys.
ServeKex(p) ==
    /\ Serves(p) /\ Heard(p)
    /\ \/ /\ p.type = "KEXINIT" /\ AllAgreed(Offer(srv.sk))
          /\ srv' = [Next1 EXCEPT !.ck = p.n, !.kex = Agreed[Offer(srv.sk)][1]]
          /\ UNCHANGED inq
       \/ /\ p.type = "K34"
          /\ Sends(Next1, <<Packet("K31", "gex", 0, NoHash)>>)
       \/ /\ p.type \in {"K30", "K32"}
          /\ LET now == Encoded(srv.out, <<Packet(IF p.type = "K30" THEN "K31" ELSE "K33", "reply",
                                                  0, ServerHash),
                                           Packet("NEWKEYS", "", 0, NoHash)>>)
                 out == End([srv.out EXCEPT !.seq = @ + 2], "sc", ServerKey)
             IN  /\ inq' = inq \o now \o Encoded(out, srv.held)
                 /\ srv' = [Next1 EXCEPT !.out = [out EXCEPT !.seq = @ + Len(srv.held)],
                                         !.held = <<>>, !.id = ServerKey[2], !.exch = FALSE]
       \/ /\ p.type = "NEWKEYS"
          /\ srv' = [srv EXCEPT !.in = End([@ EXCEPT !.seq = @ + 1], "cs", ServerKey)]
          /\ UNCHANGED inq
    /\ UNCHANGED <<tcp, noise, cause>>

ServeService(p) ==
    /\ Serves(p) /\ Heard(p) /\ p.type = "SERVICE_REQUEST"
    /\ Replies(Next1, <<Packet("SERVICE_ACCEPT", "", 0, NoHash)>>)
    /\ UNCHANGED <<tcp, noise, cause>>

\* A signature is good if it covers the server's id of the session.
ServeAuth(p) ==
    /\ Serves(p) /\ Heard(p) /\ p.type \in {"USERAUTH_REQUEST", "INFO_RESPONSE"}
    /\ \/ /\ p.tag # "publickey"
          /\ p.tag \in {"signed", "hostbased"} => p.h = srv.id
          /\ Replies([Next1 EXCEPT !.authed = TRUE], <<Packet("SUCCESS", "", 0, NoHash)>>)
          /\ UNCHANGED noise
       \/ /\ p.tag \notin {"list", "signed", "hostbased"}
          /\ p.tag # "publickey" => noise < MaxQuestions
          /\ Replies(Next1, <<Packet("M60", "", 0, NoHash)>>)
          /\ noise' = IF p.tag = "publickey" THEN noise ELSE noise + 1
       \/ /\ Replies(Next1, <<Packet("FAILURE", "", 0, NoHash)>>)
          /\ UNCHANGED noise
    /\ UNCHANGED <<tcp, cause>>

\* The remote scp answers each part; it may fail at any.
ServeChannel(p) ==
    /\ Serves(p) /\ Heard(p)
    /\ \/ /\ p.type = "OPEN"
          /\ \/ /\ Replies([Next1 EXCEPT !.chan = "open"],
                           <<Packet("OPEN_CONFIRMATION", "", 1, NoHash)>>)
                /\ UNCHANGED cause
             \/ Replies(Next1, <<Packet("OPEN_FAILURE", "", 0, NoHash)>>) /\ Blame("refused")
       \/ /\ p.type = "EXEC"
          /\ \/ /\ Replies(Next1, <<Packet("CHANNEL_SUCCESS", "", 0, NoHash),
                                    Packet("DATA", "ok", 0, NoHash)>>)
                /\ UNCHANGED cause
             \/ Replies(Next1, <<Packet("CHANNEL_FAILURE", "", 0, NoHash)>>) /\ Blame("refused")
       \/ /\ p.type = "DATA" /\ p.tag = "line"
          /\ \/ Replies(Next1, <<Packet("DATA", "ok", 0, NoHash)>>) /\ UNCHANGED cause
             \/ /\ Replies(Next1, <<Packet("DATA", "error", 0, NoHash)>>)
                /\ Blame("refused")
       \/ /\ p.type = "DATA" /\ p.tag = "piece"
          /\ LET s == [Next1 EXCEPT !.file = @ + 1]
             IN  Replies(s, <<Packet("WINDOW_ADJUST", "", 1, NoHash)>>
                            \o IF s.file = Pieces THEN <<Packet("DATA", "ok", 0, NoHash)>> ELSE <<>>)
          /\ UNCHANGED cause
       \/ /\ p.type = "EOF"
          /\ srv' = Next1
          /\ UNCHANGED <<inq, cause>>
       \/ /\ p.type = "CLOSE"
          /\ IF srv.chan = "open"
             THEN Replies([Next1 EXCEPT !.chan = "closed"], <<Packet("CLOSE", "", 0, NoHash)>>)
             ELSE srv' = Next1 /\ UNCHANGED inq
          /\ UNCHANGED cause
    /\ UNCHANGED <<tcp, noise>>

Serve ==
    \E p \in Range(outq) :
        \/ ServeNot(p) \/ ServeBanner(p) \/ ServeKex(p) \/ ServeService(p) \/ ServeAuth(p)
        \/ ServeChannel(p)

\* Bound: once something has gone wrong, the server and the network do nothing unasked.
Unharmed == cause = "none"

\* The remote scp ends early, with its channel.
ServerCloses ==
    /\ tcp = "up" /\ Unharmed /\ srv.chan = "open" /\ srv.file < Pieces /\ ~srv.exch
    /\ Sends([srv EXCEPT !.chan = "closed"], <<Packet("CLOSE", "", 0, NoHash)>>)
    /\ Blame("refused")
    /\ UNCHANGED <<session, brigade, pc, tcp, outq, noise>>

\* The keys are old, or enough was sent: the server starts another exchange.
ServerRekeys ==
    /\ tcp = "up" /\ Unharmed /\ ~srv.exch /\ srv.in.key = srv.out.key
    /\ srv.sk <= MaxRekeys
    /\ LET o == Offer(srv.sk + 1)
       IN  Sends([srv EXCEPT !.exch = TRUE, !.sk = @ + 1],
                 <<Packet("KEXINIT", "", srv.sk + 1, NoHash)>>
                 \o IF o.guess = "none" THEN <<>> ELSE <<Packet(o.guess, "guess", 0, NoHash)>>)
    /\ UNCHANGED <<session, brigade, pc, tcp, outq, noise, cause>>

\* A banner for the user, which nobody asks the brigade for.
ServerBanner ==
    /\ tcp = "up" /\ Unharmed /\ ~srv.exch /\ ~srv.authed
    /\ noise < MaxNoise
    /\ noise' = noise + 1
    /\ Sends(srv, <<Packet("USERAUTH_BANNER", "", 0, NoHash)>>)
    /\ UNCHANGED <<session, brigade, pc, tcp, outq, cause>>

\* A reset takes with it what has not been read.
Lost ==
    /\ tcp = "up" /\ Unharmed
    /\ tcp' \in {"fin", "reset"}
    /\ inq' = IF tcp' = "reset" THEN <<>> ELSE inq
    /\ Blame("lost")
    /\ UNCHANGED <<session, brigade, pc, outq, srv, noise>>

Server == Serve \/ ServerCloses \/ ServerRekeys \/ ServerBanner \/ Lost

\* The socket is closed in the end.
Over == pc.at \in {"done", "dead"}
Next == ~Over /\ (Client \/ Server)

Spec == Init /\ [][Next]_vars

\* The thread runs, and a server that is up answers what it gets.
FairSpec == Spec /\ WF_vars(~Over /\ Client) /\ WF_vars(~Over /\ Serve)

----------------------------------------------------------------------------
(* Properties                                                              *)

Causes == {"none", "greeting", "methods", "switched", "guess", "signature", "garbled",
           "refused", "lost"}
Results == {"none", "SESSION_NOT_OPENED", "AUTHENTICATION_FAILED", "FILE_NOT_FOUND",
            "Channel_Error", "0"}

\* The session is in one of its states: a channel whose window counts what is granted, an
\* exchange that is marked as such for as long as it lasts, and a result only at the end.
TypeOK ==
    /\ session.socket_state \in {"CONNECTED", "DISCONNECTED"}
    /\ session.chan.st \in {"none", "open"} /\ session.chan.win \in 0 .. Pieces + 1
    /\ pc.kx \notin {"none", "kexinit"} => session.exchanging
    /\ pc.result \in Results /\ pc.left \in 0 .. Pieces
    /\ pc.at = "done" => pc.result # "none"
    /\ tcp \in {"up", "fin", "reset"}
    /\ srv.file \in 0 .. Pieces
    /\ cause \in Causes

\* Every packet is read with the keys, the methods and the sequence number it was written
\* with, in both directions and across every exchange of keys, nested where it may, until
\* something else goes wrong: a re-exchange that agrees on another MAC, block size or on
\* compression, a guess of the server that is mistaken, or a lost connection.
InStep == cause # "garbled"

\* The reply whose signature is checked is the one to this exchange: not the guess the
\* server sent ahead, which is burned, nor one for other KEXINITs.
RepliesVerify == cause # "signature"

\* The id of the session is the same at both ends from the first exchange on, as the
\* signatures of publickey and hostbased authentication and all later keys need.
SameId == session.id # NoHash /\ srv.id # NoHash => session.id = srv.id

\* Both ends have the same keys in use, for the same packets, derived from the same
\* exchanges, however these are nested in the waits of the session; and every variable
\* has its type.
KeysAgree == TypeOK /\ InStep /\ RepliesVerify /\ SameId

\* The client takes itself for authenticated, and goes on to open a channel, only when
\* the server has accepted it, whichever methods were tried and questions asked before.
AuthenticatedByServer ==
    session.authenticated \/ session.chan.st # "none" => srv.authed

\* scpFileFilename returns 0 only when the server has the whole file, as long as the
\* connection lasts and the remote scp does not fail.
UploadWhole == pc.result = "0" /\ cause = "none" => srv.file = Pieces

\* The upload comes to an end, whenever and in whichever wait the server starts another
\* exchange of keys, unless something keeps it from going well.
Finishes == <>(Over \/ cause # "none")
=============================================================================
