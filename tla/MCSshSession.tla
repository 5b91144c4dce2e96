----------------------------- MODULE MCSshSession -----------------------------
(***************************************************************************)
(* Servers and programs for SshSession.                                    *)
(***************************************************************************)
EXTENDS SshSession

Both(set) == [cs |-> set, sc |-> set]
Normal == [kex |-> <<"group1", "group14">>, hostkey |-> {"dss"}, crypt |-> Both({"aes256", "3des"}),
           mac |-> Both({"sha1", "md5"}), comp |-> Both({"plain"}), follows |-> FALSE,
           guess |-> "none"]
Gex == [Normal EXCEPT !.kex = <<"gex">>]
\* A guess that is wrong, and a flag for one that is right and needs no packet.
Fast(kex, type) == [Normal EXCEPT !.kex = <<"fast", kex>>, !.follows = TRUE, !.guess = type]
Flag == [Normal EXCEPT !.kex = <<"group14">>, !.follows = TRUE]
OtherCipher == [Normal EXCEPT !.crypt = [cs |-> {"aes128"}, sc |-> {"aes256"}]]
OtherMac == [Normal EXCEPT !.mac = [cs |-> {"sha1"}, sc |-> {"md5"}]]
Zlib == [Normal EXCEPT !.comp = [cs |-> {"zlib"}, sc |-> {"plain"}]]

Quiet(offers) == [greets |-> FALSE, offers |-> offers]
TheServers ==
    {Quiet(<<Normal>>), Quiet(<<Gex, OtherCipher>>), Quiet(<<Normal, OtherMac>>),
     Quiet(<<Fast("group14", "K31"), Flag>>),
     Quiet(<<Fast("gex", "K30")>>), Quiet(<<Fast("gex", "K31")>>), Quiet(<<Zlib>>),
     Quiet(<<[Normal EXCEPT !.hostkey = {"ecdsa"}]>>),
     Quiet(<<[Normal EXCEPT !.crypt.sc = {"arcfour"}]>>),
     [greets |-> TRUE, offers |-> <<Normal>>]}

ThePrograms == {<<"publickey">>, <<"list", "password">>, <<"hostbased", "keyboard">>}
=============================================================================
