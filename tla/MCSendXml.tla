----------------------------- MODULE MCSendXml -----------------------------
(* Instances of SendXml for TLC. *)
EXTENDS SendXml, TLC

Symmetry == Permutations(Docs) \cup Permutations(Names)

\* The loss properties say nothing of a behaviour in which two mutexes were
\* created.
NotRaced == ~raced

C(dbg, buf, mode, smode, stmode) ==
    [debug |-> dbg, xml_buffer |-> buf, transfer_mode |-> mode,
     secondary_mode |-> smode, secondary_transfer_mode |-> stmode]

\* Every transfer mode, every way of using the secondary server and the three
\* meanings of xml_buffer, and debug mode.
SafetyConfs ==
    {C(FALSE, b, "tentacle", "none", "tentacle") : b \in {0, 2}}
      \cup {C(FALSE, 1, "tentacle", "on_error", "tentacle"),
            C(FALSE, 1, "local", "always", "tentacle"),
            C(FALSE, 1, "", "on_error", "local"),
            C(FALSE, 1, "ssh", "none", ""),
            C(FALSE, 1, "invalid", "on_error", "ftp"),
            C(TRUE, 1, "tentacle", "none", "tentacle")}

\* Buffering, with a transfer mode whose return codes can be relied on.
DrainConfs == {C(FALSE, 1, "tentacle", "none", "tentacle")}
=============================================================================
