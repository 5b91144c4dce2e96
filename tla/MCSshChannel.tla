---------------------------- MODULE MCSshChannel ----------------------------
(***************************************************************************)
(* Programs for SshChannel: the calls the agent makes, and others that use *)
(* every call of the library.                                              *)
(***************************************************************************)
EXTENDS SshChannel

On(c, calls) == [i \in DOMAIN calls |-> [op |-> calls[i][1], c |-> c, arg |-> calls[i][2]]]
Open == <<[op |-> "open", c |-> 0, arg |-> 0]>>

\* scp_send_ex and scpFileFilename.
Upload == Open \o On(0, <<<<"blocking", TRUE>>, <<"exec", 0>>, <<"read", 1>>,
    <<"blocking", FALSE>>, <<"blocking", TRUE>>, <<"write", 3>>, <<"eof", 0>>,
    <<"close", 0>>, <<"wait_closed", 0>>, <<"free", 0>>>>)
Reader == Open \o On(0, <<<<"exec", 0>>, <<"setenv", 0>>, <<"blocking", TRUE>>, <<"read", 1>>, <<"read", 2>>,
    <<"read_stderr", 1>>, <<"close", 0>>, <<"free", 0>>>>)
Merger == Open \o On(0, <<<<"exec", 0>>, <<"extended", "MERGE">>, <<"blocking", TRUE>>, <<"read", 2>>,
    <<"read", 1>>, <<"flush", "ALL">>, <<"close", 0>>, <<"wait_closed", 0>>, <<"free", 0>>>>)
Ignorer == Open \o On(0, <<<<"exec", 0>>, <<"read", 1>>, <<"extended", "IGNORE">>, <<"read", 2>>,
    <<"extended", "NORMAL">>, <<"read_stderr", 1>>>>)
Flusher == Open \o On(0, <<<<"pty", 0>>, <<"exec", 0>>, <<"read", 1>>, <<"flush", "DATA">>, <<"read", 1>>,
    <<"flush", "EXTENDED_DATA">>, <<"adjust", 0>>, <<"free", 0>>>>)
Writer == Open \o On(0, <<<<"x11", 0>>, <<"exec", 0>>, <<"write", 2>>, <<"write", 2>>,
    <<"close", 0>>, <<"write", 1>>, <<"close", 0>>, <<"free", 0>>,
    <<"free", 0>>>>)
Two == Open \o Open \o On(0, <<<<"exec", 0>>>>) \o On(1, <<<<"setenv", 0>>, <<"read", 2>>, <<"free", 0>>>>)
    \o On(0, <<<<"read", 2>>>>)

\* A flush grants a negative number while data is on its way.
Wrapper == Open \o On(0, <<<<"exec", 0>>, <<"read_stderr", 1>>, <<"flush", "DATA">>, <<"read", 1>>,
    <<"read_stderr", 1>>>>)

ThePrograms == {Upload, Reader, Merger, Ignorer, Flusher, Writer, Two, Wrapper}
=============================================================================
