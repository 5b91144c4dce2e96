------------------------------ MODULE SendXml ------------------------------
(***************************************************************************)
(* The data path of the agent: Pandora_Windows_Service::sendXml and what   *)
(* it calls (copyDataFile, the four transfer modes, sendBufferedXml).      *)
(*                                                                         *)
(* sendXml runs in the service thread (pandora_run), in the UDP server     *)
(* thread (a REFRESH command) and in one thread per asynchronous module.   *)
(* Each call writes one XML document into a *.data file of the temporal    *)
(* directory (the spool), hands it to the primary and perhaps the          *)
(* secondary server, deletes it or keeps it, and then retries the files    *)
(* that earlier calls kept.  A mutex created on first use is meant to make *)
(* the calls exclude each other.                                           *)
(***************************************************************************)
EXTENDS Naturals, FiniteSets

CONSTANTS
    Threads,        \* the threads that call sendXml
    Main,           \* the service thread
    Docs,           \* identities of XML documents; recycled once forgotten
    Names,          \* data file names: agent_name "." rand() ".data"
    Confs,          \* the configurations a behaviour may start with
    NoThread, NoDoc, NoFile,
    Torn,           \* the content of a file that a call is still writing
    Cut,            \* that of one that stays unfinished: a full disk, a crash
    FileOpsMayFail, \* may fopen and remove fail, and fprintf or fclose cut a file?
    MaxCrashes      \* bound: how often the process dies

Servers == {"primary", "secondary"}
Modes   == {"tentacle", "", "ftp", "ssh", "local", "invalid"}
Conf    == [debug : BOOLEAN, xml_buffer : Nat, transfer_mode : Modes,
            secondary_mode : {"none", "on_error", "always"},
            secondary_transfer_mode : Modes]

ASSUME SendXmlAssumption ==
    /\ Main \in Threads
    /\ NoThread \notin Threads
    /\ NoDoc \notin Docs
    /\ NoFile \notin Docs
    /\ {Torn, Cut} \cap Docs = {}
    /\ NoFile \notin {Torn, Cut}
    /\ Torn # Cut
    /\ Confs \subseteq Conf
    /\ FileOpsMayFail \in BOOLEAN
    /\ MaxCrashes \in Nat

VARIABLES
    conf,       \* the Pandora_Agent_Conf values this path reads
    mutex,      \* the static HANDLE of sendXml: NoThread is 0, t the handle t created
    owner,      \* owner[t]: the thread that holds the mutex t created
    spool,      \* spool[n]: the content of file n of the temporal directory
    healed,     \* the servers and the ways to them are up, for good
    pc, h, doc, file, rc, pending,  \* each thread's position and locals
    received,   \* received[s]: what server s has been given
    written,    \* history: the documents written whole to the spool
    excused,    \* history: those deleted undelivered on purpose (buffer disabled,
                \* disk full) or lost to a reused file name
    raced,      \* history: the mutex has been created over an existing one
    crashes     \* history: how often the process died

threadVars  == <<pc, h, doc, file, rc, pending>>
mutexVars   == <<mutex, owner, raced>>
historyVars == <<written, excused>>
vars == <<conf, mutex, owner, spool, healed, threadVars, received, historyVars,
          raced, crashes>>

Content  == Docs \cup {Torn, Cut}
Files    == {n \in Names : spool[n] # NoFile}

\* Steps between WaitForSingleObject and ReleaseMutex.
Critical == {"build", "write", "send", "send2", "decide", "scan", "resend",
             "resend2", "resent", "release"}
PCs == {"idle", "create", "wait", "blocked"} \cup Critical

TypeOK ==
    /\ conf \in Confs
    /\ mutex \in Threads \cup {NoThread}
    /\ owner \in [Threads -> Threads \cup {NoThread}]
    /\ spool \in [Names -> Content \cup {NoFile}]
    /\ healed \in BOOLEAN
    /\ pc \in [Threads -> PCs]
    /\ h \in [Threads -> Threads \cup {NoThread}]
    /\ doc \in [Threads -> Docs \cup {NoDoc}]
    /\ file \in [Threads -> Names \cup {NoFile}]
    /\ rc \in [Threads -> {0, 1}]
    /\ pending \in [Threads -> SUBSET Names]
    /\ received \in [Servers -> SUBSET Content]
    /\ written \subseteq Docs
    /\ excused \subseteq Docs
    /\ raced \in BOOLEAN
    /\ crashes \in Nat

Init ==
    /\ conf \in Confs
    /\ mutex = NoThread
    /\ owner = [t \in Threads |-> NoThread]
    /\ spool = [n \in Names |-> NoFile]
    /\ healed = FALSE
    /\ pc = [t \in Threads |-> "idle"]
    /\ h = [t \in Threads |-> NoThread]
    /\ doc = [t \in Threads |-> NoDoc]
    /\ file = [t \in Threads |-> NoFile]
    /\ rc = [t \in Threads |-> 0]
    /\ pending = [t \in Threads |-> {}]
    /\ received = [s \in Servers |-> {}]
    /\ written = {} /\ excused = {}
    /\ raced = FALSE
    /\ crashes = 0

---------------------------------------------------------------------------
(* What one call of a copy*DataFile function can do: the code it returns    *)
(* (0 is success) and whether the server got the whole file.                *)

Ok     == [rc |-> 0, got |-> TRUE]
NoAck  == [rc |-> 1, got |-> TRUE]
Failed == [rc |-> 1, got |-> FALSE]
Phantom == [rc |-> 0, got |-> FALSE]

\* tentacle_client.exe not started, timed out and terminated, or a non-zero
\* exit code: all are -1, and the server may have the file all the same.
copyTentacleDataFile(l) == IF l = "up" THEN {Ok} ELSE {Failed, NoAck}

\* ftpFileFilename has no return after CURLE_OK and CURLE_FTP_QUOTE_ERROR: the
\* code is whatever the register holds.  Without a curl handle it switches on an
\* uninitialized result.
copyFtpDataFile(l) == IF l = "up" THEN {Ok, NoAck} ELSE {Failed, NoAck, Phantom}

\* A failed libssh2_channel_write goes unnoticed: "sent < 0" on a size_t.
copyScpDataFile(l) == IF l = "up" THEN {Ok} ELSE {Failed, Phantom}

\* CopyFile fails if the server still has a file of that name; after a success
\* there is no return statement.
copyLocalDataFile(l) == IF l = "up" THEN {Ok, NoAck, Failed} ELSE {Failed}

Outcomes(mode, l) ==
    CASE mode = "ftp"              -> copyFtpDataFile(l)
      [] mode \in {"tentacle", ""} -> copyTentacleDataFile(l)
      [] mode = "ssh"              -> copyScpDataFile(l)
      [] mode = "local"            -> copyLocalDataFile(l)
      [] OTHER                     -> {Failed}

\* Until the last outage is over a transfer may find its server up or down.
CopyOutcomes(mode) ==
    UNION {Outcomes(mode, l) : l \in IF healed THEN {"up"} ELSE {"up", "down"}}

\* The secondary server has no "local" branch.
SecondaryOutcomes(mode) ==
    IF mode = "local" THEN {Failed} ELSE CopyOutcomes(mode)

NeedsSecondary(code) ==
    \/ code # 0 /\ conf.secondary_mode = "on_error"
    \/ conf.secondary_mode = "always"

\* Do the configured modes report success only for a file the server has?
HonestModes ==
    /\ conf.transfer_mode \notin {"ftp", "ssh"}
    /\ \/ conf.secondary_mode = "none"
       \/ conf.secondary_transfer_mode \notin {"ftp", "ssh"}

\* What copyDataFile's return value 0 says of the document.
Delivered(d) ==
    \/ conf.secondary_mode # "always" /\ d \in received["primary"]
    \/ conf.secondary_mode # "none" /\ d \in received["secondary"]
---------------------------------------------------------------------------
Goto(t, l) == pc' = [pc EXCEPT ![t] = l]

\* if (mutex == 0)
Enter(t) ==
    /\ pc[t] = "idle"
    /\ Goto(t, IF mutex = NoThread THEN "create" ELSE "wait")
    /\ UNCHANGED <<conf, mutexVars, spool, healed, h, doc, file, rc, pending,
                   received, historyVars, crashes>>

\* mutex = CreateMutex (NULL, FALSE, NULL)
Create(t) ==
    /\ pc[t] = "create"
    /\ mutex' = t
    /\ owner' = [owner EXCEPT ![t] = NoThread]
    /\ raced' = (raced \/ mutex # NoThread)
    /\ Goto(t, "wait")
    /\ UNCHANGED <<conf, spool, healed, h, doc, file, rc, pending, received,
                   historyVars, crashes>>

\* WaitForSingleObject (mutex, INFINITE): the handle is read, then waited for.
Wait(t) ==
    /\ pc[t] = "wait"
    /\ h' = [h EXCEPT ![t] = mutex]
    /\ Goto(t, "blocked")
    /\ UNCHANGED <<conf, mutexVars, spool, healed, doc, file, rc, pending,
                   received, historyVars, crashes>>

\* Mutant: the result of the wait is not looked at (a zero timeout).
Acquire_NoWait(t) ==
    /\ pc[t] = "blocked"
    /\ owner' = [owner EXCEPT ![h[t]] = t]
    /\ Goto(t, "build")
    /\ UNCHANGED <<conf, mutex, raced, spool, healed, h, doc, file, rc, pending,
                   received, historyVars, crashes>>

Acquire(t) ==
    /\ pc[t] = "blocked"
    /\ owner[h[t]] = NoThread
    /\ owner' = [owner EXCEPT ![h[t]] = t]
    /\ Goto(t, "build")
    /\ UNCHANGED <<conf, mutex, raced, spool, healed, h, doc, file, rc, pending,
                   received, historyVars, crashes>>

\* ReleaseMutex (mutex) fails if another thread holds that mutex.
ReleaseMutex(t) ==
    owner' = IF owner[mutex] = t THEN [owner EXCEPT ![mutex] = NoThread] ELSE owner

\* fopen (tmp_filepath, "wb") fails: PANDORA_EXCEPTION.
OpenFails(t) ==
    /\ pc[t] = "build"
    /\ FileOpsMayFail
    /\ ReleaseMutex(t)
    /\ Goto(t, "idle")
    /\ UNCHANGED <<conf, mutex, raced, spool, healed, h, doc, file, rc, pending,
                   received, historyVars, crashes>>

\* The document is built and the file opened; a file of that name is truncated.
Open(t, d, n) ==
    /\ pc[t] = "build"
    /\ d \notin written \cup {doc[u] : u \in Threads}
    /\ doc' = [doc EXCEPT ![t] = d]
    /\ file' = [file EXCEPT ![t] = n]
    /\ spool' = [spool EXCEPT ![n] = Torn]
    /\ excused' = excused \cup ({spool[n]} \cap Docs)
    /\ Goto(t, "write")
    /\ UNCHANGED <<conf, mutexVars, healed, h, rc, pending, received, written, crashes>>

\* Mutant: no fclose before the file is sent.
Write_NoClose(t) ==
    /\ pc[t] = "write"
    /\ written' = written \cup {doc[t]}
    /\ Goto(t, IF conf.debug THEN "release" ELSE "send")
    /\ UNCHANGED <<conf, mutexVars, spool, healed, h, doc, file, rc, pending,
                   received, excused, crashes>>

\* fprintf and fclose, whose codes nobody looks at: on a full disk the file is
\* cut, and the call goes on with it all the same.  Nothing is sent in debug mode.
Write(t) ==
    /\ pc[t] = "write"
    /\ \/ /\ spool' = [spool EXCEPT ![file[t]] = doc[t]]
          /\ written' = written \cup {doc[t]}
       \/ /\ FileOpsMayFail
          /\ spool' = [spool EXCEPT ![file[t]] = Cut]
          /\ UNCHANGED written
    /\ Goto(t, IF conf.debug THEN "release" ELSE "send")
    /\ UNCHANGED <<conf, mutexVars, healed, h, doc, file, rc, pending, received,
                   excused, crashes>>

\* One transfer of file[t] to server s, with one of the given outcomes.
Transfer(t, s, outcomes) ==
    \E o \in IF spool[file[t]] = NoFile THEN {Failed} ELSE outcomes :
        /\ rc' = [rc EXCEPT ![t] = o.rc]
        /\ received' = IF o.got
                         THEN [received EXCEPT ![s] = @ \cup {spool[file[t]]}]
                         ELSE received

\* copyDataFile, first half: the new file ("send") or a kept one ("resend").
SendPrimary(t) ==
    /\ pc[t] \in {"send", "resend"}
    /\ Transfer(t, "primary", CopyOutcomes(conf.transfer_mode))
    /\ Goto(t, IF NeedsSecondary(rc'[t])
                 THEN IF pc[t] = "send" THEN "send2" ELSE "resend2"
                 ELSE IF pc[t] = "send" THEN "decide" ELSE "resent")
    /\ UNCHANGED <<conf, mutexVars, spool, healed, h, doc, file, pending,
                   historyVars, crashes>>

\* copyDataFile, second half: its code replaces that of the primary server.
SendSecondary(t) ==
    /\ pc[t] \in {"send2", "resend2"}
    /\ Transfer(t, "secondary",
                SecondaryOutcomes(conf.secondary_transfer_mode))
    /\ Goto(t, IF pc[t] = "send2" THEN "decide" ELSE "resent")
    /\ UNCHANGED <<conf, mutexVars, spool, healed, h, doc, file, pending,
                   historyVars, crashes>>

\* Pandora_File::removeFile; its code is ignored.
RemoveFile(n) ==
    \/ spool' = [spool EXCEPT ![n] = NoFile]
    \/ FileOpsMayFail /\ spool' = spool

\* Mutant: the file is deleted whatever the code.
MustRemove_Always(t, lowDisk) == TRUE

\* if (rc == 0 || xml_buffer == 0 || the disk is short of free space)
MustRemove(t, lowDisk) == rc[t] = 0 \/ conf.xml_buffer = 0 \/ lowDisk

Decide(t) ==
    /\ pc[t] = "decide"
    /\ \E lowDisk \in BOOLEAN :
          IF MustRemove(t, lowDisk)
            THEN /\ RemoveFile(file[t])
                 /\ excused' = IF conf.xml_buffer = 0 \/ lowDisk
                                  THEN excused \cup {doc[t]} ELSE excused
            ELSE UNCHANGED <<spool, excused>>
    /\ doc' = [doc EXCEPT ![t] = NoDoc]
    /\ file' = [file EXCEPT ![t] = NoFile]
    /\ rc' = [rc EXCEPT ![t] = 0]
    /\ Goto(t, IF conf.xml_buffer = 1 THEN "scan" ELSE "release")
    /\ UNCHANGED <<conf, mutexVars, healed, h, pending, received, written, crashes>>

\* Mutant: FindFirstFile is taken to have failed.
FindFirst_Skips(t) ==
    /\ pc[t] = "scan"
    /\ Goto(t, "release")
    /\ UNCHANGED <<conf, mutexVars, spool, healed, h, doc, file, rc, pending,
                   received, historyVars, crashes>>

\* sendBufferedXml: FindFirstFile on *.data.
FindFirst(t) ==
    /\ pc[t] = "scan"
    /\ \/ /\ Files = {}
          /\ Goto(t, "release")
          /\ UNCHANGED <<file, pending>>
       \/ \E n \in Files :
             /\ file' = [file EXCEPT ![t] = n]
             /\ pending' = [pending EXCEPT ![t] = Files \ {n}]
             /\ Goto(t, "resend")
    /\ UNCHANGED <<conf, mutexVars, spool, healed, h, doc, rc, received,
                   historyVars, crashes>>

\* A failed copy ends the scan; a good one removes the file and goes on with
\* FindNextFile.
FindNext(t) ==
    /\ pc[t] = "resent"
    /\ IF rc[t] # 0 THEN spool' = spool ELSE RemoveFile(file[t])
    /\ IF rc[t] # 0 \/ pending[t] = {}
         THEN Goto(t, "release") /\ UNCHANGED <<file, pending>>
         ELSE \E n \in pending[t] :
                /\ file' = [file EXCEPT ![t] = n]
                /\ pending' = [pending EXCEPT ![t] = @ \ {n}]
                /\ Goto(t, "resend")
    /\ UNCHANGED <<conf, mutexVars, healed, h, doc, rc, received, historyVars,
                   crashes>>

\* The history of a document that is no longer in the spool is dropped, so
\* that its identity can serve for a later one.
Forget ==
    LET kept == {spool[n] : n \in Names} IN
    /\ written' = written \cap kept
    /\ excused' = excused \cap kept
    /\ received' = [s \in Servers |-> received[s] \cap (kept \cup {Torn})]

Release(t) ==
    /\ pc[t] = "release"
    /\ ReleaseMutex(t)
    /\ Goto(t, "idle")
    /\ h' = [h EXCEPT ![t] = NoThread]
    /\ doc' = [doc EXCEPT ![t] = NoDoc]
    /\ file' = [file EXCEPT ![t] = NoFile]
    /\ rc' = [rc EXCEPT ![t] = 0]
    /\ pending' = [pending EXCEPT ![t] = {}]
    /\ Forget
    /\ UNCHANGED <<conf, mutex, raced, spool, healed, crashes>>

\* The rest of a call once it has begun.
Step(t) ==
    \/ Create(t) \/ Wait(t) \/ Acquire(t)
    \/ OpenFails(t) \/ (\E d \in Docs, n \in Names : Open(t, d, n)) \/ Write(t)
    \/ SendPrimary(t) \/ SendSecondary(t) \/ Decide(t)
    \/ FindFirst(t) \/ FindNext(t) \/ Release(t)

\* The process dies (it is killed, or an exception leaves sendXml: Value_Error
\* of getXml, Channel_Error of scpFileFilename, Invalid_Conversion of a port)
\* and the service is started again.  A file it was writing stays as it is.
Crash ==
    /\ crashes < MaxCrashes
    /\ crashes' = crashes + 1
    /\ mutex' = NoThread
    /\ owner' = [t \in Threads |-> NoThread]
    /\ pc' = [t \in Threads |-> "idle"]
    /\ h' = [t \in Threads |-> NoThread]
    /\ doc' = [t \in Threads |-> NoDoc]
    /\ file' = [t \in Threads |-> NoFile]
    /\ rc' = [t \in Threads |-> 0]
    /\ pending' = [t \in Threads |-> {}]
    /\ spool' = [n \in Names |-> IF spool[n] = Torn THEN Cut ELSE spool[n]]
    /\ Forget
    /\ UNCHANGED <<conf, raced, healed>>

\* The last outage ends: from now on every transfer finds its server.
Heal ==
    /\ ~healed
    /\ healed' = TRUE
    /\ UNCHANGED <<conf, mutexVars, spool, threadVars, received, historyVars, crashes>>

Next ==
    \/ \E t \in Threads : Enter(t) \/ Step(t)
    \/ Crash
    \/ Heal

Spec == Init /\ [][Next]_vars

\* A started call goes on; the service thread calls sendXml again and again
\* (execRunFunction), the other threads need not.
Fairness ==
    /\ \A t \in Threads : WF_vars(Step(t))
    /\ WF_vars(Enter(Main))

FairSpec == Spec /\ Fairness
---------------------------------------------------------------------------
(* Properties.                                                              *)

\* sendXml calls exclude each other between WaitForSingleObject and
\* ReleaseMutex, in every behaviour in which no two threads both found the
\* static handle 0 and created a mutex each.
MutualExclusion ==
    ~raced => \A t, u \in Threads :
                 pc[t] \in Critical /\ pc[u] \in Critical => t = u

\* What "Delete the file if successfully copied, buffer disabled or not enough
\* space available" says of sendXml and sendBufferedXml: a document that was
\* written whole stays in the temporal directory until a server that copyDataFile
\* counts has it, unless it was deleted because the buffer is disabled or the
\* disk is full, or was lost to a file of the same random name.
DeletedOnlyIfCopied ==
    ~raced => \A d \in written :
                 \/ \E n \in Names : spool[n] = d
                 \/ Delivered(d) \/ d \in excused

\* No document is lost, whatever the interleaving of sendXml calls, failures and
\* crashes, with the transfer modes whose return codes can be relied on.
NoSilentLoss == HonestModes => DeletedOnlyIfCopied

\* sendXml and sendBufferedXml never hand a server a file that a call is still
\* writing, whatever the interleaving, also when a scan finds the file of another
\* call and across restarts (with one mutex).  A file that was cut for good, by a
\* full disk or by the end of the process, is sent: nothing tells it from a whole one.
TornNeverSent ==
    ~raced => \A s \in Servers : Torn \notin received[s]

\* The buffer drains: if the servers stay up from some time on, sendXml or a
\* scan of sendBufferedXml delivers every document that was written (in a
\* behaviour with one mutex).
Drains ==
    []~raced /\ <>healed =>
        \A d \in Docs :
            [](d \in written =>
                 <>(Delivered(d) \/ d \in excused))
=============================================================================
