---------------------------- MODULE RemoteConfig ----------------------------
(***************************************************************************)
(* The exchange of the agent's configuration file with the server:         *)
(* Pandora_Windows_Service::checkConfig and the reload that pandora_run    *)
(* makes after it.  The server keeps the configuration and its digest in   *)
(* two files.  The agent fetches the digest, uploads both files if it      *)
(* cannot get it, and fetches the configuration if the digest differs from *)
(* that of its own file.  The web console, which is not part of this       *)
(* repository, edits the server's two files meanwhile.                     *)
(***************************************************************************)
EXTENDS Naturals

CONSTANTS
    Versions,       \* whole configuration files
    Enabled,        \* those that say remote_config 1 and do not set debug
    CutOn, CutOff,  \* files cut short in mid-write, with and without remote_config 1
    None,           \* no such file on the server
    BadMd5,         \* a digest file of less than 32 bytes
    TransferMode,   \* transfer_mode of every version
    HealedAtStart,  \* the values healed may start with
    FileOpsMayFail, \* may file operations of the agent fail?
    MaxConsoleEdits,       \* bound: edits made in the console
    MaxCrashes      \* bound: how often the agent dies

Cut   == {CutOn, CutOff}
Files == Versions \cup Cut

ASSUME RemoteConfigAssumption ==
    /\ Enabled \subseteq Versions
    /\ None \notin Files /\ BadMd5 \notin Files \cup {None}
    /\ CutOn \notin Versions /\ CutOff \notin Versions /\ CutOn # CutOff
    /\ HealedAtStart \subseteq BOOLEAN
    /\ FileOpsMayFail \in BOOLEAN
    /\ MaxConsoleEdits \in Nat
    /\ MaxCrashes \in Nat

VARIABLES
    local,      \* pandora_agent.conf
    loaded,     \* the file the Pandora_Agent_Conf in memory was read from
    serverConf, \* the server's .conf file
    serverMd5,  \* the server's .md5 file, as the file it is the digest of
    healed,     \* from now on the server, the way to it and the agent's disk work
    conf_pc,         \* the position in checkConfig
    confStr,    \* conf_str: the file as read, later the one received
    console,    \* the edit whose digest the console still has to save
    consoleEdits, crashes,
    spoiled     \* history: a write of pandora_agent.conf was cut short, or a cut
                \* upload came to lie under the digest of another file

exchangeVars == <<local, loaded, serverConf, serverMd5, healed, conf_pc, confStr, console,
          consoleEdits, crashes, spoiled>>
serverVars == <<serverConf, serverMd5>>
envVars == <<healed, console, consoleEdits, crashes>>

ConfPCs == {"idle", "recvMd5", "upConf", "upMd5", "unchanged", "recvConf", "save",
        "write", "reload"}

ConfTypeOK ==
    /\ local \in Files
    /\ loaded \in Files
    /\ serverConf \in Files \cup {None}
    /\ serverMd5 \in Files \cup {None, BadMd5}
    /\ healed \in BOOLEAN
    /\ conf_pc \in ConfPCs
    /\ confStr \in Files \cup {None}
    /\ console \in Versions \cup {None}
    /\ consoleEdits \in 0 .. MaxConsoleEdits
    /\ crashes \in 0 .. MaxCrashes
    /\ spoiled \in BOOLEAN

\* The agent is installed with some configuration; the server has none yet.
ConfInit ==
    /\ local \in Enabled
    /\ loaded = local
    /\ serverConf = None
    /\ serverMd5 = None
    /\ healed \in HealedAtStart
    /\ conf_pc = "idle"
    /\ confStr = None
    /\ console = None
    /\ consoleEdits = 0
    /\ crashes = 0
    /\ spoiled = FALSE
---------------------------------------------------------------------------
\* Files that say remote_config 1, whole or not.
On == Enabled \cup {CutOn}

\* recvDataFile: only the exact mode "tentacle" can fetch a file.
CanReceive(f) == TransferMode = "tentacle" /\ f # None
MayFail(f)    == ~CanReceive(f) \/ ~healed

\* A file of the agent cannot be read or opened, or its disk is full.
DiskMayFail == FileOpsMayFail /\ ~healed

\* copyDataFile: the empty mode is tentacle too; the return code is not looked at.
CanSend == TransferMode \in {"tentacle", "", "ftp", "ssh", "local"}

\* remote_config is 1: read pandora_agent.conf and compute its digest.
Begin ==
    /\ conf_pc = "idle"
    /\ loaded \in On
    /\ confStr' = local
    /\ conf_pc' = "recvMd5"
    /\ UNCHANGED <<local, loaded, serverVars, envVars, spoiled>>

\* Mutant: the digests are compared the wrong way round.
RecvMd5_Inverted ==
    /\ conf_pc = "recvMd5"
    /\ CanReceive(serverMd5)
    /\ conf_pc' = IF serverMd5 = confStr THEN "recvConf" ELSE "unchanged"
    /\ confStr' = confStr
    /\ UNCHANGED <<local, loaded, serverVars, envVars, spoiled>>

\* Mutant: the length of the digest is not looked at.
RecvMd5_AnyLength ==
    /\ conf_pc = "recvMd5"
    /\ CanReceive(serverMd5)
    /\ conf_pc' = IF serverMd5 = confStr THEN "unchanged" ELSE "recvConf"
    /\ confStr' = confStr
    /\ UNCHANGED <<local, loaded, serverVars, envVars, spoiled>>

\* The digest arrives and is compared with that of the local file; a short one
\* is no digest.  Two files that were cut need not be the same.
RecvMd5 ==
    /\ conf_pc = "recvMd5"
    /\ CanReceive(serverMd5)
    /\ \/ serverMd5 \in {confStr, BadMd5} /\ conf_pc' = "unchanged"
       \/ serverMd5 \notin {confStr, BadMd5} \ Cut /\ conf_pc' = "recvConf"
    /\ confStr' = confStr
    /\ UNCHANGED <<local, loaded, serverVars, envVars, spoiled>>

\* The digest cannot be fetched, for whatever reason.
RecvMd5Fails ==
    /\ conf_pc = "recvMd5"
    /\ MayFail(serverMd5)
    /\ conf_pc' = "upConf"
    /\ UNCHANGED <<local, loaded, serverVars, confStr, envVars, spoiled>>

\* The server offers a cut file as another configuration than the agent's.
Misleads(conf, md5) == conf \in Cut /\ md5 \notin {None, BadMd5, local}

\* writeBinFile and copyDataFile (conf_tmp_file): a full disk cuts the temporary
\* file unnoticed, and what is there is sent.
UploadConf ==
    /\ conf_pc = "upConf"
    /\ \/ CanSend /\ serverConf' = confStr
       \/ CanSend /\ DiskMayFail /\ serverConf' \in Cut
       \/ (~CanSend \/ ~healed) /\ serverConf' = serverConf
    /\ spoiled' = (spoiled \/ Misleads(serverConf', serverMd5))
    /\ conf_pc' = "upMd5"
    /\ UNCHANGED <<local, loaded, serverMd5, confStr, envVars>>

\* The same for the digest (md5_tmp_file).
UploadMd5 ==
    /\ conf_pc = "upMd5"
    /\ \/ CanSend /\ serverMd5' = confStr
       \/ CanSend /\ DiskMayFail /\ serverMd5' = BadMd5
       \/ (~CanSend \/ ~healed) /\ serverMd5' = serverMd5
    /\ conf_pc' = "idle"
    /\ confStr' = None
    /\ UNCHANGED <<local, loaded, serverConf, envVars, spoiled>>

\* The server's configuration arrives in the temporal directory and is read.
RecvConf ==
    /\ conf_pc = "recvConf"
    /\ CanReceive(serverConf)
    /\ confStr' = serverConf
    /\ conf_pc' = "save"
    /\ UNCHANGED <<local, loaded, serverVars, envVars, spoiled>>

\* return 0: nothing to do, the configuration cannot be fetched, or a file of
\* the agent cannot be read or opened.
GiveUp ==
    /\ \/ conf_pc = "unchanged"
       \/ conf_pc = "recvConf" /\ MayFail(serverConf)
       \/ conf_pc \in {"recvMd5", "upConf", "upMd5", "recvConf", "save"} /\ DiskMayFail
    /\ conf_pc' = "idle"
    /\ confStr' = None
    /\ UNCHANGED <<local, loaded, serverVars, envVars, spoiled>>

\* writeBinFile, first half: pandora_agent.conf is truncated.
Save ==
    /\ conf_pc = "save"
    /\ local' \in Cut
    /\ conf_pc' = "write"
    /\ UNCHANGED <<loaded, serverVars, confStr, envVars, spoiled>>

\* Mutant: checkConfig returns 0 after saving.
WriteLocal_NoReload ==
    /\ conf_pc = "write"
    /\ local' = confStr
    /\ conf_pc' = "idle"
    /\ confStr' = None
    /\ UNCHANGED <<loaded, serverVars, envVars, spoiled>>

\* writeBinFile, second half; a full disk goes unnoticed.  checkConfig returns 1.
WriteLocal ==
    /\ conf_pc = "write"
    /\ \/ local' = confStr /\ spoiled' = spoiled
       \/ DiskMayFail /\ local' = local /\ spoiled' = TRUE
    /\ conf_pc' = "reload"
    /\ confStr' = None
    /\ UNCHANGED <<loaded, serverVars, envVars>>

\* pandora_init reads pandora_agent.conf again.
Reload ==
    /\ conf_pc = "reload"
    /\ loaded' = local
    /\ conf_pc' = "idle"
    /\ UNCHANGED <<local, serverVars, confStr, envVars, spoiled>>

checkConfig == \/ Begin \/ RecvMd5 \/ RecvMd5Fails \/ UploadConf \/ UploadMd5
         \/ RecvConf \/ GiveUp \/ Save \/ WriteLocal \/ Reload

\* The agent dies and is started again.
Crash ==
    /\ crashes < MaxCrashes
    /\ crashes' = crashes + 1
    /\ conf_pc' = "idle"
    /\ confStr' = None
    /\ loaded' = local
    /\ spoiled' = (spoiled \/ conf_pc = "write")
    /\ UNCHANGED <<local, serverVars, healed, console, consoleEdits>>

\* External: the console saves a configuration it has found on the server, and
\* then its digest.
ConsoleSavesConf(v) ==
    /\ console = None
    /\ serverConf # None
    /\ consoleEdits < MaxConsoleEdits
    /\ consoleEdits' = consoleEdits + 1
    /\ serverConf' = v
    /\ console' = v
    /\ UNCHANGED <<local, loaded, serverMd5, healed, conf_pc, confStr, crashes, spoiled>>

ConsoleSavesMd5 ==
    /\ console # None
    /\ serverMd5' = console
    /\ spoiled' = (spoiled \/ Misleads(serverConf, console))
    /\ console' = None
    /\ UNCHANGED <<local, loaded, serverConf, healed, conf_pc, confStr, consoleEdits, crashes>>

\* External: the last outage and the last failure of the disk are over.
Heal ==
    /\ ~healed
    /\ healed' = TRUE
    /\ UNCHANGED <<local, loaded, serverVars, conf_pc, confStr, console, consoleEdits, crashes,
                   spoiled>>

ConfNext ==
    \/ checkConfig
    \/ Crash
    \/ \E v \in Versions : ConsoleSavesConf(v)
    \/ ConsoleSavesMd5
    \/ Heal

ConfSpec == ConfInit /\ [][ConfNext]_exchangeVars

\* execRunFunction calls pandora_run again and again, and each call ends.
ConfFairSpec == ConfSpec /\ WF_exchangeVars(checkConfig)
---------------------------------------------------------------------------
(* Properties.                                                              *)

\* Between two runs of checkConfig the configuration in memory is that of
\* pandora_agent.conf: a saved file is always loaded, also if the agent dies.
MemoryMatchesFile == conf_pc \notin {"write", "reload"} => loaded = local

\* Outside the write itself pandora_agent.conf is a whole configuration, unless
\* that write was cut, by the end of the agent or a full disk, or a cut temporary
\* file came to lie on the server under the digest of another configuration.  So a
\* cut upload alone, with no digest there or with its own to follow, does not come
\* back as pandora_agent.conf, whatever fails, is edited or is fetched later.
NeverTorn == ~spoiled /\ conf_pc # "write" => local \in Versions

\* An agent whose configuration says remote_config 1 adopts the server's
\* configuration if, from some time on, the server can be reached and its two
\* files agree and stay as they are.
Adopts ==
    \A v \in Versions :
        <>[](healed /\ serverConf = v /\ serverMd5 = v /\ loaded \in On)
            => <>[](local = v /\ loaded = v)
=============================================================================
