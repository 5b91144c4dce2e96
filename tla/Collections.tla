---------------------------- MODULE Collections ----------------------------
(***************************************************************************)
(* File collections: Pandora_Windows_Service::checkCollections with        *)
(* unzipCollection, purgeDiskCollections and Pandora_File::removeDir.      *)
(* The server keeps a zip file and its digest for each collection.  The    *)
(* agent keeps a directory with the unzipped files and the digest, fetches *)
(* the zip file when the digests differ, and removes what its              *)
(* configuration no longer lists.                                          *)
(***************************************************************************)
EXTENDS Naturals

CONSTANTS
    Colls,          \* collections
    MaxVersion,     \* bound: versions of a collection's content
    NoFile,         \* no such file or directory
    Empty,          \* a file or directory without content (or with part of it)
    Short,          \* a digest file with less than 32 bytes
    NoColl,
    FileOpsMayFail, \* may file operations of the agent fail?
    MaxReconfigs,     \* bound: new configurations
    MaxCrashes      \* bound: how often the agent dies

\* A version of a content stands for its digest too.
Versions == 1 .. MaxVersion

ASSUME CollectionsAssumption ==
    /\ MaxVersion \in Nat \ {0}
    /\ NoFile \notin Versions /\ Empty \notin Versions /\ Short \notin Versions
    /\ NoFile # Empty /\ NoFile # Short /\ Empty # Short
    /\ NoColl \notin Colls
    /\ FileOpsMayFail \in BOOLEAN
    /\ MaxReconfigs \in Nat
    /\ MaxCrashes \in Nat

VARIABLES
    list,       \* the collections in the configuration
    brokers,    \* the configuration has a broker agent
    broker,     \* isBrokerEnabled: it had one at some time since the agent started
    md5,        \* md5[c]: collections\c.md5
    dir,        \* dir[c]: collections\c
    path,       \* the collections in the PATH of the process
    srvZip,     \* the server's zip files
    srvMd5,     \* and their digests
    repaired,   \* from now on the server, the way to it and the agent's disk work
    step,       \* the position in checkCollections
    todo,       \* the collections the iterator has not reached
    cur,        \* the one it is at
    got, zip,   \* the digest and the zip file fetched
    new,        \* no digest was found locally
    entries,    \* purgeDiskCollections: the directory entries it has not looked at
    reconfigs, crashes,
    failed      \* history: collections whose last installation or removal broke off

serverVars == <<list, brokers, broker, srvZip, srvMd5, repaired, reconfigs>>
collVars == <<serverVars, md5, dir, path, step, todo, cur, got, zip, new, entries,
              crashes, failed>>

\* The names in collections\: those of the directories and of the digests.
DirName(c) == <<c, "dir">>
Md5Name(c) == <<c, "md5">>
EntryNames == {DirName(c) : c \in Colls} \cup {Md5Name(c) : c \in Colls}

PCs == {"idle", "next", "recvMd5", "recvZip", "clear", "unzip", "save", "purge"}

CollTypeOK ==
    /\ list \subseteq Colls
    /\ brokers \in BOOLEAN
    /\ broker \in BOOLEAN
    /\ md5 \in [Colls -> Versions \cup {NoFile, Empty, Short}]
    /\ dir \in [Colls -> Versions \cup {NoFile, Empty}]
    /\ path \subseteq Colls
    /\ srvZip \in [Colls -> Versions]
    /\ srvMd5 \in [Colls -> Versions]
    /\ repaired \in BOOLEAN
    /\ step \in PCs
    /\ todo \subseteq Colls
    /\ cur \in Colls \cup {NoColl}
    /\ got \in Versions \cup {NoFile}
    /\ zip \in Versions \cup {NoFile}
    /\ step \in {"clear", "unzip"} => zip # NoFile
    /\ new \in BOOLEAN
    /\ entries \subseteq EntryNames
    /\ reconfigs \in 0 .. MaxReconfigs
    /\ crashes \in 0 .. MaxCrashes
    /\ failed \subseteq Colls

CollInit ==
    /\ list \in SUBSET Colls
    /\ brokers \in BOOLEAN
    /\ broker = brokers
    /\ md5 = [c \in Colls |-> NoFile]
    /\ dir = [c \in Colls |-> NoFile]
    /\ path = {}
    /\ srvZip = [c \in Colls |-> 1]
    /\ srvMd5 = [c \in Colls |-> 1]
    /\ repaired = FALSE
    /\ step = "idle"
    /\ todo = {}
    /\ cur = NoColl
    /\ got = NoFile
    /\ zip = NoFile
    /\ new = FALSE
    /\ entries = {}
    /\ reconfigs = 0
    /\ crashes = 0
    /\ failed = {}
---------------------------------------------------------------------------
\* A file operation of the agent fails, or its disk is full.
DiskMayFail == FileOpsMayFail /\ ~repaired

\* goFirstCollection
Begin ==
    /\ step = "idle"
    /\ todo' = list
    /\ step' = "next"
    /\ UNCHANGED <<serverVars, md5, dir, path, cur, got, zip, new, entries, crashes, failed>>

\* The collection is put in the PATH and its local digest is read: without a
\* (non-empty) file it is a new one, and one that is too short is passed over.
CheckLocal(c) ==
    /\ step = "next"
    /\ c \in todo
    /\ todo' = todo \ {c}
    /\ path' = path \cup {c}
    /\ IF md5[c] = Short
         THEN UNCHANGED <<step, cur, new>>
         ELSE /\ step' = "recvMd5"
              /\ cur' = c
              /\ new' = (md5[c] \in {NoFile, Empty})
    /\ UNCHANGED <<serverVars, md5, dir, got, zip, entries, crashes, failed>>

\* goNextCollection; continue
GoNext ==
    /\ step' = "next"
    /\ cur' = NoColl
    /\ got' = NoFile
    /\ zip' = NoFile
    /\ new' = FALSE

\* The digest arrives.  That of a new collection is saved at once (a full disk
\* leaves it short); an unchanged collection is done.
RecvMd5 ==
    /\ step = "recvMd5"
    /\ IF new
         THEN /\ got' = srvMd5[cur]
              /\ \/ md5' = [md5 EXCEPT ![cur] = got']
                 \/ DiskMayFail /\ \E s \in {Empty, Short} :
                                         md5' = [md5 EXCEPT ![cur] = s]
              /\ step' = "recvZip"
              /\ UNCHANGED <<cur, zip, new>>
         ELSE /\ IF srvMd5[cur] = md5[cur]
                   THEN GoNext
                   ELSE got' = srvMd5[cur] /\ step' = "recvZip" /\ UNCHANGED <<cur, zip, new>>
              /\ md5' = md5
    /\ UNCHANGED <<serverVars, dir, path, todo, entries, crashes, failed>>

\* Mutant: the old directory is removed before the zip file is there.
RecvZip_ClearsFirst ==
    /\ step = "recvZip"
    /\ \/ /\ dir' = [dir EXCEPT ![cur] = Empty]
          /\ zip' = srvZip[cur]
          /\ step' = "clear"
          /\ UNCHANGED <<cur, got, new>>
       \/ /\ ~repaired
          /\ dir' = [dir EXCEPT ![cur] = Empty]
          /\ GoNext
    /\ UNCHANGED <<serverVars, md5, path, todo, entries, crashes, failed>>

\* The zip file arrives in the temporal directory.
RecvZip ==
    /\ step = "recvZip"
    /\ zip' = srvZip[cur]
    /\ step' = "clear"
    /\ UNCHANGED <<serverVars, md5, dir, path, todo, cur, got, new, entries, crashes, failed>>

\* Does breaking off here leave a digest without its content?  That of a new
\* collection is already saved; the old directory goes before the new one comes.
Midway == step = "unzip" \/ (new /\ step \in {"recvZip", "clear"})

\* recvDataFile throws, or a file of the agent cannot be read or opened.
RecvFails ==
    /\ step \in {"recvMd5", "recvZip"}
    /\ ~repaired
    /\ failed' = IF Midway THEN failed \cup {cur} ELSE failed
    /\ GoNext
    /\ UNCHANGED <<serverVars, md5, dir, path, todo, entries, crashes>>

\* unzipCollection returns, in the way it does: its code is not looked at, and
\* only a changed collection still has its digest to be saved.
Unzipped ==
    IF new THEN GoNext ELSE step' = "save" /\ UNCHANGED <<cur, got, zip, new>>

\* unzipCollection: removeDir and mkdir.
ClearDir ==
    /\ step = "clear"
    /\ \/ /\ dir' = [dir EXCEPT ![cur] = Empty]
          /\ step' = "unzip"
          /\ UNCHANGED <<cur, got, zip, new, failed>>
       \/ /\ DiskMayFail
          /\ \E d \in {dir[cur], Empty, NoFile} : dir' = [dir EXCEPT ![cur] = d]
          /\ failed' = failed \cup {cur}
          /\ Unzipped
    /\ UNCHANGED <<serverVars, md5, path, todo, entries, crashes>>

\* unzipCollection: unzip.exe
Unzip ==
    /\ step = "unzip"
    /\ \/ /\ dir' = [dir EXCEPT ![cur] = zip]
          /\ failed' = failed \ {cur}
       \/ /\ DiskMayFail
          /\ failed' = failed \cup {cur}
          /\ dir' = dir
    /\ Unzipped
    /\ UNCHANGED <<serverVars, md5, path, todo, entries, crashes>>

\* The new digest of a changed collection is saved.
SaveMd5 ==
    /\ step = "save"
    /\ \/ md5' = [md5 EXCEPT ![cur] = got]
       \/ DiskMayFail /\ \E s \in {Empty, Short} : md5' = [md5 EXCEPT ![cur] = s]
    /\ GoNext
    /\ UNCHANGED <<serverVars, dir, path, todo, entries, crashes, failed>>

\* isLastCollection; purgeDiskCollections then walks through the directory, unless
\* there is a broker agent.
Last ==
    /\ step = "next"
    /\ todo = {}
    /\ step' = "purge"
    /\ entries' = IF broker THEN {}
                  ELSE {DirName(c) : c \in {b \in Colls : dir[b] # NoFile}}
                         \cup {Md5Name(c) : c \in {b \in Colls : md5[b] # NoFile}}
    /\ UNCHANGED <<serverVars, md5, dir, path, todo, cur, got, zip, new, crashes, failed>>

\* Mutant: isInCollectionList knows directories only.
isInCollectionList_NoMd5(name) == \E p \in list : name = DirName(p)

\* The name is that of a listed collection, or that and ".md5".
isInCollectionList(name) == \E p \in list : name \in {DirName(p), Md5Name(p)}

\* The entries of a collection of the list are passed over.
Spare(name) ==
    /\ step = "purge"
    /\ name \in entries
    /\ isInCollectionList(name)
    /\ entries' = entries \ {name}
    /\ UNCHANGED <<serverVars, md5, dir, path, step, todo, cur, got, zip, new, crashes, failed>>

\* Pandora_File::removeDir of a directory: file after file, then the directory.
\* That something could not be removed goes unnoticed.
PurgeDir(c) ==
    /\ step = "purge"
    /\ DirName(c) \in entries
    /\ ~isInCollectionList(DirName(c))
    /\ \/ /\ dir[c] # Empty
          /\ dir' = [dir EXCEPT ![c] = Empty]
          /\ UNCHANGED <<entries, failed>>
       \/ /\ dir' = [dir EXCEPT ![c] = NoFile]
          /\ entries' = entries \ {DirName(c)}
          /\ failed' = failed
       \/ /\ DiskMayFail
          /\ entries' = entries \ {DirName(c)}
          /\ failed' = failed \cup {c}
          /\ dir' = dir
    /\ UNCHANGED <<serverVars, md5, path, step, todo, cur, got, zip, new, crashes>>

\* removeDir of a digest: an entry of its own, before or after the directory.
PurgeMd5(c) ==
    /\ step = "purge"
    /\ Md5Name(c) \in entries
    /\ ~isInCollectionList(Md5Name(c))
    /\ entries' = entries \ {Md5Name(c)}
    /\ \/ md5' = [md5 EXCEPT ![c] = NoFile] /\ failed' = failed
       \/ DiskMayFail /\ failed' = failed \cup {c} /\ md5' = md5
    /\ UNCHANGED <<serverVars, dir, path, step, todo, cur, got, zip, new, crashes>>

Purged ==
    /\ step = "purge"
    /\ entries = {}
    /\ step' = "idle"
    /\ UNCHANGED <<serverVars, md5, dir, path, todo, cur, got, zip, new, entries, crashes, failed>>

purgeDiskCollections ==
    \/ \E n \in EntryNames : Spare(n)
    \/ \E c \in Colls : PurgeDir(c) \/ PurgeMd5(c)
    \/ Purged

\* Collections of which a purge has removed the directory, or part of it, and not
\* yet the digest.
HalfPurged == {c \in Colls : /\ step = "purge" /\ Md5Name(c) \in entries
                             /\ c \notin list /\ dir[c] \in {NoFile, Empty}}

Agent ==
    \/ Begin \/ (\E c \in Colls : CheckLocal(c)) \/ RecvMd5 \/ RecvZip \/ RecvFails
    \/ ClearDir \/ Unzip \/ SaveMd5 \/ Last \/ purgeDiskCollections

\* The agent dies (the writeBinFile of SaveMd5 is outside any try block, so that
\* a digest file that cannot be opened kills it too) and is started again.
Crash ==
    /\ crashes < MaxCrashes
    /\ crashes' = crashes + 1
    /\ failed' = failed \cup (IF Midway THEN {cur} ELSE {}) \cup HalfPurged
    /\ path' = {}
    /\ step' = "idle"
    /\ todo' = {}
    /\ cur' = NoColl
    /\ got' = NoFile
    /\ zip' = NoFile
    /\ new' = FALSE
    /\ entries' = {}
    /\ broker' = brokers
    /\ UNCHANGED <<list, brokers, srvZip, srvMd5, repaired, reconfigs, md5, dir>>

\* A new configuration, or a broker agent's, has been loaded before the
\* collections are checked; nothing resets broker_enabled.
Reconfigure(l, b) ==
    /\ step = "idle"
    /\ reconfigs < MaxReconfigs
    /\ reconfigs' = reconfigs + 1
    /\ list' = l
    /\ brokers' = b
    /\ broker' = (broker \/ b)
    /\ UNCHANGED <<srvZip, srvMd5, repaired, md5, dir, path, step, todo, cur, got, zip, new,
                   entries, crashes, failed>>

\* External: the server gets a new version of a zip file, then its digest.
NewZip(c) ==
    /\ srvZip[c] < MaxVersion
    /\ srvMd5[c] = srvZip[c]
    /\ srvZip' = [srvZip EXCEPT ![c] = @ + 1]
    /\ UNCHANGED <<list, brokers, broker, srvMd5, repaired, reconfigs, md5, dir, path, step,
                   todo, cur, got, zip, new, entries, crashes, failed>>

NewMd5(c) ==
    /\ srvMd5[c] # srvZip[c]
    /\ srvMd5' = [srvMd5 EXCEPT ![c] = srvZip[c]]
    /\ UNCHANGED <<list, brokers, broker, srvZip, repaired, reconfigs, md5, dir, path, step,
                   todo, cur, got, zip, new, entries, crashes, failed>>

\* External: the last outage and the last failure of the disk are over.
Repair ==
    /\ ~repaired
    /\ repaired' = TRUE
    /\ UNCHANGED <<list, brokers, broker, srvZip, srvMd5, reconfigs, md5, dir, path, step,
                   todo, cur, got, zip, new, entries, crashes, failed>>

CollNext ==
    \/ Agent
    \/ Crash
    \/ \E l \in SUBSET Colls, b \in BOOLEAN : Reconfigure(l, b)
    \/ \E c \in Colls : NewZip(c) \/ NewMd5(c)
    \/ Repair

CollSpec == CollInit /\ [][CollNext]_collVars

\* pandora_run calls checkCollections in every cycle, and each call ends.
CollFairSpec == CollSpec /\ WF_collVars(Agent)
---------------------------------------------------------------------------
(* Properties.                                                              *)

\* A digest that checkCollections has saved stands for a whole directory, unless
\* the last installation or removal of that collection broke off, or it is being
\* installed or purged.
DigestMeansContent ==
    \A c \in Colls \ (failed \cup {cur} \cup HalfPurged) :
        md5[c] \in Versions => dir[c] \in Versions

\* Server and agent are at the same version of a collection.
InSync(c) == dir[c] = srvZip[c] /\ md5[c] = srvMd5[c]

\* The digest on disk is too short for the collection to be looked at, or is the
\* server's although the installation, or the removal when it was not listed, broke
\* off.
Stuck(c) == md5[c] = Short \/ (md5[c] = srvMd5[c] /\ c \in failed)

\* "Check collections to sync it between server and agent": a listed collection
\* ends up as on the server, if the server stays as it is and can be reached and
\* checkCollections is not stuck: whatever else broke off is made good by a
\* later check.
SyncsUnlessStuck ==
    \A c \in Colls :
        <>[](repaired /\ c \in list /\ srvMd5[c] = srvZip[c] /\ ~Stuck(c))
            => <>[]InSync(c)

\* purgeDiskCollections clears away what a collection has left on the disk, also
\* an installation that a crash interrupted, once the collection is not listed
\* any more and files can be removed; it does not while broker_enabled is set.
PurgesUnlisted ==
    \A c \in Colls :
        <>[](repaired /\ c \notin list /\ ~broker) => <>[](dir[c] = NoFile /\ md5[c] = NoFile)

\* In the end checkCollections and purgeDiskCollections have made the disk what the
\* list and the server say.
Converges == SyncsUnlessStuck /\ PurgesUnlisted
=============================================================================
