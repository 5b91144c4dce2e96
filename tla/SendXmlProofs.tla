--------------------------- MODULE SendXmlProofs ---------------------------
(***************************************************************************)
(* Machine-checked proofs about SendXml, for every set of threads,         *)
(* documents, file names and configurations.                               *)
(***************************************************************************)
EXTENDS SendXml, TLAPS

\* A call that has opened its file has a document and a name; a call that
\* resends a file has its name.
LocalsOK ==
    \A t \in Threads :
        /\ pc[t] \in {"write", "send", "send2", "decide"}
              => doc[t] \in Docs /\ file[t] \in Names
        /\ pc[t] \in {"resend", "resend2", "resent"} => file[t] \in Names

TypeInv == TypeOK /\ LocalsOK

\* Every outcome is one of the four records.
LEMMA OutcomeRange ==
    ASSUME NEW mode
    PROVE  /\ CopyOutcomes(mode) \subseteq {Ok, NoAck, Failed, Phantom}
           /\ SecondaryOutcomes(mode) \subseteq {Ok, NoAck, Failed, Phantom}
<1>1. ASSUME NEW l
      PROVE  Outcomes(mode, l) \subseteq {Ok, NoAck, Failed, Phantom}
  BY DEF Outcomes, copyFtpDataFile, copyTentacleDataFile, copyScpDataFile,
         copyLocalDataFile
<1> QED
  BY <1>1 DEF CopyOutcomes, SecondaryOutcomes

LEMMA TypeInit == Init => TypeInv
<1> SUFFICES ASSUME Init PROVE TypeInv
  OBVIOUS
<1>1. healed \in BOOLEAN /\ raced \in BOOLEAN
  BY Zenon DEF Init
<1> QED
  BY <1>1, SendXmlAssumption
     DEF Init, TypeInv, TypeOK, LocalsOK, PCs, Critical, Content

\* What one transfer does: it sets the caller's return code and gives the server
\* at most the content of the caller's file; a code of 0 means the server has
\* that content unless the mode can report success without a transfer.
LEMMA TransferFacts ==
    ASSUME TypeOK, NEW t \in Threads, file[t] \in Names, NEW s \in Servers,
           NEW outcomes, outcomes \subseteq {Ok, NoAck, Failed, Phantom},
           Transfer(t, s, outcomes)
    PROVE  /\ rc' \in [Threads -> {0, 1}]
           /\ received' \in [Servers -> SUBSET Content]
           /\ \A u \in Threads : u # t => rc'[u] = rc[u]
           /\ \A x \in Servers :
                 /\ received[x] \subseteq received'[x]
                 /\ received'[x] \subseteq received[x] \cup {spool[file[t]]}
           /\ rc'[t] = 0 => spool[file[t]] # NoFile
           /\ rc'[t] = 0 /\ Phantom \notin outcomes => spool[file[t]] \in received'[s]
<1>1. PICK o \in IF spool[file[t]] = NoFile THEN {Failed} ELSE outcomes :
          /\ rc' = [rc EXCEPT ![t] = o.rc]
          /\ received' = IF o.got
                           THEN [received EXCEPT ![s] = @ \cup {spool[file[t]]}]
                           ELSE received
  BY DEF Transfer
<1>2. o \in {Ok, NoAck, Failed, Phantom}
  BY <1>1
<1>3. o.rc \in {0, 1} /\ (o.rc = 0 => o \in {Ok, Phantom})
  BY <1>2 DEF Ok, NoAck, Failed, Phantom
<1>4. spool[file[t]] = NoFile => o.rc # 0 /\ ~o.got
  BY <1>1 DEF Failed
<1>5. spool[file[t]] # NoFile => spool[file[t]] \in Content
  BY DEF TypeOK
<1>6. /\ rc' \in [Threads -> {0, 1}]
      /\ rc'[t] = o.rc
      /\ \A u \in Threads : u # t => rc'[u] = rc[u]
  BY <1>1, <1>3 DEF TypeOK
<1>7. CASE o.got
  <2>1. received' = [received EXCEPT ![s] = @ \cup {spool[file[t]]}]
    BY <1>1, <1>7
  <2>2. spool[file[t]] \in Content
    BY <1>4, <1>5, <1>7
  <2> QED
    BY <1>3, <1>4, <1>6, <2>1, <2>2 DEF TypeOK
<1>8. CASE ~o.got
  <2>1. received' = received
    BY <1>1, <1>8
  <2>2. o.rc = 0 => o = Phantom
    BY <1>3, <1>8 DEF Ok
  <2>3. o = Phantom => Phantom \in outcomes
    BY <1>1 DEF Failed, Phantom
  <2> QED
    BY <1>4, <1>6, <2>1, <2>2, <2>3 DEF TypeOK
<1> QED
  BY <1>7, <1>8

\* The configuration stays and a race is not undone.
LEMMA Frame ==
    ASSUME [Next]_vars
    PROVE  conf' = conf /\ (~raced' => ~raced)
<1> USE DEF Enter, Create, Wait, Acquire, OpenFails, Open, Write, SendPrimary,
            SendSecondary, Decide, FindFirst, FindNext, Release, mutexVars
<1>1. ASSUME NEW t \in Threads, Enter(t) \/ Step(t)
      PROVE  conf' = conf
  BY <1>1 DEF Step
<1>2. ASSUME NEW t \in Threads, Enter(t) \/ Step(t)
      PROVE  ~raced' => ~raced
  BY <1>2 DEF Step
<1> QED
  BY <1>1, <1>2 DEF Next, Crash, Heal, vars

LEMMA TypeStep == TypeInv /\ [Next]_vars => TypeInv'
<1> SUFFICES ASSUME TypeInv, [Next]_vars PROVE TypeInv'
  OBVIOUS
<1> USE SendXmlAssumption DEF TypeInv, LocalsOK, mutexVars, historyVars, threadVars
<1>1. ASSUME NEW t \in Threads, Enter(t) PROVE TypeInv'
  BY <1>1 DEF TypeOK, Enter, Goto, PCs, Critical
<1>2. ASSUME NEW t \in Threads, Create(t) PROVE TypeInv'
  BY <1>2 DEF TypeOK, Create, Goto, PCs, Critical
<1>3. ASSUME NEW t \in Threads, Wait(t) PROVE TypeInv'
  BY <1>3 DEF TypeOK, Wait, Goto, PCs, Critical
<1>4. ASSUME NEW t \in Threads, Acquire(t) PROVE TypeInv'
  BY <1>4 DEF TypeOK, Acquire, Goto, PCs, Critical
<1>5. ASSUME NEW t \in Threads, OpenFails(t) PROVE TypeInv'
  BY <1>5 DEF TypeOK, OpenFails, ReleaseMutex, Goto, PCs, Critical
<1>6. ASSUME NEW t \in Threads, NEW d \in Docs, NEW n \in Names, Open(t, d, n)
      PROVE  TypeInv'
  BY <1>6 DEF TypeOK, Open, Goto, PCs, Critical, Content
<1>7. ASSUME NEW t \in Threads, Write(t) PROVE TypeInv'
  BY <1>7 DEF TypeOK, Write, Goto, PCs, Critical, Content
<1>8. ASSUME NEW t \in Threads, SendPrimary(t) PROVE TypeInv'
  <2>1. file[t] \in Names
    BY <1>8 DEF SendPrimary
  <2>2. rc' \in [Threads -> {0, 1}] /\ received' \in [Servers -> SUBSET Content]
    BY <1>8, <2>1, OutcomeRange, TransferFacts DEF SendPrimary, Servers
  <2> QED
    BY <1>8, <2>2 DEF TypeOK, SendPrimary, Goto, PCs, Critical
<1>9. ASSUME NEW t \in Threads, SendSecondary(t) PROVE TypeInv'
  <2>1. file[t] \in Names
    BY <1>9 DEF SendSecondary
  <2>2. rc' \in [Threads -> {0, 1}] /\ received' \in [Servers -> SUBSET Content]
    BY <1>9, <2>1, OutcomeRange, TransferFacts DEF SendSecondary, Servers
  <2> QED
    BY <1>9, <2>2 DEF TypeOK, SendSecondary, Goto, PCs, Critical
<1>10. ASSUME NEW t \in Threads, Decide(t) PROVE TypeInv'
  BY <1>10 DEF TypeOK, Decide, RemoveFile, Goto, PCs, Critical
<1>11. ASSUME NEW t \in Threads, FindFirst(t) PROVE TypeInv'
  BY <1>11 DEF TypeOK, FindFirst, Files, Goto, PCs, Critical
<1>12. ASSUME NEW t \in Threads, FindNext(t) PROVE TypeInv'
  BY <1>12 DEF TypeOK, FindNext, RemoveFile, Goto, PCs, Critical
<1>13. ASSUME NEW t \in Threads, Release(t) PROVE TypeInv'
  BY <1>13 DEF TypeOK, Release, ReleaseMutex, Forget, Goto, PCs, Critical
<1>14. CASE Crash
  BY <1>14 DEF TypeOK, Crash, Forget, PCs, Critical, Content
<1>15. CASE Heal
  BY <1>15 DEF TypeOK, Heal
<1>16. CASE UNCHANGED vars
  BY <1>16 DEF TypeOK, vars
<1> QED
  BY <1>1, <1>2, <1>3, <1>4, <1>5, <1>6, <1>7, <1>8, <1>9, <1>10, <1>11, <1>12,
     <1>13, <1>14, <1>15, <1>16 DEF Next, Step

\* Every variable of sendXml's data path keeps its type: in particular a call
\* never writes a file without a document or resends one without a name.
THEOREM TypeCorrect == Spec => []TypeOK
<1>1. TypeInv => TypeOK
  BY DEF TypeInv
<1> QED
  BY TypeInit, TypeStep, <1>1, PTL DEF Spec
---------------------------------------------------------------------------
(* Mutual exclusion.                                                        *)

\* While only one mutex was created, every thread past the test "mutex == 0"
\* uses that one, and a thread at work owns it.
LockInv ==
    ~raced => \A t \in Threads :
        /\ pc[t] = "wait" => mutex # NoThread
        /\ pc[t] \in Critical \cup {"blocked"} => mutex # NoThread /\ h[t] = mutex
        /\ pc[t] \in Critical => owner[mutex] = t

LEMMA LockInit == Init => LockInv
BY DEF Init, LockInv, Critical

LEMMA LockImpliesExclusion == LockInv => MutualExclusion
BY DEF LockInv, MutualExclusion

LEMMA LockStep == TypeInv /\ LockInv /\ [Next]_vars => LockInv'
<1> SUFFICES ASSUME TypeOK, LockInv, [Next]_vars, ~raced' PROVE LockInv'
  BY DEF TypeInv, LockInv
<1> USE SendXmlAssumption DEF LockInv, mutexVars, historyVars, threadVars
<1>1. ASSUME NEW t \in Threads, Enter(t) PROVE LockInv'
  BY <1>1 DEF TypeOK, Enter, Goto, Critical
<1>2. ASSUME NEW t \in Threads, Create(t) PROVE LockInv'
  <2>1. ~raced /\ mutex = NoThread
    BY <1>2 DEF Create
  <2> QED
    BY <1>2, <2>1 DEF TypeOK, Create, Goto, Critical
<1>3. ASSUME NEW t \in Threads, Wait(t) PROVE LockInv'
  BY <1>3 DEF TypeOK, Wait, Goto, Critical
<1>4. ASSUME NEW t \in Threads, Acquire(t) PROVE LockInv'
  BY <1>4 DEF TypeOK, Acquire, Goto, Critical
<1>5. ASSUME NEW t \in Threads, OpenFails(t) \/ Release(t) PROVE LockInv'
  <2>1. pc[t] \in Critical /\ owner[mutex] = t /\ ~raced
    BY <1>5 DEF OpenFails, Release, Critical
  <2> QED
    BY <1>5, <2>1 DEF TypeOK, OpenFails, Release, ReleaseMutex, Goto, Critical
<1>6. ASSUME NEW t \in Threads,
             \/ \E d \in Docs, n \in Names : Open(t, d, n)
             \/ Write(t) \/ SendPrimary(t) \/ SendSecondary(t) \/ Decide(t)
             \/ FindFirst(t) \/ FindNext(t)
      PROVE  LockInv'
  <2>1. /\ UNCHANGED <<mutex, owner, raced, h>>
        /\ pc[t] \in Critical
        /\ \E l \in Critical : pc' = [pc EXCEPT ![t] = l]
    BY <1>6 DEF Open, Write, SendPrimary, SendSecondary, Decide, FindFirst,
                FindNext, Goto, Critical
  <2> QED
    BY <2>1 DEF TypeOK, Critical
<1>7. CASE Crash
  BY <1>7 DEF Crash, Critical
<1>8. CASE Heal \/ UNCHANGED vars
  BY <1>8 DEF Heal, vars
<1> QED
  BY <1>1, <1>2, <1>3, <1>4, <1>5, <1>6, <1>7, <1>8 DEF Next, Step

\* Calls of sendXml exclude each other between the wait and the release, for any
\* number of threads, as long as one mutex was created.
THEOREM Exclusive == Spec => []MutualExclusion
BY TypeInit, TypeStep, LockInit, LockStep, LockImpliesExclusion, PTL DEF Spec
---------------------------------------------------------------------------
(* No document is lost.                                                     *)

\* What a call knows of its file while it is alone: an opened file is torn until
\* it is written; then it holds the call's document, unless it was cut, until the
\* call decides; and a code of 0 was earned by a copy of what the file holds.
FileInv ==
    ~raced => \A t \in Threads :
        /\ pc[t] = "write" => spool[file[t]] = Torn
        /\ pc[t] \in {"send", "send2", "decide"} => spool[file[t]] \in {doc[t], Cut}
        /\ pc[t] \in {"send2", "resend2"} => conf.secondary_mode # "none"
        /\ pc[t] \in {"decide", "resent"} /\ rc[t] = 0 /\ HonestModes
              => Delivered(spool[file[t]])

LossInv == TypeInv /\ LockInv /\ FileInv /\ NoSilentLoss

LEMMA HonestOutcomes ==
    ASSUME TypeOK, HonestModes
    PROVE  /\ Phantom \notin CopyOutcomes(conf.transfer_mode)
           /\ conf.secondary_mode # "none"
                => Phantom \notin SecondaryOutcomes(conf.secondary_transfer_mode)
<1>2. Phantom # Failed /\ Phantom \notin {Ok, NoAck}
  BY DEF Phantom, Failed, Ok, NoAck
<1>1. ASSUME NEW mode, mode \notin {"ftp", "ssh"}, NEW l
      PROVE  Phantom \notin Outcomes(mode, l)
  BY <1>1, <1>2 DEF Outcomes, copyTentacleDataFile, copyLocalDataFile
<1> QED
  BY <1>1, <1>2 DEF HonestModes, CopyOutcomes, SecondaryOutcomes

LEMMA LossInit == Init => LossInv
<1>1. Init => FileInv /\ NoSilentLoss
  BY DEF Init, FileInv, NoSilentLoss, DeletedOnlyIfCopied
<1> QED
  BY <1>1, TypeInit, LockInit DEF LossInv

\* Only the thread at work can disturb FileInv.
LEMMA FileStep == LossInv /\ [Next]_vars => FileInv'
<1> SUFFICES ASSUME LossInv, [Next]_vars, ~raced', NEW u \in Threads
             PROVE  /\ pc'[u] = "write" => spool'[file'[u]] = Torn
                    /\ pc'[u] \in {"send", "send2", "decide"}
                          => spool'[file'[u]] \in {doc'[u], Cut}
                    /\ pc'[u] \in {"send2", "resend2"} => conf'.secondary_mode # "none"
                    /\ pc'[u] \in {"decide", "resent"} /\ rc'[u] = 0 /\ HonestModes'
                          => Delivered(spool[file[u]])'
  BY DEF FileInv
<1> DEFINE G == /\ pc'[u] = "write" => spool'[file'[u]] = Torn
                /\ pc'[u] \in {"send", "send2", "decide"}
                      => spool'[file'[u]] \in {doc'[u], Cut}
                /\ pc'[u] \in {"send2", "resend2"} => conf'.secondary_mode # "none"
                /\ pc'[u] \in {"decide", "resent"} /\ rc'[u] = 0 /\ HonestModes'
                      => Delivered(spool[file[u]])'
<1>a. ~raced
  BY Frame
<1>b. /\ TypeOK /\ LocalsOK
      /\ pc[u] = "write" => spool[file[u]] = Torn
      /\ pc[u] \in {"send", "send2", "decide"} => spool[file[u]] \in {doc[u], Cut}
      /\ pc[u] \in {"send2", "resend2"} => conf.secondary_mode # "none"
      /\ pc[u] \in {"decide", "resent"} /\ rc[u] = 0 /\ HonestModes
            => Delivered(spool[file[u]])
  BY <1>a DEF LossInv, FileInv, TypeInv
<1>c. \A t \in Threads : pc[t] \in Critical /\ pc[u] \in Critical => t = u
  BY <1>a, LockImpliesExclusion DEF LossInv, MutualExclusion
<1> HIDE DEF G
<1> USE DEF mutexVars, historyVars, threadVars
<1>1. ASSUME NEW t \in Threads, Enter(t) \/ Create(t) \/ Wait(t) \/ Acquire(t)
      PROVE  G
  BY <1>1, <1>b DEF G, Enter, Create, Wait, Acquire, Goto, TypeOK, HonestModes, Delivered
<1>2. ASSUME NEW t \in Threads, OpenFails(t) \/ Release(t)
      PROVE  G
  <2>1. pc[t] \in Critical
    BY <1>2 DEF OpenFails, Release, Critical
  <2>2. pc'[u] \notin Critical
    BY <1>2, <1>b, <1>c, <2>1 DEF OpenFails, Release, Goto, TypeOK, Critical
  <2> QED
    BY <2>2 DEF G, Critical
<1>3. ASSUME NEW t \in Threads, NEW d \in Docs, NEW n \in Names, Open(t, d, n)
      PROVE  G
  BY <1>3, <1>b, <1>c DEF G, Open, Goto, TypeOK, Critical
<1>4. ASSUME NEW t \in Threads, Write(t)
      PROVE  G
  BY <1>4, <1>b, <1>c DEF G, Write, Goto, TypeOK, LocalsOK, Critical
<1>5. ASSUME NEW t \in Threads, SendPrimary(t)
      PROVE  G
  <2>1. pc[t] \in Critical /\ file[t] \in Names
    BY <1>5, <1>b DEF SendPrimary, Critical, LocalsOK
  <2>2. CASE u # t
    <3>1. pc'[u] \notin Critical
      BY <1>5, <1>b, <1>c, <2>1, <2>2 DEF SendPrimary, Goto, TypeOK
    <3> QED
      BY <3>1 DEF G, Critical
  <2>3. CASE u = t
    <3>1. /\ rc'[t] = 0 => spool[file[t]] # NoFile
          /\ rc'[t] = 0 /\ Phantom \notin CopyOutcomes(conf.transfer_mode)
               => spool[file[t]] \in received'["primary"]
      BY <1>5, <1>b, <2>1, OutcomeRange, TransferFacts DEF SendPrimary, Servers
    <3>2. ASSUME pc'[t] \in {"decide", "resent"}, rc'[t] = 0, HonestModes
          PROVE  Delivered(spool[file[t]])'
      <4>1. spool[file[t]] \in received'["primary"]
        BY <1>b, <3>1, <3>2, HonestOutcomes
      <4>2. conf.secondary_mode # "always"
        BY <1>5, <1>b, <3>2 DEF SendPrimary, Goto, NeedsSecondary, TypeOK
      <4> QED
        BY <1>5, <4>1, <4>2 DEF SendPrimary, Delivered
    <3>3. pc'[t] \in {"send2", "resend2"} => conf.secondary_mode # "none"
      BY <1>5, <1>b DEF SendPrimary, Goto, NeedsSecondary, TypeOK
    <3> QED
      BY <1>5, <1>b, <2>3, <3>2, <3>3 DEF G, SendPrimary, Goto, TypeOK, HonestModes
  <2> QED
    BY <2>2, <2>3
<1>6. ASSUME NEW t \in Threads, SendSecondary(t)
      PROVE  G
  <2>1. pc[t] \in Critical /\ file[t] \in Names
    BY <1>6, <1>b DEF SendSecondary, Critical, LocalsOK
  <2>2. CASE u # t
    <3>1. pc'[u] \notin Critical
      BY <1>6, <1>b, <1>c, <2>1, <2>2 DEF SendSecondary, Goto, TypeOK
    <3> QED
      BY <3>1 DEF G, Critical
  <2>3. CASE u = t
    <3>1. /\ rc'[t] = 0 => spool[file[t]] # NoFile
          /\ rc'[t] = 0 /\ Phantom \notin SecondaryOutcomes(conf.secondary_transfer_mode)
               => spool[file[t]] \in received'["secondary"]
      BY <1>6, <1>b, <2>1, OutcomeRange, TransferFacts DEF SendSecondary, Servers
    <3>2. conf.secondary_mode # "none"
      BY <1>6, <1>b, <2>3 DEF SendSecondary
    <3>3. ASSUME rc'[t] = 0, HonestModes
          PROVE  Delivered(spool[file[t]])'
      <4>1. spool[file[t]] \in received'["secondary"]
        BY <1>b, <3>1, <3>2, <3>3, HonestOutcomes
      <4> QED
        BY <1>6, <3>2, <4>1 DEF SendSecondary, Delivered
    <3> QED
      BY <1>6, <1>b, <2>3, <3>3 DEF G, SendSecondary, Goto, TypeOK, HonestModes
  <2> QED
    BY <2>2, <2>3
<1>7. ASSUME NEW t \in Threads, Decide(t) \/ FindFirst(t) \/ FindNext(t)
      PROVE  G
  <2>1. pc[t] \in Critical
    BY <1>7 DEF Decide, FindFirst, FindNext, Critical
  <2>2. CASE u # t
    <3>1. pc'[u] \notin Critical
      BY <1>7, <1>b, <1>c, <2>1, <2>2 DEF Decide, FindFirst, FindNext, Goto, TypeOK
    <3> QED
      BY <3>1 DEF G, Critical
  <2>3. CASE u = t
    BY <1>7, <1>b, <2>3 DEF G, Decide, FindFirst, FindNext, Goto, TypeOK
  <2> QED
    BY <2>2, <2>3
<1>8. ASSUME Crash PROVE G
  BY <1>8 DEF G, Crash
<1>9. ASSUME Heal \/ UNCHANGED vars PROVE G
  <2>1. /\ UNCHANGED <<conf, spool, received, pc, doc, file, rc>>
        /\ HonestModes' = HonestModes
    BY <1>9 DEF Heal, vars, HonestModes
  <2>2. Delivered(spool[file[u]])' = Delivered(spool[file[u]])
    BY <2>1 DEF Delivered
  <2> QED
    BY <1>b, <2>1, <2>2 DEF G
<1>10. ASSUME NEW t \in Threads, Enter(t) \/ Step(t)
       PROVE  G
  BY <1>10, <1>1, <1>2, <1>3, <1>4, <1>5, <1>6, <1>7 DEF Step
<1>11. G
  BY <1>8, <1>9, <1>10 DEF Next
<1> QED
  BY <1>11 DEF G

\* A document that was written and left the spool in this step was delivered or
\* deleted on purpose; the others stay where they are.
LEMMA LossStep == LossInv /\ [Next]_vars => NoSilentLoss'
<1> DEFINE Kept(d) == \E n \in Names : spool[n] = d
           Safe(d) == Kept(d) \/ Delivered(d) \/ d \in excused
<1> SUFFICES ASSUME LossInv, [Next]_vars, ~raced', HonestModes',
                    NEW d \in Docs, d \in written'
             PROVE  Safe(d)'
  <2>1. ASSUME LossInv, [Next]_vars PROVE TypeInv'
    BY <2>1, TypeStep DEF LossInv
  <2> QED
    BY <2>1 DEF NoSilentLoss, DeletedOnlyIfCopied, TypeInv, TypeOK
<1>a. ~raced /\ HonestModes
  BY Frame DEF HonestModes
<1>b. /\ TypeOK /\ LocalsOK
      /\ d \in written => Safe(d)
  BY <1>a DEF LossInv, TypeInv, NoSilentLoss, DeletedOnlyIfCopied
<1>c. \A t \in Threads :
        /\ pc[t] = "write" => spool[file[t]] = Torn
        /\ pc[t] \in {"send", "send2", "decide"} => spool[file[t]] \in {doc[t], Cut}
        /\ pc[t] \in {"decide", "resent"} /\ rc[t] = 0 => Delivered(spool[file[t]])
  BY <1>a DEF LossInv, FileInv
<1> USE DEF mutexVars, historyVars, threadVars
<1>1. ASSUME UNCHANGED <<conf, spool, received, written, excused>>
      PROVE  Safe(d)'
  BY <1>1, <1>b DEF Delivered
<1>2. ASSUME NEW t \in Threads, NEW e \in Docs, NEW n \in Names, Open(t, e, n)
      PROVE  Safe(d)'
  <2>1. d \in written /\ Delivered(d)' = Delivered(d)
    BY <1>2 DEF Open, Delivered
  <2>2. ASSUME NEW m \in Names, spool[m] = d PROVE Safe(d)'
    BY <1>2, <1>b, <2>2 DEF Open, TypeOK
  <2> QED
    BY <1>2, <1>b, <2>1, <2>2 DEF Open
<1>3. ASSUME NEW t \in Threads, Write(t)
      PROVE  Safe(d)'
  <2>0. file[t] \in Names /\ doc[t] \in Docs /\ spool[file[t]] = Torn
    BY <1>3, <1>b, <1>c DEF Write, LocalsOK
  <2>1. Delivered(d)' = Delivered(d)
    BY <1>3 DEF Write, Delivered
  <2>2. CASE d \notin written
    <3>1. d = doc[t] /\ spool' = [spool EXCEPT ![file[t]] = doc[t]]
      BY <1>3, <2>2 DEF Write
    <3> QED
      BY <1>b, <2>0, <3>1 DEF TypeOK
  <2>3. CASE d \in written
    <3>2. ASSUME NEW m \in Names, spool[m] = d PROVE spool'[m] = d
      BY <1>3, <1>b, <2>0, <3>2, SendXmlAssumption DEF Write, TypeOK
    <3> QED
      BY <1>3, <1>b, <2>1, <2>3, <3>2 DEF Write
  <2> QED
    BY <2>2, <2>3
<1>4. ASSUME NEW t \in Threads, SendPrimary(t) \/ SendSecondary(t)
      PROVE  Safe(d)'
  <2>1. file[t] \in Names
    BY <1>4, <1>b DEF SendPrimary, SendSecondary, LocalsOK
  <2>2. \A x \in Servers : received[x] \subseteq received'[x]
    BY <1>4, <1>b, <2>1, OutcomeRange, TransferFacts
       DEF SendPrimary, SendSecondary, Servers
  <2>3. UNCHANGED <<conf, spool, written, excused>>
    BY <1>4 DEF SendPrimary, SendSecondary
  <2> QED
    BY <1>b, <2>2, <2>3 DEF Delivered, Servers
<1>5. ASSUME NEW t \in Threads, Decide(t)
      PROVE  Safe(d)'
  <2>0. file[t] \in Names /\ spool[file[t]] \in {doc[t], Cut} /\ d \in written
    BY <1>5, <1>b, <1>c DEF Decide, LocalsOK
  <2>1. Delivered(d)' = Delivered(d)
    BY <1>5 DEF Decide, Delivered
  <2>2. excused \subseteq excused'
    BY <1>5 DEF Decide
  <2>3. ASSUME NEW m \in Names, spool[m] = d, m # file[t] PROVE spool'[m] = d
    BY <1>5, <1>b, <2>0, <2>3 DEF Decide, RemoveFile, TypeOK
  <2>4. ASSUME spool[file[t]] = d PROVE Safe(d)'
    <3>1. rc[t] = 0 => Delivered(d)'
      BY <1>5, <1>c, <2>1, <2>4 DEF Decide
    <3>2. rc[t] # 0 => spool' = spool \/ doc[t] \in excused'
      BY <1>5 DEF Decide, MustRemove
    <3>3. d = doc[t]
      BY <2>0, <2>4, SendXmlAssumption
    <3> QED
      BY <2>0, <2>4, <3>1, <3>2, <3>3
  <2> QED
    BY <1>b, <2>0, <2>1, <2>2, <2>3, <2>4
<1>6. ASSUME NEW t \in Threads, FindNext(t)
      PROVE  Safe(d)'
  <2>0. file[t] \in Names /\ d \in written
    BY <1>6, <1>b DEF FindNext, LocalsOK
  <2>1. Delivered(d)' = Delivered(d) /\ excused' = excused
    BY <1>6 DEF FindNext, Delivered
  <2>2. ASSUME NEW m \in Names, spool[m] = d, m # file[t] PROVE spool'[m] = d
    BY <1>6, <1>b, <2>0, <2>2 DEF FindNext, RemoveFile, TypeOK
  <2>3. ASSUME spool[file[t]] = d PROVE Safe(d)'
    <3>1. rc[t] = 0 => Delivered(d)'
      BY <1>6, <1>c, <2>1, <2>3 DEF FindNext
    <3>2. rc[t] # 0 => spool' = spool
      BY <1>6 DEF FindNext
    <3> QED
      BY <2>0, <2>3, <3>1, <3>2
  <2> QED
    BY <1>b, <2>0, <2>1, <2>2, <2>3
<1>7. ASSUME Forget, \A n \in Names : spool[n] \in Docs => spool'[n] = spool[n]
      PROVE  Safe(d)'
  BY <1>7 DEF Forget
<1>8. CASE Crash \/ \E t \in Threads : Release(t)
  <2>1. ASSUME NEW n \in Names, spool[n] \in Docs, Crash PROVE spool'[n] = spool[n]
    BY <2>1, SendXmlAssumption DEF Crash
  <2> QED
    BY <1>7, <1>8, <2>1 DEF Crash, Release
<1>9. CASE \E t \in Threads : \/ Enter(t) \/ Create(t) \/ Wait(t) \/ Acquire(t)
                              \/ OpenFails(t) \/ FindFirst(t)
  BY <1>1, <1>9 DEF Enter, Create, Wait, Acquire, OpenFails, FindFirst
<1>10. CASE Heal \/ UNCHANGED vars
  BY <1>1, <1>10 DEF Heal, vars
<1> HIDE DEF Safe
<1> QED
  BY <1>2, <1>3, <1>4, <1>5, <1>6, <1>8, <1>9, <1>10 DEF Next, Step

\* No document is lost without a trace by sendXml, sendBufferedXml and
\* copyDataFile, for any number of threads, documents, file names and crashes,
\* with transfer modes whose code 0 can be relied on and one mutex.
THEOREM NothingLost == Spec => []NoSilentLoss
<1>1. LossInv /\ [Next]_vars => LossInv'
  BY TypeStep, LockStep, FileStep, LossStep DEF LossInv
<1>2. LossInv => NoSilentLoss
  BY DEF LossInv
<1> QED
  BY LossInit, <1>1, <1>2, PTL DEF Spec
---------------------------------------------------------------------------
(* No file is sent that is still being written.                             *)

\* A torn file is one that a call is writing, at most one while there is one mutex.
TornInv ==
    /\ TornNeverSent
    /\ ~raced =>
          \A n \in Names : spool[n] = Torn =>
              \E t \in Threads : pc[t] = "write" /\ file[t] = n

LEMMA TornInit == Init => TornInv
BY SendXmlAssumption DEF Init, TornInv, TornNeverSent

LEMMA TornStep == LossInv /\ TornInv /\ [Next]_vars => TornInv'
<1> SUFFICES ASSUME LossInv, TornInv, [Next]_vars, ~raced'
             PROVE  /\ \A s \in Servers : Torn \notin received'[s]
                    /\ \A n \in Names : spool'[n] = Torn =>
                          \E t \in Threads : pc'[t] = "write" /\ file'[t] = n
  BY DEF TornInv, TornNeverSent
<1> DEFINE G == /\ \A s \in Servers : Torn \notin received'[s]
                /\ \A n \in Names : spool'[n] = Torn =>
                      \E t \in Threads : pc'[t] = "write" /\ file'[t] = n
<1> USE DEF mutexVars, historyVars, threadVars
<1>a. ~raced
  BY Frame
<1>b. /\ TypeOK /\ LocalsOK
      /\ \A s \in Servers : Torn \notin received[s]
      /\ \A n \in Names : spool[n] = Torn =>
            \E t \in Threads : pc[t] = "write" /\ file[t] = n
  BY <1>a DEF LossInv, TypeInv, TornInv, TornNeverSent
<1>c. \A t, u \in Threads : pc[t] \in Critical /\ pc[u] \in Critical => t = u
  BY <1>a, LockImpliesExclusion DEF LossInv, MutualExclusion
<1>d. ASSUME NEW t \in Threads, pc[t] \in Critical \ {"write"}
      PROVE  \A n \in Names : spool[n] # Torn
  BY <1>b, <1>c, <1>d DEF Critical
<1> HIDE DEF G
<1>1. ASSUME NEW t \in Threads, Enter(t) \/ Create(t) \/ Wait(t) \/ Acquire(t)
      PROVE  G
  <2>1. UNCHANGED <<spool, received, file>>
    BY <1>1 DEF Enter, Create, Wait, Acquire
  <2>2. \A u \in Threads : pc[u] = "write" => pc'[u] = "write"
    BY <1>1, <1>b DEF Enter, Create, Wait, Acquire, Goto, TypeOK
  <2> QED
    BY <1>b, <2>1, <2>2 DEF G
<1>2. ASSUME NEW t \in Threads, NEW d \in Docs, NEW n \in Names, Open(t, d, n)
      PROVE  G
  <2>1. \A m \in Names : spool[m] # Torn
    BY <1>2, <1>d DEF Open, Critical
  <2>2. pc'[t] = "write" /\ file'[t] = n /\ received' = received
    BY <1>2, <1>b DEF Open, Goto, TypeOK
  <2>3. \A m \in Names : m # n => spool'[m] = spool[m]
    BY <1>2, <1>b DEF Open, TypeOK
  <2> QED
    BY <1>b, <2>1, <2>2, <2>3 DEF G
<1>3. ASSUME NEW t \in Threads, Write(t)
      PROVE  G
  <2>1. file[t] \in Names /\ doc[t] \in Docs
    BY <1>3, <1>b DEF Write, LocalsOK
  <2>2. \A m \in Names : spool[m] = Torn => m = file[t]
    BY <1>3, <1>b, <1>c DEF Write, Critical
  <2>3. \A m \in Names : spool'[m] # Torn
    BY <1>3, <1>b, <2>1, <2>2, SendXmlAssumption DEF Write, TypeOK
  <2> QED
    BY <1>3, <1>b, <2>3 DEF G, Write
<1>4. ASSUME NEW t \in Threads, SendPrimary(t) \/ SendSecondary(t)
      PROVE  G
  <2>1. \A m \in Names : spool[m] # Torn
    BY <1>4, <1>d DEF SendPrimary, SendSecondary, Critical
  <2>2. file[t] \in Names
    BY <1>4, <1>b DEF SendPrimary, SendSecondary, LocalsOK
  <2>3. \A x \in Servers : received'[x] \subseteq received[x] \cup {spool[file[t]]}
    BY <1>4, <1>b, <2>2, OutcomeRange, TransferFacts
       DEF SendPrimary, SendSecondary, Servers
  <2>4. spool' = spool
    BY <1>4 DEF SendPrimary, SendSecondary
  <2> QED
    BY <1>b, <2>1, <2>2, <2>3, <2>4 DEF G
<1>5. ASSUME NEW t \in Threads, \/ OpenFails(t) \/ Decide(t) \/ FindFirst(t)
                                \/ FindNext(t) \/ Release(t)
      PROVE  G
  <2>1. \A m \in Names : spool[m] # Torn
    BY <1>5, <1>d DEF OpenFails, Decide, FindFirst, FindNext, Release, Critical
  <2>2. \A m \in Names : spool'[m] # Torn
    BY <1>5, <1>b, <2>1, SendXmlAssumption
       DEF OpenFails, Decide, FindFirst, FindNext, Release, RemoveFile, TypeOK
  <2>3. \A x \in Servers : received'[x] \subseteq received[x]
    BY <1>5 DEF OpenFails, Decide, FindFirst, FindNext, Release, Forget
  <2> QED
    BY <1>b, <2>2, <2>3 DEF G
<1>6. ASSUME Heal \/ UNCHANGED vars
      PROVE  G
  BY <1>6, <1>b DEF G, Heal, vars
<1>7. ASSUME Crash
      PROVE  G
  <2>1. \A m \in Names : spool'[m] # Torn
    BY <1>7, SendXmlAssumption DEF Crash
  <2>2. \A x \in Servers : received'[x] \subseteq received[x]
    BY <1>7 DEF Crash, Forget
  <2> QED
    BY <1>b, <2>1, <2>2 DEF G
<1>8. G
  BY <1>1, <1>2, <1>3, <1>4, <1>5, <1>6, <1>7 DEF Next, Step
<1> QED
  BY <1>8 DEF G

\* With one mutex no server is handed a file that a call of sendXml is still
\* writing, for any number of threads, files and crashes.
THEOREM UnfinishedNotSent == Spec => []TornNeverSent
<1>1. LossInv /\ [Next]_vars => LossInv'
  BY TypeStep, LockStep, FileStep, LossStep DEF LossInv
<1>2. TornInv => TornNeverSent
  BY DEF TornInv
<1> QED
  BY LossInit, TornInit, TornStep, <1>1, <1>2, PTL DEF Spec
=============================================================================
