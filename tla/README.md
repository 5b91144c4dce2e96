# A TLA+ model of the Pandora FMS Windows agent

Paths are relative to the repository. `W` stands for
`pandora_windows_service.cc`, in which most of the agent's logic is.

## 1. The system

The agent is a Windows service that, every `interval` seconds, runs a list of
monitoring modules, writes their results in an XML data file in the `temporal`
directory and hands the file to a server. Its parts:

| part | source | state it keeps | operations | hard behaviour |
|---|---|---|---|---|
| data transfer | `W` `sendXml`, `sendBufferedXml`, `copy*DataFile`; `ftp/`, `ssh/pandora_ssh_client.cc` | the `*.data` files of `temporal`, the static `mutex` | write, send, delete, resend a data file | called from the service thread, the UDP thread and one thread per asynchronous module; transfers fail, time out, are not acknowledged; the process dies between two steps, or the disk is full while a file is written; missing `return` statements |
| remote configuration | `W` `checkConfig`, `recvDataFile`; `misc/pandora_file.cc` | the local `.conf`, the server's `.conf` and `.md5` | fetch digest, upload, download, reload | every leg can fail on its own; the console edits the server's copy meanwhile; a crash or a full disk while a file is written |
| file collections | `W` `checkCollections`, `unzipCollection`, `purgeDiskCollections`; `Pandora_File::removeDir` | `collections\`: a directory and a `.md5` per collection | install, update, purge | digest and content are stored, and removed, by different steps, either of which can fail |
| scheduling of modules | `W` `pandora_run`, `pandora_run_broker`, `pandora_init`; `Pandora_Module::run`, `checkCron`, conditions | per module `executions`, `timestamp`, `intensive_match`, `cron`; service `timestamp`, `run_time` | one cycle, a forced cycle, reload, broker agents | clocks read late, reloads that forget state |
| command execution | `modules/pandora_module_exec.cc`, `evaluatePreconditions` | pipe, job, `cmd.exe` and the command it starts | start, wait, read, terminate | pipe at its limit, timeout against the end of the child, a process outside the job |
| file and log readers | `modules/pandora_module_regexp.cc`, `pandora_module_logevent.cc` | position, size, open handle | open, read, restart | truncation, cleared logs, read errors, lines that are still being written |
| watchdog | `modules/pandora_module_proc.cc`, `pandora_module_service.cc` | `counter`, `prev_res`, `watchdog`; the module object, shared | watch, report, start again | two threads on one object, lost events, retries |
| module list | `modules/pandora_module_list.cc` | the list, its one iterator, the objects | iterate, delete, rebuild | shared by threads without a lock |
| service loop | `windows_service.cc`, `main.cc` | `sleep_time`, `stop_event`, service status | run, sleep, stop | 32-bit tick arithmetic, stop while a cycle runs |
| UDP server | `udp_server/udp_server.cc` | `running` | start, stop, REFRESH, START/STOP | runs a cycle in its own thread |
| configuration parsing | `pandora_agent_conf.cc`, `W` `pandora_init`, `check_broker_agents` | `key_values`, `collection_list`, `broker_enabled`, `all_conf` | read a file, make the files of broker agents | line classification by substring; one file read five times in a cycle; files that cannot be opened or written |
| module factory | `modules/pandora_module_factory.cc` | none | make a module from the lines of a block | macros, defaults, divisions |
| SSH client | `ssh/pandora_ssh_client.cc` | session, channel, socket | connect, copy a file, disconnect | error codes without a sign |
| libssh2 channels | `ssh/libssh2/channel.c`, `packet.c` | channels with their windows, the packet brigade | open, request, read, write, flush, close, free | packets of all channels in one brigade; window arithmetic; waits that read whatever comes |
| libssh2 sessions | `ssh/libssh2/kex.c`, `session.c`, `userauth.c`, `scp.c` | methods and keys of both directions, id of the session | exchange keys, authenticate, send a file | a re-exchange inside any wait, guesses of the server, lost connections |
| measurements, Windows information, helpers | `modules/`, `windows/`, `misc/` | none between cycles | read a value | none |

How they interact: the service loop calls `pandora_run`, which calls
`checkConfig` and `checkCollections`, reloads the configuration with
`pandora_init` (a new module list), runs the modules, and calls `sendXml`, which
writes and sends one file and then scans the directory for older ones. The UDP
server calls `pandora_run` from its own thread; every asynchronous module has a
thread that calls `setOutput` on its module and `sendXml`. What is shared is the
module objects, the list with its iterator, and the `temporal` directory; only
`sendXml` takes a lock.

What makes each part correct is stated as the properties of its module, below;
`PROJECT.json` lists the hazards they are for, each at its line.

## 2. Modules

Each module has the code's steps as actions, named after the function or the
step; `map` in `PROJECT.json` gives the lines. A step is a stretch of code
between two points at which another actor (a thread, the server, the console, a
child process, a crash) can be seen or can interfere. Documents, files,
collections and records are identities; a digest is the identity of its file.

* **`SendXml`** - `sendXml`, `copyDataFile` and `sendBufferedXml` for any set of
  threads. Variables: the mutex handle and the owners, the spool (`Names` to
  content), per thread the position, the document, the file at hand and `rc`; per
  server what it received. `Enter` and `Create` are two steps because the test of
  the static handle and its assignment are. `copy*DataFile` are the sets of
  outcomes of a transfer: success, failure, delivered without acknowledgement and
  success without delivery (ssh, whose unsigned counter cannot be negative; ftp
  and local, whose functions return without a value: every code is possible).
  `Write` may leave a file that is cut (`Cut`), which nothing notices. `Crash` may come at
  any step and leaves a file that was being written (`Torn`) cut as well.
  `rand()` is any name, one that is in use included.
* **`RemoteConfig`** - `checkConfig` as a sequence of legs each of which may
  fail, the console as an actor that saves its two files one after the other,
  crashes, and writes that may be cut short: of `pandora_agent.conf`, and of the temporary
  files of an upload, which then goes to the server as it is.
* **`Collections`** - `checkCollections`, `unzipCollection`,
  `purgeDiskCollections`, `removeDir` and the collection list. A purge looks at one
  directory entry per step, those of a collection and of its digest in either order.
* **`ModuleSchedule`** - `pandora_run` with the modules' own timing: counters, timestamps,
  crontab, intensive conditions, broker agents, reloads (also the one after the broker
  agents, which may find an edited file), forced cycles. An execution fails, or has output
  with a value or without one. Time is in units of a second at the moments the code reads
  it; `Wake` is late by up to `MaxOverrun`, and `time (NULL)` by up to `MaxJitter`.
* **`CommandRun`** - one command of an exec or proc module, or of a precondition:
  `Wait`, `Read`, `Check` are the loop's three parts, the child (`cmd.exe`) and the command
  it starts write and end at any moment in between. Output is counted.
* **`TailModules`** - regexp and logevent modules against a source that is
  appended to, also half a line at a time, and emptied; `fate` says of each record
  whether it is new, skipped, read in parts, dropped or sent.
* **`AsyncModules`** - a process or service module: the cycle and `async_run` on
  one object. `getXml` is two steps, because `setOutput` of the other thread is
  in no mutex and may come between its reading and its cleaning of the list.
* **`ServiceLoop`** - `execRunFunction` in ticks of a counter that wraps, start and
  stop of the service with the sleep of its handler, the end of `main` (`UseAfterDelete`: a
  cycle uses what `main` has deleted), and the thread of the UDP server as far
  as it disturbs the loop (`startup`, `iter_base_ticks`, `sleep_time`). `Tick` is time;
  its guards bound how long a cycle takes and how late a thread gets the
  processor.

* **`ModuleFactory`** - `getModuleFromDefinition` as operators on the lines of a block:
  the scan for tokens, the macros, the attributes, the kind of module, intervals and
  their quotients. A line is whether it is a comment, its first word, the words it
  holds that the code searches for, and its value as a sequence of words.
* **`AgentConf`** (extends `ModuleFactory`) - `pandora_init` and `pandora_init_broker`,
  `setFile`, the constructor of `Pandora_Module_List` line by line with includes, and
  the turn of the broker agents in `pandora_run`, while somebody replaces the file
  between any two openings of it, and up to `MaxFails` operations on files fail: a file
  cannot be opened, or a broker agent's file is written in part or not at all.
  `ReadsForever` is what then becomes of the loops that wait for `eof`.
* **`SshChannel`** - the calls of `channel.c` for any number of channels, with
  `packet_add`, `packet_read`, `packet_ask` and the `require` loops of `packet.c`.
  Bytes are numbered, so that their order can be told; windows count modulo `Word`.
  A call is a position in the function; it reads one packet per step. Server and
  network are external: they send, grant, end, close, reset, and send packets that
  nobody asked for.
* **`BytePipe`** - what the channels promise: each stream is a queue of bytes of which
  a read takes a prefix. `SshChannel` implements it (`PipeSpec`): the queue of a stream is
  what is in the network and in the brigade for it, in the order in which
  `channel_read_ex` would take it. A stream whose window was granted past its width
  (`wrapped`) promises nothing any more (`Void`). `SshPipeProofs` proves it.
* **`SeqOps`** - sums, concatenations and selections over sequences, which `AgentConf` and
  `SshChannel` share, written so that they can be proved about.
* **`SshSession`** - one upload as `Pandora_Ssh_Client` makes it: banners, key exchange,
  service request, authentication, `scp_send_ex`, the end. A key is the pair of exchange
  hash and session id that it is derived from; a packet carries how it was encoded
  (block size, cipher, MAC, compression stream, key, sequence number), and can be read
  only with the same. `pc` has two positions: that of the caller and that of a key
  exchange nested in its wait. `cause` is a history of the first thing that went
  wrong, so that the properties can name what they except. `SshChannel` has the
  arithmetic of the windows, which count pieces of the file here.

How the modules meet: `SendXml` takes the outcomes of a transfer by ssh as a choice;
`SshSession` shows which there are (`UploadWhole`: success means a whole file as long as the
connection lasts, and `NoSilentLoss` leaves ssh out because it means nothing after a
failure). `SshSession` in turn takes the channel as reliable, which `SshChannel` shows.
`ModuleSchedule` assumes intervals that divide, which `NoZeroDivision` of `AgentConf`
delimits.

`MCSendXml`, `MCModuleSchedule`, `MCAgentConf`, `MCSshChannel` and `MCSshSession` hold the
instances for TLC. Definitions named
`X_Something` before `X` are variants of `X` with a plausible error; each property
is refuted by one of them (`mutants`).

## 3. Runs

| run | shows |
|---|---|
| `send_safety` | two threads, one crash, every transfer mode: `MutualExclusion`, `NoSilentLoss`, `TornNeverSent` |
| `send_drain` | `Drains`: every written document gets out once the servers stay up |
| `conf` | `MemoryMatchesFile`, `NeverTorn`, `Adopts` |
| `coll` | `DigestMeansContent`, `Converges` (`SyncsUnlessStuck`: the collection reaches the server's version; `PurgesUnlisted`: one that is listed no more leaves the disk) |
| `sched` | `StatusKnown`, `Heartbeat`, `NeverStarved` |
| `cmd` | `OutputWhole`, `ProcTruth`, `NoneLeft`, `RunEnds` |
| `tail` | `ReadOnce` (`NoDuplicates`, `NothingPassedOver`), `AllRead` |
| `async` | `PendingOrSent`, `StartsBounded`, `Reopens`, `ServerLearns` |
| `loop` | `Punctual` (`NoDrift`, `OnTime`), `KeepsRunning` |
| `agent_conf` | `ModulesAsWritten`, `MacrosReplaced`, `BrokersServed` (`EachBrokerRuns`, `BrokersKnown`): files are understood as they are written and every broker agent has its turn; `Defined` (`IteratorSet`, `InBounds`, `EndsReading`, `NoZeroDivision`): only a file that cannot be opened or written, an edit at the wrong moment or the named settings lead to undefined behaviour or to reading without end |
| `ssh_channel` | `PipeSpec` (refinement of `BytePipe`), `EofMeansAll`: the bytes read are those sent; `FlowControl` (`WindowsAgree`, `RefundsExact`, `NotOverrun`): what may be sent is what is free at the other end; `BrigadeSorted` (`AnswerIsMine`, `FreedClean`): packets reach the call they are for; `CallsReturn` |
| `ssh_session` | `KeysAgree` (`InStep`, `RepliesVerify`, `SameId`): both ends use the same keys across every exchange; `AuthenticatedByServer`, `UploadWhole`; `Finishes` |

Each of the names in parentheses is a property of its own, stated beside the one it
belongs to. The type invariants are theorems (section 4); those of `TailModules`,
`ServiceLoop`, `AgentConf`, `SshChannel` and `SshSession` are part of `ReadOnce`, `Punctual`,
`Defined`, `FlowControl` and `KeysAgree`.

Bounds, and why they are enough:

* `send_*`: three documents and two names make a document be overwritten by a
  file of its name, and a scan find files of an earlier and of the other thread's
  call; two threads are what a mutex is about. The behaviours with two mutexes
  are cut off by `NotRaced`, because the properties claim nothing of them: two
  threads that both find the static handle 0 create a mutex each (`W:1522`), and
  nothing is excluded from then on.
* `conf`: three versions, one of which switches `remote_config` off, three edits
  (the console's two files in several states of disagreement), one crash.
* `coll`: one collection. A check treats them one after the other and shares
  nothing but the position between them; the theorems hold for any set. Three
  versions, two crashes and two reloads allow a broken installation to be
  followed by another and by a change of the list, also between the two halves of a purge.
* `sched`: seconds 3 to 7, with intervals of 1, 2 and 3 seconds and intensive ones of 1
  and 2, cover two intervals of each module, a late, a forced and a reloaded cycle, also
  one that reloads a shorter interval or `intensive_interval` after the broker agents.
  The three properties are proved without the horizon.
* `cmd`: 5 units of output through a pipe of 2: the child blocks twice. The pipe
  holds no more than a buffer (`PipeCap <= BufSize`): `CreatePipe` with size 0
  gives 4096 bytes, which is `BUFSIZE`.
* `tail`: two records before and after one emptying, any of which may be a line written in
  two halves, one failure and one new object.
* `async`: two instances (so that the number queried and the number of handles
  can differ both ways), two changes besides those the watchdog makes.
* `loop`: a counter of 8 values, so that it wraps in every other cycle; cycles of up
  to 6 ticks, longer than half the counter, so that the remainder is once
  negative and once too large; no horizon. The handler of a stop sleeps for 2 ticks, less
  than a cycle may take, as `READ_TIMEOUT * 2` is (one second, `windows_service.cc:28`).
* `agent_conf`: every file of one of 21 pieces, of one of seven with any other, and of
  three of six: whole blocks with repeated, macro and bad fields, blocks that are left open
  or end in a comment, includes, plugins, broker agents live and commented out, collections,
  intervals that do and do not divide. Three pieces make a spoiled block be followed by
  two others. Two edits replace the file before and after it is counted. One operation
  fails, anywhere: each has its own consequence, and a second one adds no new one.
* `ssh_channel`: two channels, streams of 3 bytes against windows of 2, packets of up
  to 2 bytes, a word of 8: windows run out, refunds are queued and sent, a packet is
  read in parts, and a negative refund wraps. Eight programs use every call, one of them
  to make a window grow past its width while data is on its way; two
  packets are under way in each direction, so that an answer is behind data.
* `ssh_session`: a file of 2 pieces with a window of 1, one re-exchange, one banner or
  question of the server; ten servers (methods that change in a re-exchange, right and
  wrong guesses, group exchange, no common methods, a greeting before the banner) times
  three programs for the five methods of authentication. One re-exchange may begin in
  every wait there is, which is what nesting is about. Once something has gone wrong
  nothing else does (`Unharmed`).

Fairness, and why the code justifies it:

* `SendXml`: each thread goes on with a call it has begun, and the service thread
  calls again: its loop has no exit but the stop of the service, and every
  transfer has a timeout.
* `RemoteConfig`, `Collections`, `TailModules`: weak fairness of the agent's next
  step; every cycle calls `checkConfig` and `checkCollections` and runs the
  modules.
* `CommandRun`: of the agent's loop only; nothing is assumed of the child.
* `AsyncModules`: weak fairness of both threads; strong fairness of the cycle's
  execution (it may be skipped, not for ever: `NeverStarved`) and of
  the two sends, which wait for a mutex that is released again and again.
* `ServiceLoop`: time, the service thread, the control handler and `main`; nothing
  is assumed of the UDP thread.
* `SshChannel`, `SshSession`: of the thread, which is never suspended in a call, and of the
  server's answers to what it receives (and, for windows, of its grants: a server that
  reads). Nothing makes it send data, exchange keys, close or vanish. The properties
  except a lost connection, on which several calls do hang, see below.
* The liveness properties of the other modules say what happens if failures stop
  (`healed`, `repaired`), which is never assumed of them: `Heal` and `Repair` are not
  fair.

## 4. Proofs

The `*Proofs` modules hold theorems for every value of the constants that the
named `ASSUME`s allow. Each rests on an inductive invariant. Where one module holds the
proofs about several components, these name their specification after themselves
(`ConfSpec`, `CollSpec`, `TailSpec`, `CommandSpec`, `LoopSpec`).

* `SendXmlProofs`: `TypeCorrect`, `Exclusive`, `NothingLost`, `UnfinishedNotSent`.
  Types need `LocalsOK` (a thread at a transfer has a file and a document).
  Exclusion needs `LockInv`: with one mutex, who is in the critical section owns
  it, and nobody between test and assignment can still create one. The loss
  invariant adds, for the document at hand, what `rc` says about its delivery
  (`FileInv`, `LossInv`); the property alone does not know why `Decide` may
  delete. `TornInv`: only the file of the owner is still being written.
* `ConfigurationProofs`, of `RemoteConfig`: `ExchangeTypeCorrect`, `MemoryFollowsFile`,
  `TornOnlyIfSpoiled`; the strengthening says which of the files a check works on are
  whole, and that a cut upload at the server has no digest there that would bring it
  back. Of `AgentConf`, for every set of files, whatever their lines and however often
  they are replaced: `LoadsDefined` (`Defined`): the
  iterator is set when it is used but after a file that could not be opened, the table of macros
  and the list of broker agents are read within their bounds, nothing is divided by zero but
  for the settings the property names, and a file that is read for ever is one that could
  not be opened or written, or that a replaced file names (`KnownInv`: every broker agent of
  the file that was read has its file or is in `unwritten`);
  `ServesBrokers` (`BrokersServed`): every broker agent the file names has a file and its
  turn; `ReplacesMacros` (`MacrosReplaced`): a macro is gone from the fields that name it
  once. These go from the lines of a file to the result of a loop over them.
* `SeqOpsProofs`: what the operators of `SeqOps` give for every sequence. The library's
  induction theorem takes an operator, which the provers cannot instantiate; so induction is
  derived once, for sets, from the well-foundedness of `<` (`LeastNumber`, `SetInduction`),
  and with it that recursive functions are what their definition says
  (`RecursionExists`). From these follow the lemmas on sums, concatenations and selections.
* `ModulesProofs`, of `ModuleSchedule`: `ScheduleTypeCorrect`, `XmlInEveryInterval`,
  `ServerKnowsStatus`, `NotStarved`, and `IntervalKept`: without broker agents and reloads
  `IntervalHonoured` holds, so that a rebuilt list is the only reason why a module reports
  more often. `HeartInv` relates the service's timestamp and the last XML, `ClockInv` the
  clocks, `StatusInv` says that the status of an intensive module is settled, about to be
  sent, or displaced by a new object, and `SpacingInv` relates a module's timestamp to its
  last report. `StarveInv` is what `NeverStarved` lacks: how far the clock may be ahead of
  the cycle (`LagInv`), and, of each module, how many cycles are left to its next execution
  against its last report (`Patient`).
  Of `TailModules`: `EachRecordOnce` (`ReadOnce`), for any numbers of records,
  emptyings, failures and objects. `SourceInv`: positions and sizes belong to a content,
  and what was read lies before them. `OnceInv`: as long as nothing disturbs the reader,
  what it took lies before its position, and nothing was taken of a content it has not
  opened. `BehindInv`: a record before the position that is neither reported nor
  dropped is among those just read, or was read in parts.
  Of `CommandRun`: `CommandTypeCorrect`, `WholeOutput`, `SuccessIsOwn`, `NoOrphans`.
  `Flow`: what was written is in the pipe or was read. `Life`: what the positions
  say about the child and the command.
* `ServiceProofs`, of `AsyncModules`: `TypeCorrect`, `NothingLostBetween` (`PendingOrSent`) and
  `RetriesBounded` (`StartsBounded`), for any number of instances, retries and
  changes. `OutputInv` says what the list holds between the two halves of a `getXml`, by
  either thread; `StartInv` that the starts in vain are among those the counter has
  counted, and that a process module never is at a step of a service's.
  Of `ServiceLoop`: `CyclesOnTime` (`Punctual`), for every `Wrap`, sleep times below half of it,
  and cycles and delays that together are shorter than it. `PaceInv` relates the base,
  the tick count and the age of the cycle modulo `Wrap` while it runs, and base and
  remaining wait while the thread sleeps. The lemmas are about the signed remainder of
  the code's subtraction.
  Of `Collections`: `CollTypeCorrect`, `DigestSound` (`DigestMeansContent`), for any set of
  collections. The strengthening ties position and current collection, and says what the
  directory is while an installation is under way and between the halves of a purge.
* `SshSessionProofs`, for any servers, programs, number of pieces and numbers of re-exchanges,
  banners and questions. `AcceptedFirst` (`AuthenticatedByServer`): until the server accepts,
  no SUCCESS is held back at the server, on its way or in the brigade, and the client
  has not gone on (`AuthInv`); this needs the form of every packet (`Shape`), and that a
  packet gets into the brigade only from the network, whichever exchange of keys is nested
  in the wait (`Delivered`, `Earned`).
  `ZeroMeansWhole` (`UploadWhole`): `UploadInv` says that, as long as nothing has gone
  wrong, the pieces at the server, under way and still to be sent add up to the
  file (`Whole`), that no piece follows the CLOSE and the client waits for the server's
  CLOSE before it takes 0 for its result (`Order`, `Course`), that nobody ends the connection
  before it has (`Calm`), and that nothing but banners moves before the banners
  are exchanged (`Waits`).
  `SessionTypes` (`TypeOK`) and `OneId` (`SameId`) hold whatever goes wrong. The first needs
  `Within`: each piece that is written spends one of the window, each grant under way
  stands for a piece that the server has, and a piece is at the server, under way or still to
  be sent. The second needs `IdInv`: until the client has its id, the server has answered
  at most one exchange (the client sends at most one `K30` or `K32`), and every reply under way
  covers what the server took for the id; the client then takes the hash of such a reply.
* `SshChannelProofs`, for every width of a word, every window, number of channels and
  program: `TypeCorrect`, `FlowsRight` (`FlowControl`), `EndsRight` (`EofMeansAll`),
  `BrigadeIsSorted` (`BrigadeSorted`). The many steps are brought into a few forms (`Kinds`
  and `Local` for the program, `Arrives` for a packet that is filed, `ServerKinds` for the
  other end), and each part of the invariant is shown to survive the forms.
  `Places` says where each call may be and that a channel which is being opened is there
  and not confirmed; `Connection` what a lost connection still holds; `Sized` that data on
  the way is as long as its packet says. `Unheard`: of a channel the server has not heard of
  nothing is under way but its OPEN. `Ends`: after EOF and CLOSE no data of the channel
  follows, which is what `EofMeansAll` needs. `Windows`, `NotOverrun` and `Refunds` are flow
  control without the conditions of the properties: they hold also of channels that the
  program does not have yet, and `Windows` also of data that arrives after a
  disconnect. `Asking`: at most one question or its answer is under way or in the brigade,
  it is that of the call which waits, and a call that was woken finds it; this is a
  sum again (`Weigh`). `Clearing`: the two looks of `channel_free` through the brigade leave
  none of the type they were for, because the server, which had closed the channel, sends
  none after it (`Ends`).
* `SshPipeProofs`: `ImplementsPipe` (`PipeSpec`), the refinement of `BytePipe`, for the
  same constants. A stream's queue is a concatenation over the brigade and the network, so
  the steps of the many calls are first put in six forms by what they do to it: `Trims` (a
  prefix of each stream goes, of which the steps without data are a case), `Reads`,
  `Forgets`, `Creates`, `Transmits`, `Loses`; each form is then a step of the pipe, or
  none (`MapTrims` to `MapLoses`). `SeqOpsProofs` says what a concatenation loses when a
  packet is appended, taken out or shortened. `Receive` is the step that needs most: by
  `Windows` and `Sized` data that arrives is not cut (a stream whose data were cut would
  lose bytes from its middle) and is filed last of its stream; data of a stream that the
  program ignores is not filed, which only takes a prefix because nothing of that stream
  is in the brigade: this is `Discards`, the one invariant the refinement adds.

Attempts that showed that a property or a definition was wrong and not just hard to prove:

* The bound of `NeverStarved` did not hold if a forced cycle reads a configuration with a
  shorter `intensive_interval`: the clock may then be ahead of the base by the old one,
  which is now `MaxLag`.
* `NoDuplicates` of `TailModules` had not excepted a logevent module in debug mode, whose new
  object does not discard what it finds (`modules/pandora_module_logevent.cc`).
* `NoZeroDivision` of `AgentConf` had not excepted a `module_interval` whose 0 comes from
  a macro, and compared intervals with their signs, which the code's division does not.
* `WindowsAgree` held modulo the width of a word only as long as no data was cut: a
  flush of short packets grants a negative number, the window wraps, and data on the way is
  then dropped. Channels to which that happens are excepted now (`wrapped`), also from
  `PipeSpec`, and the property is about numbers and not remainders. `NotOverrun` was
  weaker than what holds: a grant under way was allowed for twice.
* Packets without data in the brigade carry a number that is no length (`TypeOK`).
* `IteratorSet` of `AgentConf` had excepted a broker agent that a replaced file names and that
  has no file; its modules are never run, because `checkAgentName` (`W:1346`) does not
  return. It is `EndsReading` that has to except it.
* `Heartbeat` had not excepted a shorter interval that the reload after the broker agents
  reads (`W:1878`), nor `StatusKnown` an execution that has output and no value.

Only model-checked:

* the liveness properties (`Drains`, `Adopts`, `Converges`, `RunEnds`, `AllRead`, `Reopens`,
  `ServerLearns`, `KeepsRunning`, `CallsReturn`, `Finishes`), which are out of
  the prover's reach;
* of `AgentConf` `ModulesAsWritten`, which compares a reading of two files line by line, one
  included in the other, with what the files say as a whole;
* of `SshSession` the parts `InStep` and `RepliesVerify` of `KeysAgree`.

## 5. What to know before relying on it

* `ModuleSchedule` takes forced cycles between scheduled ones, as if the UDP
  thread waited; the code does not. `intensive_interval <= interval` is assumed:
  otherwise the code divides by zero. `checkCron`'s clock is `run_time`. The modules of
  a broker agent are those of the agent, and `server_ip` does not change. A module
  that executes without a value (`Execute` with `NoData`: a log without a new match) sets
  `intensive_match` to 0 and may stamp itself with nothing sent; `StatusKnown` excepts it
  from then on (`emptied`).
* `SendXml`, `RemoteConfig`: a file that a full disk cut is sent, buffered or uploaded like a
  whole one. The digest of an upload that was cut is no digest of anything (`BadMd5`), and a
  fetched one is compared by its 32 characters.
* `Collections`: a crash between the removal of a directory and that of its digest (`W:1098`)
  leaves a digest without content; if the collection is listed again, it counts as up to
  date and is not fetched (`Stuck`).
* `CommandRun`: `cmd.exe /c` is the child and the command a child of that. `TerminateProcess`
  ends `cmd.exe` alone; if the assignment to the job failed, the command goes on. It is
  taken that `cmd.exe`, left alone, waits for its command: one that leaves processes in the
  background (`start`) is not modelled.
* `TailModules`: a line whose end is not written yet is taken as it is, and its rest as
  another line: it is reported once, twice or not at all. A read error that sets `badbit`
  makes the loop of a regexp module run for ever; a truncated file that has outgrown its
  old size is not noticed; a new object discards what it finds, so that with broker agents
  (a new object in every cycle) a logevent module reports nothing. The properties say so.
* `AsyncModules` is about the life of one object and a module with
  `module_async yes` and `module_watchdog yes`. It shows what the threads do lose:
  a value set while the other thread is inside `getXml` (`late`), one set while the
  module has no output, a service's stop between two subscriptions. The cycle
  makes up for the first two; nothing starts that service again. The
  watchdog gives up for good after its retries, although
  `bin/pandora_agent.conf:264` says that it "keeps taskmgr always running".
* `ServiceLoop`: a cycle, the delay included, takes less than a whole wrap of the
  counter (49 days). The service is reported stopped, and its objects are deleted,
  whatever a cycle is at: it uses them after that (`UseAfterDelete`), and what becomes of
  the process then is undefined; a stop is a crash to the other modules. The handler sleeps
  "just to ensure that things the service has processed any last packets"
  (`windows_service.cc:512`), which a cycle that a REFRESH started may outlast. `--process` has a
  loop of its own in `main`, which drifts and ignores `intensive_interval`.
* `AgentConf`: broker agents, files and words are names; a path, a quote or a tab is
  not told from them. Only the main file is replaced; that `checkConfig` also runs for broker
  agents is left out. A broker agent's file that is cut is cut at the end of a line, and never
  completed, as it is written only if it is missing. A file is read in one step
  per line, so that a replacement comes between files and not between lines: the code
  has the old file open. The properties except a replacement between two openings. Adding a
  `broker_agent` line while the agent runs makes it read for ever (`EndsReading`): nothing
  has written the new broker agent's file when `pandora_run` comes to it.
* `SshChannel`: one thread; no key exchange. Excepted because the code does so: a flush
  gives back four bytes too few for each data packet (`channel.c:787`), merged streams
  four too many (`:930`), ignored extended data what was never taken (`packet.c:452`); a
  write without window waits for ever on a closed channel; calls on a lost connection
  may spin (`channel.c:937`, `:991`) and an end of file is read again and again
  (`packet.c:688`).
* `SshSession`: the server keeps to the protocol, and allocation succeeds. Excepted because
  the code does so, each under a name in `cause`: a re-exchange that agrees on another
  block size, MAC or on compression (`switched`) makes packets unreadable, because the methods
  are in use before NEWKEYS; a wrong guess of the server (`guess`) is taken for the group of
  a group exchange, or another packet is burned in its place; the first line a server
  sends is its banner (`greeting`); without a common host key method the search runs
  over the end of a list (`kex.c:955`, position `dead`); after `lost` an upload may hang,
  or report success for half a file.
* `PendingOrSent` takes `setOutput` and the cleaning of the list as atomic, and the
  mutex as created.

Behaviour met while modelling that no run is about: with `secondary_mode always` the
secondary transfer's code replaces the primary one's (`W:902`), so that a document the
primary server never got is deleted; ssh reports a failed write as success
(`ssh/pandora_ssh_client.cc:266`); the codes of the two uploads in `checkConfig` are
ignored; an empty `transfer_mode` can send but not receive; `broker_enabled` is never
reset; a crontab match is used up by a cycle in which the interval is not fulfilled. Every
exception of `recvDataFile` leads to the upload of the local configuration over the
server's (`W:1422`), although the comment says "Not found". The digest of a new collection
is saved before its zip file is fetched (`W:1215`), so that a failed first download is
never retried (`Stuck`). After the broker agents `pandora_run` builds the module list anew
(`W:1877`), so that a module is executed and reported in every cycle, whatever its
interval, although `installer/README.txt:197` says "each 300sec x 3".

## 6. Not modelled

* One-shot measurements and the Windows information layer: a value from the operating
  system, no state. Logging, string conversion and the digest algorithm, the text of
  the XML, the test programs for ftp and ssh, installation of the service, packaging.
* Of libssh2: sftp, the public key subsystem, `scp_recv`, `libssh2_poll`, listeners and
  forwarded or X11 connections, none of which the agent uses; ciphers, MACs,
  signatures and compression are their identity.
* disphelper and winevt: vendored wrappers of system calls.
* Two threads in `pandora_run` at the same time (`udp_server.cc:217`) share the iterator
  of the module list and rebuild it under each other, and a thread of a module goes on
  with its deleted object (`W:225`): undefined from the first step on, and nothing in the
  code to state a property of.

## 7. Plan

Done, in this order: `SendXml` (losing monitoring data is what the agent must not
do), `RemoteConfig`, `Collections`, `ModuleSchedule`, `CommandRun`, `TailModules`,
`AsyncModules`, `ServiceLoop`, `ModuleFactory` and `AgentConf`, `BytePipe` and `SshChannel`,
`SshSession`.

The proofs cover every safety property and action property but those listed at the end of
section 4. Of these, `KeysAgree` needs what each packet under way was encoded with, across the
exchanges nested in a wait.
