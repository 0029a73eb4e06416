# A verification development of qfenix

qfenix talks to Qualcomm modems: it uploads a flash programmer (Sahara), flashes
and reads partitions through it (Firehose), optionally under VIP, where the
device accepts only data whose digests were signed before, backs up and restores
NV items and the EFS file system (DIAG), sends AT commands, and brings, on macOS,
a daemon of its own that bridges the modem's serial interfaces to
pseudo-terminals (`qcseriald`). This directory holds TLA+ modules of the parts
whose correctness is a matter of order, failure and interleaving, the TLC
configurations that check them, and proofs checked by TLAPS.

Contents: [Inventory](#inventory) · [Modules](#modules) · [Runs](#runs) ·
[Bounds](#bounds) · [Fairness](#fairness) · [Proofs](#proofs) ·
[Disagreements found](#disagreements-found) · [Not modelled](#not-modelled) ·
[What is left](#what-is-left)

To check: `tlc -config MCVip.cfg MCVip` and so on; the name of each `.cfg` begins with
that of the module it belongs to (`MCQcDaemon.cfg` belongs to `QcDaemon`), and [Runs](#runs)
lists them. To prove: `tlapm VipProofs.tla`, and the same for `QcBridgesProofs`,
`SaharaProofs`, `FirehoseProofs`, `CommandsProofs`, `DiagProofs`, `QcDaemonProofs` and
`EfsArchiveProofs` (each takes from one to twenty minutes).

## Inventory

| component | state | operations | what makes it hard | modules |
|---|---|---|---|---|
| **VIP generation** `vip.c` 57–360, `sim.c` | digests written so far, table files, the chain | a frame is hashed on every simulated write; at the end the tables are split and linked backwards | sizes at the boundary (53, 255), failure half-way, tables an earlier run left | `VipGen` |
| **VIP session** `vip.c` 362–499, called from `firehose.c` | `vip_data`: state, counters, open tables | before each frame: send a table if due, read its answer, count the frame | host and device must count alike; the answer is read by another function | `VipSession` |
| **Firehose** `firehose.c` | remainder of the last read, the session's place, sector and payload size | configure (and renegotiate), probe, erase, program, read, patch, set bootable, reset | replies carry no number; raw data and XML share a stream; logs; a COM port that merges messages; every early return | `Firehose`, and single commands in `Partitions` |
| **Operation queue** `firehose_op.c` | a list in document order | add, execute, execute in phases (`--erase-all`) | order across XML files, first failure | `FirehoseOps` |
| **Sahara** `sahara.c`, `qdl.c` 2037–2079 | accumulation buffer, retries, reset and hello flags | answer each packet of the boot ROM; dump memory regions; reset, close, reopen and retry | packets cut by COM ports, lost HELLO, devices in another mode than expected, partial dumps | `Sahara` |
| **Orchestration** `qdl.c` | device handle, images, queue | flash, read, ramdump, … subcommands | order of transport switch, VIP and cleanup; what exit status 0 means | `Commands` |
| **Lists** `program.c`, `sparse.c`, `read.c`, `patch.c` | intrusive lists | load XML, expand sparse images, verify MD5 | an element put on a list twice; what is skipped, and what is refused | `ImageLists` |
| **GPT/NAND** `gpt.c` | cached partition tables | load, find, read all, write, erase | a read failure taken for the end of the disk; labels on several LUNs | `Partitions` |
| **UFS** `ufs.c` | provisioning structures | load, check pass, real pass | the irreversible lock bit, failure of the second pass | `ImageLists`, `Commands` |
| **Transports** `usb.c`, `pcie.c`, `diag_switch.c` | handles | open with DIAG→EDL switch, upload, reopen | switch and re-enumeration, stale handles | `Transport` |
| **DIAG** `diag.c`, `hdlc.c` | session, EFS method | request/response over HDLC frames, NV read/write, EFS calls, recursive delete | late answers matched by their first byte | `DiagLink`, `DiagCalls`, `DiagCommands` |
| **XQCN backup/restore** `diag.c` | the document and its sections | scan the NV items, walk and probe the files; restore by section | lists paired by position, answers of another item | `Xqcn` |
| **EFS backup/restore** `diag.c` | a TAR stream, the modem's file system | walk, read, write, restore | errors that look like ends; half-restored file systems | `EfsBackup`, `EfsRestore`, `EfsTar` |
| **qcseriald bridges** `qcseriald.c` 283–885, 1311–1571 | array of bridges with three atomics each, pipes, terminals, session id | two threads per bridge; set up, monitor, tear down, stop | unlocked sharing, blocked threads, timeouts, replug | `QcBridges` |
| **qcseriald control** `qcseriald.c` 142–282, 1407–1433, 1573–2418 | PID, status and log files | start, stop, restart, status, clients waiting for a port | two starts at once, stale PIDs, kill after timeout | `QcDaemon` |
| **qcseriald probing** `qcseriald.c` 890–1308 | classification of the ports | wait for URCs, send AT, rename | name collisions, timeouts | — |
| **AT/SMS** `at_port.c`, `atcmd.c`, `pdu.c`, `ucs2_utf8.c`, `atconsole.c` | a serial port | command/response, SMS, USSD, console | late answers, the `>` prompt | — |
| **GUI** `gui/src` | child process and its output | run the tool, parse its output | callbacks from a process's threads | — |

How they interact: the orchestration opens a transport, runs Sahara through it,
then Firehose, which takes the operations from the queue that the lists filled,
resolves partition names through the GPT cache (itself filled by Firehose reads)
and calls the VIP session before every frame. VIP generation is a Firehose
session against a simulated device. The DIAG commands are a session of their own over
the DIAG port. The daemon is a process of its own; the command-line tool sees its
terminals as serial ports and reads its status file.

The properties that make each component correct, in one line each: a session
reports success only for what the device did; raw data and commands never mix;
host and device agree on the place in a table, an image or a dump; what is on
disk is what the device sent; every retry ends; nothing of an earlier attempt,
session or thread reaches a later one; nothing is touched that was not named.

## Modules

| module | models | notes |
|---|---|---|
| `VipGen` | `vip_gen_*()`, `create_chained_tables()`, `vip_gen_finalize()` | the digest of frame *k* is *k*; the hash of a file is the file, so "same hash" is "same content" |
| `VipSession` | `vip_transfer_*()` and the frame loops that call it, against the device's side of VIP | EXTENDS `VipGen`: the session uses the tables the generator left |
| `VipInvariant`, `VipProofs` | the inductive invariant of `VipSession`, its proof and six theorems | |
| `Choices` | what a walk over a list picks | a filter in a form that can be reasoned about |
| `FirehoseOps` | operations and the two orders of execution | |
| `Firehose`, `FirehoseProofs` | `firehose_run()` with everything it calls, both transports, and a programmer | |
| `FlashContract` | what a flash session promises its caller: the plan in order, each operation at most once, none after one that was not carried out, except within a pass that tries all of its own (the erases of `--erase-all`) | abstract; `Firehose` implements it (`ImplementsContract`) |
| `Sahara`, `SaharaProofs` | `sahara_run()`, the dump, `sahara_run_with_retry()`, and a boot ROM | |
| `QdlState` | the command line, the place of the command, its result, the failures left | shared by the four that follow |
| `Transport` | `usb_open()`, the DIAG switch, MHI and COM ports, the upload | composes the outcome of `Sahara` |
| `ImageLists` | the loaders of the documents and the checks before the modem is opened | |
| `Partitions` | tables, labels, and the Firehose commands on one partition | |
| `Commands`, `CommandsProofs` | `qdl_flash()`, the storage subcommands, `firehose_session_open()` and `_close()`, UFS provisioning, exit status | EXTENDS the three above; takes the phased order from `FirehoseOps` |
| `DiagLink` | `diag_send()`: frames, timeouts, matching | |
| `DiagCalls` | one operator per request: what it asks, what the modem answers, how that is read | |
| `DiagCommands` | opening a session, `nvread`, `nvwrite`, `efs_rm_recursive()` | |
| `Xqcn` | the XQCN backup and restore | uses the requests of `DiagCalls` |
| `DiagSessions`, `DiagProofs` | the DIAG commands together, and their properties | |
| `EfsTar` | the TAR archive that backup and restore share | a sequence of units of half a block |
| `EfsBackup` | the walk of the modem's file system and the probes after it | |
| `EfsRestore` | `diag_efs_restore()` against a log-structured file system | |
| `EfsArchive`, `EfsArchiveProofs` | one after the other | EXTENDS both |
| `QcBridges`, `QcBridgesProofs` | the daemon's threads and its monitor | |
| `QcDaemon`, `QcDaemonProofs` | the daemon and the commands as processes | |
| `MCVip`, `MCFirehose`, `MCSahara`, `MCCommands`, `MCDiag`, `MCEfsArchive`, `MCQcBridges` | instances for TLC | |

### VipGen and VipSession

`gpc` is where the generator is: recording digests (`vip_gen_chunk_store`), writing
tables (`chain`), appending hashes from the last table to the first (`link`), done
or failed. A table is a record `[first, count, pad, next]`; `chained` maps an index
to a file, `present` says how many exist in the directory, earlier runs' included.
`hpc` is the host's place in the loop of a session: at a frame, at the answer of a
table, at the write. `vip_state`, `frames_sent`, `frames_left`, `chained_cur` and
`fh_parse_status` carry the names of `vip_data`. The device holds a table, counts
the digests it used of it and remembers whether it refused anything. Frame 0 is
the second configure command that only a real device can provoke. Otherwise the session is
taken to send the frames of the dry run: documents that name partitions by a label make a real device's session
read its GPT as well, which `gpt_find_by_name()` skips in a dry run (`gpt.c:553`), and `--erase-all` reads
what only the device has; both send frames no table covers, and neither is in the sessions of this module.

### Firehose

Messages and units of raw data travel over two queues, `tx` and `rx`. A read over
USB takes one message; over a COM port it may take several, which is where
`fh_remainder` comes from. `resp` and `reading` are `firehose_read()`: it waits for a
response and then drains the line until it is quiet for 100 ms. The circumstances of a
session are a record, `setup`, that the initial state chooses from the constant `Setups`:
the transport, `--erase-all`, whether the programmer proposes another payload size, what
it may take longer over than the host waits (`slow`), and what may go wrong (`faults`).
`cause` records faults that really happened, so that "fails only for a cause" can be said.
`done` holds the operations of the plan the programmer has completed, `probed` those the host adds to
find out the sector size; the contract's `executed` is `done`. The first failure ends the loops over the
documents (`OpFails`). The erases of `--erase-all` are a pass of their own (`EraseAllReply`): one that is
refused is counted, the next is tried all the same, and only after the last does the pass fail, so
that nothing is programmed; the contract's `pass` is their set.

### Sahara

`hpc` is the place in `sahara_run()`; `buf` is the accumulation buffer; a packet is
one unit over USB and two over a COM port. `setup` has the images that are given, the
device (its mode, and the images it needs), its memory, the transport and the faults, one
of `Setups` in each behaviour. A unit of a dump is a pair of region and index, so a block
in the wrong place is visible.

### Commands, with Transport, ImageLists and Partitions

One run of the program. `pc` is the stage (load the documents, scan, prepare,
upload, configure, work, close, exit), `ret` the variable of that name, which `!!ret` turns
into the exit status. What a Firehose exchange does inside is `Firehose`'s and `Sahara`'s
matter; here each succeeds or fails. Every failure spends one of `faults`.

- `Transport`: `bus` is the mode the modem is in (`diag`, `edl`, `programmer`, `off`), `handle`
  what the program holds; `freed` is the pointer `usb_close()` leaves behind, which the next
  scan takes for an open device. The scan goes on until the operator plugs the modem in.
- `ImageLists`: the documents of the command line become the queue and the UFS list, in the
  order of the command line or of `firmware_detect()`. A tag says what can be wrong with it:
  its image is missing or altered, the sparse attribute is right, a mistake or followed by a
  broken header, an attribute is missing.
- `Partitions`: a command's work is a sequence of `steps`. A step says what it does
  and what its failure means to the caller: the command stops, counts it and goes on, counts
  only negative results, skips the rest of that partition, or does not look. That is where the
  subcommands differ most, and where a wrong exit status comes from. `cache` is the list of
  partitions, filled LUN by LUN; `store` is what the partitions hold, by place; `file` is the file
  that `firehose_read_to_file()` is writing, in half sectors, `saved` and `backups` the finished
  ones.
- `unsaid` collects what was left undone with no result telling of it. `ExitIsTrue` asks for it to
  be empty, so each member names a place where the code exits with 0 all the same; the list
  is under [further flaws](#further-flaws).

### DiagLink, DiagCalls, DiagCommands, Xqcn and DiagSessions

`link.pending` are the answers the modem has sent and nobody has read. A request may lose its
answer, find it damaged, merged with the next frame, or late: then it stays pending and is
read by the next request whose first byte it has, at the offsets that one expects. A late
answer is therefore read as the code reads it: an EFS status as a handle, a `readdir` entry as
that of another directory. HDLC itself is what the channel does: a frame arrives, is
damaged (the CRC fails) or does not come.

`job` and `pc` are the command and the request it is at. `efs_rm_recursive()` is a stack of
directories, each open while those below it are worked on. In `Xqcn`, `def` and `sim1` are the items
of the two subscriptions, `doc` the document with its sections, each with names, sizes and
contents in lists of their own as in the file, and the restore runs against `target`, another modem.

### EfsTar, EfsBackup, EfsRestore and EfsArchive

The recursion of `efs_backup_tree_tracked()` is a stack of the directories entered (`stack`),
each with what `readdir` has still to show and the entries collected; `handles` are the
directories the modem has open. `body` is the file being copied, `written` the path_set.
`EfsRestore` has the header worked on in `cur`, its place in the archive in `pos` and the
modem's file system in `fs`, with `used` entries of its journal. `skipped` and `warned` are what
the two leave out, each with a message; a directory entry that an error of `readdir` hides, or a
header that a failing stat suppresses, is counted in `skipped` too, though no message says so.

A unit is half a block, so that a file may fill its last block, end inside it or be empty. A unit
says what it is but not where: a reader out of step takes whatever comes. `setup` has
the tree, the paths probed, the file system restored to, the room of its journal, and the
faults. A modem has few directory handles; every change of its file system takes an entry of
the journal, which a sync empties. An archive with NV items is the output of `xqcn2tar`, which
archives files without their directories.

The disk of the host, once full, stays full, and a write to it then leaves nothing behind. Modes
and times of the entries, path lengths, the item flag of a file and the two ways to open
it are left out; so are an answer that is lost and whose command took effect (`DiagLink` has
those), and the mode the modem is put in before and after.

### QcBridges

`main` is the main thread's place: scanning, setting up, probing, checking,
sleeping, waiting, or in one of the five stages of `shutdown_bridges()`. Each
bridge has its `state`, its terminal, the session its interface belongs to (0 is
NULL), the two alive flags and the program counters of its two threads; `faults`, chosen
in the initial state from `FaultSets`, says what may go wrong. Transfers
under way (`reading`, `sending`) end by data, by a fault, by the modem being gone,
or by an abort; an abort does not reach a transfer that starts after it. A client may
stop reading its terminal, which blocks the reader thread in `write()`.

### QcDaemon

Every process has a record in `proc`: the name the process table shows, its place, the
processes `pgrep` listed for it, the one it waits for. What they share is the process table, the PID file,
the status file, the link of the port and the claim of the USB interface (`claim`); each action
touches one of them, so every interleaving of two commands is explored. `overtaken` records
the two races in which the code is known to lose: a stop that removes the PID file of a daemon
started meanwhile, and a start that listed a parent which had forked its daemon and was gone
before the signal. The operator's events (commands, unplugging, killing the daemon) are bounded
by `MaxEvents`.

## Runs

| configuration | shows | states |
|---|---|---|
| `MCVip` | whatever the sizes, stale files and failures: the chain covers every frame in order (`TablesCoverFrames`), the device refuses nothing without a cause (`NoRefusal`), both sides count alike (`InStep`), tables run out only past capacity, no frame goes out while an answer to a table is unread, and the session ends, with every frame accepted when nothing failed (`Completes`) | 9 727 |
| `MCFirehose` | over USB, over a COM port and with `--erase-all`, with refusals and a failing link: no success on another operation's answer, clean reads, no command swallowed as data, no failure without a cause, no erase before the backups are on disk, and the session implements `FlashContract`, also when an erase in the middle of `--erase-all` is refused | 23 732 |
| `MCFirehoseLive` | the session ends, with everything slow and every fault | 381 533 |
| `MCSahara` | over USB and COM ports, with devices in either mode: success means the device booted (`SuccessIsReal`), nothing stale reaches it (`InDialogue`), what is on disk of a region is the start of its memory, and no region that is reported is incomplete while the link is up or in a ramdump that succeeds (`DumpIsReal`), and a handshake that has its images ends | 17 553 |
| `MCCommands` | every storage subcommand over USB, MHI and COM, on sound, broken, blank and ambiguous disks and on NAND, with up to three failures anywhere: status 0 tells the truth (`ExitIsTrue`), what was not named is not touched (`OthersKept`), the checks come first (`CheckedFirst`), a file that is read is its partition whatever broke off (`FileIsPrefix`), and the command ends | 18 341 |
| `MCDiag` | the DIAG commands with lost, late, merged and damaged answers: status 0 tells the truth unless an answer was late; a late answer makes the delete leave its tree (`OnlyBelow`) or the scan file a value under a wrong number (`RecordsAreTrue`) never; files get their own contents and, without faults, a backup comes back | 413 847 |
| `MCEfsArchive` | a backup that is reported complete is sound: one directory open at a time, nothing archived twice, a full disk reported (`ArchiveIsSound`); restored with success it gives the tree back except what either left out with a warning and two nodes lost in silence (`RoundTrip`); what is counted is whole, wherever the archive ends; a full journal loses no small file, and only a large one ends the restore (`LosesOnlyForCause`); both end | 29 692 |
| `MCQcBridges` | no thread survives into the next session's bridges; while reads work and the modem stays, no thread uses a released interface | 1 931 853 |
| `MCQcBridgesLive` | dead readers and replugged modems are noticed; SIGTERM ends the daemon | 21 582 |
| `MCQcDaemon` | starts, stops and clients in every interleaving, with a modem unplugged or a daemon killed: one daemon, named by the PID file, but for two overtakings (`OneDaemon`); every command ends | 114 610 |
| `MCSaharaRegions`, `MCCommandsLabel` | two [disagreements](#disagreements-found), each refuting one property that a text of the repository states | |

Every property of a passing run has a mutant: an operator in the module under
check, marked `Mutant:` and defined just before the definition it stands for, that
changes the code's behaviour as a plausible bug would and makes the property fail.
They are listed in `PROJECT.json`. Six more configurations (`MCFirehoseSlow`,
`MCFirehoseFile`, `MCSaharaMissing`, `MCCommandsSecdata`, `MCQcBridgesWriter`, `MCDiagExcluded`) show
[further flaws](#further-flaws); TLC reports a violation for each. They are kept for the reader, and are not
among the runs of `PROJECT.json`: what they show is what the properties of the passing runs except.

## Bounds

- `MCVip`: tables of 2 and 3 digests, room for 2 chained tables, up to 12 frames and
  3 stale tables: an empty run, a first table not full, exactly full and one over, and
  chains one longer than the room, so each branch of the split and the overflow is
  taken. The theorems hold for all sizes.
- `MCFirehose*`: one operation of each kind, a program of two units and one without a
  file, two configure attempts, at most one log message. A stale answer needs one command
  to be late and one to follow; deadlines need the last attempt and one before.
- `MCSahara*`: images of two units, one cut short, one missing; two regions; three
  attempts, as in the code. `RETRIES` counts the reads left as in the code. `MCSetups`
  pairs each transport with each kind of device; the faults of a pair are those the
  transport can have.
- `MCCommands`: one command line of each subcommand and storage at least, documents with each
  kind of tag, three LUNs with a blank one between two that share a label. Partitions have three
  sectors, read in halves, so that a read may break off inside a sector, between two, and at
  the end; two retries give a second attempt that fails again. Two writes of the DIAG switch
  stand for the thirty of MHI and two attempts for the three of the upload. Three failures are
  one more than any single recovery in the code survives.
- `MCDiag`: three NV ids, one of them excluded and one inactive for the second subscription; a
  tree two directories deep with a neighbour beside it, for `efsrm`; one file per section with one
  empty, one not shown by `readdir` and a link, for XQCN; two handles instead of four. Three faults are
  one answer that comes late and two more that make its successors match, or two late answers.
- `MCQcDaemon`: five processes and three events, so two commands that overlap with a third, or with
  an unplugging or a crash; a client brings a `start` and its daemon of its own.
- `MCQcBridges*`: two interfaces (one for the runs under fairness), the modem attached
  twice, one retry of a partial setup. The interfaces do not talk to each other; two tell
  "a thread" from "all threads", and two sessions are one stale and one current. The
  interfaces are symmetric, and the reduction is used in the safety run only. The proof
  holds for any number.
- `MCEfsArchive`: requests of one block instead of two, a small file of at most one block instead of
  four, two directory handles instead of about four, a path_set with room for all paths, or
  for one or two, instead of 3072. Three trees: three levels deep, with an empty file and a link, which is probed too; one with a large
  file that takes three requests, one of a block and a half, and files `readdir` does not show; and a small one for the two
  losses that `RoundTrip` excepts: a target with a file where the tree has a directory, and a link that the path_set forgets. The journal has room for five changes, fewer than the
  trees or the NV items make. The faults of a setup are those that the question it asks needs.

Deadlock is checked everywhere but in `MCQcDaemon`, where nothing is left to do once the
daemon has stopped and the events are used up.

## Fairness

- `VipSession`, `Firehose`: weak fairness of the host's steps: one process that goes on
  running. The device owes nothing; reads end because they time out, which the host
  does by itself. In `VipSession` the failure of the link is the one step of the host's
  that nothing is assumed of: a link may work for ever.
- `Sahara`: weak fairness of host and device. The device's part is needed by
  `MCSaharaMissing`, in which it says HELLO after each reset by itself; `SessionEnds`
  holds with a cable that may be pulled at any time.
- `Commands`: weak fairness of the program (every read of it has a timeout) and of the operator,
  who plugs in the modem the program waits for: that wait has no limit in the code.
- `EfsArchive`: weak fairness of backup and restore together: one program that goes on; each call
  to the modem has a timeout, after which it counts as failed. That the disk fills up
  and that the archive is cut short are not assumed.
- `QcBridges`: weak fairness of the main thread and of those steps of a bridge thread
  that wait for nobody (`Moves`). The modem may be silent for ever and a client may
  never read; `pthread_cond_timedwait()` and the sleeps are the main thread's own.
  Waits of the main thread are long (3 s, 5 s) against those of the threads (at most
  0.1 s), so they end only when no thread can move (`Settled`). The one wait that is
  longer, the 5 or 15 s a stalled reader goes on retrying, tests the state at each try.
- `QcDaemon`: weak fairness of each process (the operating system schedules it) and of the modem
  being plugged in, since a client polls for its port without a limit.
- The DIAG modules state no liveness: each request has its timeout, and every loop is over a
  finite list.

## Proofs

| module | theorem | for every |
|---|---|---|
| `VipProofs` | `TypeCorrect` (`[]TypeOK`, including that the array of table descriptors is not overrun), `NeverRefused` (`[]NoRefusal`), `CountedAlike` (`[]InStep`), `MissingPastCapacity` (`[]MissingOnlyPastCapacity`), `StatusReadFirst` (`[]WriteAfterStatus`), `TablesCoverFramesHolds` (`[]TablesCoverFrames`) | table sizes, capacity, number of frames |
| `QcBridgesProofs` | `TypeCorrect`, `NoThreadLeftHolds`, `NoUseAfterReleaseHolds` | set of interfaces, number of sessions and of partial setups, set of faults |
| `SaharaProofs` | `SuccessIsRealHolds`: `[](~DonePendingQuirk => SuccessIsReal)`; `InDialogueHolds`: `[](~setup.slow => InDialogue)`; `DumpIsRealHolds`: `[](~setup.slow => DumpIsReal)` | device, images, memory regions, attempts, faults, a cable pulled at any time; the first, however slow the device |
| `FirehoseProofs` | `CreditIsDue` (`SuccessIsReal`), `PayloadsAreData` (`NoCommandInPayload`), `KeepsItsContract` (`ImplementsContract`, the refinement of `FlashContract`), `FilesAreClean` (`ReadsAreClean`), `ErasesAfterBackup` (`BackupBeforeErase`), `FailsForCauseHolds` (`FailsOnlyForCause`), each while `Prompt`: every safety property of the runs | plan, payload sizes, transport, number of configure attempts and of log messages, refusals, a link cut anywhere |
| `CommandsProofs` | `FileIsPrefixHolds` (`[]FileIsPrefix`), `OthersKeptHolds` (`[]OthersKept`), `CheckedFirstHolds`: `[](SecdataPlain => CheckedFirst)`, `ExitIsTrueHolds` (`[]ExitIsTrue`) | command line, disk, list of documents, number of sectors, retries and failures |
| `DiagProofs` | `OnlyBelowHolds` (`[]OnlyBelow`), `RecordsAreTrueHolds` (`[]RecordsAreTrue`), `ExitIsTrueHolds` (`[]ExitIsTrue`), `OwnContentsHolds` (`[]OwnContents`) | modem, file system, path, list of probes, number of NV items, of faults and of handles |
| `QcDaemonProofs` | `OneDaemonHolds` (`[]OneDaemon`), without `restart` | number of processes, commands, unplugs and kills |
| `EfsArchiveProofs` | `ArchiveIsSoundHolds` (`[]ArchiveIsSound`), `CountedIsWrittenHolds` (`[]CountedIsWritten`), `LosesOnlyForCauseHolds`: `[](Ample => LosesOnlyForCause)`, `RoundTripHolds` (`[]RoundTrip`) | finite tree, target, list of probes, number of handles, capacity of the path_set, sizes of requests and of small files, journal, faults, archive of xqcn2tar, a cut anywhere |

**VIP.** From `TableSizes` (both sizes are positive), `Bounds` and `SessionConstants` (types only).
All follow from `IInv == TypeOK /\ GenInv /\ CountInv /\ TrackInv`. `NoRefusal` is not
inductive: that the device accepts the next table depends on the hash the generator
appended to the one before, long before the session. `GenInv` therefore says what the
files hold at every stage of the generator: where each table starts (`Split`), that all
but the last are full, and which hashes are in place; `CountInv` says that the host's
counters are the device's, whatever the files hold; `TrackInv`, built on both, says that
the device holds the table the host believes it holds, at the digest of the frame that
comes next. The proof has one lemma per part and, under it, one step per action. The
step that needs most is a chained table being accepted (`NextTableFits`) and a frame
matching the next digest (`FrameFits`), which are lemmas of their own. These inductions are over steps only; the facts
about tables are stated by index (`FirstOf`).

`TablesCoverFrames` is about the chain as a whole: what a device finds that follows the hashes, however many there are. It
needs `ChainEnds`, that the last table has none, and an induction over data. The two recursive functions, `Followed` and
`Digests`, are shown to be the functions one can write down without recursion (`Chain`, `Whole`):
the explicit function satisfies the recursive equation, which is what makes the definition one, and the two agree at every number
(`Induction`, from the fact that a set of numbers has a least one, `Least`).

**Bridges.** From `QcConstants` (types). `NoThreadLeft` speaks of the moment of a setup, and
holds because of five stages before it: `Stages` says what `shutdown_bridges()` has done by each of them,
`Idle` what that leaves of a record, `Caught` that no thread got past the join about to use its
interface, and `Threads` ties the alive flags to the threads' places. `Safe` adds, for a modem that stays and
reads that work, that an interface in a record is the one of this session.
The waits of the main thread are used through `Settled`: inside the stages without bridges
a thread that is left can always move (`LeftThreadMoves`), so the wait ends only without it.

**Sahara.** From `SaharaConstants` (types: an image device needs at least one image). The success of a
boot is proved for every device, the dialogue and the dump for those that answer in time: a device that
is slow is taken for a silent one and reset, its old answers meet the next handshake, and `InDialogue`
and `DumpIsReal` are false. The claim of
`SuccessIsReal` rests on one message, DONE with COMPLETE, which may be anywhere between device
and host, whole or cut: `Told` says that wherever a unit of it is, in the channel or in the
accumulation buffer, the device runs with all its images, which is stable; `Progress`, that the
device holds the images before the one it asks for; `Streams`, that buffers are sequences. Nothing is assumed
of the host's answers or of time, so a stale or misplaced answer is covered. With a single programmer image
PENDING ends the handshake as well (`DonePendingQuirk`); what holds then is model-checked.

Whose turn it is, is in no variable: the host reads messages that do not say which attempt
they belong to. `DInv` reads it off the line. What is on its way to the host, with what it has already read
of it (`Stream`), is messages that ask for nothing and, at most, one question at the end, which is what the device
now wants answered (`Ordered`, `Timely`); what is on its way to the device is what it awaits, or a reset, or the
memory reads of one dump (`Expected`); and while the host dumps it has no unread messages
(`InDump`). So an answer always meets its question. It needs that silence over a device in time means
that nothing is on its way, which is where `~setup.slow` enters (`TimesOut`), and that whatever a COM
port drops with the connection was the end of the line (`Reopens`). For the dump, `MInv` adds that there is one
dump of the device, each of its reads answered before the next is sent (`Places`), and that after it only the answer to a
reset is to come (`Over`), so a later attempt cannot add to the files. A region that the pulled cable broke off
is reported as dumped, and the ramdump fails for another reason: it ends well only with that last answer, and
what the host still has of the device when the cable is pulled came after the whole dump
(`Unbroken`, with `InDump`).

**Firehose.** From `FirehoseConstants`: an operation that carries data has some, none has the
name of the host's own commands, those of a plan have different names, a probe has none of the plan's, and
what `--erase-all` issues is erases. It also names
the type of `OfKind`, a filter of the plan: that a filter returns a sequence of what it lets through is an induction
over data, so TLC evaluates it for each plan instead. The theorems are for sessions with a `Prompt` programmer, one
that answers before the host gives up waiting, and images that can be read; without either
`SuccessIsReal` and `NoCommandInPayload` are false, which `MCFirehoseSlow` and `MCFirehoseFile` show. Replies carry
no number, so the invariant ties what is on the line in both directions to the host's place: `Phase` says which
command may be waiting, what the programmer expects and which messages may still be ahead of the host. A simple command
is answered by the time the line is silent (`Quiet`); before a payload there is one rawmode
response, and for a program nothing after it (`RawLast`); while a payload is written, what the
programmer still expects is what is on its way and what the host has left
(`Outstanding`), so that the next command finds it back in command mode. `AcksAreTrue` adds that an ACK on its way, or
heard, was given for the current operation. The invariant holds of a cut link without `Phase`,
since nothing arrives any more.

The refinement maps what the contract has executed to `done`, the programmer's own record, so the
host's place and the programmer's must be compared: `Order` says that the operations left are the end of the plan
(`Remaining`), that what is done is what the host has passed, and perhaps the one under way, and that only erases of
`--erase-all` are missing from it, as long as the host is among them (`Performed`); that an ACK heard was given for
the operation under way (`Counted`), and that an erase that counts as done was done (`Credited`), which is why
the pass succeeds only when all of it was done. The pass goes on over a cut link too, while an
erase sent before the cut may still reach the programmer: it is behind the host then, but nothing after it was sent, so it is still
in order (`Strayed`). A step of the programmer that completes an operation is then the contract's step (`Due`), the
end of the session its other one, and all else stutters. `Clean` is about reads, where
payload and messages share one stream: the units behind the rawmode response, or in the remainder,
are the payload, in order, from where the host is (`Begins`), and a closing ACK is on its way only when all of it
came (`Content`); a COM port may merge them in any way. `Backed` says that every read of the
documents the host has passed is in a file, and that with `--erase-all` erases come after all reads in
the plan. `Punctual` is for USB and without a cause of failure: whenever the host waits, what it
waits for is on its way, or a command that will be answered, so that no read times out into a failure; and every
erase of `--erase-all` it has passed counts as done (`Earned`), so that the pass does not fail at its end.

**Commands.** From `PartitionConstants` and `SetupsAssumption`, the shape of a command line, of a disk and of documents
(the tags a document of its type may have, what the loaders leave out of a tag). `FileIsPrefix` is made inductive by the shape of the file that is open (`Partial`): a
prefix of the partition with the write position at a whole sector, never behind what is held.
A resumed read overwrites what a broken one left, so the file may be longer than `done`; the invariant
keeps the two apart, which is what makes a second failure harmless. It also says that a file is open only inside a read step
(`Reading`), so that no other step of any subcommand touches it.

`OthersKept` and `CheckedFirst` speak of what a command line and its documents ask for, and of what a step deep inside a session does
to one partition. Between the two are lists that are built, emptied and rewritten, so `ChangeInv` follows a tag all
the way. `ListsInv` says that every entry of a list has a tag of a document it comes from (`Origins`), `TakenInv` the converse, that nothing
that was loaded is lost; `PathInv` that before the session the modem is untouched and the
list of steps is empty; `TableInv` that the table of partitions is that of the first LUNs of the disk, all of them unless a failure was
counted, so that a label that is found alone is alone (`OthersKept` is about the case in which it only seems to be);
that `steps` is a sequence of `Fit` steps, each of them one the command line or an entry of a list calls for (`Allowed`), through the resolution of labels, the
phases of `--erase-all`, and the steps that a step puts before the others; `StoreInv` then that a partition which is not
as it was is one that may be touched (`Touchable`). `VerifiedInv` carries the checks: a modem that is not untouched has had all documents loaded,
every digest compared and secdata looked for (`FusingInv`). `UfsInv` knows the place in the two passes of a provisioning, so what
is committed is what was checked. `SecdataPlain` is needed: `program_is_sec_partition_flashed()` looks at
the first entry of the name only, and `CheckedFirst` is false when that one has no image and a later one has
(`MCCommandsSecdata`), or when the file of a `write` command is called so, which is never looked at.
The steps, filters and concatenations of a flash are lists built from lists, so the lemmas on `Chosen` (a walk with the indices it
picks) and on `FlattenSeq` say of each what is in it, in place of an induction over data.

`ExitIsTrue` is about what is *done*, where the others are about what may be. `ExitInv` says that, as long as nothing has
failed and nothing was left out unsaid (`Clean`), all that is asked for is done or due: by a document that
is still to be loaded, by an entry of a list, or by a step that is still to come. Several of these may touch the same partition and the last
one counts, so the invariant speaks of the last element of a list that does anything to a partition
(`Leaves`, and `Lead` for the documents loaded so far), and a small calculus says what that is for a concatenation, a `FlattenSeq` and a
`Chosen`. `EffectsDue` and `ReadsDue` are about the lists and the documents that are loaded, `PlanDue` about labels
(each has its place or is one that a `resolve` step is to find), `WholeInv` about the tables, which are complete while
nothing has failed, and `StoreDue`, `BackupsDue`, `SavedDue`, `XmlDue` and `UfsDue` about the steps: a step that is taken
is replaced by steps that do what it was to do (`Apiece`), or it did it, or the command is no longer
`Clean`. The last part of the proof is that the first list of steps of each subcommand does what `Asked` and `Wanted` say
(`ScriptDoes`). Preparing the proof corrected `ExitIsTrue` twice: a flash with a provisioning ignores its other
documents, and a sparse image that is not one is left out with a message (see the omissions below).

**DIAG.** From `RemovalSetups` (the command line names a path, none of whose names is `.` or
`..`) and `MaxFaultsAssumption`. `OnlyBelow` is about late answers, so the invariant says nothing of answers: the
names that `readdir` gives may be any. It says that every directory on the stack is below the path (`Frames`), that a name is
joined to one only after `.` and `..` are skipped (`Place`), and what the modem
has left outside (`Outside`). That a request removes at most the path it names, and only if it is
a removal, is a lemma on its own (`RemovesBelow`).

`RecordsAreTrue` adds `SessionSetups`: a session has one of four commands, a modem has both NV stores, the one restored to
has an item for every number. The scan takes a late answer under the number that the answer carries, and so it may take one
twice unless answers come in order. `RInv` says that they do: the records captured rise (`Records`), the answers not yet read
are for items above all of them, rising as well, and below the one asked for next (`Unread`), so an answer taken is
always for a record that is not there yet; and when the scan of the second subscription begins, nothing on
its way looks like its answers (`NoSubRecord`). For the restore, every answer still to come that tells of a success is for a
record the modem has (`Promised`), and what has been counted is at most the records held below all of
these (`Settled`), so that no success is counted twice. Receiving one answer from a line where any
may be lost, damaged or delayed is a few lemmas on `Send` (`Framed`, `Arrived`, `Least`).

`ExitIsTrue` and `OwnContents` ask for no late answer. Both rest on `Orderly`: as long as none was late nothing is left
unread, so the answer a request returns is its own, or none (`OnTime`). That `nvread` and `nvwrite` tell the truth follows at once.
`efsrm` also returns 0 by way of a last `rmdir` only, after any number of removals that failed. What makes that enough is a
fact about trees: a directory that is empty has nothing below it at any depth (`Emptied`; of the paths below, take a
shortest one: what is above it is in the tree, so it is the directory itself). It needs that the modem's files
are a tree (`IsTree`, in `SessionSetups`) and stay one as entries go. `TInv` has this, where the walk began
(`Rooted`), and that a status is given for nothing but the path of the command line. `OInv` is for
`OwnContents`: the handle being read is that of the file being added (`Reads`), so what is appended to a body is of that file and
before its end, and every body on the way to the target, in the list, in a section of the document or restored, whole or in
part, is one that was read (`Owned`). The sections are chosen from the list by path; that a choice holds nothing else is `ChosenFrom`.

**qcseriald control.** From `DaemonConstants` (process ids are positive) and for sets of commands without
`restart`: a daemon that a restart forks is none that pgrep lists, and with it `OneDaemon` is false. That two
daemons never work together depends on what every start has still to do, so `Exclusive` orders all pairs of
instances: when one has found none, or ended all, and has not forked yet (`Cleared`), every other one
will still look for it or has it on its list; when one is a daemon, every other one will look again, or is its
parent. Two daemons, or two starts past the search, contradict it. It is lost only when a start finds nobody of
its list there any more, which is what `overtaken` records. `Named` is proved on top of it: who removes
the PID file does so while nobody is at work (`AloneAtWork`), and a stop removes that of the process it waited for.
A step is mostly one process moving while the others are left as they are or end, so one lemma (`Weakening`)
covers every step but the five at which an instance begins or gets ahead.

**EFS.** From `EfsConstants` (a tree is finite, what lies above a node is in it, and the target
has no directory where the tree has a file or a link, and nothing else above a node). Each part of `ArchiveIsSound` is about
the whole walk. That nothing is lost to the few handles follows from `WalkInv`: the directories on the stack lie
one in the other, what is left of each are entries of its own, none twice, and only the one being read is open. That
no path is archived twice needs to look ahead: `OnceInv` says, while the path_set has room, that what is in the archive, or
a directory above it, is left nowhere in the stack (`Passed`), so the walk does not come to it again, and that a
file or a link that is in it is in the path_set or being copied, so the probes leave it out. A directory that is entered
is in the stack of no other (`IsStack`). The archive of xqcn2tar is a concatenation over the items and files; it has
each once because the parts do (`Flattened`). `CauseInv` has the rest: where a full disk is looked at, and what `skipped` may hold.

The restore needs to know what an archive looks like, so its invariant (`JInv`) begins with the backup's side. `TarInv`
says that every header tells the truth about the tree (`Honest`) and is followed by its contents and padding as far as
the archive goes (`Formed`), also in an archive that was cut anywhere, and that a whole archive has, where a member ends,
another header or the end (`Border`). While a file is copied the archive is a whole one and the beginning of one member
(`Growing`). `PlaceInv` says that the reader is behind the header it works on by as much as it has used of the file, and that what it has
counted has its header further up: since no header is there twice, a file that is opened, and so truncated, is not one
that was counted. With that `CopyInv` says that the buffer, or what the modem has of the file, is what the archive had,
and `EndInv` that the reader is at a `Border` whenever it expects a header. `WarnInv` bounds the journal in a second attempt:
the directories above a file (`DirsMade`) and its pieces. That is enough only if an emptied journal has room for
them, which `LosesOnlyForCause` did not say and the theorem does (`Ample`). The attempt also found `CountedIsWritten` to be false as it was stated:
a link that is among the probes, and whose `readlink` fails, is archived as a file.

`RoundTrip` relates the tree, the archive and the modem at once, and needs a third invariant on top of these (`GInv`), a part
for each place where a node could be lost. `ReachInv` is the converse of `OnceInv`: whatever is neither left out nor hidden is
still to come, in the stack or among the probes (`Pending`), or has its header in the archive (`Recorded`); the path_set has only what
is archived, so a probe that is passed over loses nothing. `KindsInv` says that a header tells the kind of its node, unless a
probe found a link, and that no path is in the archive as two kinds while the path_set has room. `ZerosInv` says that the reader
cannot take the inside of an archive for its end: two zeros follow one another only behind the last header (`Sealed`), since a member
begins with a header and its padding is less than a block. `GivenInv` says that every header the reader has passed is on the
modem, or was warned about, or is excused (`Given`), except that of a file being written again (`Redone`). A step touches
nothing on the modem but the file it writes and directories that were not there (`Kept`), so what was given stays given; a second
header of a file says the same as the first. The attempt corrected `RoundTrip`, which was false as it was first stated: a directory
whose name the target has for a file is not made (`Occupied`), and a link that the path_set forgot is restored over as a file
(`Forgotten`).

Out of the prover's reach and model-checked only: all liveness, and ENABLED.
Model-checked, and not proved here: that a restored XQCN document gives the items and files back (`RoundTrip` of
`DiagSessions`).

## Disagreements found

Each is a run that TLC refutes; `PROJECT.json` quotes the texts.

| configuration | the code |
|---|---|
| `MCSaharaRegions` | dumps only the first memory region (`sahara.c:416` bounds the loop by a variable that the result of the first region overwrites) |
| `MCCommandsLabel` | a label that two LUNs have is taken to be that of the first (`gpt.c:557`), although the code refuses duplicates |

### Further flaws

Modelling showed more. The properties of the passing runs say where they stop, so that none
of it is hidden, and six configurations show what has a text against it.

- Firehose: an answer to the configure command that comes after 100 ms is credited to the
  next one (`MCFirehoseSlow`); an image that cannot be read makes `firehose_program()` return
  success with the programmer in raw mode (`MCFirehoseFile`). Over a COM port the ACK that
  closes a read is dropped with the remainder when it came with the last data, and the read
  fails (`FailsOnlyForCause` excepts COM ports).
- Sahara: an image that is missing, or refused by the device, repeats the handshake for ever
  (`MCSaharaMissing`, `Satisfied`). A device that is only slow is reset in the middle of the handshake.
  A ramdump whose device lost its HELLO ends with success and nothing
  dumped (`SuccessIsReal` speaks of boots). A block the disk refuses is left
  out unnoticed, since the comparison is unsigned, and the region table is taken from one
  read, so over a COM port its end may be written into the dump (`DumpIsReal` excepts both). A
  region whose transfer the pulled cable breaks off is reported with "dumped successfully" like a
  whole one (`sahara.c:291`–`295` leave the loop, 320 returns 0, 420 prints); `DumpIsReal`
  promises only that such a ramdump fails in the end. A
  ramdump that finds a device waiting for images dereferences the image list it does not
  have (result `crash`).
- Commands that exit with 0 although something was left undone (each a member of `unsaid`, which
  `ExitIsTrue` excepts): a flash whose `pcie_prepare()` fails (`qdl.c:5257`) flashes nothing;
  a GPT header that cannot be read passes for the end of the disk, so later LUNs are missing from a
  `readall` or a full dump; these two also take a NAK for success, and skip LUNs silently; a
  read or patch tag with an error is dropped while its load succeeds; an image that is marked sparse by mistake and
  followed by another entry loses its file name and is not programmed (`program.c:253`); `reset` to EDL or off succeeds whatever is
  answered; the failure of a step whose result nobody looks at. A flash with a provisioning does nothing with its
  other documents (`qdl.c:5298`), and exits with 0; `ExitIsTrue` asks for no more.
- Other things of the commands: `usb_close()` frees the handle and leaves the pointer, so
  that a later scan reports a device it does not have; `setslot` always fails, since `gpt_set_active_slot()` is not implemented; a sparse tag whose image has no sparse header makes the program list circular, and the
  session loops (`CommandEnds` excepts it); the fusing check is bypassed by the `write` commands and
  by a `secdata` entry behind one without a file
  (`MCCommandsSecdata`, against the comment above `program_is_sec_partition_flashed()`); MD5 sums are not checked for sparse
  chunks (`CheckedFirst` speaks of whole images); `write` erases before it opens the image; the NAND
  default storage makes `flash` with a label fail; a read whose closing NAK follows all data is retried with no
  sectors; on NAND the first partition of a name is taken, on GPT two of a name are refused.
- DIAG: the answer of an excluded NV item that comes late puts it into the backup
  (`MCDiagExcluded`, against `diag.c:898`); with a late answer `nvwrite` and `efsrm` may exit with 0
  for something not done (`ExitIsTrue` asks for none); `nvread` exits with 0 whatever the item's status is;
  `efs_rm_recursive()` keeps the directories above open, and fails in a tree deeper than the
  modem has handles; two frames that come in one read are refused as one. XQCN: empty files
  are neither restored nor counted; the items of the second subscription are captured and never
  restored; a short read is kept; the restore exits with 0 whatever failed.
- QcBridges: a dead writing thread is not noticed (`MCQcBridgesWriter`). After the three seconds of
  `shutdown_bridges()` an interface is released under
  a thread that may be about to use it, when a read failed or the modem was unplugged
  (`NoUseAfterRelease` excepts both). One thread that is not counted alive tears all
  bridges down, with the message that all are dead.
- QcDaemon: two starts may kill each other's daemon, and both fail. A start that listed another whose daemon it does not
  know yet may leave two, and a stop overtaken by a start removes the new daemon's PID file
  (`overtaken`). The daemon dies of SIGPIPE when the start that waits for its report was killed. `start` does not
  find a daemon that `restart` has forked, since it looks for `qcseriald start`. A client that is not root
  looks for `/tmp/qcseriald.pid` while root's daemon writes `/var/run/qcseriald.pid`; the two
  directories are not in the model.
- EFS: a file whose read fails in the middle keeps a header that promises its full size, so the
  entries after it are out of step, and the backup is reported complete all the same (the
  round-trip properties ask for no such failure). An error of `readdir` passes for the end
  of the directory. A link in the list of probes that the walk left out, since its `readlink` failed, is archived as a
  regular file (`CountedIsWritten` asks for the contents only). A large file that meets a full journal ends the restore without the sync
  and the second attempt small files get (`LosesOnlyForCause` excepts large
  files), and leaves the rest unrestored; a restore in which every file is
  refused succeeds. An archive cut at the border of two entries is restored with success. A
  path_set that is full makes the probes archive files again (`ArchiveIsSound` asks for room in it). A directory whose
  name the target has for something else is not made, since mkdir's EEXIST passes for success; a link that a full path_set
  forgot is archived again as a file and restored over (`RoundTrip` excepts both).

## Not modelled

- A VIP session that looks partitions up by label or erases all of them, whose frames the
  dry run did not hash (`VipSession.NextFrame`).
- Formatting, colours and logs, XML parsing, SHA-256 and MD5 (a digest is its input), USB
  descriptors, base64, HDLC's escaping and CRC (a damaged frame is refused), argument parsing, `--find-bootable`
  and the subcommands that list files of the host.
- The image method of `diag_efs_backup()`, which the command line never asks for; the single-file
  EFS commands (`efsls`, `efspull`, `efspush`, …), each one or two of the modelled requests;
  `tar2xqcn`, which reads no modem.
- In `QcBridges`, what probing learns about a port (it only
  opens terminals, as a client does) and the re-enumeration after seven failed
  attempts, which is a modem unplugged and plugged in again. In `QcDaemon`, the foreground mode and
  `status`, which changes nothing.
- Port probing: it renames links by heuristics on what a port says; a model would restate the
  heuristics. AT, SMS and the console: one command and its answer at a time; the late answer
  it is exposed to (`atcmd.c:130`) is the mechanism modelled in `DiagLink`. The GUI runs the tool and shows its output.
- The composition of `Commands` with the details of `Sahara` and `Firehose`: a step there is an
  outcome that these two modules and `FlashContract` justify, and running all of one inside the other
  would multiply state without a property that needs it.

## What is left

1. `AtSession`: the AT command loop with late answers and URCs, and the `>` prompt of an SMS.
2. Port probing against `QcDaemon`'s clients: a client is told a port only of a live bridge.
3. Proofs: `RoundTrip` of an XQCN document, along the lines of that of an archive.
