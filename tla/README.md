# TLA+ models of c64-test-harness

The harness drives Commodore 64 programs on emulators (VICE) and on real
hardware (Ultimate 64). Many processes, and many threads of each, share a few
TCP ports and a few devices through lockfiles, in-process registries, pools and
a small flash folder, while any of them may fail, be interrupted or die; and
every device is reached through a protocol with a mind of its own, which
answers late, twice, not at all, or before the fact. This directory models
that, model-checks it on small instances with TLC, and proves parts of it for
instances of every size with TLAPS.

Sources are below `src/src/c64_test_harness/`; paths here are relative to it.

## 1. The system

### Components

| Component | State it keeps | Operations | Module |
|---|---|---|---|
| `PortLock` (`backends/port_lock.py`) | a lockfile per port, an fd per holder | `acquire`, `release`, `cleanup_stale` | `PortLockFile` |
| `DeviceLock`, the file (`backends/device_lock.py`) | a lockfile per device with a holder record | the stale sweep, `_try_acquire_once`, `release`, `foreign_holder` | `DeviceLockFile` |
| `DeviceLock`, the registry | per device: count of holds, holding threads, acquire epoch | nested and outermost acquire and release, release callbacks | `HoldRegistry` |
| `DeviceLock`, the wait | deadlines, handoff count, heartbeat thread | the loop of `acquire`, the heartbeat | `LockWait` |
| Device identity (`backends/device_aliases.py`) | alias map, an identity record per device | `check_device_identity` before an upload | `DeviceIdentity` |
| `/Temp` ledger (`backends/ultimate64_temp_gc.py`, `ultimate64_client.py`) | per device: uncollected, in-flight and armed counts; per client: its share | the gate and count of an upload, sweep, drain on release, `close` | `TempLedger` |
| VICE manager (`backends/vice_manager.py`) | allocated ports, reservation sockets, port locks, instances | `acquire`, `release`, `shutdown` | `VicePool` |
| VICE process and watchdog (`backends/vice_lifecycle.py`, `vice_watchdog.py`) | the child, live processes, the watchdog's pipe, target and start time | `start`, `stop`, `detach`, exit and fork hooks, arm, disarm, terminate | `ViceProcess` |
| Binary monitor (`backends/vice_binary.py`, `execute.py`, `memory.py`) | request ids, queued events, resume generation, checkpoints | commands, `resume`, `wait_for_stopped`, `jsr`, text commands | `BinaryMonitor` |
| U64 pool and its locked wrapper (`backends/ultimate64_manager.py`, `unified_manager.py`) | free devices, waiters, in-flight instances, locks by instance | `acquire`, `release`, `shutdown` | `U64Pool` |
| U64 configuration (`backends/ultimate64_helpers.py`, `ultimate64_baseline.py`) | the device's live and saved values, what a helper read on entry | set, restore, snapshot, SID map, isolation, factory baseline | `U64Config` |
| U64 memory (`backends/ultimate64.py`, `u64_socket_dma.py`) | the DMA socket, the latch that disables it | `write_memory`, `socket_dma_reu_write`, `inject_keys` | `U64Write`, `KeyInjection` |
| U64 probes (`backends/ultimate64_probe.py`) | the bytes a probe overwrote, its reservation in the ledger | `liveness_probe`, write check, `recover`, `runner_health_check` | `U64Probe` |
| U64 storage (`backends/ultimate64_storage.py`) | an FTP session, the file it replaces | put, ROM put and delete, mkdir, rmdir | `U64Storage` |
| Stream tracking (`backends/_stream_seq.py`) | highest number, owed and arrived numbers, held datagrams | `observe`, `bind`, `flush_held` | `StreamSeq` |
| Captures (`backends/u64_*_capture.py`) | payloads or frames under assembly, counters | receive, stop | `StreamCapture`, `VideoCapture` |
| UCI (`uci_network.py`) | sentinel and response in C64 memory, the interface's state | a command and its reply | `UciCommand` |
| Ping (`bridge_ping.py`) | the CS8900a's frames | ping and wait, respond, the checksum patch | `BridgePing`, `IcmpChecksum` |
| Waits (`screen.py`, `memory.py`, `progress.py`, `tod_timer.py`) | the CPU's state, what a poll saw, the clock | poll, resume, time out | `PollWait`, `TodPoll` |
| Snapshots (`snapshot.py`) | the saved window, the parked CPU, the armed transfer | `extract_reu_contents` | `ReuExtract` |
| Memory policy and arbiter (`memory_policy.py`, `memory_arbiter.py`) | regions, allocations | `check_write`, `alloc`, `reserve` | `MemoryArbiter` |
| Data helpers | none shared | parsing, formatting | not modelled |

`PROJECT.json` names every source file of each.

### How they interact

* A VICE manager allocates a port by binding it, then takes its `PortLock`,
  hands the lock to the instance it starts, closes the reservation and lets the
  emulator bind. Other processes' managers do the same on the same range.
* A launch starts a watchdog process first and arms it with the emulator's pid
  and start time; the pipe between them tells it of the launcher's death, so a
  forked child must not keep the pipe's end.
* The transport of an instance, its `jsr`, its waits and the REU extract all go
  through one binary monitor connection, every command of which halts the CPU.
* The locked U64 manager takes a device from its process's pool, then that
  device's `DeviceLock`, which joins an existing hold of the same process.
* `DeviceLock` keeps a registry for the process. The `/Temp` gate asks it
  whether the device is held and what the acquire epoch is; a release runs the
  registered drains while the device is still locked. The same upload asks the
  identity records whether the device is locked under another key.
* The sweeps of both lockfiles unlink files that other processes may be
  opening at that moment.
* The captures share one tracker, which says what each datagram's number means.

### What is hard

Interleavings of system calls on one lockfile; deaths that leave a file and a
record behind; a pid that is reused before it is signalled; nested holds
released in the wrong order; deadlines re-armed by the holder's progress; a
sweep that ends while uploads are in flight; ports handed from a socket to an
emulator; a roll-back after each possible failure; events that overtake the
reply they belong to; a resume swallowed by a spare trap; requests that raise
after they took effect; datagrams that are lost, late, doubled or renumbered;
a reply to an earlier question. `PROJECT.json` lists these under `hazards`, each
at its line, with the properties that watch it.

## 2. The modules

Each `X.tla` is a specification; `MCX.tla` gives it a small instance and
`MCX*.cfg` are the runs; `XProofs.tla` holds its theorems. Definitions whose
comment starts with "Mutant:" are broken variants of the definition below them:
replacing the one by the other must make a property fail. A definition's lines
are in `PROJECT.json`, `map`.

### Locks, ports and pools

* **`Flock`**: the kernel. A path leads to an inode or to nothing, a process
  has a file open, an inode has an exclusive owner. A name may be unlinked while
  the inode lives on; a dead process's locks go. Inodes are reused once nobody
  has them open.
* **`Mutex`**: the abstract lock, a holder that changes only through "free".
  A death is a `Drop`.
* **`PortLockFile`**: `port_lock.py`, one action per system call. `Verify` is
  the recheck of the inode after `flock`, `SweepVerify` the same in
  `cleanup_stale`. `Holder` maps it to `Mutex`. Not modelled: the JSON with the
  emulator's pid, which decides nothing.
* **`DeviceLockFile`**: `device_lock.py` likewise, with what differs: every
  `acquire` begins with a sweep that does not recheck the inode, `body` is the
  record in the file, `readers` are the shared locks of `foreign_holder`.
  `misfired` and `used` are history variables (a sweep unlinked a file other
  than the one it had locked; an acquirer had the flock while a probe ran).
* **`HoldRegistry`**: one process's instances of `DeviceLock` for one device
  and the registry they share; the flock is one value, another process takes
  and drops it. `BeginRelease`, `Purge` and `Unlock` are apart because callbacks
  run, and nested acquires join, between them. An instance has one caller at a
  time.
* **`LockWait`**: the loop of `acquire` over time. A tick is one heartbeat
  interval (15 s) in which the heartbeat fires once and each waiter goes round
  once, in any order.
* **`DeviceIdentity`**: lanes that lock the key of the address they were given,
  ask the device there for its id, and look in the identity records before they
  upload. An address may move to another device between any two steps, and one
  lane is of an older revision that writes no record.
* **`VicePool`**: managers (one per process), their threads and emulators.
  `listener[p]` is who listens on a port: a manager's reservation, an emulator,
  somebody else's emulator, nobody. `PortLock` is atomic here, as
  `PortLockFile`'s refinement allows. `acquire` is followed from the first bind
  (`Acquire`, `ScanX`, `TryLock`) through hand-over, connecting and the PID
  check to `have`, with `Failed` undoing everything. Closing a transport and
  stopping and freeing after a failed start are one step; `release` and
  `shutdown` keep stop and free apart, because there the two race.
* **`ViceProcess`**: the operating system's process table, a launcher with its
  threads, its forked child, and per object a launch and a watchdog. A pid is reused as
  soon as its process is reaped. Who holds the pipe's write end is explicit,
  since the end of file is the watchdog's only sign. With `sudo`, the emulator
  is root's and is reached through the wrapper only.
* **`U64Pool`**: `Ultimate64InstanceManager` and `_LockedU64Manager`. The pool's
  Condition is held during a whole `acquire`, probes included, so a passage
  through it is one step; `waiting` and `notified` are the Condition's waiters.
  The device lock is one value per unit that a thread of the owning process may
  join. After `shutdown` has taken the locks it owns them (`lock[u] = m`).

### The emulator's monitor and what uses it

* **`BinaryMonitor`**: the CPU, VICE's side of the monitor, the frames on the
  socket, the transport's queue and lock, and the callers' jobs (`jsr`, a wait
  for memory, single step, checkpoint list, a text command). Every command halts
  the CPU; a late reply is met by a later reader; a spare trap swallows an EXIT.
* **`PollWait`**: the four host-side poll loops over VICE and over an Ultimate,
  where a read halts nothing and a resume would clear the caller's pause. A read,
  a resume or the sleep between two polls may be interrupted, and a program that
  makes REU transfers leaves spare traps. Time is counted in polls.
* **`ReuExtract`**: `extract_reu_contents`: save the window, park the CPU on a
  `JMP *`, arm a transfer per bank and resume until it has run, and put
  everything back, with faults at every access and stale traps.

### The Ultimate 64

* **`TempLedger`**: one process and one device. The ledger's lock is held
  across a gate, its sweep and the count, so those are steps of one holder
  (`sweep`), between which only requests on the wire, the device and the lock
  move. Generation numbers are replaced by what they are compared for.
* **`U64Config`**: the live and the saved value of every item, and each helper
  as the series of writes it sends. A PUT may raise with or without effect, and
  an address the device does not offer is answered and ignored. A map's slots are
  written in any order, as the caller may name them in any.
* **`U64Write`**: a span as chunks over the DMA socket, the IDENTIFY barrier
  behind them, the read-back of the tail, the retry, the latch and the REST
  fallback. A barrier of an REU write that fails leaves the socket as it is.
* **`KeyInjection`**: the host that fills the keyboard buffer against the KERNAL
  that empties it, one memory access at a time.
* **`U64Probe`**: the requests of the liveness probe and of the write check
  against a device that may get worse between any two of them, or be one that
  answers a write and ignores it; the verdict each gives; and the reservation in
  the ledger, of which what was not sent is given back.
* **`U64Storage`**: a file replaced over FTP, its read-back and its undo, each of
  which may be cut off.

### Streams and networks

* **`StreamSeq`**: the tracker, a pure function of its books and a datagram.
* **`StreamCapture`**, **`VideoCapture`**: the receivers on top, against a
  network that loses, delays and doubles and a device whose counter restarts;
  what was really sent is known to the model. A debug capture may have a limit
  (`max_bytes`) and a filter.
* **`UciCommand`**: host, 6502 routine, interface and firmware, with calls that
  time out and reset the CPU while the interface stays where it was.
* **`BridgePing`**: two routines and their chips on one segment, with late
  replies, other traffic and chips that cannot transmit while unread frames fill
  them. **`IcmpChecksum`**: the arithmetic of the reply's checksum, all 2^16 of
  them.
* **`TodPoll`**: the deadline loop that reads a BCD clock register by register.
* **`MemoryArbiter`**: merge, free intervals and first fit over every policy of
  a small address space, against sets of addresses.

### How they are put together

A run explores one state space, and the number of runs is kept small, so
components that share no state are put into one run side by side: `subject` is
drawn in the initial state and only that component moves (`MCToolkit`,
`MCUltimate64`, `MCViceHost`; `config` in `MCVicePool`). That checks each of
them exactly as a run of its own would. One component of
each such module is extended and the others are instances: in `MCUltimate64` and
`MCToolkit` on variables of their own names, which is what their proofs are
about, elsewhere taking turns on variables `v1`, `v2`, .... A property of theirs
holds in the states in which they are the subject.

## 3. The runs

| Run | Instance | Shows |
|---|---|---|
| `vice_host` | 3 processes, 3 inodes; 1 emulator, 2 pids for 4 births | one owner of a port, sweeps spare holders, `ImplementsMutex`; the watchdog strikes orphans only, survivors are named, no orphan stays (liveness) |
| `device_lock` | 3 processes, 3 inodes | exclusion unless a sweep misfired, the record names the holder |
| `device_sweep` | the same | **violated**: two owners through a misfired sweep |
| `device_probe` | the same | **violated**: `foreign_holder` names somebody although nobody has the device |
| `hold_registry_thread` | 3 instances (2 may nest), 2 threads, 4 epochs | **violated**: a nested release takes the holder's thread off the list |
| `lock_wait` | 3 processes, the code's constants in ticks | patience, the chain limit, every wait ends (liveness) |
| `vice_pool` | three configurations, see below | launches are locked, books agree, nothing is left, a transport talks to its own emulator |
| `vice_reuse` | a manager with `reuse_existing` | **violated**: it adopts its own reservation |
| `monitor` | 2 threads, 3 jobs, 1 time-out, 1 spare trap | a stop is never lost, `jsr` returns where it should, a confirmed resume leaves the CPU running, no checkpoint is leaked |
| `ultimate64` | ledger: 2 clients, 3 files; the others: 2 calls, 1 or 2 faults | counts cover the device, orphans remembered, files spared, no spending on an unswept device; configuration, writes, probes, storage and identity |
| `toolkit` | registry, pool, captures, UCI, ping, arbiter, waits, REU | what the registry says is true; a unit in use is locked and the pool's books are exact; recordings are on time, frames whole; replies are one's own; first fit; honest waits; a clean extract |
| `ping_checksum` | every checksum | **violated**: a reply with a wrong checksum |

### Bounds, and why they are enough

* Lockfiles: with three processes one holds, one sweeps and one acquires, which
  is what every known failure of such protocols takes; three inodes are a dead
  one, the present one and a new one. The proofs do without these bounds.
* Registry: an outermost hold and two nested ones outlive each other in every
  order; `MaxEpoch` 4 allows two handovers with a hold before and after. Also
  proved without them.
* Wait: `Timeout` 2, `Window` 4, `Grace` 1 and `MaxFailures` 5 are the code's
  defaults in ticks. `MaxHandoffs` is 1 where the code has 3: the third holder
  of a chain exceeds it. `MaxHolds` bounds the acquires of a process.
* Ledger: the keep-count and the budget are 1, so that a single upload reaches
  them; with three files one is kept, one is in flight and one is doomed.
  `MaxPending` is the highest count at which a new request still starts. The
  requests in flight come on top, so budgets are exceeded in the model too.
* VICE managers: in "pool", two ports for three threads of two processes make
  exhaustion and contention; in "close", two threads and a shutdown on three
  ports; in "adopt", a manager with text monitors (two ports an instance), one
  with `reuse_existing`, and an emulator of somebody else's. `Closers`,
  `OutsiderPorts` and `MaxRetries` are bounds.
* Emulator: a `sudo` wrapper, the x64sc under it and two more processes, of the
  next launch or of somebody else, are four births; with two pids at a time
  every pid that ends is reused.
* Monitor: three jobs of two threads let one wait while another commands and a
  late reply meets a third; a second spare trap repeats what the first does.
* U64 pool: two units for three threads of one process make waiting necessary,
  the other process makes the locks matter. `Closers` may shut down,
  `Interrupted` may be hit by Ctrl-C.
* Configuration, writes, probes, storage: the second call meets what the first
  left, and two faults let the repair fail too.
* Streams: a debug trace keeps two payloads or all of them, and its filter leaves
  none of the even datagrams or everything. Numbers modulo 8 stand for 2^16 and a window of 3 for the code's;
  `MaxLost + 1 + Window <= Modulus` keeps a loss from looking like a duplicate,
  which the code cannot tell apart either. Six datagrams from number 6 on wrap.
* UCI, ping: one more command than may time out; `Tries` exceeds `Hold`, as
  `CS8900A_TX_SKIP_TRIES` exceeds what the chip holds, and two frames of noise
  with the peer's own can refill it.
* Waits, arbiter, clock, REU: `Deadlines` are at the carries of the sum and at
  both ends of its range; every policy of at most two safe regions and one
  reserved over addresses 0 to 3; three banks are a first, a middle and a last,
  and two spare traps are as many as a confirmed resume of two attempts gives up
  on.
* Symmetry sets are used where all members play the same part and no property
  is a liveness property.

### Fairness

`LockWait` assumes that time passes (`Tick`), that the heartbeat thread and each
waiter's loop are scheduled (`Beat`, `Check`, `GiveUp`, `Try`: plain threads with
a timed sleep), and that a holder whose heartbeat still runs releases some day.
It assumes nothing of a holder whose heartbeat has stopped, of a rescue by
another thread, or of deaths: a waiter must get away from a stuck holder by
itself. The bound on `acquire`'s patience rests on
`MaxFailures < Window + Timeout`, which the defaults satisfy (5 < 4 + 2) and
which is an `ASSUME` of the module.

`ViceProcess` assumes that the watchdog, a process of its own, and the hook that
runs first in a forked child are scheduled; it assumes nothing of the launcher,
which may be killed at any step, or of the child after its hook.

## 4. The theorems

All hold for any number of processes, inodes, instances, threads, devices, ports
and epochs, from the named assumptions of the modules (the "nobody" values are
not members of the sets, the attempts are at least one, clients are finitely
many).

**Port lockfile** (`ViceHostProofs`). `MutualExclusion` is not inductive: a
process that has the flock of an inode no name leads to would be a second
owner. `IInv` adds that a flock is had through an open file (`LocksAreOpen`),
that a process past its `flock` owns its inode (`LockedOwns`), and that one past
its recheck has the inode the name leads to (`RecheckedOnPath`). Two holders
then own the same inode, and an inode has one owner. Only a process past its
own recheck unlinks, so it unlinks its own inode and takes the name from nobody
(`SweepsSpareHolders`). `Refinement` maps each step to a `Take`, a `Drop` or a
stutter of `Mutex`.

**Emulator's process** (`ViceHostProofs`). `ProcessInv` has two parts, both for
any number of emulators, process ids and births; `PidsAssumption` only says that
`NoPid` is no process id and that `"other"`, whose processes share the table, is
no object of the launcher. `StrikeInv` is about the watchdog. A process id says
little, since ids are reused; what a line of the pipe can mean is that a process
with that id *and* start time is the object's own (`LinesAreMine`), and it stays
true because whoever is born later has a later start time (`BornInTime`).
`OwnProcess` says so of the child when `arm()` reads it. Who holds the pipe's end
decides when the watchdog may strike (`DogIsHeld`): while it reads, either the
launcher has the end open or is dead, or a disarm is still to be read; so past
the end of file the launcher is dead and the object was not disarmed. With
`ChildForgot` (the hook of a fork runs before the child's own code, so the child
stops nothing of its parent's) that is `StrikesAreRight`. The second part is about `stop()`: an x64sc that
runs is the child itself, or runs under a wrapper that will be seen to run, or is
in `rootPid`, or has been named (`SurvivorsAreKnown`). A wrapper does not die
under a root x64sc that lives, as there is at most one (`OneRoot`), which is also
why the one that `stop()` finds at its time-out is the one that matters; and an
object that is not launched has no child (`NoProcessYet`). TLC checks
`ProcessInv` on the instance of the `vice_host` run (701 928 states).

**Device lockfile** (`DeviceLockFileProofs`). The same invariant, with
`RecheckedOnPath` only as long as no sweep has misfired (`HoldersOnPath`), and
with `ClaimedBody`: from `Claim` on the inode carries its owner's name. It gives
`OnlyMisfiresBreakExclusion`, that the window found by `device_sweep` is the
only hole in the protocol, and `RecordIsTheHolders`.

**Registry** (`ToolkitProofs`). `OwnerIsOne` (the flock's owner is the one
instance between its attempt and its unlock), `CountedHold` and `ListedHold`
(nothing is counted or listed unless that instance is registered), `EpochOfHold`
(a registered hold's epoch is newer than the last foreign hold's). The three
safety properties follow from one part each.

**U64 pool** (`ToolkitProofs`). `UserHasLock` is proved from `OneNamePerUnit`
(no two entries of the pool name the same unit); nothing else needs it. It is not
inductive, because the device lock lets a thread join its own process's hold: it
must be shown that there is nothing to join. `SafeInv` adds that a device is in
the list once or in one thread's hands (`DevicesDiffer`), that whoever is past
the queue has a device (`BusyHasDevice`), and that a locked unit's holder is a
thread with that unit's device, or a manager on its way down (`LockIsUsers`,
`LockIsClosers`). A second thread of the process would need the same unit, hence
the same device.

The pool's books (`Books`) say that, until the pool is shut, whoever is out is in
flight or was lost to an interrupt (`FlightIsOut`) and that a device which is not
in the queue is out (`NoneIsMissing`); with `DevicesDiffer` the queue and the
threads out split the devices between them, which is the count of
`DevicesAreKept`. A registered thread is at a step that still gives its lock up
(`RegisteredWillRelease`), an open transport is in flight, at its own close, or
on the list that `shutdown()` closes (`OpenWillClose`): hence
`NothingStaysBehind`. `WakeupsMatchDevices` is inductive once the woken waiters
are known to be finitely many (`WokenAreFew`; the threads need not be): a device
that comes back wakes one more or finds nobody asleep, and one that goes takes
one woken waiter with it at most. That is `NoWakeupIsLost`. TLC checks `SafeInv`,
`Books` and `WakeInv` on the pool of the `toolkit` run (613 144 states), also
with two entries that name one unit. `RunIsPool` carries the theorems over to the
run, whose other components leave the pool alone (`PoolUsersAreLocked`,
`PoolBooksAreKept`, `PoolWakesAWaiter`).

**The rest of the toolkit** (`ToolkitProofs`; the two captures, `StreamProofs`). As in `MCUltimate64`, a step of a
run is a step of its subject (`SubjectMoves`), and each component has its own
invariant at the end of its module, which TLC checks on the run's instance.

* Waits (`WaitsReportWhatTheySaw`): the history of good reads is a sequence, and
  the watcher's `since` is the time of one after which all reads are alike
  (`HistoryIsKept`), which is what "stalled" means; `wait_for_stable`'s count is
  the length of such a tail. `CpuIsKept` says at which steps the CPU of a VICE
  may be halted: between two polls only by a spare trap that swallowed the plain
  resume of a waiter, so that only the two ways out that resume no more
  (`PlainExit`) leave it so, and only where the program makes REU transfers.
* Deadline (`WaitsReportWhatTheySaw`, second half): the reading of a BCD clock,
  register by register, and the sum in a byte and a carry are compared as numbers
  of tenths (`TodInv`); a deadline below 600 and a reading make no difference
  larger than the routine's own arithmetic.
* Ping (`PingsAreSound`): a reply, wherever it is, was transmitted by a responder
  that had the request (`RepliesAreAnswered`), and the routine that transmits has
  a chip with no more unread frames than the buffer holds, less the skips, plus
  what came meanwhile (`RoomIsCounted`), so that it gives up only on noise or on a
  chip that is not ready with nothing to skip.
* Command (`RepliesAreOwn`): at each step of the routine the interface holds what
  is left of the answer and the response buffer what has been taken of it, two
  ends of one sequence (`Taking`, `Part`), and an interface that has served an
  abort holds nothing of an earlier call (`Clean`, `InStep`); for any number of
  calls, of time-outs and of blocks (`BlocksAssumption`: a number).
* Recordings (`RecordingsAreOnTime`): the tracker sees numbers modulo 2^16, the
  property is about positions in the stream. As long as nothing restarted, the
  highest number is that of the newest datagram that arrived, a number still
  owed is the number of the place its slot has in the recording, and what was
  got is the number of a datagram that arrived, all within the window (`OnTime`);
  a slot that is owed is silence and no two numbers share one (`SlotsAreFree`).
  From there the cases of the tracker (next, gap, late, held, restart) are cases
  about positions, because two of them less than `Modulus` apart have different
  numbers (`NumbersDiffer`): a jump ahead is a loss since
  `MaxLost + 1 + Window <= Modulus`, and what comes `MaxLate` late is behind since
  `MaxLate + Half < Modulus` (`NetworkAssumption`). The books close (`BooksClose`)
  whatever restarts: of an audio recording and of a debug trace without options
  exactly, of one with a limit or a filter up to what these take out. For any width of the numbers, any window, any limit of held
  and of recorded payloads, and streams of any length.
* Video frames (`FramesAreKept`): whatever is put together for frame `n` shows
  lines of frame `n` (`Shows`), and once an end marker has told the height, a
  frame without holes is whole (`Whole`). That none comes twice is a matter of
  counting: for a frame to be completed again after it was handed out, each of
  its lines must have come twice, or its first datagrams must have been later
  than the network delivers (`NoSecondWhole`). The tracker matters only in that
  what it holds back has come before, and that a held run it readmits is
  consecutive. `NetworkAssumption` says that fewer datagrams are doubled than a
  frame has lines, that lateness and doubling together stay under two frames, and
  that the numbers do not come round meanwhile. On the wire a frame is 60
  datagrams and more and a number has 16 bits, so these are mild; but they are
  assumed of the network, and the code does not enforce them.
* REU (`ExtractLeavesNoTrace`): what is saved is what was in the window, the
  program is parked while anything is not put back, and a transfer that is armed
  is the next bank's (`ExtractInv`), for any number of banks, traps and attempts.
  What an extract that returned leaves of spare traps it has warned of.

Proving these found a flaw of the model's: three actions of `PollWait` and two of
`BridgePing` chose by `CASE` between guards that overlap. Which branch such a
`CASE` takes is left open by the language (TLC takes the first, as the code
does), so nothing could be proved of it; they are `IF`s now.

**`/Temp` gate** (`Ultimate64Proofs`). `GateInv` is the type invariant with two
facts about the epochs: while the lock is held, a swept epoch means that no file
of another lane's is left (`SweptIsClean`), and a pass a request waits for is
one whose failure blocks the device (`GatesBlock`). `NoSpendOnUnswept` follows:
a request that begins was let through on a swept epoch, or after a pass that
succeeded. The keep-count, `U64_TEMP_GC_KEEP`, may be anything.

**`/Temp` counts** (`Ultimate64Proofs`). `CountInv` is about the ledger and the
device together. The books (`Books`) say that each client's share is what its
own files and reservations make it, so that no clamp at zero ever hides a
subtraction too many. `Landings` says which files belong to which request,
`GateWaits` who is between its gate and its count, and `DoomedListed` that a
file that is being deleted was listed by the pass and is beyond the keep-count.
`NeverUndercounts` is the comparison of the device's files with `pending` that
follows; it is not inductive alone, since what a sweep may subtract depends on
what it has listed. The sums are cardinalities of sets of cells (`Cells`,
`Total`), which makes "one more" and "one less" facts about finite sets.
`OrphansRemembered` and `SparesUnlessOvertaken` are parts of the same argument.

**The Ultimate's other components** (`Ultimate64Proofs`). `SubjectMoves` says
that a step of `MCUltimate64` is a step of its subject and of nothing else; from
there each component has its own invariant, stated at the end of its module
under "What the property rests on". The theorems hold for any number of calls,
faults, writes, probes, holds and moves.

* Storage (`StorageTellsTheTruth`): a file that is replaced is the only one that
  differs from what was there before (`OnePlaceDiffers`), and the copy that undo
  works from is the file as it was (`OriginalIsKnown`).
* Writes and keys (`WritesAndKeysLand`): what is in the pipe is the rest of what
  was sent, in order, and only a live socket has a pipe (`PipeIsRest`,
  `PipeIsLive`), so that the barrier's answer means that the span is in memory.
  It is proved under the two conditions the run states with `Pauses = FALSE` and
  `SlowDrain = FALSE`. Without them the property is false of the model: a
  host that paused reconnects, and its barrier is answered on a fresh connection
  whatever the dropped one lost; and what a slow device has still to execute when
  the barrier times out lands on a later write.
  For the keys, the buffer and the text still to be sent make up what was not
  typed yet (`BufferIsRest`).
* Probe (`ProbesClaimNoMore`): until its restore the span holds what the probe
  found, or its pattern, and the probe's books say which (`SpanIsKnown`); the
  verdict that is due is one that a write that took effect stands for
  (`VerdictIsDue`); and what is reserved is what is still to be sent
  (`BodiesAreReserved`), so that the ledger comes out with exactly the bodies
  that were. Nothing is assumed of when a device goes deaf: what is untrue of a
  deaf one is an exception in the property, and in section 5.
* Identity (`IdentityRecordsTell`): a lane that is past its acquire has its key's
  flock and lockfile (`HoldsAreLocked`), checks that do not overlap take turns
  (`ChecksTakeTurns`), and then a lane's entry in the record stays until it
  gives the lock back (`RecordsAreCurrent`), because the other lane's check
  rewrites what it has read; so the second of two checks sees the first
  (`SecondSees`). `RealUnlessUnwritten` makes `CollisionUnlessUnwritten`
  inductive.
* Configuration (`SettingsAreRestored`): whatever of a call's writes has been
  sent, the rest still puts back every item that is not as it was, or one has
  raised and the call will tell (`Returns`; for the turbo, a snapshot and the SID
  addressing). That needs every value that is put back to be one the device takes
  (`ValuesAreOffered`), since it ignores others: it is why `SlotsAssumption` says
  that the firmware's default base of a slot is one it offers. The isolated map
  has no conflict before anything is written, mirroring goes off first, and the
  body is reached over a read-back only (`IsolationReturns`). Of the entry
  baseline, a category that is done has its defaults or a mismatch is noted
  (`BaselineReturns`). The slots and bases may be any.

TLC checks these invariants on the `ultimate64` run's instance.

**The wait** (`LockWaitProofs`). `WaitInv` has the reason why a waiter is
patient: behind a heart that beats, the record is as late as the bumps that
failed (`HeartIsHolders`), and a waiter has its whole time back after each round
in which the record is younger than `Window`, and afterwards has lost no more
than the record is late beyond it (`WaitersArePatient`). A heart that still
beats has missed fewer than `MaxFailures` bumps, and
`MaxFailures < Window + Timeout`, so the deadline is not reached
(`NeverRefusedBehindABeat`). `ChainRunsOut` needs only that the handoff count
never falls during a wait.

**VICE ports** (`VicePoolProofs`). The allocator's own `_lock` makes its scan
atomic against the other threads of the process (`OneScans`), but a launch goes
on outside it, so the invariant follows the launch: which ports an instance has
at which step (`PortsByStep`), who has their locks until and after the hand-over
(`LockedFromStart`), from when on there may be an emulator (`EmulatorByStep`) and
whom a transport is connected to (`ConnListens`). `OnAccount` ties every port,
lock and reservation of a manager to one of its threads, which is what
`NothingLeaks` needs; `ClosingIsMine` says what a shutdown still knows of the
instances it listed. `LaunchIsLocked` and `AllocatorAgrees` hold unless the two
releases met (`misfreed`), and the proof shows that nothing else breaks them. The
ports, the retries and where somebody else listens are bounds of the run only.

**Monitor** (`BinaryMonitorProofs`). `MonitorInv` starts from the transport's
lock: while a sender waits, its request is the last one, under an id that no
other frame carries, and once VICE has served it no other is on its way
(`Conversation`). That makes the order of two announcements a fact about the
socket: the reply to a resume comes before the stop that ends it
(`StopFollowsResume`), from which `ConfirmedRuns` follows. `BooksOfCheckpoints`
ties every checkpoint in VICE to a call that will delete it. These hold whatever
the threads do. `StopIsVisible` and `JsrIsHonest` do not: a second thread that
resumes the machine may let it run past the first one's stop. They are proved
under `OneDriver` (one thread runs `jsr`, waits and steps; the others read
memory, list checkpoints or talk to the text monitor), which is also how the run
instantiates `JobsOf` and how the harness uses a transport. Then the others'
reads keep every stop they meet, under the present generation, and none of their
commands, the late ones included, moves the CPU (`OnlyOwnIsWild`); so each step
of `jsr()` knows the machine (`WhatJsrKnows`: at rest, flying towards a
checkpoint that stands, stopped at the landing, put back).

Two invariants are only model-checked: `AllocIsFirstFit` (the arbiter is made of
folds and sorts over data, and what a fold returns for every input is an
induction the provers cannot do) and `PoolsAreSound` of `vice_pool`, whose third
part has its theorem (`OwnEmulator`). Liveness (`WaitEnds`, `NoOrphan`) and
statements about ENABLED are out of the prover's reach and stay with TLC.

## 5. Divergences between the code and its text

Five runs are expected to be violated; `PROJECT.json`, `findings`, quotes the
lines. Others were seen while modelling, which no run carries.

Locks, ports and pools:

* `sweep_keep()` spares the youngest files, one for each request in flight, but
  a slow upload may be older than those of requests that came and went; the
  property that holds is `SparesUnlessOvertaken`.
* A sweep all of whose deletions failed counts as a success, so an upload may
  go ahead on a device that was not cleaned; `NoSpendOnUnswept` asks only for
  the sweep.
* After a budget pass the gate does not compare the count again: with a budget
  of 1 and two requests in flight it lets a third through.
* A release drains and then purges the registry. A gate between the two may
  start a sweep that is still running when the lock is gone.
* A port's file lock does not stop another process's `allocate()` from binding
  the port for the moment before its own `flock` fails, which may be when the
  emulator binds.
* `release()` and `shutdown()` of a VICE manager on the same instance free its
  ports twice, and the second time they may be another thread's (`misfreed`).
* A pool with two entries for one unit gives it to two threads, because the
  device lock joins holds of its own process (`UserHasLock` fails if `UnitOf` is
  not injective).
* An interrupt between the device lock and the entry baseline, or within a
  probe, loses the device for the life of the process (`gone`).
* A waiter that is woken and then fails its probe wakes nobody else, so a second
  waiter may sleep beside a free device until its timeout.
* An identity collision names a lane that held the device, but that lane may
  have let it go: between a new holder's flock and the metadata it writes the
  record is the old one (`device_aliases.py:377` says the holder is true). Two
  checks that overlap may overwrite each other's record.

The emulator:

* `jsr()` resumes with a plain EXIT, which a spare trap swallows, and then
  reports a time-out of a routine that never started. `wait_for_stopped` scans the
  queue before it takes the lock: what another thread reads meanwhile fails the
  iteration (`vice_binary.py:1272`, 1279), or is found neither there nor on the
  socket. (The model takes the two loops as one look; in the code a jam queued
  between them is seen only behind the stop that comes with it, or not at all.)
  A late reply that is not an event makes it report a desynchronisation. A `set_checkpoint` whose reply is lost leaves its
  checkpoint behind. A text command that is served after its time-out halts the
  machine.
* `screen.py:234` and `memory.py:310` have the CPU running "on every exit path" of
  a wait. The resume between two polls is a plain one, after which none is
  pending (`memory.py:407-409`, `screen.py:337-339`, 390). So a screen waiter that
  ends at its deadline, and either waiter when it is interrupted in
  `time.sleep`, resumes no more, and a spare trap of the program's REU transfers
  has left the CPU halted (`PlainExit`). An interrupt inside a resume, and a
  confirmed resume that runs out of attempts, are left out of `PollWait`.
* An emulator started between `Popen` and the arming of its watchdog outlives a
  launcher that is killed there. One started with `sudo` outlives a relay that
  is killed, since nobody else may signal it.
* After an extract that failed, at a command write that took effect for one, a
  transfer may still be armed, and the caller's next resume lets it overwrite the
  window that was just restored. That a confirmed resume also says no after a
  stop that was no spare trap is not in `ReuExtract`.

The Ultimate 64:

* `isolated_sid` turns auto-mirroring off before its `try:`
  (`ultimate64_helpers.py:2206`), so an error after that PUT's effect leaves it
  off. `restore_state` stops at the first batch that fails, and the SID addresses
  behind it are not restored.
* A write that the DMA service applies after its barrier was answered is beyond
  what `write_memory` can see: `WriteLanded` fails if the model's device drains
  slowly or pauses (`SlowDrain`, `Pauses`).
* After an REU write whose barrier timed out the socket stays open
  (`u64_socket_dma.py:441-453`) with the answer still to come, and the next
  barrier on it reads that one. In the model, where a barrier is late only with
  `SlowDrain`, the late answer is not kept.
* The undo of the liveness probe takes a 2xx as restored; a device that answers
  and ignores (a "deaf" one) keeps the probe's bytes. The write check reads its
  restore back, but of a device that was deaf throughout it says restored, which
  is true as nothing was written. "a deterministic probe pattern that is NOT the
  original bytes" (`ultimate64_probe.py:1266`) is the same pattern every time: on
  a span that still holds it from a probe that did not restore, a deaf device is
  called healthy. Nothing keeps two probers apart.
* `restore_state` does not put back a cartridge that the device's presets do not
  list; `ConfigIsRestored` leaves that item out then.

Streams and networks:

* `u64_debug_capture.py:276-279` says of a capture that `packets_received` is the
  datagrams in the trace plus `payloads_discarded`. With `max_bytes` the oldest
  payloads are thrown out (566-572), and with a filter those of which it keeps
  nothing are skipped (523-530, 557-558); no field counts either. `BooksClose`
  says what is true. A payload that is filtered in part is a whole one here.
* A counter that restarts when the highest number is above 2^15 reads as a
  forward gap. A loss longer than 2^16 less the window looks like a duplicate
  while the sound is digital silence. Datagrams held back for a decision are
  dropped at a stop. A restart that meets a number still owed fills its slot.
* Up to its first end marker a video capture may take a cut frame for whole.
* A reset that fails leaves the UCI routine running on the C64; the model's
  caller stops there, as the exception tells it to.

## 6. Plan

What would come next, in this order:

1. Loading programs (`execute.py`: `load_prg` with its verification and
   `run_prg_via_sys`; the client's `run_prg`, drives and mounts), on top of
   `BinaryMonitor` and `U64Write`.
2. Reset, reboot and recovery of a device as one protocol, with `U64Probe`'s
   grades as its abstract states.
3. `run_parallel` over a pool, and the abstract pool that `VicePool` and
   `U64Pool` both implement.
4. UCI sockets that outlive a reset, and `extract_snapshot` and
   `restore_snapshot` around `ReuExtract`.

### Not modelled

* What would be transliteration: 6502 code generation, charset and screen
  codes, sample, image and file formats, parsing of symbol files and of replies.
* What is pure I/O: FTP and HTTP themselves, sudo and capability probing, bridge
  setup scripts, the framebuffer reader, everything that formats or logs.
* What keeps no state and only calls what is modelled: test runner and scenario
  helpers, `configure_multi_sid` and `set_sid_socket`, the runners' wrappers.
* Faults left out of the modules that are there: an NMI during an extract and
  the Ultimate's `pause` option, a wedged CS8900a that must be reset (one that is
  never ready is modelled), a reused (id, sequence) pair of
  pings, a UCI interface that must be probed for a wedge, a video stream that
  restarts, two threads that release the same outermost instance at once.
