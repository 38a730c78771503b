----------------------------- MODULE MCToolkit ------------------------------
(* The components that share no state with each other, in one run: `subject` *)
(* is drawn once, and only that component moves.  The pool of Ultimate 64s   *)
(* is extended; the others are instances on variables of their own names,    *)
(* and a variable that the subject does not have is 0.                       *)
EXTENDS U64Pool, TLC

CONSTANTS m1, m2, t1, t2, t3, t4, d1, d2,
          MaxFaults,                                     \* PollWait, ReuExtract
          Insts, Nesting, HoldThreads, NoThread, Free, Foreign, MaxEpoch, \* HoldRegistry
          Modulus, Window, MaxHeld, MaxTwice, MaxLost,   \* both captures
          Sent, MaxLate, MaxChunks,                      \* StreamCapture
          VideoSent, VideoLate, Lines,                   \* VideoCapture
          MaxCalls, MaxBlocks, MaxTimeouts,              \* UciCommand
          Tries, Hold, MaxPings, MaxServes, MaxNoise, PingLost, \* BridgePing
          Top, Bottom, Scratch, Alignments, MaxSafe, MaxReserved, MaxRequests, \* MemoryArbiter
          Patience, IdleLimit, StableCount, PollSpares,  \* PollWait
          Deadlines, End,                                \* TodPoll
          Banks, MaxSpares, Attempts, MaxResumes         \* ReuExtract

(* Two processes with the same two units: one has three threads, one has one. *)
MCMgrOf == (t1 :> m1) @@ (t2 :> m1) @@ (t3 :> m1) @@ (t4 :> m2)
MCUnitOf == (d1 :> d1) @@ (d2 :> d2)

(* The last addresses belong to the harness.                                  *)
MCScratch == {<<4, 5>>}

VARIABLES subject,
          step, count, host, at, result, lost, spares, faults,   \* of more than one
          arrived, newest, tracker,
          flock, nested, caller, ownerThread, threads, epoch, foreignEpoch,
          capture, stream, chunks, received, filled, options,
          running, first, tail, pending, current, marked, frames,
          call, sentinel, failed, typed, routine, resp, stat, iface, fw, answer, timeouts,
          wire, chip, sending, tries, came, ping, answered, serves, noise,
          policy, allocated, asked, calls,
          wait, cpu, memory, now, last, since, event, view, reads, stuck,
          deadline, clock, latch, drifted, lo, hi, overdue,
          bank, window, saved, counter, jump, parked, armed, resumes, strayed, out, told, cleanup

holding == <<flock, nested, caller, ownerThread, threads, epoch, foreignEpoch>>
receiving == <<arrived, newest, tracker>>
streaming == <<capture, stream, chunks, received, filled, options>>
filming == <<running, first, tail, pending, current, marked, frames>>
commanding == <<call, sentinel, failed, typed, routine, resp, stat, iface, fw, answer, timeouts>>
pinging == <<wire, chip, sending, tries, came, ping, answered, serves, noise>>
allotting == <<policy, allocated, asked, calls>>
polling == <<wait, cpu, memory, now, last, since, event, view, reads, stuck>>
timing == <<deadline, clock, latch, drifted, lo, hi, overdue>>
extracting == <<bank, window, saved, counter, jump, parked, armed, resumes, strayed, out, told, cleanup>>

Holds == INSTANCE HoldRegistry WITH Threads <- HoldThreads
Stream == INSTANCE StreamCapture
Video == INSTANCE VideoCapture WITH Sent <- VideoSent, MaxLate <- VideoLate
Uci == INSTANCE UciCommand
Ping == INSTANCE BridgePing WITH MaxLost <- PingLost
Arbiter == INSTANCE MemoryArbiter WITH MaxCalls <- MaxRequests, Low <- Bottom
Polls == INSTANCE PollWait WITH MaxSpares <- PollSpares
Tod == INSTANCE TodPoll
Reu == INSTANCE ReuExtract WITH pc <- counter

ASSUME UnitsAssumption == PoolAssumption
ASSUME HoldsAssumption == Holds!RegistryAssumption
ASSUME StreamAssumption == Stream!NetworkAssumption
ASSUME VideoAssumption == Video!NetworkAssumption
ASSUME ReceiveAssumption == Ping!BufferAssumption
ASSUME CommandAssumption == Uci!BlocksAssumption
ASSUME PollingAssumption == Polls!BoundsAssumption
ASSUME TimingAssumption == Tod!DeadlinesAssumption
ASSUME ExtractAssumption == Reu!BanksAssumption

-----------------------------------------------------------------------------
NoHolding == /\ flock = 0 /\ nested = 0 /\ caller = 0 /\ ownerThread = 0 /\ threads = 0
             /\ epoch = 0 /\ foreignEpoch = 0
NoReceiving == arrived = 0 /\ newest = 0 /\ tracker = 0
NoStreaming == /\ capture = 0 /\ stream = 0 /\ chunks = 0 /\ received = 0 /\ filled = 0
               /\ options = 0
NoFilming == /\ running = 0 /\ first = 0 /\ tail = 0 /\ pending = 0 /\ current = 0
             /\ marked = 0 /\ frames = 0
NoCommanding == /\ call = 0 /\ sentinel = 0 /\ failed = 0 /\ typed = 0 /\ routine = 0
                /\ resp = 0 /\ stat = 0 /\ iface = 0 /\ fw = 0 /\ answer = 0
                /\ timeouts = 0
NoPinging == /\ wire = 0 /\ chip = 0 /\ sending = 0 /\ tries = 0 /\ came = 0 /\ ping = 0
             /\ answered = 0 /\ serves = 0 /\ noise = 0
NoAllotting == policy = 0 /\ allocated = 0 /\ asked = 0 /\ calls = 0
NoPolling == /\ wait = 0 /\ cpu = 0 /\ memory = 0 /\ now = 0 /\ last = 0 /\ since = 0
             /\ event = 0 /\ view = 0 /\ reads = 0 /\ stuck = 0
NoTiming == /\ deadline = 0 /\ clock = 0 /\ latch = 0 /\ drifted = 0 /\ lo = 0 /\ hi = 0
            /\ overdue = 0
NoExtracting == /\ bank = 0 /\ window = 0 /\ saved = 0 /\ counter = 0 /\ jump = 0
                /\ parked = 0 /\ armed = 0 /\ resumes = 0 /\ strayed = 0 /\ out = 0
                /\ told = 0 /\ cleanup = 0

RunInit ==
  /\ Init
  /\ subject \in {"pool", "holds", "stream", "video", "uci", "ping", "arbiter",
                  "wait", "tod", "reu"}
  /\ subject # "pool" => available = [m \in Managers |-> CHOOSE q \in Listing(Devices) : TRUE]
  /\ IF subject = "holds" THEN Holds!Init ELSE NoHolding
  /\ IF subject = "stream" THEN Stream!StreamInit ELSE NoStreaming
  /\ IF subject = "video" THEN Video!VideoInit ELSE NoFilming
  /\ IF subject = "uci" THEN Uci!UciInit ELSE NoCommanding
  /\ IF subject = "ping" THEN Ping!PingInit ELSE NoPinging
  /\ IF subject = "arbiter" THEN Arbiter!ArbiterInit ELSE NoAllotting
  /\ IF subject = "wait" THEN Polls!WaitInit ELSE NoPolling
  /\ IF subject = "tod" THEN Tod!TodInit ELSE NoTiming
  /\ IF subject = "reu" THEN Reu!ExtractInit ELSE NoExtracting
  /\ IF subject \in {"stream", "video"} THEN TRUE ELSE NoReceiving
  /\ IF subject \in {"holds", "wait", "reu"} THEN TRUE ELSE step = 0
  /\ IF subject \in {"holds", "wait"} THEN TRUE ELSE count = 0
  /\ IF subject \in {"uci", "reu"} THEN TRUE ELSE host = 0
  /\ IF subject \in {"ping", "tod"} THEN TRUE ELSE at = 0
  /\ IF subject \in {"ping", "reu"} THEN TRUE ELSE result = 0
  /\ IF subject \in {"video", "ping"} THEN TRUE ELSE lost = 0
  /\ IF subject \in {"wait", "reu"} THEN TRUE ELSE spares = 0 /\ faults = 0

(* Whose calls come to an end rests.                                         *)
Ending == {"stream", "video", "uci", "ping", "arbiter", "wait", "tod", "reu"}

RunNext ==
  \/ /\ subject = "pool" /\ Next
     /\ UNCHANGED <<subject, step, count, host, at, result, lost, spares, faults>>
     /\ UNCHANGED <<receiving, holding, streaming, filming, commanding, pinging, allotting, polling, timing, extracting>>
  \/ /\ subject = "holds" /\ Holds!Next
     /\ UNCHANGED <<subject, vars, host, at, result, lost, spares, faults>>
     /\ UNCHANGED <<receiving, streaming, filming, commanding, pinging, allotting, polling, timing, extracting>>
  \/ /\ subject = "stream" /\ Stream!StreamNext
     /\ UNCHANGED <<subject, vars, step, count, host, at, result, lost, spares, faults>>
     /\ UNCHANGED <<holding, filming, commanding, pinging, allotting, polling, timing, extracting>>
  \/ /\ subject = "video" /\ Video!VideoNext
     /\ UNCHANGED <<subject, vars, step, count, host, at, result, spares, faults>>
     /\ UNCHANGED <<holding, streaming, commanding, pinging, allotting, polling, timing, extracting>>
  \/ /\ subject = "uci" /\ Uci!UciNext
     /\ UNCHANGED <<subject, vars, step, count, at, result, lost, spares, faults>>
     /\ UNCHANGED <<receiving, holding, streaming, filming, pinging, allotting, polling, timing, extracting>>
  \/ /\ subject = "ping" /\ Ping!PingNext
     /\ UNCHANGED <<subject, vars, step, count, host, spares, faults>>
     /\ UNCHANGED <<receiving, holding, streaming, filming, commanding, allotting, polling, timing, extracting>>
  \/ /\ subject = "arbiter" /\ Arbiter!ArbiterNext
     /\ UNCHANGED <<subject, vars, step, count, host, at, result, lost, spares, faults>>
     /\ UNCHANGED <<receiving, holding, streaming, filming, commanding, pinging, polling, timing, extracting>>
  \/ /\ subject = "wait" /\ Polls!WaitNext
     /\ UNCHANGED <<subject, vars, host, at, result, lost>>
     /\ UNCHANGED <<receiving, holding, streaming, filming, commanding, pinging, allotting, timing, extracting>>
  \/ /\ subject = "tod" /\ Tod!TodNext
     /\ UNCHANGED <<subject, vars, step, count, host, result, lost, spares, faults>>
     /\ UNCHANGED <<receiving, holding, streaming, filming, commanding, pinging, allotting, polling, extracting>>
  \/ /\ subject = "reu" /\ Reu!ExtractNext
     /\ UNCHANGED <<subject, vars, count, at, lost>>
     /\ UNCHANGED <<receiving, holding, streaming, filming, commanding, pinging, allotting, polling, timing>>
  \/ /\ subject \in Ending
     /\ UNCHANGED <<vars, subject, step, count, host, at, result, lost, spares, faults>>
     /\ UNCHANGED <<receiving, holding, streaming, filming, commanding, pinging, allotting, polling, timing, extracting>>

allvars == <<vars, subject, step, count, host, at, result, lost, spares, faults,
             receiving, holding, streaming, filming, commanding, pinging, allotting, polling,
             timing, extracting>>

RunSpec == RunInit /\ [][RunNext]_allvars

(* Threads and units that only the pool has.                                  *)
Symmetry == Permutations({t2, t3}) \cup Permutations({d1, d2})

-----------------------------------------------------------------------------
\* No device is lost by the pool and none is in it twice, and no failure leaves
\* a lock, a transport or a device behind (U64Pool).
PoolKeepsBooks == subject = "pool" => KeepsBooks

\* The registry counts nothing outside a hold, and lists no thread but the
\* one that took the flock (HoldRegistry).
RegistryMatchesFlock ==
  subject = "holds" => Holds!RegisteredHasFlock /\ Holds!ListedThreadTookFlock

\* Two holds with a foreign one between them have different epochs (HoldRegistry).
EpochSeparatesLanes == subject = "holds" => Holds!EpochSeparatesLanes

\* A recording's index is its time, and every datagram is accounted for
\* (StreamCapture).
RecordingsAreSound ==
  subject = "stream" => Stream!SamplesAreOnTime /\ Stream!BooksClose

\* A complete frame has all its lines (VideoCapture).
FramesAreWhole == subject = "video" => Video!FramesAreWhole

\* A command returns the whole reply to itself (UciCommand).
ReplyIsOwn == subject = "uci" => Uci!ReplyIsOwn

\* A ping succeeds only on its own reply, and a full receive buffer does not
\* keep a request from being sent (BridgePing).
PingIsSound == subject = "ping" => Ping!PingIsHonest /\ Ping!NotStarved

\* The first fit of what nobody else has (MemoryArbiter).
AllocIsFirstFit == subject = "arbiter" => Arbiter!AllocIsFirstFit

\* A poll loop leaves the machine running and says what it saw (PollWait); a
\* deadline in tenths is kept (TodPoll).
WaitsAreHonest ==
  /\ subject = "wait" => Polls!LeavesMachineRunning /\ Polls!VerdictIsHonest
  /\ subject = "tod" => Tod!TimesOutOnTime

\* The extract of the expansion memory is exact and leaves no trace (ReuExtract).
ExtractIsClean == subject = "reu" => Reu!ExtractIsClean
=============================================================================
