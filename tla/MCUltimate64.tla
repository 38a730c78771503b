---------------------------- MODULE MCUltimate64 ----------------------------
(* The client's side of one Ultimate 64, one component at a time: `subject`  *)
(* is drawn once, and only that component moves.  The ledger of /Temp is     *)
(* extended; the others are instances on variables of their own names, and   *)
(* a variable that the subject does not have is 0.                           *)
EXTENDS TempLedger, TLC

CONSTANTS t1, t2, c1, c2,
          MaxCalls, MaxFaults,                      \* of every component
          Slots, Bases, Offered, NewSpeed, MaxRaises, \* U64Config
          Chunks, MaxWrites, SlowDrain, Pauses,     \* U64Write
          Keys, BufMax, MaxReads,                   \* KeyInjection
          MaxProbes,                                \* U64Probe
          MaxHolds, MaxMoves                        \* DeviceIdentity

(* Two clients of one process, a thread on each: the first makes uploads,    *)
(* the second liveness probes.                                               *)
MCClientOf == (t1 :> c1) @@ (t2 :> c2)

MCCosts == (t1 :> {1}) @@ (t2 :> {2})

(* Two sockets, three base addresses of which the firmware offers two; of    *)
(* three lanes one locks twice.                                              *)
MCSlots == <<"S1", "S2">>
MCBases == <<"D400", "D420", "D500">>
MCMaxHolds == [l \in {"x", "y", "other"} |-> IF l = "x" THEN 2 ELSE 1]

VARIABLES subject,
          told, calls, faults, step,                \* of more than one
          conf, flash, call, todo, failed, saved, snap,
          mem, want, writes, kind, attempt, sent, sock, pipe, latched,
          remaining, host, reads, buf, count, kernal, typed,
          health, span, temp, spent, counted, probe, bodies, kept, took, good,
          troubled, result, probes,
          file, dir, op, link, original, before,
          map, answers, owner, lockfile, records, lane, overlapped, moves

config == <<conf, flash, call, todo, failed, saved, snap>>
writing == <<mem, want, writes, kind, attempt, sent, sock, pipe, latched>>
typing == <<remaining, host, reads, buf, count, kernal, typed>>
probing == <<health, span, temp, spent, counted, probe, bodies, kept, took, good,
             troubled, result, probes>>
storing == <<file, dir, op, link, original, before>>
identity == <<map, answers, owner, lockfile, records, lane, overlapped, moves>>

Config == INSTANCE U64Config WITH MaxFaults <- MaxRaises
Writes == INSTANCE U64Write
Typing == INSTANCE KeyInjection
Probe == INSTANCE U64Probe
Storage == INSTANCE U64Storage
Identity == INSTANCE DeviceIdentity

ASSUME ConfigAssumption == Config!SlotsAssumption
ASSUME WriteAssumption == Writes!ChunksAssumption
ASSUME TypingAssumption == Typing!KeysAssumption

-----------------------------------------------------------------------------
NoConfig == /\ conf = 0 /\ flash = 0 /\ call = 0 /\ todo = 0 /\ failed = 0
            /\ saved = 0 /\ snap = 0
NoWriting == /\ mem = 0 /\ want = 0 /\ writes = 0 /\ kind = 0 /\ attempt = 0
             /\ sent = 0 /\ sock = 0 /\ pipe = 0 /\ latched = 0
NoTyping == /\ remaining = 0 /\ host = 0 /\ reads = 0 /\ buf = 0 /\ count = 0
            /\ kernal = 0 /\ typed = 0
NoProbing == /\ health = 0 /\ span = 0 /\ temp = 0 /\ spent = 0 /\ counted = 0
             /\ probe = 0 /\ bodies = 0 /\ kept = 0 /\ took = 0 /\ good = 0
             /\ troubled = 0 /\ result = 0 /\ probes = 0
NoStoring == /\ file = 0 /\ dir = 0 /\ op = 0 /\ link = 0 /\ original = 0
             /\ before = 0
NoIdentity == /\ map = 0 /\ answers = 0 /\ owner = 0 /\ lockfile = 0 /\ records = 0
              /\ lane = 0 /\ overlapped = 0 /\ moves = 0

RunInit ==
  /\ Init
  /\ subject \in {"ledger", "config", "write", "keys", "probe", "storage", "identity"}
  /\ IF subject = "config" THEN Config!Init ELSE NoConfig
  /\ IF subject = "write" THEN Writes!Init ELSE NoWriting
  /\ IF subject = "keys" THEN Typing!Init ELSE NoTyping
  /\ IF subject = "probe" THEN Probe!Init ELSE NoProbing
  /\ IF subject = "storage" THEN Storage!Init ELSE NoStoring
  /\ IF subject = "identity" THEN Identity!IdentityInit ELSE NoIdentity
  /\ IF subject \in {"config", "storage"} THEN TRUE ELSE told = 0 /\ calls = 0
  /\ IF subject \in {"config", "write", "probe", "storage"} THEN TRUE ELSE faults = 0
  /\ IF subject \in {"write", "probe", "storage"} THEN TRUE ELSE step = 0

(* Whose calls come to an end rests.                                         *)
RunNext ==
  \/ /\ subject = "ledger" /\ Next
     /\ UNCHANGED <<told, calls, faults, step, config, writing, typing, probing, storing, identity>>
     /\ UNCHANGED subject
  \/ /\ subject = "config" /\ Config!Next
     /\ UNCHANGED <<subject, vars, step, writing, typing, probing, storing, identity>>
  \/ /\ subject = "write" /\ Writes!Next
     /\ UNCHANGED <<subject, vars, told, calls, config, typing, probing, storing, identity>>
  \/ /\ subject = "keys" /\ Typing!Next
     /\ UNCHANGED <<subject, vars, told, calls, faults, step>>
     /\ UNCHANGED <<config, writing, probing, storing, identity>>
  \/ /\ subject = "probe" /\ Probe!Next
     /\ UNCHANGED <<subject, vars, told, calls, config, writing, typing, storing, identity>>
  \/ /\ subject = "storage" /\ Storage!Next
     /\ UNCHANGED <<subject, vars, config, writing, typing, probing, identity>>
  \/ /\ subject = "identity" /\ Identity!IdentityNext
     /\ UNCHANGED <<subject, vars, told, calls, faults, step>>
     /\ UNCHANGED <<config, writing, typing, probing, storing>>
  \/ /\ subject # "ledger"
     /\ UNCHANGED <<vars, subject, told, calls, faults, step>>
     /\ UNCHANGED <<config, writing, typing, probing, storing, identity>>

allvars == <<vars, subject, told, calls, faults, step,
             config, writing, typing, probing, storing, identity>>

RunSpec == RunInit /\ [][RunNext]_allvars

-----------------------------------------------------------------------------
\* An isolated map is the one that was asked for, and what a context manager
\* changed is put back or its failure told (U64Config).
ConfigIsRestored == subject = "config" => Config!IsolationHolds /\ Config!RestoredOrTold

\* A write that returned is in memory, whole and in order (U64Write), and the
\* keys injected are typed in order, each once (KeyInjection).
WritesLand ==
  /\ subject = "write" => Writes!WriteLanded
  /\ subject = "keys" => Typing!KeysInOrder

\* What a probe says of the device and of the span it wrote over is true, and its
\* reservation is settled by what it sent (U64Probe).
ProbeIsHonest == subject = "probe" => Probe!ProbeIsHonest

\* A file is stored as asked for, or the caller is told what is there (U64Storage).
StoredOrTold == subject = "storage" => Storage!StoredOrTold

\* A collision is reported of a lane that holds the device now, and a device
\* under two keys is seen (DeviceIdentity).
IdentityIsSound == subject = "identity" => Identity!CollisionUnlessUnwritten /\ Identity!SplitIsSeen
=============================================================================
