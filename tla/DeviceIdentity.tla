--------------------------- MODULE DeviceIdentity ---------------------------
(* backends/device_aliases.py: the alias map that folds the addresses of one *)
(* device into one lock key, and the identity records that catch an alias    *)
(* nobody configured (check_device_identity).                                *)
(*                                                                           *)
(* A lane is a process.  It locks the key of the address it was given, asks  *)
(* the device there for its id once per client, and checks the id against    *)
(* the records before it uploads.  One lane does not check: an older harness *)
(* without the alias map, or a wrapper that flocks the lockfile and writes   *)
(* nothing into it.  Of time only its order counts: a record was written     *)
(* during the present hold, or before it, and a hold is its lane and number. *)
EXTENDS Naturals, FiniteSets

CONSTANTS MaxHolds,     \* bound: MaxHolds[l] holds of lane l
          MaxMoves      \* bound: times an address moves to another device

VARIABLES map,          \* the alias map: the addresses it lists
          answers,      \* answers[a]: the device that answers there
          owner,        \* owner[k]: the lane that has the flock
          lockfile,     \* lockfile[k]: the hold its record names
          records,      \* records[d][k]: the hold in which k reached d
          lane,         \* each lane: see InitialLane
          overlapped,   \* two checks have overlapped
          moves

ivars == <<map, answers, owner, lockfile, records, lane, overlapped, moves>>

Checkers == {"x", "y"}
Lanes == Checkers \cup {"other"}
Addresses == {"a1", "a2"}
Devices == {"d1", "d2"}
Mapped == "d1"                          \* the id the map lists addresses under
CanonicalKey == "uid-d1"
LockKeys == Addresses \cup {CanonicalKey}

Nobody == "nobody"
NoHold == [lane |-> Nobody, number |-> 0]
NoRecord == [k \in LockKeys |-> NoHold]

InitialLane ==
  [step |-> "idle",      \* "claim": has the flock; "held"; "write", "judge": in a check
   address |-> "a1",     \* what its client connects to
   id |-> Nobody,        \* the client's cached unique_id
   holds |-> 0,
   read |-> NoRecord,    \* the record as the check read it
   checked |-> FALSE,    \* a check has ended in this hold
   finding |-> "none",   \* the worst finding of this hold
   real |-> TRUE,        \* a collision named a lane that holds what it recorded
   known |-> TRUE]       \* and its lockfile named the owner of the flock

(* fold_alias, device_key.                                                   *)
Key(l, a) == IF a \in map /\ l \in Checkers THEN CanonicalKey ELSE a
KeyOf(l) == Key(l, lane[l].address)
Hold(l) == [lane |-> l, number |-> lane[l].holds]

IdentityInit ==
  /\ map \in {{}, Addresses}
  /\ answers \in [Addresses -> Devices]
  /\ map # {} => \A a \in map : answers[a] = Mapped
  /\ owner = [k \in LockKeys |-> Nobody]
  /\ lockfile = [k \in LockKeys |-> NoHold]
  /\ records = [d \in Devices |-> NoRecord]
  /\ lane = [l \in Lanes |-> InitialLane]
  /\ overlapped = FALSE /\ moves = 0

Set(l, changes) ==
  lane' = [lane EXCEPT ![l] = [f \in DOMAIN @ |->
             IF f \in DOMAIN changes THEN changes[f] ELSE @[f]]]

Acquire(l, a) ==
  /\ lane[l].step = "idle" /\ lane[l].holds < MaxHolds[l]
  /\ lane[l].id # Nobody => a = lane[l].address
  /\ owner[Key(l, a)] = Nobody
  /\ owner' = [owner EXCEPT ![Key(l, a)] = l]
  /\ Set(l, [step |-> "claim", address |-> a, holds |-> lane[l].holds + 1])
  /\ UNCHANGED <<map, answers, lockfile, records, overlapped, moves>>

(* The holder writes its record; a wrapper does not.                         *)
Claim(l) ==
  /\ lane[l].step = "claim"
  /\ \/ lockfile' = [lockfile EXCEPT ![KeyOf(l)] = Hold(l)]
     \/ l \notin Checkers /\ UNCHANGED lockfile
  /\ Set(l, [step |-> "held"])
  /\ UNCHANGED <<map, answers, owner, records, overlapped, moves>>

(* GET /v1/info, once per client.                                            *)
AskId(l) ==
  /\ l \in Checkers /\ lane[l].step = "held" /\ lane[l].id = Nobody
  /\ Set(l, [id |-> answers[lane[l].address]])
  /\ UNCHANGED <<map, answers, owner, lockfile, records, overlapped, moves>>

(* _foreign_holder_at: the hold the lockfile names while its flock is taken, *)
(* unless it names the process that asks.                                    *)
ForeignHolder(l, k) ==
  IF owner[k] # Nobody /\ lockfile[k].lane # l THEN {lockfile[k]} ELSE {}

(* A raw address of a mapped device is locked by somebody else.              *)
LegacyHeld(l) ==
  KeyOf(l) = CanonicalKey /\ \E a \in map : owner[a] # Nobody /\ ForeignHolder(l, a) # {}

Worst(l, kind) ==
  IF "collision" \in {kind, lane[l].finding} THEN "collision"
  ELSE IF kind = "none" THEN lane[l].finding ELSE kind

(* check_device_identity, up to the record it reads.                         *)
BeginCheck(l) ==
  /\ l \in Checkers /\ lane[l].step = "held"
  /\ IF LegacyHeld(l)
       THEN Set(l, [checked |-> TRUE, finding |-> "collision"]) /\ UNCHANGED overlapped
       ELSE /\ lane[l].id # Nobody
            /\ IF KeyOf(l) = CanonicalKey /\ lane[l].id # Mapped
                 THEN /\ Set(l, [checked |-> TRUE, finding |-> Worst(l, "mismatch")])
                      /\ UNCHANGED overlapped
                 ELSE /\ Set(l, [step |-> "write", read |-> records[lane[l].id]])
                      /\ overlapped' = (overlapped \/
                           \E o \in Lanes : lane[o].step \in {"write", "judge"})
  /\ UNCHANGED <<map, answers, owner, lockfile, records, moves>>

(* The record is replaced by what was read and the present hold; a process   *)
(* that reaches the device under this key for the first time also takes the  *)
(* key out of every other device's record (_forget_key_elsewhere).           *)
Recorded(l) ==
  LET k == KeyOf(l)
      d == lane[l].id
      firstTime == lane[l].read[k].lane # l
  IN [e \in Devices |->
        IF e = d THEN [lane[l].read EXCEPT ![k] = Hold(l)]
        ELSE IF firstTime THEN [records[e] EXCEPT ![k] = NoHold]
        ELSE records[e]]

WriteRecord(l) ==
  /\ lane[l].step = "write"
  /\ records' = Recorded(l)
  /\ Set(l, [step |-> "judge"])
  /\ UNCHANGED <<map, answers, owner, lockfile, overlapped, moves>>

(* The other keys recorded for this device, and those of them held now by    *)
(* the process that recorded them, since before it did.                      *)
Others(l) == {k \in LockKeys : /\ lane[l].read[k] # NoHold
                               /\ k # KeyOf(l) /\ Key(l, k) # KeyOf(l)}

\* Mutant: a check that does not compare the times.
HeldByAnyHold(recorded, holder) == holder.lane = recorded.lane

HeldBy(recorded, holder) == holder = recorded

Judge(l) ==
  /\ lane[l].step = "judge"
  /\ LET held == {k \in Others(l) :
                    \E h \in ForeignHolder(l, k) : HeldBy(lane[l].read[k], h)}
     IN Set(l, [step |-> "held", checked |-> TRUE, read |-> NoRecord,
                finding |-> Worst(l, IF held # {} THEN "collision"
                                     ELSE IF Others(l) # {} THEN "seen" ELSE "none"),
                real |-> lane[l].real /\ \A k \in held :
                           /\ owner[k] = lane[l].read[k].lane
                           /\ Hold(owner[k]) = lane[l].read[k],
                known |-> lane[l].known /\ \A k \in held : lockfile[k] = Hold(owner[k])])
  /\ UNCHANGED <<map, answers, owner, lockfile, records, overlapped, moves>>

(* The lane gives the lock back, and keeps its client or not.                *)
Release(l) ==
  /\ lane[l].step = "held"
  /\ owner' = [owner EXCEPT ![KeyOf(l)] = Nobody]
  /\ \E id \in {lane[l].id, Nobody} :
       lane' = [lane EXCEPT ![l] = [InitialLane EXCEPT !.id = id, !.holds = lane[l].holds,
                  !.address = IF id = Nobody THEN "a1" ELSE lane[l].address]]
  /\ UNCHANGED <<map, answers, lockfile, records, overlapped, moves>>

(* DHCP, a change of interface: the address is another device's from now on. *)
Move(a) ==
  /\ moves < MaxMoves
  /\ moves' = moves + 1
  /\ \E d \in Devices \ {answers[a]} : answers' = [answers EXCEPT ![a] = d]
  /\ UNCHANGED <<map, owner, lockfile, records, lane, overlapped>>

IdentityNext ==
  \/ \E l \in Lanes :
       \/ \E a \in Addresses : Acquire(l, a)
       \/ Claim(l) \/ AskId(l) \/ BeginCheck(l) \/ WriteRecord(l) \/ Judge(l)
       \/ Release(l)
  \/ \E a \in Addresses : Move(a)

Spec == IdentityInit /\ [][IdentityNext]_ivars

-----------------------------------------------------------------------------
(* A collision found in the records names a lane that holds the other key    *)
(* now and was answered by this device during that hold: a stale record does *)
(* not block a device.  The one exception is an owner of the other flock     *)
(* that has not yet written the lockfile a former holder left.               *)
CollisionUnlessUnwritten ==
  \A l \in Lanes : lane[l].finding = "collision" => lane[l].real \/ ~lane[l].known

(* Two lanes that hold one device under two keys, and have both checked,     *)
(* know: whoever checked second has the collision.  Checks that overlap may  *)
(* overwrite each other's entry.                                             *)
SplitIsSeen ==
  \A l, o \in Checkers :
    /\ l # o /\ ~overlapped
    /\ lane[l].step = "held" /\ lane[l].checked
    /\ lane[o].step = "held" /\ lane[o].checked
    /\ lane[l].id = lane[o].id /\ lane[l].id # Nobody
    /\ KeyOf(l) # KeyOf(o)
    => "collision" \in {lane[l].finding, lane[o].finding}

-----------------------------------------------------------------------------
(* What the properties rest on.                                              *)

Holds == [lane : Lanes \cup {Nobody}, number : Nat]

TypeOK ==
  /\ map \in {{}, Addresses} /\ answers \in [Addresses -> Devices]
  /\ owner \in [LockKeys -> Lanes \cup {Nobody}] /\ lockfile \in [LockKeys -> Holds]
  /\ records \in [Devices -> [LockKeys -> Holds]]
  /\ DOMAIN lane = Lanes
  /\ \A l \in Lanes :
       /\ DOMAIN lane[l] = DOMAIN InitialLane
       /\ lane[l].address \in Addresses /\ lane[l].id \in Devices \cup {Nobody}
       /\ lane[l].holds \in Nat /\ lane[l].read \in [LockKeys -> Holds]

(* A lane that has a lock has its key to itself; its lockfile says so, once  *)
(* it is written; only then does the lane check.                             *)
HoldsAreLocked ==
  \A l \in Lanes :
    /\ lane[l].step # "idle" => owner[KeyOf(l)] = l
    /\ lane[l].step \in {"idle", "claim"} => ~lane[l].checked
    /\ l \in Checkers /\ lane[l].step \notin {"idle", "claim"} => lockfile[KeyOf(l)] = Hold(l)
    /\ lane[l].step \in {"write", "judge"} => l \in Checkers /\ lane[l].id # Nobody

Checking(l) == lane[l].step \in {"write", "judge"}

(* Checks take turns, until two overlap.                                     *)
ChecksTakeTurns == ~overlapped => \A l, o \in Lanes : Checking(l) /\ Checking(o) => l = o

(* Where nothing is mapped, what a check has read is the record, and what it *)
(* has written stays there as long as the lane holds the device.             *)
RecordsAreCurrent ==
  map = {} /\ ~overlapped =>
    \A l \in Checkers :
      /\ lane[l].step = "write" => lane[l].read = records[lane[l].id]
      /\ lane[l].step = "judge" =>
           \A k \in LockKeys \ {KeyOf(l)} : lane[l].read[k] = records[lane[l].id][k]
      /\ lane[l].step = "judge" \/ lane[l].checked =>
           lane[l].id # Nobody /\ records[lane[l].id][KeyOf(l)] = Hold(l)

(* SplitIsSeen, through a second check too.                                  *)
SecondSees ==
  map = {} /\ ~overlapped =>
    \A l, o \in Checkers :
      l # o /\ lane[l].checked /\ lane[o].checked /\ lane[l].id = lane[o].id =>
        "collision" \in {lane[l].finding, lane[o].finding}

(* CollisionUnlessUnwritten, of whatever a check has found.                  *)
RealUnlessUnwritten == \A l \in Lanes : lane[l].real \/ ~lane[l].known

IdentityInv ==
  /\ TypeOK /\ HoldsAreLocked /\ ChecksTakeTurns /\ RecordsAreCurrent /\ SecondSees
  /\ RealUnlessUnwritten
=============================================================================
