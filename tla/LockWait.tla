------------------------------ MODULE LockWait ------------------------------
(* backends/device_lock.py, the wait of DeviceLock.acquire(): deadlines,    *)
(* the heartbeat of the holder, and when a deadline is extended.            *)
(*                                                                          *)
(* The lockfile is one record (the PID written by whoever took the flock    *)
(* last, and its age); the flock is an abstract mutex.  Time passes in      *)
(* ticks of one heartbeat interval: in each tick the holder's heartbeat     *)
(* fires once and every waiter goes round its loop once, in any order.  The *)
(* real loop goes round every 0.1 s; each of its rounds does what one does  *)
(* here, and the rounds left out only see holders come and go sooner.       *)

EXTENDS Integers

CONSTANTS Procs, Free,
          Timeout,              \* acquire()'s timeout, in ticks (30 s: 2)
          Window,               \* progress_window, in ticks (60 s: 4)
          Grace,                \* _SELF_HELD_WAIT_GRACE, rounded up to 1
          MaxFailures,          \* _HEARTBEAT_MAX_CONSECUTIVE_FAILURES: 5
          MaxHandoffs,          \* _MAX_HOLDER_HANDOFFS: 3
          MaxHolds              \* bound: MaxHolds[p] acquires by process p

ASSUME WaitAssumption ==
    /\ Free \notin Procs
    /\ {Timeout, Window, Grace, MaxFailures} \subseteq Nat \ {0}
    /\ MaxHandoffs \in Nat /\ MaxHolds \in [Procs -> Nat]
    /\ Grace <= Timeout
    (* A heartbeat that recovers does so before a waiter's patience is up.  *)
    /\ MaxFailures < Window + Timeout

VARIABLES pc,                   \* pc[p]: where p is in acquire()
          holder,               \* who has the flock
          pid,                  \* the PID in the record, Free if none
          age,                  \* ticks since the mtime was bumped
          dead,                 \* processes that died
          heart,                \* the holder's heartbeat thread
          failures,             \* its consecutive failures
          beaten,               \* it has fired in this tick
          polled,               \* polled[p]: p has gone round in this tick
          budget,               \* budget[p]: timeout after the self-held cap
          remaining,            \* remaining[p]: deadline - now
          observed,             \* observed[p]: observed_pid, Free for None
          handoffs,             \* handoffs[p]
          holds                 \* holds[p]: holds p may still ask for

lock   == <<holder, pid, age, heart, failures, beaten>>
waits  == <<polled, budget, remaining, observed, handoffs>>
vars   == <<pc, lock, waits, dead, holds>>

MaxAge == Window + 1            \* beyond the window, older is no different
Least(a, b) == IF a < b THEN a ELSE b

TypeOK == /\ pc \in [Procs -> {"idle", "check", "try", "holding"}]
          /\ holder \in Procs \cup {Free}
          /\ pid \in Procs \cup {Free}
          /\ age \in 0 .. MaxAge
          /\ dead \in SUBSET Procs
          /\ heart \in {"none", "beating", "silent"}
          /\ failures \in 0 .. MaxFailures
          /\ beaten \in BOOLEAN
          /\ polled \in [Procs -> BOOLEAN]
          /\ budget \in [Procs -> {Timeout, Grace}]
          /\ remaining \in [Procs -> 0 .. Timeout]
          /\ observed \in [Procs -> Procs \cup {Free}]
          /\ handoffs \in [Procs -> 0 .. MaxHandoffs + 1]
          /\ holds \in [Procs -> Nat] /\ \A p \in Procs : holds[p] <= MaxHolds[p]

Init == /\ pc = [p \in Procs |-> "idle"]
        /\ holder = Free /\ pid = Free /\ age = MaxAge
        /\ dead = {}
        /\ heart = "none" /\ failures = 0 /\ beaten = FALSE
        /\ polled = [p \in Procs |-> FALSE]
        /\ budget = [p \in Procs |-> Timeout]
        /\ remaining = [p \in Procs |-> Timeout]
        /\ observed = [p \in Procs |-> Free]
        /\ handoffs = [p \in Procs |-> 0]
        /\ holds = MaxHolds

Waiting(p)  == pc[p] \in {"check", "try"}
SelfHeld(p) == Waiting(p) /\ holder = p     \* _held_by_this_thread()
Goto(p, s)  == pc' = [pc EXCEPT ![p] = s]

-----------------------------------------------------------------------------
(* A successful _try_acquire_once() and _start_heartbeat(): the record is   *)
(* written, which makes its mtime fresh.                                    *)
Take(p) == /\ holder = Free
           /\ holder' = p /\ pid' = p /\ age' = 0
           /\ heart' = "beating" /\ failures' = 0 /\ beaten' = TRUE
           /\ Goto(p, "holding")

(* The waits of p are forgotten when its acquire() returns.                 *)
Forget(p) == /\ polled' = [polled EXCEPT ![p] = FALSE]
             /\ budget' = [budget EXCEPT ![p] = Timeout]
             /\ remaining' = [remaining EXCEPT ![p] = Timeout]
             /\ observed' = [observed EXCEPT ![p] = Free]
             /\ handoffs' = [handoffs EXCEPT ![p] = 0]

(* acquire(), fast path; a try that fails makes p a waiter.                 *)
AcquireFast(p) == /\ pc[p] = "idle" /\ holds[p] > 0
                  /\ Take(p)
                  /\ holds' = [holds EXCEPT ![p] = @ - 1]
                  /\ UNCHANGED <<waits, dead>>

StartWait(p) == /\ pc[p] = "idle" /\ holds[p] > 0 /\ holder # Free
                /\ holds' = [holds EXCEPT ![p] = @ - 1]
                /\ Goto(p, "check")
                /\ UNCHANGED <<lock, waits, dead>>

(* The holder's own thread acquires again through another instance that is  *)
(* not allow_nested: its timeout is capped.                                 *)
StartSelfWait(p) == /\ pc[p] = "holding" /\ holds[p] > 0
                    /\ holds' = [holds EXCEPT ![p] = @ - 1]
                    /\ budget' = [budget EXCEPT ![p] = Grace]
                    /\ remaining' = [remaining EXCEPT ![p] = Grace]
                    /\ Goto(p, "check")
                    /\ UNCHANGED <<lock, polled, observed, handoffs, dead>>

-----------------------------------------------------------------------------
(* One round of the loop: look at the holder and extend or not, return      *)
(* False at the deadline, sleep, try.                                       *)

(* Mutant: a waiter does not ask whether it waits for itself.               *)
ProgressOfAnybody(p) == age <= Window /\ pid # Free /\ pid \notin dead

(* _holder_progress()                                                       *)
Progressing(p) == /\ ~SelfHeld(p)
                  /\ age <= Window
                  /\ pid # Free /\ pid \notin dead

(* The identity changed since the last round in which it was readable.      *)
Overtakes(p) == IF Progressing(p) /\ observed[p] \notin {Free, pid}
                THEN Least(handoffs[p] + 1, MaxHandoffs + 1)
                ELSE handoffs[p]

(* Mutant: the chain of holders is extended for like a single one.          *)
ExtendAlways(p) == Progressing(p)

(* Mutant: off by one, the last tolerated handoff does not extend.          *)
ExtendBelowLimit(p) == Progressing(p) /\ Overtakes(p) < MaxHandoffs

Extends(p) == Progressing(p) /\ Overtakes(p) <= MaxHandoffs

Check(p) == /\ pc[p] = "check" /\ ~polled[p]
            /\ handoffs' = [handoffs EXCEPT ![p] = Overtakes(p)]
            /\ observed' = [observed EXCEPT ![p] = IF Progressing(p) THEN pid ELSE @]
            /\ remaining' = [remaining EXCEPT ![p] = IF Extends(p) THEN budget[p] ELSE @]
            /\ remaining'[p] > 0
            /\ Goto(p, "try")
            /\ UNCHANGED <<lock, polled, budget, dead, holds>>

(* acquire() returns False; the thread that waited for itself still holds.  *)
GiveUp(p) == /\ pc[p] = "check" /\ ~polled[p]
             /\ ~Extends(p) /\ remaining[p] = 0
             /\ Goto(p, IF SelfHeld(p) THEN "holding" ELSE "idle")
             /\ Forget(p)
             /\ UNCHANGED <<lock, dead, holds>>

Try(p) == /\ pc[p] = "try"
          /\ \/ Take(p) /\ Forget(p)
             \/ /\ holder # Free
                /\ Goto(p, "check")
                /\ polled' = [polled EXCEPT ![p] = TRUE]
                /\ UNCHANGED <<lock, budget, remaining, observed, handoffs>>
          /\ UNCHANGED <<dead, holds>>

-----------------------------------------------------------------------------
(* The holder                                                               *)

LetGo == holder' = Free /\ heart' = "none" /\ failures' = 0 /\ beaten' = FALSE

(* release() bumps the mtime.                                               *)
Release(p) == /\ pc[p] = "holding"
              /\ LetGo /\ age' = 0
              /\ Goto(p, "idle")
              /\ UNCHANGED <<pid, waits, dead, holds>>

(* Another thread releases the lock the waiting thread holds.               *)
Rescue(p) == /\ SelfHeld(p)
             /\ LetGo /\ age' = 0
             /\ UNCHANGED <<pc, pid, waits, dead, holds>>

(* The holder's process dies; the kernel drops the flock, nobody bumps.     *)
Die(p) == /\ holder = p
          /\ LetGo
          /\ dead' = dead \cup {p}
          /\ Goto(p, "idle")
          /\ holds' = [holds EXCEPT ![p] = 0]
          /\ Forget(p)
          /\ UNCHANGED <<pid, age>>

(* _heartbeat_loop(): a bump that works, one that fails, and the failure    *)
(* that makes it give up.                                                   *)
Beat == /\ heart = "beating" /\ ~beaten
        /\ beaten' = TRUE
        /\ \/ age' = 0 /\ failures' = 0 /\ UNCHANGED heart
           \/ /\ failures' = failures + 1
              /\ heart' = IF failures' = MaxFailures THEN "silent" ELSE heart
              /\ UNCHANGED age
        /\ UNCHANGED <<pc, holder, pid, waits, dead, holds>>

(* FileNotFoundError: a sweep took the lockfile, and the heartbeat stops.   *)
BeatLost == /\ heart = "beating" /\ ~beaten
            /\ heart' = "silent"
            /\ UNCHANGED <<pc, holder, pid, age, failures, beaten, waits, dead,
                           holds>>

(* A tick passes when everybody has had a turn in the last one.             *)
Tick == /\ heart = "beating" => beaten
        /\ \A p \in Procs : Waiting(p) => pc[p] = "check" /\ polled[p]
        /\ age' = Least(age + 1, MaxAge)
        /\ beaten' = FALSE
        /\ polled' = [p \in Procs |-> FALSE]
        /\ remaining' = [p \in Procs |-> IF Waiting(p) /\ remaining[p] > 0
                                         THEN remaining[p] - 1 ELSE remaining[p]]
        /\ UNCHANGED <<pc, holder, pid, heart, failures, budget, observed,
                       handoffs, dead, holds>>

Next == \/ \E p \in Procs :
              \/ AcquireFast(p) \/ StartWait(p) \/ StartSelfWait(p)
              \/ Check(p) \/ GiveUp(p) \/ Try(p)
              \/ Release(p) \/ Rescue(p) \/ Die(p)
        \/ Beat \/ BeatLost \/ Tick

(* Time passes, the waiters and the heartbeat thread run, and a holder      *)
(* whose heartbeat runs releases in the end.  A holder whose heartbeat has  *)
(* stopped owes nothing, and neither do rescuers and dying processes.       *)
Fairness == /\ WF_vars(Tick) /\ WF_vars(Beat)
            /\ \A p \in Procs : /\ WF_vars(Check(p)) /\ WF_vars(GiveUp(p))
                                /\ WF_vars(Try(p))
                                /\ WF_vars(heart = "beating" /\ Release(p))

Spec == Init /\ [][Next]_vars /\ Fairness

-----------------------------------------------------------------------------
(* acquire() returns False to p.                                            *)
Refused(p) == Waiting(p) /\ pc'[p] = "idle" /\ p \notin dead'

(* A waiter with its full timeout never gives up on a holder whose          *)
(* heartbeat has not: not while single bumps fail, up to one short of the   *)
(* limit, and not when the deadline is near.  The only other reason is a    *)
(* chain of more than MaxHandoffs holders.                                  *)
PatientBehindBeatingHolder ==
    [][\A p \in Procs : Refused(p) /\ heart = "beating" /\ budget[p] = Timeout
          => Overtakes(p) > MaxHandoffs]_vars

(* Once a waiter has been overtaken too often, no later holder, however     *)
(* long it holds, gives it time back: what is left of timeout runs out.     *)
ChainIsNotRearmed ==
    [][\A p \in Procs : Waiting(p) /\ Waiting(p)' /\ handoffs[p] > MaxHandoffs
          => remaining'[p] <= remaining[p]]_vars

(* Every wait ends, with the lock or with False: behind a holder that died, *)
(* behind one that is alive and stuck, behind a chain of holders, and       *)
(* behind the waiting thread's own hold.                                    *)
WaitEnds == \A p \in Procs : Waiting(p) ~> ~Waiting(p)

(* Why a waiter is patient: the heartbeat is as late as its failures say;   *)
(* who has looked in this tick has its time back, and while the record is   *)
(* too old to be progress, no more of it is gone than the record is late.   *)
Ticks == failures + (IF beaten THEN 0 ELSE 1)

HeartIsHolders ==
    heart = "beating" => /\ holder \in Procs \ dead
                         /\ pid = holder
                         /\ failures < MaxFailures
                         /\ age = Least(Ticks, MaxAge)

TheDeadRest == \A p \in dead : pc[p] = "idle" /\ holds[p] = 0

FullTimeAtRest == \A p \in Procs : ~Waiting(p) => remaining[p] = budget[p]

Patience(p) ==
    /\ (polled[p] \/ pc[p] = "try") /\ Ticks \in 1 .. Window
            => remaining[p] = budget[p]
    /\ Ticks > Window => remaining[p] >= budget[p] - (Ticks - Window)

WaitersArePatient ==
    heart = "beating" =>
        \A p \in Procs : Waiting(p) /\ holder # p /\ handoffs[p] <= MaxHandoffs
                            => Patience(p)

WaitInv == /\ TypeOK /\ HeartIsHolders /\ TheDeadRest
           /\ FullTimeAtRest /\ WaitersArePatient
=============================================================================
