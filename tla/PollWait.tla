------------------------------ MODULE PollWait ------------------------------
(* The host-side poll loops: wait_for_text and wait_for_stable (screen.py),  *)
(* wait_for_memory (memory.py), watch_progress (progress.py).  On VICE every *)
(* read halts the CPU, and a read that comes while the program is stalled in *)
(* an REU transfer leaves a spare monitor trap, which swallows a later plain *)
(* resume; on an Ultimate 64 a read halts nothing, and a resume clears a     *)
(* pause the caller has set.  Time is counted in polls.                      *)
EXTENDS Naturals, Sequences

CONSTANTS Patience,      \* timeout, overall_timeout
          IdleLimit,          \* idle_timeout
          StableCount,   \* stable_count
          MaxSpares,     \* bound: spare traps one read leaves
          MaxFaults      \* bound: reads and resumes that fail, and interrupts

VARIABLES wait,          \* the loop, the transport, whether a pause was set, and
                         \* whether the program makes REU transfers meanwhile
          step,          \* "poll", "resume", "sleep", "leave", "left"
          cpu,           \* "running", "halted", "paused"
          spares,        \* spare monitor traps
          memory,        \* what the program shows: two ranges
          now,
          last,          \* what the last good poll read, or Unread
          count,         \* wait_for_stable: polls without a change
          since,         \* watch_progress: when the last change was seen
          event,         \* what was returned, raised or yielded last
          view,          \* what a caller knows that applies every event's changes
          reads,         \* history: what each good poll read, and when
          faults,        \* reads and resumes that failed, waits cut short
          stuck          \* a resume has failed

wvars == <<wait, step, cpu, spares, memory, now, last, count, since, event, view,
           reads, faults, stuck>>

Ranges == {"a", "b"}
Unread == [r \in Ranges |-> 2]
Sought == 1                  \* the needle, the expected byte: range "a" holds it
Waits == {"text", "stable", "memory", "progress"}

WaitInit ==
  /\ wait \in [for : Waits, halts : BOOLEAN, paused : BOOLEAN, traps : BOOLEAN]
  /\ wait.halts => ~wait.paused
  /\ wait.traps => wait.halts
  /\ step = "poll"
  /\ cpu = IF wait.paused THEN "paused" ELSE "running"
  /\ spares = 0 /\ memory = [r \in Ranges |-> 0] /\ now = 0
  /\ last = Unread /\ count = 0 /\ since = 0
  /\ event = "none" /\ view = Unread /\ reads = <<>>
  /\ faults = 0 /\ stuck = FALSE

(* The C64 runs on, and changes what the wait looks at.                      *)
Program ==
  /\ cpu = "running" /\ step # "left"
  /\ \E r \in IF wait.for \in {"text", "memory"} THEN {"a"} ELSE Ranges :
       memory' = [memory EXCEPT ![r] = 1 - @]
  /\ UNCHANGED <<wait, step, cpu, spares, now, last, count, since, event, view,
                 reads, faults, stuck>>

(* A read halts the CPU of a VICE, and leaves spare traps when it comes in an *)
(* REU transfer.                                                             *)
Halts ==
  /\ cpu' = IF wait.halts THEN "halted" ELSE cpu
  /\ IF wait.traps /\ cpu = "running"
       THEN \E n \in 0..MaxSpares : spares' = spares + n
       ELSE UNCHANGED spares

(* The deadline at the top of the loop.                                      *)
GiveUp ==
  /\ step = "poll" /\ wait.for # "memory" /\ now >= Patience
  /\ step' = "left"
  /\ event' = "timeout"
  /\ UNCHANGED <<wait, cpu, spares, memory, now, last, count, since, view, reads,
                 faults, stuck>>

(* Where a poll that found nothing goes on: only some loops resume where     *)
(* nothing was halted.                                                       *)
Again == IF wait.halts \/ wait.for \in {"text", "stable"} THEN "resume" ELSE "sleep"

Reads ==
  /\ step = "poll"
  /\ wait.for # "memory" => now < Patience
  /\ Halts
  /\ last' = memory
  /\ reads' = Append(reads, [at |-> now, value |-> memory])
  /\ UNCHANGED <<wait, memory, now, faults, stuck>>

PollText ==
  /\ wait.for = "text" /\ Reads
  /\ IF memory["a"] = Sought THEN step' = "leave" /\ event' = "found"
                             ELSE step' = "resume" /\ UNCHANGED event
  /\ UNCHANGED <<count, since, view>>

PollStable ==
  /\ wait.for = "stable" /\ Reads
  /\ count' = IF memory = last THEN count + 1 ELSE 0
  /\ IF count' >= StableCount THEN step' = "leave" /\ event' = "found"
                              ELSE step' = "resume" /\ UNCHANGED event
  /\ UNCHANGED <<since, view>>

PollMemory ==
  /\ wait.for = "memory" /\ Reads
  /\ step' = IF memory["a"] = Sought \/ now >= Patience THEN "leave" ELSE Again
  /\ event' = IF memory["a"] = Sought THEN "found"
              ELSE IF now >= Patience THEN "timeout" ELSE event
  /\ UNCHANGED <<count, since, view>>

(* The first good poll changes everything; later ones are compared with what *)
(* the last good one read.                                                   *)
Changed == {r \in Ranges : memory[r] # last[r]}

\* Mutant: the first poll does not start the idle time.
LastChangeLate == IF Changed # {} /\ last # Unread THEN now ELSE since

LastChange == IF Changed # {} THEN now ELSE since

PollProgress ==
  /\ wait.for = "progress" /\ Reads
  /\ since' = LastChange
  /\ view' = [r \in Ranges |-> IF r \in Changed THEN memory[r] ELSE view[r]]
  /\ event' = IF Changed # {} THEN "advanced"
              ELSE IF now - since >= IdleLimit THEN "stalled" ELSE "none"
  /\ step' = Again
  /\ UNCHANGED count

(* A read fails, or is interrupted: the screen waiters try again, the memory *)
(* waiter lets the error out, the watcher reports it.                        *)
ReadFails(interrupt) ==
  /\ step = "poll" /\ faults < MaxFaults
  /\ wait.for # "memory" => now < Patience
  /\ Halts \/ UNCHANGED <<cpu, spares>>
  /\ faults' = faults + 1
  /\ step' = IF interrupt \/ wait.for = "memory" THEN "leave" ELSE Again
  /\ event' = IF interrupt \/ wait.for = "memory" THEN "raised"
              ELSE IF wait.for = "progress" THEN "error" ELSE event
  /\ UNCHANGED <<wait, memory, now, last, count, since, view, reads, stuck>>

(* transport.resume(): a spare trap enters the monitor again at once.        *)
PlainResume ==
  /\ cpu' = IF wait.halts /\ spares > 0 THEN "halted" ELSE "running"
  /\ spares' = IF spares > 0 THEN spares - 1 ELSE 0

(* _resume_confirmed: resume until no trap swallows it.                      *)
ConfirmedResume == cpu' = "running" /\ spares' = 0

(* A last resume that does not look whether the CPU runs.                    *)
LastResumePlain == PlainResume

(* _resume_quietly at the end of a wait, and of each poll of the watcher.    *)
LastResume == ConfirmedResume

ResumeFails ==
  /\ faults < MaxFaults /\ faults' = faults + 1
  /\ stuck' = TRUE
  /\ UNCHANGED <<cpu, spares>>

Resume ==
  /\ step = "resume"
  /\ step' = "sleep"
  /\ \/ /\ IF wait.for = "progress" THEN LastResume ELSE PlainResume
        /\ UNCHANGED <<faults, stuck>>
     \/ ResumeFails
  /\ UNCHANGED <<wait, memory, now, last, count, since, event, view, reads>>

(* The finally clause.                                                       *)
Leave ==
  /\ step = "leave"
  /\ step' = "left"
  /\ \/ Again = "resume" /\ LastResume /\ UNCHANGED <<faults, stuck>>
     \/ Again = "resume" /\ ResumeFails
     \/ Again = "sleep" /\ UNCHANGED <<cpu, spares, faults, stuck>>
  /\ UNCHANGED <<wait, memory, now, last, count, since, event, view, reads>>

(* The poll interval; the watcher's caller has its event, and may stop here. *)
Sleep ==
  /\ step = "sleep"
  /\ step' \in {"poll"} \cup (IF wait.for = "progress" THEN {"left"} ELSE {})
  /\ now' = now + 1
  /\ UNCHANGED <<wait, cpu, spares, memory, last, count, since, event, view, reads,
                 faults, stuck>>

(* An interrupt in the sleep: no resume is pending any more, and the finally *)
(* clause makes none.                                                        *)
SleepIsCut ==
  /\ step = "sleep" /\ faults < MaxFaults
  /\ step' = "left" /\ event' = "cut"
  /\ faults' = faults + 1
  /\ UNCHANGED <<wait, cpu, spares, memory, now, last, count, since, view, reads, stuck>>

WaitNext ==
  \/ Program \/ GiveUp
  \/ PollText \/ PollStable \/ PollMemory \/ PollProgress
  \/ \E interrupt \in BOOLEAN : ReadFails(interrupt)
  \/ Resume \/ Leave \/ Sleep \/ SleepIsCut

Spec == WaitInit /\ [][WaitNext]_wvars

-----------------------------------------------------------------------------
Ended == step = "left" /\ ~stuck

(* Ways out of a wait with no resume after the plain one of the last poll.   *)
PlainExit ==
  /\ wait.for # "progress"
  /\ event = "cut" \/ (event = "timeout" /\ wait.for \in {"text", "stable"})

(* The CPU of a VICE runs when a wait has ended, however it ends; where the  *)
(* program makes REU transfers, all but the time-out of a screen waiter and  *)
(* an interrupt in the sleep between two polls, whose last resume was a plain *)
(* one.  The watcher's caller has a running machine at every event, and the  *)
(* memory waiter and the watcher leave a pause of an Ultimate 64 alone.      *)
LeavesMachineRunning ==
  /\ (Ended /\ wait.halts) => cpu = "running" \/ (wait.traps /\ PlainExit)
  /\ (step = "sleep" /\ wait.for = "progress" /\ wait.halts /\ ~stuck) => cpu = "running"
  /\ (wait.paused /\ wait.for \in {"memory", "progress"}) => cpu = "paused"

(* "Stalled" is said only when every good read of the last idle_timeout, and *)
(* one before them, saw the same; applying every event's changes gives what  *)
(* the last good read saw, whatever polls failed in between; and a stable    *)
(* screen was read that often without a change.                              *)
VerdictIsHonest ==
  /\ event = "stalled" => \E i \in 1..Len(reads) :
       /\ reads[i].at + IdleLimit <= reads[Len(reads)].at
       /\ \A j \in i..Len(reads) : reads[j].value = last
  /\ wait.for = "progress" => view = last
  /\ event = "found" /\ wait.for = "stable" =>
       /\ Len(reads) > StableCount
       /\ \A j \in (Len(reads) - StableCount)..Len(reads) : reads[j].value = last

(* What these rest on.                                                       *)
BoundsAssumption == Patience \in Nat /\ IdleLimit \in Nat /\ StableCount \in Nat

TypeOK ==
  /\ wait.for \in Waits
  /\ step \in {"poll", "resume", "sleep", "leave", "left"}
  /\ memory \in [Ranges -> 0..1] /\ last \in [Ranges -> 0..2]
  /\ now \in Nat /\ since \in Nat /\ count \in Nat
  /\ reads \in Seq([at : Nat, value : [Ranges -> 0..1]])
  /\ reads = <<>> => last = Unread

(* Between two polls the CPU of a VICE runs, unless a spare trap swallowed   *)
(* the plain resume of a waiter; a wait that ends otherwise has looked.      *)
CpuIsKept ==
  /\ wait.halts => ~wait.paused
  /\ ~wait.traps => spares = 0
  /\ (wait.paused /\ wait.for \in {"memory", "progress"}) => cpu = "paused"
  /\ step = "resume" => Again = "resume"
  /\ (wait.halts /\ ~stuck /\ step \in {"poll", "sleep"}) =>
       cpu = "running" \/ (wait.traps /\ wait.for # "progress")
  /\ (Ended /\ wait.halts) => cpu = "running" \/ (wait.traps /\ PlainExit)

(* Every good poll since `since`, and that one, saw the same; so did the     *)
(* last count of wait_for_stable and the one before them.                    *)
SameFrom(i) == \A j \in i..Len(reads) : reads[j].value = last

HistoryIsKept ==
  /\ wait.for = "progress" => view = last
  /\ (wait.for = "progress" /\ reads # <<>>) =>
       \E i \in 1..Len(reads) : reads[i].at = since /\ SameFrom(i)
  /\ wait.for = "stable" =>
       \/ reads = <<>> /\ count = 0
       \/ count < Len(reads) /\ SameFrom(Len(reads) - count)
  /\ event = "stalled" =>
       /\ wait.for = "progress"
       /\ \E i \in 1..Len(reads) :
            reads[i].at + IdleLimit <= reads[Len(reads)].at /\ SameFrom(i)
  /\ event = "found" =>
       /\ step \in {"leave", "left"} /\ reads # <<>>
       /\ wait.for = "stable" => count >= StableCount

WaitInv == TypeOK /\ CpuIsKept /\ HistoryIsKept
=============================================================================
