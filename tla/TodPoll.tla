------------------------------- MODULE TodPoll -------------------------------
(* A 6502 poll loop with a deadline on the Time-of-Day clock of CIA 1        *)
(* (tod_timer.py, and the _tod routines of bridge_ping.py): start the clock  *)
(* at zero, look whether the device is ready, read the clock as tenths of a  *)
(* second, compare, repeat.  The clock counts in BCD and a reading is four   *)
(* registers; reading the hours latches the other three until the tenths     *)
(* are read.  The sum and the comparison are done in bytes.                  *)
EXTENDS Naturals

CONSTANTS Deadlines,   \* deadline_tenths, each in 1..599
          End          \* bound: tenths of a second modelled

DeadlinesAssumption == Deadlines \subseteq 1..599 /\ End \in Nat

VARIABLES deadline,
          at,          \* "peek", "hours", "minutes", "seconds", "tenths",
                       \* "compare"; "ready", "timeout"
          clock,       \* tenths since the start
          latch,       \* what the registers show, or Open
          drifted,     \* the clock has ticked during this reading
          lo, hi,      \* $F0, $F1; 0 between readings, where nobody reads them
          overdue      \* this reading began at the deadline, or after it

tvars == <<deadline, at, clock, latch, drifted, lo, hi, overdue>>

Open == End + 1
Low(n) == n % 256
High(n) == (n \div 256) % 256

TodInit ==
  /\ deadline \in Deadlines
  /\ at = "peek" /\ clock = 0 /\ latch = Open /\ drifted = FALSE
  /\ lo = 0 /\ hi = 0 /\ overdue = FALSE

(* The CIA.  A reading takes some microseconds: one tick at most falls into  *)
(* it.                                                                       *)
Tick ==
  /\ clock < End /\ at \notin {"ready", "timeout"}
  /\ at = "peek" \/ ~drifted
  /\ clock' = clock + 1
  /\ drifted' = (at # "peek")
  /\ UNCHANGED <<deadline, at, latch, lo, hi, overdue>>

Shown == IF latch = Open THEN clock ELSE latch
Minutes(t) == t \div 600
Tens(t) == (t % 600) \div 100
Ones(t) == (t % 100) \div 10
Tenths(t) == t % 10

(* The device is ready: a frame, for the routines of bridge_ping, which poll *)
(* again after one that is not for them.                                     *)
Ready ==
  /\ at = "peek"
  /\ at' = "ready"
  /\ UNCHANGED <<deadline, clock, latch, drifted, lo, hi, overdue>>

NotReady ==
  /\ at = "peek"
  /\ at' = "hours" /\ overdue' = (clock >= deadline) /\ drifted' = FALSE
  /\ UNCHANGED <<deadline, clock, latch, lo, hi>>

\* Mutant: a read of the clock that does not take the hours first.
LatchedNot == Open

Latched == clock

ReadHours ==
  /\ at = "hours"
  /\ latch' = Latched /\ at' = "minutes"
  /\ UNCHANGED <<deadline, clock, drifted, lo, hi, overdue>>

(* A minute is beyond every deadline: $FFFF, and the latch is let go.        *)
ReadMinutes ==
  /\ at = "minutes"
  /\ IF Minutes(Shown) > 0
       THEN lo' = 255 /\ hi' = 255 /\ latch' = Open /\ at' = "compare"
       ELSE at' = "seconds" /\ UNCHANGED <<lo, hi, latch>>
  /\ UNCHANGED <<deadline, clock, drifted, overdue>>

(* 16-bit sum in bytes: CLC, ADC lo, BCC, INC hi.                            *)
Add(n) ==
  /\ lo' = Low(lo + n)
  /\ hi' = IF lo + n > 255 THEN Low(hi + 1) ELSE hi

(* The seconds, through the tables of 100s and 10s.                          *)
ReadSeconds ==
  /\ at = "seconds"
  /\ LET hundreds == Tens(Shown) * 100
         sum == Low(hundreds) + Ones(Shown) * 10
     IN  /\ lo' = Low(sum)
         /\ hi' = High(hundreds) + (IF sum > 255 THEN 1 ELSE 0)
  /\ at' = "tenths"
  /\ UNCHANGED <<deadline, clock, latch, drifted, overdue>>

ReadTenths ==
  /\ at = "tenths"
  /\ Add(Tenths(Shown))
  /\ latch' = Open /\ at' = "compare"
  /\ UNCHANGED <<deadline, clock, drifted, overdue>>

(* SEC, SBC lo, SBC hi, BCC: go on while there is a borrow.                  *)
Compare ==
  /\ at = "compare"
  /\ LET borrow == IF lo < Low(deadline) THEN 1 ELSE 0
     IN  at' = IF hi < High(deadline) + borrow THEN "peek" ELSE "timeout"
  /\ lo' = 0 /\ hi' = 0 /\ drifted' = FALSE
  /\ UNCHANGED <<deadline, clock, latch, overdue>>

TodNext ==
  \/ Tick \/ Ready \/ NotReady \/ ReadHours \/ ReadMinutes \/ ReadSeconds
  \/ ReadTenths \/ Compare

Spec == TodInit /\ [][TodNext]_tvars

-----------------------------------------------------------------------------
(* The time-out is neither early nor late: it comes only once the deadline   *)
(* has passed, and a reading that begins after the deadline ends the wait.   *)
TimesOutOnTime ==
  /\ at = "timeout" => clock >= deadline
  /\ at = "peek" => ~overdue

(* What it rests on: a reading is a time at which the clock stood, not       *)
(* before the deadline if the reading began after it; the bytes hold that    *)
(* time, or 65535 for a minute and more.                                     *)
Reading(t) == t \in 0..clock /\ (overdue => t >= deadline)
Sum == 256 * hi + lo

TodInv ==
  /\ deadline \in Deadlines /\ clock \in 0..End /\ latch \in Nat
  /\ lo \in 0..255 /\ hi \in 0..255
  /\ at \in {"peek", "hours", "compare"} => latch = Open
  /\ at = "hours" => Reading(clock)
  /\ at \in {"minutes", "seconds", "tenths"} => Reading(latch)
  /\ at \in {"seconds", "tenths"} => latch < 600
  /\ at = "tenths" => Sum = latch - (latch % 10)
  /\ at = "compare" => \E t \in 0..clock : Reading(t) /\ (Sum = t \/ (Sum = 65535 /\ t >= 600))
  /\ TimesOutOnTime
=============================================================================
