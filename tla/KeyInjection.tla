---------------------------- MODULE KeyInjection ----------------------------
(***************************************************************************)
(* Typing on a running Ultimate 64: Ultimate64Transport.inject_keys and    *)
(* Ultimate64Client.send_text fill the KERNAL's keyboard buffer by DMA     *)
(* while the KERNAL, at the same time, takes keys out of it (ultimate64.py *)
(* and ultimate64_client.py).  A key is its position in the text.          *)
(***************************************************************************)
EXTENDS Naturals, Sequences

CONSTANTS
  Keys,      \* length of the text
  BufMax,    \* keybuf_max: keys the buffer holds
  MaxReads   \* max_iters: readings of the count before the call gives up

VARIABLES
  remaining, \* keys not handed over yet
  host,      \* what the host does next: "read", "buffer", "count", or how it ended
  reads,     \* readings of $C6
  buf,       \* the keyboard buffer, $0277
  count,     \* its length, $C6
  kernal,    \* "idle", or the key GETIN has taken and not counted down yet
  typed      \* the keys the program received

vars == <<remaining, host, reads, buf, count, kernal, typed>>

Min2(a, b) == IF a < b THEN a ELSE b
Text == [i \in 1..Keys |-> i]

Init ==
  /\ remaining = Text /\ host = "read" /\ reads = 0
  /\ buf = [i \in 1..BufMax |-> 0] /\ count = 0 /\ kernal = 0 /\ typed = <<>>

\* Mutant: a host that fills the buffer as long as there is room.
NotFull == count < BufMax

\* The buffer is drained: only then may the next batch go in.
Drained == count = 0

\* read_memory of the count, polled until it is zero; the loop gives up after
\* max_iters readings.
ReadCount ==
  /\ host = "read" /\ remaining # <<>>
  /\ reads' = reads + 1
  /\ host' = IF reads' > MaxReads THEN "gave up"
             ELSE IF Drained THEN "buffer" ELSE "read"
  /\ UNCHANGED <<remaining, buf, count, kernal, typed>>

Batch == Min2(BufMax, Len(remaining))

\* write_memory of the keys, then of their number.
WriteKeys ==
  /\ host = "buffer"
  /\ buf' = [i \in 1..BufMax |-> IF i <= Batch THEN remaining[i] ELSE buf[i]]
  /\ host' = "count"
  /\ UNCHANGED <<remaining, reads, count, kernal, typed>>

WriteCount ==
  /\ host = "count"
  /\ count' = Batch
  /\ remaining' = SubSeq(remaining, Batch + 1, Len(remaining))
  /\ host' = "read"
  /\ UNCHANGED <<reads, buf, kernal, typed>>

Return ==
  /\ host = "read" /\ remaining = <<>>
  /\ host' = "done"
  /\ UNCHANGED <<remaining, reads, buf, count, kernal, typed>>

\* The KERNAL's GETIN: the first key is taken and the rest shifted down, then
\* the count goes down by one.
TakeKey ==
  /\ count > 0 /\ kernal = 0
  /\ kernal' = buf[1]
  /\ buf' = [i \in 1..BufMax |-> IF i < count THEN buf[i + 1] ELSE buf[i]]
  /\ UNCHANGED <<remaining, host, reads, count, typed>>

CountDown ==
  /\ kernal # 0
  /\ typed' = Append(typed, kernal)
  /\ kernal' = 0 /\ count' = count - 1
  /\ UNCHANGED <<remaining, host, reads, buf>>

Next == ReadCount \/ WriteKeys \/ WriteCount \/ Return \/ TakeKey \/ CountDown
Spec == Init /\ [][Next]_vars

\* The program receives the text: no key is lost, doubled or out of order
\* however the KERNAL's taking falls between the two writes, and once the call
\* has returned what it has not received yet is in the buffer.
KeysInOrder ==
  LET coming == IF kernal = 0 THEN <<>> ELSE <<kernal>>
      got == typed \o coming
  IN  /\ Len(got) <= Keys /\ got = SubSeq(Text, 1, Len(got))
      /\ host = "done" /\ count = 0 => typed = Text

-----------------------------------------------------------------------------
(* What the property rests on.                                             *)

KeysAssumption == Keys \in Nat /\ BufMax \in Nat

TypeOK ==
  /\ remaining \in Seq(Nat) /\ Len(remaining) <= Keys
  /\ buf \in [1..BufMax -> Nat] /\ count \in 0..BufMax
  /\ kernal \in Nat /\ typed \in Seq(Nat)

Handed == Keys - Len(remaining)
Got == Len(typed) + IF kernal = 0 THEN 0 ELSE 1

\* What was handed over and not received is in the buffer, in order.
BufferIsRest ==
  /\ Len(typed) + count = Handed
  /\ kernal # 0 => count > 0 /\ kernal = Got
  /\ \A i \in 1..(Handed - Got) : buf[i] = Got + i

KeysInv ==
  /\ TypeOK /\ BufferIsRest
  /\ \A i \in 1..Len(remaining) : remaining[i] = Handed + i
  /\ \A i \in 1..Len(typed) : typed[i] = i
  /\ host \in {"buffer", "count"} => count = 0
  /\ host = "count" => \A i \in 1..Batch : buf[i] = remaining[i]
  /\ host = "done" => remaining = <<>>
=============================================================================
