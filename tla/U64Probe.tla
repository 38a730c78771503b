------------------------------- MODULE U64Probe -------------------------------
(***************************************************************************)
(* Asking an Ultimate 64 whether it is well: the free liveness_probe, the  *)
(* write check of probe_u64, recover and runner_health_check               *)
(* (ultimate64_probe.py, ultimate64_helpers.py).  A probe overwrites a     *)
(* span of C64 memory and puts it back, and on leaky firmware every body   *)
(* it POSTs stays in /Temp, for which it reserves in the device's ledger.  *)
(*                                                                         *)
(* The device is one of Healths; it may get worse between any two          *)
(* requests.  A request may also fail on its own: it raises, with or       *)
(* without having been served.                                             *)
(***************************************************************************)
EXTENDS Naturals

CONSTANTS
  MaxProbes,  \* bound: probes and recoveries of a behaviour
  MaxFaults   \* bound: requests that fail on their own

\* "no post" answers POST writemem 404; "deaf" answers 200 and writes nothing;
\* "stuck" refuses to run programs; "wedged" accepts connections and answers
\* nothing more; "gone" does not accept any.
Healths == {"well", "no post", "deaf", "stuck", "wedged", "gone"}

VARIABLES
  health,   \* of the device
  span,     \* the scratch span of 128 bytes
  temp,     \* /Temp attachments on the device
  spent,    \* bodies that have been sent to it
  counted,  \* attachments pending in the process's ledger
  probe,    \* the probe that runs: "liveness" or "write", or "none"
  step,     \* what it does next
  bodies,   \* what this probe has sent of them (sent[0])
  kept,     \* what the span held before it, which it reads first
  took,     \* the device has carried its write out
  good,     \* the verdict that stands if nothing else goes wrong
  troubled, \* a request of it failed, or the device was not well
  result,   \* of the last probe: whose, the verdict, and what it says of the span
  probes, faults

device == <<health, span, temp, spent>>
asking == <<probe, step, bodies, kept, took, good, troubled>>
vars == <<device, counted, asking, result, probes, faults>>

\* What the span holds, and whether its first 8 bytes are inverted.
Spans == [bytes : {"orig", "pattern", "cleared"}, inverted : BOOLEAN]
Plain(b) == [bytes |-> b, inverted |-> FALSE]

\* The liveness probe writes the same bytes every time, the write check the
\* inverse of the 8 it has read.
Pattern == IF probe = "liveness" THEN Plain("pattern")
           ELSE [kept EXCEPT !.inverted = ~@]

NoResult == [by |-> "none", healthy |-> FALSE, restored |-> "untouched"]

Init ==
  /\ health \in Healths
  /\ span = Plain("orig") /\ temp = 0 /\ spent = 0 /\ counted = 0
  /\ probe = "none" /\ step = "none" /\ bodies = 0 /\ kept = span
  /\ took = FALSE /\ good = FALSE /\ troubled = FALSE
  /\ result = NoResult /\ probes = 0 /\ faults = 0

Answers == health \notin {"wedged", "gone"}

\* The route a probe writes through carries the write out; it says 2xx to it.
Serves(p) == health \in {"well", "stuck"} \/ (p = "write" /\ health = "no post")
Accepts == Serves(probe) \/ health = "deaf"

\* A request that raises, or whose answer is an error of its own.
Fails ==
  /\ \/ ~Answers /\ UNCHANGED faults
     \/ Answers /\ faults < MaxFaults /\ faults' = faults + 1
  /\ troubled' = TRUE

Calm == UNCHANGED <<troubled, faults>>

\* The device gets worse; nothing but a reset makes it better.
Degrade ==
  /\ health = "well"
  /\ health' \in Healths \ {"well"}
  /\ troubled' = (troubled \/ probe # "none")
  /\ UNCHANGED <<span, temp, spent, counted, probe, step, bodies, kept, took, good>>
  /\ UNCHANGED <<result, probes, faults>>

\* probe_u64: ping and connect, then GET /v1/version.  The liveness probe goes
\* on to /v1/info, and once it knows the firmware reserves two attachments, or
\* is refused by the ledger or the identity check.
Start ==
  /\ probe = "none" /\ probes < MaxProbes
  /\ probes' = probes + 1
  /\ kept' = span /\ bodies' = 0 /\ took' = FALSE /\ good' = FALSE
  /\ \E p \in {"liveness", "write"} :
       \/ /\ Answers
          /\ probe' = p /\ step' = "read"
          /\ counted' = counted + IF p = "liveness" THEN 2 ELSE 0
          /\ troubled' = ~Serves(p)
          /\ UNCHANGED <<result, faults>>
       \/ /\ Fails
          /\ result' = [by |-> p, healthy |-> FALSE, restored |-> "untouched"]
          /\ UNCHANGED <<probe, step, counted>>
       \/ /\ p = "liveness" /\ Answers
          /\ result' = NoResult
          /\ UNCHANGED <<probe, step, counted, troubled, faults>>
  /\ UNCHANGED device

\* The probe ends; what the reservation holds for bodies it never sent goes back.
Stop(healthy, restored) ==
  /\ probe' = "none" /\ step' = "none"
  /\ counted' = counted - IF probe = "liveness" THEN 2 - bodies' ELSE 0
  /\ result' = [by |-> probe, healthy |-> healthy, restored |-> restored]

GoOn(next) == step' = next /\ UNCHANGED <<probe, counted, result>>

\* The liveness probe lets through what it does not catch (IncompleteRead).
Raise ==
  /\ probe = "liveness"
  /\ Stop(FALSE, "raised")

\* GET readmem: nothing is written before the original bytes are in hand.
Read ==
  /\ step = "read"
  /\ UNCHANGED <<device, kept, bodies, took, good, probes>>
  /\ \/ Answers /\ GoOn("write") /\ Calm
     \/ Fails /\ (Stop(FALSE, "untouched") \/ Raise)

\* Mutant: a body is counted when its request is answered.
AttachAnswered(answered) ==
  LET body == IF probe = "liveness" THEN 1 ELSE 0 IN
  /\ bodies' = bodies + IF answered THEN body ELSE 0
  /\ spent' = spent + body
  /\ temp' \in IF answered THEN {temp + body} ELSE {temp, temp + body}

\* A body is counted once it has been handed to the connection: the firmware
\* stores it as it streams in, whatever becomes of the request.
Attach(answered) ==
  LET body == IF probe = "liveness" THEN 1 ELSE 0 IN
  /\ bodies' = bodies + body /\ spent' = spent + body
  /\ temp' \in IF answered THEN {temp + body} ELSE {temp, temp + body}

\* The device is to write `bytes`.
Put(bytes, wrote) ==
  /\ span' = IF wrote THEN bytes ELSE span
  /\ took' = (took \/ wrote)

\* The write check ends in a restore, whatever became of the write; the
\* liveness probe stops where its write or read-back failed.
GiveUp ==
  /\ good' = FALSE
  /\ IF probe = "write" THEN GoOn("restore") ELSE Stop(FALSE, "no")

Write ==
  /\ step = "write"
  /\ \/ /\ Accepts /\ Attach(TRUE) /\ Put(Pattern, Serves(probe))
        /\ GoOn("check") /\ UNCHANGED good /\ Calm
     \/ /\ Answers /\ ~Accepts /\ Attach(TRUE) /\ Put(Pattern, FALSE)
        /\ GiveUp /\ Calm
     \/ /\ Fails /\ Attach(FALSE)
        /\ \E wrote \in {FALSE, Serves(probe)} : Put(Pattern, wrote)
        /\ GiveUp \/ (Raise /\ UNCHANGED good)
  /\ UNCHANGED <<health, kept, probes>>

\* The read-back: after one that answers, whatever it says, both probes restore.
Check ==
  /\ step = "check"
  /\ UNCHANGED <<device, kept, bodies, took, probes>>
  /\ \/ Answers /\ good' = (span = Pattern) /\ GoOn("restore") /\ Calm
     \/ /\ Fails
        /\ \/ GiveUp
           \/ good' = FALSE /\ GoOn("restore")
           \/ Raise /\ UNCHANGED good

\* _restore_quiet takes a 2xx for a restore; _restore_write_check goes on to
\* read the span back.
Restore ==
  /\ step = "restore"
  /\ \/ /\ Accepts /\ Attach(TRUE)
        /\ span' = IF Serves(probe) THEN kept ELSE span
        /\ IF probe = "write" THEN GoOn("confirm") ELSE Stop(good, "yes")
        /\ Calm
     \/ /\ Answers /\ ~Accepts /\ Attach(TRUE) /\ UNCHANGED span
        /\ Stop(good, "no") /\ Calm
     \/ /\ Fails /\ Attach(FALSE)
        /\ span' \in {span} \cup (IF Serves(probe) THEN {kept} ELSE {})
        /\ Stop(good, "no")
  /\ UNCHANGED <<health, kept, took, good, probes>>

Confirm ==
  /\ step = "confirm"
  /\ UNCHANGED <<device, kept, bodies, took, good, probes>>
  /\ \/ Answers /\ Stop(good, IF span = kept THEN "yes" ELSE "no") /\ Calm
     \/ Fails /\ Stop(good, "no")

\* What is not a probe leaves no verdict behind.
Forget ==
  /\ probe = "none" /\ probes < MaxProbes
  /\ probes' = probes + 1
  /\ result' = NoResult /\ kept' = span'
  /\ UNCHANGED <<probe, step, bodies, took, good>>

\* recover: reset, and reboot when the device is not reachable after it; both
\* run the KERNAL's reset, which clears the span.
Recover ==
  /\ \/ /\ Answers /\ span' = Plain("cleared")
        /\ health' \in {health, "well"} /\ Calm
     \/ Fails /\ UNCHANGED <<health, span>>
  /\ Forget
  /\ UNCHANGED <<temp, spent, counted>>

\* runner_health_check: run_prg of a program of three bytes, which a stuck
\* runner refuses; a program that runs begins with a reset.
RunnerCheck ==
  /\ LET runs == IF health = "stuck" THEN span ELSE Plain("cleared") IN
     \/ /\ Answers /\ temp' = temp + 1 /\ span' = runs /\ Calm
     \/ /\ Fails /\ temp' \in {temp, temp + 1}
        /\ span' \in {span} \cup (IF Answers THEN {runs} ELSE {})
  /\ counted' = counted + 1 /\ spent' = spent + 1
  /\ Forget
  /\ UNCHANGED health

\* liveness_probe, and check_write_path, once the device answered.
ProbeSteps == Read \/ Write \/ Check \/ Restore \/ Confirm

Next == Degrade \/ Start \/ ProbeSteps \/ Recover \/ RunnerCheck

Spec == Init /\ [][Next]_vars

-----------------------------------------------------------------------------
\* What a probe that has ended said is true, whichever request failed and
\* whether or not it had been served, and whatever the device turned into:
\* a span said to be untouched or restored is what it was (the liveness probe
\* takes a deaf device's 2xx for a restore); a device said to be healthy did
\* carry a write out (but for a liveness probe that found its own pattern, left
\* by an earlier one); a device that served every request is said to be healthy,
\* and restored; and the ledger has been given back what was reserved for bodies
\* that were not sent, and nothing else, so that it covers what is in /Temp.
ProbeIsHonest ==
  /\ probe = "none" =>
       /\ result.restored \in {"untouched", "yes"} =>
            span = kept \/ (result.by = "liveness" /\ result.restored = "yes" /\ health = "deaf")
       /\ result.healthy =>
            took \/ (result.by = "liveness" /\ kept = Plain("pattern"))
       /\ result.by # "none" /\ ~troubled => result.healthy /\ result.restored = "yes"
       /\ counted = spent
  /\ temp <= counted

-----------------------------------------------------------------------------
(* What the property rests on.                                             *)

\* The reservation covers the bodies that are still to be sent.
BodiesAreReserved ==
  /\ temp \in Nat /\ spent \in Nat /\ temp <= spent
  /\ probe = "liveness" =>
       /\ bodies = IF step \in {"check", "restore"} THEN 1 ELSE 0
       /\ counted = spent + (2 - bodies)
  /\ probe = "write" => bodies = 0
  /\ probe # "liveness" => counted = spent

\* The span holds what the probe found in it, or its pattern.
SpanIsKnown ==
  /\ span \in Spans /\ kept \in Spans
  /\ step \in {"read", "write"} => span = kept /\ ~took
  /\ step \in {"check", "restore"} => span = (IF took THEN Pattern ELSE kept)

\* The verdict that is to be given.
VerdictIsDue ==
  /\ step \in {"restore", "confirm"} /\ good =>
       took \/ (probe = "liveness" /\ kept = Plain("pattern"))
  /\ probe # "none" /\ ~troubled =>
       /\ Serves(probe)
       /\ step \in {"check", "restore", "confirm"} => took
       /\ step \in {"restore", "confirm"} => good
       /\ step = "confirm" => span = kept

ProbeInv ==
  /\ BodiesAreReserved /\ SpanIsKnown /\ VerdictIsDue /\ ProbeIsHonest
  /\ probe \in {"liveness", "write"} =>
       step \in {"read", "write", "check", "restore", "confirm"}
  /\ probe \notin {"liveness", "write"} => probe = "none" /\ step = "none"
  /\ step = "confirm" => probe = "write"
  /\ took \in BOOLEAN /\ good \in BOOLEAN /\ troubled \in BOOLEAN
=============================================================================
