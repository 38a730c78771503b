----------------------------- MODULE BridgePing -----------------------------
(* A ping between two C64s on one Ethernet bridge (bridge_ping.py): the      *)
(* routine that transmits an echo request and waits for the reply, and the   *)
(* routine that answers one echo request, each with its CS8900a chip.        *)
(* A frame is a record of its kind and, for an echo, the (identifier,        *)
(* sequence) pair, one per ping.  The chip keeps the newest Hold frames that *)
(* nobody read, and unread frames may keep it from accepting a transmit.     *)
EXTENDS Naturals, Sequences

CONSTANTS Tries,       \* CS8900A_TX_SKIP_TRIES, and DRAIN_RX_MAX_FRAMES
          Hold,        \* frames the chip holds unread
          MaxPings, MaxServes, MaxNoise, MaxLost

VARIABLES wire,        \* host -> frames on their way to it
          chip,        \* host -> frames its chip holds, oldest first
          at,          \* host -> where its routine is
          sending,     \* host -> frames it still has to transmit
          tries,       \* host -> skips left in this drain or transmit
          came,        \* host -> in this transmit, frames that arrived and clear
                       \* reads of Rdy4TxNOW that found none to skip
          result,      \* host -> the byte its last routine left
          ping,        \* the ping in progress or last made
          answered,    \* pings a reply was transmitted for
          serves, noise, lost

pvars == <<wire, chip, at, sending, tries, came, result, ping, answered,
           serves, noise, lost>>

Pinger == "pinger"
Responder == "responder"
Hosts == {Pinger, Responder}
Peer(h) == CHOOSE o \in Hosts : o # h

Frame(kind, n) == [kind |-> kind, ping |-> n]
Noise == Frame("noise", 0)

PingInit ==
  /\ wire = [h \in Hosts |-> <<>>]
  /\ chip = [h \in Hosts |-> <<>>]
  /\ at = [h \in Hosts |-> "idle"]
  /\ sending = [h \in Hosts |-> <<>>]
  /\ tries = [h \in Hosts |-> 0]
  /\ came = [h \in Hosts |-> 0]
  /\ result = [h \in Hosts |-> "none"]
  /\ ping = 0 /\ answered = {}
  /\ serves = 0 /\ noise = 0 /\ lost = 0

(* The next transmit starts with a fresh count of tries.                     *)
BeginTransmit(h, where) ==
  /\ at' = [at EXCEPT ![h] = where]
  /\ tries' = [tries EXCEPT ![h] = Tries]
  /\ came' = [came EXCEPT ![h] = 0]

(* run_ping_and_wait, or one of the one-routine builders: an ARP request     *)
(* first when the caller asks for it, a drain first when it asks for that.   *)
Ping(arp, drain) ==
  /\ at[Pinger] = "idle" /\ ping < MaxPings
  /\ ping' = ping + 1
  /\ sending' = [sending EXCEPT ![Pinger] =
        (IF arp THEN <<Frame("arpRequest", 0)>> ELSE <<>>)
           \o <<Frame("echoRequest", ping + 1)>>]
  /\ BeginTransmit(Pinger, IF drain THEN "drain" ELSE "transmit")
  /\ result' = [result EXCEPT ![Pinger] = "none"]
  /\ UNCHANGED <<wire, chip, answered, serves, noise, lost>>

(* run_icmp_responder and the responder builders: wait for one request.      *)
Serve ==
  /\ at[Responder] = "idle" /\ serves < MaxServes
  /\ serves' = serves + 1
  /\ at' = [at EXCEPT ![Responder] = "poll"]
  /\ result' = [result EXCEPT ![Responder] = "none"]
  /\ UNCHANGED <<wire, chip, sending, tries, came, ping, answered, noise, lost>>

(* RxEvent is polled; the oldest unread frame is what the chip reads out.    *)
Pending(h) == chip[h] # <<>>
Oldest(h) == Head(chip[h])

(* SkipNow on the oldest unread frame.                                       *)
Skip(h) == chip' = [chip EXCEPT ![h] = Tail(@)]

(* _emit_drain_rx: skip what is queued, at most Tries frames of it.          *)
Drain(h) ==
  /\ at[h] = "drain"
  /\ IF Pending(h) /\ tries[h] > 0
       THEN /\ Skip(h)
            /\ tries' = [tries EXCEPT ![h] = @ - 1]
            /\ UNCHANGED <<at, came>>
       ELSE BeginTransmit(h, "transmit") /\ UNCHANGED chip
  /\ UNCHANGED <<wire, sending, result, ping, answered, serves, noise, lost>>

(* _emit_tx_frame, Rdy4TxNOW clear: skip one unread frame, if there is one,  *)
(* and try again.                                                            *)
MakeRoom(h) ==
  /\ at[h] = "transmit" /\ tries[h] > 0
  /\ tries' = [tries EXCEPT ![h] = @ - 1]
  /\ IF Pending(h) THEN Skip(h) /\ UNCHANGED came
                   ELSE came' = [came EXCEPT ![h] = @ + 1] /\ UNCHANGED chip
  /\ UNCHANGED <<wire, at, sending, result, ping, answered, serves, noise, lost>>

(* The tries are spent and the bounded poll runs out, the chip starved or    *)
(* dead: RESULT_TX_NOT_READY, and what was left to send is not sent.         *)
NotReady(h) ==
  /\ at[h] = "transmit" /\ tries[h] = 0
  /\ at' = [at EXCEPT ![h] = "idle"]
  /\ sending' = [sending EXCEPT ![h] = <<>>]
  /\ result' = [result EXCEPT ![h] = "notReady"]
  /\ UNCHANGED <<wire, chip, tries, came, ping, answered, serves, noise, lost>>

(* Rdy4TxNOW: the frame is copied into the chip and leaves for the peer.     *)
(* The pinger goes on to its next frame or to its poll; the responder is     *)
(* done after an echo reply and polls again after an ARP reply.              *)
Transmit(h) ==
  /\ at[h] = "transmit"
  /\ LET f == Head(sending[h]) IN
       /\ wire' = [wire EXCEPT ![Peer(h)] = Append(@, f)]
       /\ sending' = [sending EXCEPT ![h] = Tail(@)]
       /\ answered' = IF f.kind = "echoReply" THEN answered \union {f.ping} ELSE answered
       /\ BeginTransmit(h, IF Tail(sending[h]) # <<>> THEN "transmit"
                           ELSE IF f.kind = "echoReply" THEN "idle" ELSE "poll")
       /\ result' = IF f.kind = "echoReply"
                      THEN [result EXCEPT ![h] = "done"] ELSE result
  /\ UNCHANGED <<chip, ping, serves, noise, lost>>

\* Mutant: the identifier and the sequence are not compared.
MatchesAnyReply(f) == f.kind = "echoReply"

(* The checks of a received frame: the reply this ping waits for.            *)
Matches(f) == f.kind = "echoReply" /\ f.ping = ping

(* The request read, turned round in place.                                  *)
EchoReply(f) == Frame("echoReply", f.ping)

(* _emit_arp_responder and the responder's checks: what a frame is answered  *)
(* with, if with anything.                                                   *)
Answer(f) ==
  IF f.kind = "arpRequest" THEN <<Frame("arpReply", 0)>>
  ELSE IF f.kind = "echoRequest" THEN <<EchoReply(f)>> ELSE <<>>

(* A poll hits, the routine reads the oldest frame and releases it.          *)
PingerReads ==
  /\ at[Pinger] = "poll" /\ Pending(Pinger)
  /\ Skip(Pinger)
  /\ IF Matches(Oldest(Pinger))
       THEN /\ at' = [at EXCEPT ![Pinger] = "idle"]
            /\ result' = [result EXCEPT ![Pinger] = "done"]
       ELSE UNCHANGED <<at, result>>
  /\ UNCHANGED <<wire, sending, tries, came, ping, answered, serves, noise, lost>>

ResponderReads ==
  /\ at[Responder] = "poll" /\ Pending(Responder)
  /\ Skip(Responder)
  /\ LET reply == Answer(Oldest(Responder)) IN
       IF reply = <<>>
         THEN UNCHANGED <<at, tries, came, sending>>
         ELSE /\ BeginTransmit(Responder, "transmit")
              /\ sending' = [sending EXCEPT ![Responder] = reply]
  /\ UNCHANGED <<wire, result, ping, answered, serves, noise, lost>>

(* The deadline passes: 0xFF.                                                *)
Expire(h) ==
  /\ at[h] = "poll"
  /\ at' = [at EXCEPT ![h] = "idle"]
  /\ result' = [result EXCEPT ![h] = "timeout"]
  /\ UNCHANGED <<wire, chip, sending, tries, came, ping, answered, serves, noise, lost>>

(* The bridge and the chips.                                                 *)
Receive(h, f) ==
  /\ LET held == Append(chip[h], f) IN
       chip' = [chip EXCEPT ![h] = IF Len(held) > Hold THEN Tail(held) ELSE held]
  /\ came' = IF at[h] = "transmit" THEN [came EXCEPT ![h] = @ + 1] ELSE came

Arrive(h) ==
  /\ wire[h] # <<>>
  /\ Receive(h, Head(wire[h]))
  /\ wire' = [wire EXCEPT ![h] = Tail(@)]
  /\ UNCHANGED <<at, sending, tries, result, ping, answered, serves, noise, lost>>

Broadcast(h) ==
  /\ noise < MaxNoise
  /\ noise' = noise + 1
  /\ Receive(h, Noise)
  /\ UNCHANGED <<wire, at, sending, tries, result, ping, answered, serves, lost>>

Lose(h) ==
  /\ wire[h] # <<>> /\ lost < MaxLost
  /\ lost' = lost + 1
  /\ wire' = [wire EXCEPT ![h] = Tail(@)]
  /\ UNCHANGED <<chip, at, sending, tries, came, result, ping, answered, serves, noise>>

(* The routines as they are built, step by step, and what surrounds them.    *)
Transmitting(h) == Drain(h) \/ MakeRoom(h) \/ NotReady(h) \/ Transmit(h)

PingRoutine == Transmitting(Pinger) \/ PingerReads \/ Expire(Pinger)

ResponderRoutine == Transmitting(Responder) \/ ResponderReads \/ Expire(Responder)

Bridge(h) == Arrive(h) \/ Broadcast(h) \/ Lose(h)

PingNext ==
  \/ \E arp, drain \in BOOLEAN : Ping(arp, drain)
  \/ Serve
  \/ PingRoutine
  \/ ResponderRoutine
  \/ \E h \in Hosts : Bridge(h)

Spec == PingInit /\ [][PingNext]_pvars

----------------------------------------------------------------------------
(* Success means that this request was answered: a reply to an earlier ping  *)
(* that timed out, still on the wire or in the chip, is never taken for it.  *)
PingIsHonest == result[Pinger] = "done" => ping \in answered

(* Frames nobody read do not make a transmit fail: it takes so many arrivals *)
(* during the transmit that the skips could not keep up, or a chip that is   *)
(* not ready with nothing to skip.                                           *)
NotStarved ==
  \A h \in Hosts : result[h] = "notReady" => came[h] + Hold >= Tries

(* What these rest on.                                                       *)
BufferAssumption == Tries \in Nat /\ Hold \in Nat

Frames == [kind : {"arpRequest", "arpReply", "echoRequest", "echoReply", "noise"},
           ping : Nat]

TypeOK ==
  /\ wire \in [Hosts -> Seq(Frames)] /\ chip \in [Hosts -> Seq(Frames)]
  /\ sending \in [Hosts -> Seq(Frames)]
  /\ at \in [Hosts -> {"idle", "drain", "transmit", "poll"}]
  /\ tries \in [Hosts -> 0..Tries] /\ came \in [Hosts -> Nat]
  /\ result \in [Hosts -> {"none", "done", "timeout", "notReady"}]
  /\ ping \in Nat

(* Every reply on the way to a host, or in its chip, was transmitted; and    *)
(* the pinger only asks.                                                     *)
Answers(frames, pings) ==
  \A i \in 1..Len(frames) : frames[i].kind = "echoReply" => frames[i].ping \in pings

Asks(frames) == \A i \in 1..Len(frames) : frames[i].kind # "echoReply"

RepliesAreAnswered ==
  /\ \A h \in Hosts : Answers(wire[h], answered) /\ Answers(chip[h], answered)
  /\ Asks(sending[Pinger])
  /\ PingIsHonest

(* A routine that transmits has a frame to send, the responder one at a      *)
(* time, and a chip with no more unread frames than it held at the start,    *)
(* less the skips, plus what came; a try that skips nothing counts as came.  *)
HasRoom(h) ==
  /\ at[h] # "idle" => result[h] = "none"
  /\ at[h] \in {"drain", "transmit"} => sending[h] # <<>>
  /\ h = Responder => Len(sending[h]) <= 1
  /\ Len(chip[h]) <= Hold
  /\ at[h] = "transmit" => Len(chip[h]) + Tries <= Hold + came[h] + tries[h]
  /\ result[h] = "notReady" => came[h] + Hold >= Tries

RoomIsCounted == \A h \in Hosts : HasRoom(h)

PingInv == TypeOK /\ RepliesAreAnswered /\ RoomIsCounted
=============================================================================
