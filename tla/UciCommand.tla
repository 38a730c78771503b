------------------------------ MODULE UciCommand ------------------------------
(***************************************************************************)
(* One command of the Ultimate Command Interface, from the host's call to  *)
(* the reply it returns (uci_network.py).  Three parties: the host         *)
(* uploads a 6502 routine by DMA, types SYS and waits for a sentinel; the  *)
(* routine talks to the interface's registers $DF1C-$DF1F; the Ultimate's  *)
(* firmware answers.  A call that times out resets the C64's CPU and       *)
(* leaves the interface in whatever state it was in.                       *)
(***************************************************************************)
EXTENDS Naturals, Sequences

CONSTANTS
  MaxCalls,    \* bound: calls of the host
  MaxBlocks,   \* Data More blocks of a long reply
  MaxTimeouts  \* bound: calls that time out

VARIABLES
  host,     \* "ready", "typing", "polling", "reset", "stopped"
  call,     \* number of the call, and whether its reply may have many blocks
  sentinel, \* $C3FE
  failed,   \* the error flag, $C3FF
  typed,    \* SYS is in the keyboard buffer
  routine,  \* where the routine is, or "none" when BASIC waits
  resp,     \* bytes stored at the response address
  stat,     \* bytes stored at the status address
  iface,    \* the interface: STATE, CMD_BUSY (the
            \* call whose command was pushed, or 0), ERROR, ABORT_PENDING and the two queues
  fw,       \* the firmware: the command it works on (0: none) and the blocks to come
  answer,   \* what the last call returned or raised
  timeouts

uvars == <<host, call, sentinel, failed, typed, routine, resp, stat, iface, fw, answer, timeouts>>

NoAnswer == [how |-> "none", data |-> <<>>, status |-> <<>>]
IdleIface == [state |-> "idle", cmd |-> 0, err |-> FALSE, abort |-> FALSE,
              data |-> <<>>, stat |-> <<>>]

\* A byte of the reply to call n, and the reply: one block, or several.
Byte(n, i) == [call |-> n, byte |-> i]
Blocks(n, k) == [i \in 1..k |-> <<Byte(n, 2 * i - 1), Byte(n, 2 * i)>>]
Status(n) == <<Byte(n, 0)>>

\* Its bytes after the first a, up to the b-th.
Part(n, a, b) == [i \in 1..(b - a) |-> Byte(n, a + i)]

UciInit ==
  /\ host = "ready" /\ call = [n |-> 0, long |-> FALSE, sent |-> 0]
  /\ sentinel = FALSE /\ failed = FALSE /\ typed = FALSE /\ routine = "none"
  /\ resp = <<>> /\ stat = <<>>
  /\ iface \in {IdleIface, [IdleIface EXCEPT !.state = "last", !.stat = Status(0)]}
  /\ fw = [call |-> 0, left |-> <<>>]
  /\ answer = NoAnswer /\ timeouts = 0

-----------------------------------------------------------------------------
(* The host: _execute_uci_routine. *)

\* What uci_socket_read asks for: one block, or the long form of the routine.
Request(n) == [n : {n}, long : BOOLEAN, sent : {0}]

\* Sentinel and error flag are cleared and ABORT is written.
Begin ==
  /\ host = "ready" /\ call.n < MaxCalls
  /\ call' \in Request(call.n + 1)
  /\ sentinel' = FALSE /\ failed' = FALSE
  /\ iface' = [iface EXCEPT !.abort = TRUE]
  /\ host' = "typing"
  /\ UNCHANGED <<typed, routine, resp, stat, fw, answer, timeouts>>

\* The routine is uploaded, and SYS typed.
Type ==
  /\ host = "typing"
  /\ typed' = TRUE /\ host' = "polling"
  /\ UNCHANGED <<call, sentinel, failed, routine, resp, stat, iface, fw, answer, timeouts>>

\* What the caller reads back, by the counts the routine has stored.
Collected(how) == [how |-> how, data |-> resp, status |-> stat]

\* The sentinel is there: the error flag, then the reply.
Return ==
  /\ host = "polling" /\ sentinel
  /\ answer' = Collected(IF failed THEN "error" ELSE "reply")
  /\ host' = "ready"
  /\ UNCHANGED <<call, sentinel, failed, typed, routine, resp, stat, iface, fw, timeouts>>

TimeOut ==
  /\ host = "polling" /\ ~sentinel /\ timeouts < MaxTimeouts
  /\ timeouts' = timeouts + 1
  /\ host' = "reset"
  /\ UNCHANGED <<call, sentinel, failed, typed, routine, resp, stat, iface, fw, answer>>

\* reset(scope="cpu") stops the routine and, through the KERNAL, forgets what
\* was typed.  If it fails, the error says that the routine may still run, and
\* here the caller stops.
ResetCpu ==
  /\ host = "reset"
  /\ answer' = [NoAnswer EXCEPT !.how = "timeout"]
  /\ \/ routine' = "none" /\ typed' = FALSE /\ host' = "ready"
     \/ host' = "stopped" /\ UNCHANGED <<routine, typed>>
  /\ UNCHANGED <<call, sentinel, failed, resp, stat, iface, fw, timeouts>>

Host == Begin \/ Type \/ Return \/ TimeOut \/ ResetCpu

-----------------------------------------------------------------------------
(* The routine: build_uci_command, build_socket_read and the fragments they  *)
(* are put together from.                                                    *)

Unmoved == UNCHANGED <<host, call, typed, answer, timeouts, fw>>

Sys ==
  /\ typed /\ routine = "none"
  /\ typed' = FALSE /\ routine' = "abort"
  /\ UNCHANGED <<host, call, sentinel, failed, resp, stat, iface, fw, answer, timeouts>>

\* _build_abort_preamble: ABORT is written and waited for.
Abort ==
  /\ \/ /\ routine = "abort"
        /\ iface' = [iface EXCEPT !.abort = TRUE] /\ routine' = "aborting"
     \/ /\ routine = "aborting" /\ ~iface.abort
        /\ routine' = "idle" /\ UNCHANGED iface
  /\ Unmoved /\ UNCHANGED <<sentinel, failed, resp, stat>>

Idle == iface.state = "idle" /\ iface.cmd = 0

\* _build_wait_idle.
WaitIdle ==
  /\ routine = "idle" /\ Idle
  /\ routine' = "write"
  /\ Unmoved /\ UNCHANGED <<sentinel, failed, resp, stat, iface>>

\* Target, command, parameters and data, byte by byte.
WriteCommand ==
  /\ routine = "write"
  /\ routine' = "push"
  /\ Unmoved /\ UNCHANGED <<sentinel, failed, resp, stat, iface>>

\* PUSH_CMD; an interface that is not idle only raises its error bit.
Push ==
  /\ routine = "push"
  /\ iface' = IF Idle THEN [iface EXCEPT !.state = "busy", !.cmd = call.n]
              ELSE [iface EXCEPT !.err = TRUE]
  /\ routine' = "pushed"
  /\ Unmoved /\ UNCHANGED <<sentinel, failed, resp, stat>>

\* Mutant: a routine that waits for CMD_BUSY to go away.
Taken == iface.cmd = 0 \/ iface.err

\* _REPLY_WAIT_MASK: STATE bit 5, or the error bit.
Replied == iface.state \in {"last", "more"} \/ iface.err

\* _build_push_and_wait ends, _build_check_error.
CheckError ==
  /\ routine = "pushed" /\ Replied
  /\ failed' = (failed \/ iface.err)
  /\ iface' = [iface EXCEPT !.err = FALSE]
  /\ resp' = <<>> /\ stat' = <<>>
  /\ routine' = "data"
  /\ Unmoved /\ UNCHANGED sentinel

\* _build_read_response: bytes as long as there are any; the long form asks for
\* the next block as long as there is one.
DrainData ==
  /\ routine = "data"
  /\ IF iface.data # <<>> /\ ~iface.abort
     THEN /\ resp' = Append(resp, Head(iface.data))
          /\ iface' = [iface EXCEPT !.data = Tail(@)]
          /\ UNCHANGED routine
     ELSE /\ routine' = IF call.long /\ iface.state = "more" THEN "next" ELSE "status"
          /\ UNCHANGED <<resp, iface>>
  /\ Unmoved /\ UNCHANGED <<sentinel, failed, stat>>

\* NEXT_DATA: both queues are reset; Data More goes back to busy, Data Last to
\* idle, and elsewhere nothing happens.
Accepted ==
  IF iface.state \in {"last", "more"}
  THEN [iface EXCEPT !.data = <<>>, !.stat = <<>>,
                     !.state = IF @ = "more" THEN "busy" ELSE "idle"]
  ELSE iface

NextBlock ==
  /\ \/ /\ routine = "next"
        /\ iface' = Accepted /\ routine' = "more"
     \/ /\ routine = "more" /\ iface.state \in {"last", "more"}
        /\ routine' = "data" /\ UNCHANGED iface
  /\ Unmoved /\ UNCHANGED <<sentinel, failed, resp, stat>>

\* _build_read_status.
DrainStatus ==
  /\ routine = "status"
  /\ IF iface.stat # <<>> /\ ~iface.abort
     THEN /\ stat' = Append(stat, Head(iface.stat))
          /\ iface' = [iface EXCEPT !.stat = Tail(@)]
          /\ UNCHANGED routine
     ELSE routine' = "acknowledge" /\ UNCHANGED <<stat, iface>>
  /\ Unmoved /\ UNCHANGED <<sentinel, failed, resp>>

\* _build_acknowledge: accept once, wait for idle; then the sentinel and RTS.
Acknowledge ==
  /\ \/ /\ routine = "acknowledge"
        /\ iface' = Accepted /\ routine' = "done"
        /\ UNCHANGED sentinel
     \/ /\ routine = "done" /\ Idle
        /\ sentinel' = TRUE /\ routine' = "none"
        /\ UNCHANGED iface
  /\ Unmoved /\ UNCHANGED <<failed, resp, stat>>

\* The first and the second half of every routine.
SendCommand == Sys \/ Abort \/ WaitIdle \/ WriteCommand \/ Push \/ CheckError

TakeReply == DrainData \/ NextBlock \/ DrainStatus \/ Acknowledge

Routine == SendCommand \/ TakeReply

-----------------------------------------------------------------------------
(* The firmware, as far as the routine relies on it. *)

\* It takes a command, which clears CMD_BUSY before there is a reply.
Accept ==
  /\ fw.call = 0 /\ iface.cmd # 0
  /\ iface' = [iface EXCEPT !.cmd = 0]
  /\ \E k \in 1..(IF call.long THEN MaxBlocks ELSE 1) :
       /\ fw' = [call |-> iface.cmd, left |-> Blocks(iface.cmd, k)]
       /\ call' = IF iface.cmd = call.n THEN [call EXCEPT !.sent = k] ELSE call
  /\ UNCHANGED <<host, sentinel, failed, typed, routine, resp, stat, answer, timeouts>>

\* The queues are filled and the block is valid; the status comes with the last.
Reply ==
  /\ fw.call # 0 /\ iface.state = "busy" /\ iface.cmd = 0
  /\ LET last == Len(fw.left) = 1 IN
     /\ iface' = [iface EXCEPT !.data = Head(fw.left), !.state = IF last THEN "last" ELSE "more",
                               !.stat = IF last THEN Status(fw.call) ELSE @]
     /\ fw' = IF last THEN [call |-> 0, left |-> <<>>] ELSE [fw EXCEPT !.left = Tail(@)]
  /\ UNCHANGED <<host, call, sentinel, failed, typed, routine, resp, stat, answer, timeouts>>

\* An abort is looked at when no command is being worked on.
ServeAbort ==
  /\ iface.abort /\ (fw.call = 0 \/ iface.state = "more")
  /\ iface' = [IdleIface EXCEPT !.err = iface.err]
  /\ fw' = [call |-> 0, left |-> <<>>]
  /\ UNCHANGED <<host, call, sentinel, failed, typed, routine, resp, stat, answer, timeouts>>

Firmware == Accept \/ Reply \/ ServeAbort

UciNext == Host \/ Routine \/ Firmware

Spec == UciInit /\ [][UciNext]_uvars

-----------------------------------------------------------------------------
\* What a call returns is the whole reply to its own command, data and status,
\* however the calls before it ended: a reply that a timed-out call left in the
\* interface or half drained is never taken for it, and no routine runs when the
\* next one is uploaded.
ReplyIsOwn ==
  /\ host = "typing" => routine = "none" /\ ~typed
  /\ host = "ready" /\ answer.how = "reply" =>
       /\ answer.data = Part(call.n, 0, 2 * call.sent)
       /\ answer.status = Status(call.n)
  /\ host = "ready" => answer.how # "error"

(* What it rests on.                                                         *)
BlocksAssumption == MaxBlocks \in Nat

SomeBytes == Seq([call : Nat, byte : Nat])
Ifaces == [state : {"idle", "busy", "last", "more"}, cmd : Nat, err : {FALSE},
           abort : BOOLEAN, data : SomeBytes, stat : SomeBytes]
Calls == [n : Nat, long : BOOLEAN, sent : Nat]
Works == [call : Nat, left : Seq(SomeBytes)]

TypeOK ==
  /\ host \in {"ready", "typing", "polling", "reset", "stopped"}
  /\ call \in Calls
  /\ routine \in {"none", "abort", "aborting", "idle", "write", "push", "pushed", "data",
                  "next", "more", "status", "acknowledge", "done"}
  /\ resp \in SomeBytes /\ stat \in SomeBytes
  /\ iface \in Ifaces
  /\ fw \in Works
  /\ fw.call # 0 => fw.left # <<>>

\* The host types when no routine runs, and the calls before it have none left.
OneRoutine ==
  /\ host \in {"ready", "typing"} => routine = "none" /\ ~typed
  /\ routine # "none" => ~typed /\ ~sentinel
  /\ typed \/ host = "typing" => ~sentinel
  /\ typed \/ host = "typing" \/ routine # "none" => call.n > 0
  /\ ~failed

\* Nothing of an earlier call is left in the interface or with the firmware.
Clean ==
  /\ Idle /\ ~iface.abort /\ iface.data = <<>> /\ iface.stat = <<>>
  /\ fw.call = 0 /\ fw.left = <<>>

\* The firmware's answer to the call, of which so many blocks have come.
Delivered == call.sent - Len(fw.left)

Answering ==
  /\ iface.cmd = 0 /\ ~iface.abort /\ iface.state # "idle"
  /\ call.sent > 0 /\ (call.long \/ call.sent = 1)
  /\ Len(fw.left) <= call.sent
  /\ \A i \in 1..Len(fw.left) :
       fw.left[i] = Part(call.n, 2 * (Delivered + i - 1), 2 * (Delivered + i))
  /\ IF iface.state = "last" THEN fw.call = 0 /\ fw.left = <<>>
     ELSE fw.call = call.n /\ fw.left # <<>> /\ iface.stat = <<>>
  /\ iface.state = "more" => Delivered > 0
  /\ iface.state = "busy" => iface.data = <<>>

\* What has been read is the first bytes of it, and what can be read the next.
Taking ==
  /\ Answering /\ Len(resp) <= 2 * Delivered
  /\ resp = Part(call.n, 0, Len(resp)) /\ iface.data = Part(call.n, Len(resp), 2 * Delivered)
  /\ stat = <<>> /\ (iface.state = "last" => iface.stat = Status(call.n))

Whole == resp = Part(call.n, 0, 2 * call.sent)

\* Where the routine is, the interface and the two copies are with it.
InStep ==
  /\ routine = "aborting" /\ ~iface.abort => Clean
  /\ routine \in {"idle", "write", "push"} => Clean
  /\ routine = "pushed" =>
       \/ /\ iface.cmd = call.n /\ iface.state = "busy" /\ ~iface.abort
          /\ iface.data = <<>> /\ iface.stat = <<>> /\ fw.call = 0 /\ fw.left = <<>>
       \/ /\ Answering /\ iface.data = Part(call.n, 0, 2 * Delivered)
          /\ iface.state = "last" => iface.stat = Status(call.n)
  /\ routine \in {"data", "next", "more"} => Taking
  /\ routine = "data" => iface.state # "busy"
  /\ routine = "next" => iface.state = "more" /\ iface.data = <<>>
  /\ routine \in {"status", "acknowledge"} => Answering /\ iface.state = "last" /\ Whole
  /\ routine = "status" => \/ stat = <<>> /\ iface.stat = Status(call.n)
                           \/ stat = Status(call.n) /\ iface.stat = <<>>
  /\ routine = "acknowledge" => stat = Status(call.n)
  /\ routine = "done" \/ sentinel => Clean /\ Whole /\ stat = Status(call.n)

UciInv ==
  /\ TypeOK /\ OneRoutine /\ InStep
  /\ host = "ready" /\ answer.how = "reply" => Clean
  /\ ReplyIsOwn
=============================================================================
