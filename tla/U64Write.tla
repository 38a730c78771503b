------------------------------- MODULE U64Write -------------------------------
(***************************************************************************)
(* Ultimate64Transport.write_memory and socket_dma_reu_write: a span goes  *)
(* to the device in chunks over the DMA socket, which answers nothing; an  *)
(* IDENTIFY behind the chunks is the completion barrier, the last bytes    *)
(* are read back, and what did not get there goes over REST (ultimate64.py *)
(* and u64_socket_dma.py).                                                 *)
(*                                                                         *)
(* A chunk of the memory holds the number of the write that filled it.  A  *)
(* write may carry, as its last chunk, what is there already: the          *)
(* read-back then tells nothing.                                           *)
(***************************************************************************)
EXTENDS Naturals, Sequences

CONSTANTS
  Chunks,     \* chunks of a span; the last one holds the verified tail
  MaxWrites,  \* bound: writes of a behaviour
  MaxFaults,  \* bound: connections lost and requests refused
  SlowDrain,  \* the device may drain below _SOCKET_DMA_DRAIN_FLOOR_BPS
  Pauses      \* the host may stop for IDLE_RECONNECT_SECONDS within a write

VARIABLES
  mem,      \* what each chunk of the span holds
  want,     \* what the write in progress, or the last one, is to leave there
  writes,   \* writes begun
  kind,     \* "ram", "io" (the span touches $D000-$DFFF) or "reu"
  step,     \* what write_memory does next
  attempt,  \* the DMA attempt
  sent,     \* chunks handed to the socket, or to REST
  sock,     \* the socket: "none", "open", or "dead" (the device dropped it)
  pipe,     \* commands on their way to the device
  latched,  \* _socket_dma_unusable
  faults

vars == <<mem, want, writes, kind, step, attempt, sent, sock, pipe, latched, faults>>

Span == 1..Chunks

Init ==
  /\ mem = [c \in Span |-> 0] /\ want = mem
  /\ writes = 0 /\ kind = "ram" /\ step = "idle" /\ attempt = 0 /\ sent = 0
  /\ sock = "none" /\ pipe = <<>> /\ latched = FALSE /\ faults = 0

MayFail == faults < MaxFaults /\ faults' = faults + 1

\* write_memory, entered; without DMA (switched off, latched, or a span under
\* socket_dma_min_bytes) it goes to REST, which the REU does not have.
Write ==
  /\ step \in {"idle", "done", "raised"} /\ writes < MaxWrites
  /\ writes' = writes + 1
  /\ \E k \in {"ram", "io", "reu"}, large, sameTail \in BOOLEAN :
       /\ kind' = k
       /\ want' = [c \in Span |-> IF c = Chunks /\ sameTail THEN mem[c] ELSE writes']
       /\ step' = IF k # "reu" THEN IF large /\ ~latched THEN "enter" ELSE "rest"
                  ELSE IF latched THEN "raised" ELSE "enter"
  /\ attempt' = 1 /\ sent' = 0
  /\ UNCHANGED <<mem, sock, pipe, latched, faults>>

\* The DMA is given up: REST for memory, an error for the REU.
FellBack == IF kind = "reu" THEN "raised" ELSE "rest"

\* client.__enter__: a socket held from before is used as it is.  The first
\* connect that fails latches the fast path off, the retry's does not.
Enter ==
  /\ step = "enter"
  /\ sent' = 0
  /\ \/ /\ sock' = IF sock = "none" THEN "open" ELSE sock
        /\ step' = "send"
        /\ UNCHANGED <<latched, faults>>
     \/ /\ sock = "none" /\ MayFail
        /\ step' = FellBack
        /\ latched' = (latched \/ attempt = 1)
        /\ UNCHANGED sock
  /\ UNCHANGED <<mem, want, writes, kind, attempt, pipe>>

\* A send or the barrier failed: the socket is closed.  A first attempt is
\* repeated once, unless the write would reach I/O registers twice.
Failed ==
  /\ sock' = "none" /\ sent' = 0
  /\ IF kind = "ram" /\ attempt = 1
     THEN step' = "enter" /\ attempt' = 2
     ELSE step' = FellBack /\ UNCHANGED attempt

\* SocketDMAClient._send of the next chunk: a socket the device dropped takes
\* it and loses it, or raises.
Send ==
  /\ step = "send" /\ sent < Chunks
  /\ \/ /\ sent' = sent + 1
        /\ pipe' = IF sock = "open" THEN Append(pipe, <<sent + 1, want[sent + 1]>>) ELSE pipe
        /\ UNCHANGED <<step, attempt, sock>>
     \/ /\ sock = "dead" /\ Failed /\ UNCHANGED pipe
  /\ UNCHANGED <<mem, want, writes, kind, latched, faults>>

\* _ensure_connected after IDLE_RECONNECT_SECONDS: a fresh connection.  A write
\* finds a socket idle that long before its first chunk; between two commands
\* of one write only a host that stopped does.
IdleReconnect ==
  /\ step = "send" /\ sock # "none"
  /\ sent = 0 \/ Pauses
  /\ sock' = "open"
  /\ sock' # sock
  /\ UNCHANGED <<mem, want, writes, kind, step, attempt, sent, pipe, latched, faults>>

\* The device executes the next command of the pipe.
DeviceExecutes ==
  /\ pipe # <<>>
  /\ mem' = [mem EXCEPT ![Head(pipe)[1]] = Head(pipe)[2]]
  /\ pipe' = Tail(pipe)
  /\ UNCHANGED <<want, writes, kind, step, attempt, sent, sock, latched, faults>>

\* The device drops the connection, and what is on its way with it.
Drop ==
  /\ sock = "open" /\ MayFail
  /\ sock' = "dead" /\ pipe' = <<>>
  /\ UNCHANGED <<mem, want, writes, kind, step, attempt, sent, latched>>

\* Mutant: a barrier that does not wait: the sends are believed.
AnsweredEarly == TRUE

\* IDENTIFY, answered once all before it is executed.
Answered == sock = "open" /\ pipe = <<>>

\* SocketDMAClient.reu_write closes a socket it found open only when the device
\* has: a receive that fails or times out leaves it as it is.
Unanswered ==
  /\ step' = "raised" /\ sent' = 0
  /\ sock' \in {sock, "none"}
  /\ UNCHANGED attempt

\* _socket_dma_send_and_barrier: the chunks are sent, the barrier is awaited
\* for as long as the slowest drain takes.  The REU has nothing to read back.
Barrier ==
  /\ step = "send" /\ sent = Chunks
  /\ \/ /\ Answered
        /\ step' = IF kind = "reu" THEN "done" ELSE "verify"
        /\ UNCHANGED <<attempt, sock, sent>>
     \/ /\ sock = "dead" \/ (SlowDrain /\ pipe # <<>>)
        /\ IF kind = "reu" THEN Unanswered ELSE Failed
  /\ UNCHANGED <<mem, want, writes, kind, pipe, latched, faults>>

\* The tail, read back until it matches or the time is up; a read may raise.
Verify ==
  /\ step = "verify"
  /\ \/ mem[Chunks] = want[Chunks] /\ step' = "done" /\ UNCHANGED faults
     \/ mem[Chunks] # want[Chunks] /\ step' = "rest" /\ UNCHANGED faults
     \/ MayFail /\ step' = "raised"
  /\ sent' = 0
  /\ UNCHANGED <<mem, want, writes, kind, attempt, sock, pipe, latched>>

\* client.write_mem: one POST on a post-safe device, else PUTs of at most
\* rest_put_chunk_size bytes in turn; the first that fails ends the write.
Rest ==
  /\ step = "rest"
  /\ \/ /\ mem' = want /\ step' = "done" /\ UNCHANGED <<sent, faults>>
     \/ LET c == sent + 1 IN
        /\ mem' = [mem EXCEPT ![c] = want[c]]
        /\ sent' = c
        /\ step' = IF c = Chunks THEN "done" ELSE "rest"
        /\ UNCHANGED faults
     \/ /\ MayFail /\ step' = "raised" /\ UNCHANGED <<mem, sent>>
  /\ UNCHANGED <<want, writes, kind, attempt, sock, pipe, latched>>

\* transport.close, or the reset of the socket between writes.
Close ==
  /\ step \in {"idle", "done", "raised"} /\ sock # "none"
  /\ sock' = "none"
  /\ UNCHANGED <<mem, want, writes, kind, step, attempt, sent, pipe, latched, faults>>

Next ==
  \/ Write \/ Enter \/ Send \/ IdleReconnect \/ DeviceExecutes \/ Drop
  \/ Barrier \/ Verify \/ Rest \/ Close

Spec == Init /\ [][Next]_vars

-----------------------------------------------------------------------------
\* A write that returned is all there, and stays there: no chunk of it was lost
\* with a connection, and nothing an earlier attempt left on its way to the
\* device lands on it afterwards.
WriteLanded == step = "done" => mem = want

-----------------------------------------------------------------------------
(* What the property rests on.                                             *)

ChunksAssumption == Chunks \in Nat \ {0}

TypeOK ==
  /\ mem \in [Span -> Nat] /\ want \in [Span -> Nat]
  /\ writes \in Nat /\ sent \in 0..Chunks
  /\ pipe \in Seq(Span \X Nat)

\* Commands are on their way only over a socket that is up, while they are sent.
PipeIsLive == pipe # <<>> => step = "send" /\ sock = "open"

Executed == sent - Len(pipe)

\* What is sent and not executed is on its way, in order; the rest is there.
PipeIsRest ==
  step = "send" /\ sock = "open" =>
    /\ Executed >= 0
    /\ \A c \in 1..Executed : mem[c] = want[c]
    /\ \A i \in 1..Len(pipe) :
         pipe[i][1] = Executed + i /\ pipe[i][2] = want[Executed + i]

WriteInv ==
  /\ TypeOK /\ PipeIsLive /\ PipeIsRest
  /\ step = "rest" => sent < Chunks /\ \A c \in 1..sent : mem[c] = want[c]
  /\ step \in {"verify", "done"} => mem = want
=============================================================================
