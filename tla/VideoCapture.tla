----------------------------- MODULE VideoCapture -----------------------------
(***************************************************************************)
(* VideoCapture (u64_video_capture.py): datagrams of lines are put         *)
(* together into frames.  Here a datagram carries one line and is its      *)
(* position in the stream; Lines of them make a frame, the last one with   *)
(* the end marker.  Stopping the stream sends a datagram numbered          *)
(* (0, 0, 0), the stop tail.  The network loses, delays and doubles.       *)
(***************************************************************************)
EXTENDS StreamSeq, FiniteSets

CONSTANTS
  Sent,     \* bound: datagrams of the stream
  Lines,    \* datagrams of a frame
  MaxLate, MaxLost, MaxTwice   \* the network, as in StreamCapture

VARIABLES
  running,  \* the capture has not been stopped
  first,    \* the stream's first number
  arrived, newest,
  tail,     \* the stop tail: "no", "sent"
  tracker,  \* _seq
  pending,  \* _pending_zero: a datagram (0, 0, 0), or 0; TailId is a stop tail
  current,  \* _cur_frame_num (None between frames) and _cur_frame_lines
  marked,   \* _seen_end_marker
  frames,   \* the finished frames
  lost      \* _frames_dropped, _stale_packets and _stop_tail_packets

wvars == <<running, first, arrived, newest, tail, tracker, pending, current, marked, frames, lost>>

(* A datagram is not late by as much as two frames, fewer than a frame's are *)
(* doubled, and the numbers do not come round while one is on its way.       *)
NetworkAssumption ==
  /\ Modulus \in Nat /\ Window \in Nat /\ MaxHeld \in Nat
  /\ Sent \in Nat /\ Lines \in Nat \ {0}
  /\ MaxLate \in Nat /\ MaxLost \in Nat /\ MaxTwice \in Nat
  /\ MaxTwice < Lines /\ MaxTwice + MaxLate + 1 < 2 * Lines
  /\ MaxLate + 1 < Modulus /\ MaxLate + MaxLost < Modulus

NoFrame == -1
TailId == Sent + 1

VideoInit ==
  /\ running = TRUE /\ first \in {0, Modulus - 2}
  /\ arrived = [n \in 1..Sent |-> 0] /\ newest = 0 /\ tail = "no"
  /\ tracker = Fresh /\ pending = 0
  /\ current = [num |-> NoFrame, lines |-> Empty] /\ marked = FALSE
  /\ frames = <<>> /\ lost = [frames |-> 0, stale |-> 0, tails |-> 0]

FrameOf(n) == IF n = TailId THEN 0 ELSE (n - 1) \div Lines
LineOf(n) == IF n = TailId THEN 0 ELSE (n - 1) % Lines
Ends(n) == n # TailId /\ LineOf(n) = Lines - 1
NumberOf(n) == IF n = TailId THEN 0 ELSE Plus(first, n - 1)
Datagram(n) == [seq |-> NumberOf(n), digest |-> n, payload |-> n]
IsZero(n) == NumberOf(n) = 0 /\ FrameOf(n) = 0 /\ LineOf(n) = 0

\* What a receiving step works on.
Receiver == [t |-> tracker, cur |-> current, marked |-> marked, frames |-> frames, lost |-> lost]

Height(lines) == CHOOSE h \in 1..Lines : h - 1 \in DOMAIN lines /\ \A l \in DOMAIN lines : l < h
HasHoles(lines) == DOMAIN lines # 0..(Height(lines) - 1)

\* Mutant: a receiver that looks at the holes only.
UnendedIgnored(r, ended) == FALSE

\* A frame that was left without its end is not whole, once one has been seen.
Unended(r, ended) == ~ended /\ r.marked

\* _finalize_frame: a frame is kept if no line of it is missing.
Finalize(r, ended) ==
  IF r.cur.num = NoFrame \/ r.cur.lines = Empty THEN r
  ELSE [IF HasHoles(r.cur.lines) \/ Unended(r, ended)
        THEN [r EXCEPT !.lost.frames = @ + 1]
        ELSE [r EXCEPT !.frames = Append(@, [num |-> r.cur.num, lines |-> r.cur.lines,
                                             marked |-> r.marked])]
        EXCEPT !.cur.lines = Empty]

\* _apply_packet.
Apply(r, n) ==
  LET left == IF r.cur.num # NoFrame /\ r.cur.num # FrameOf(n) THEN Finalize(r, FALSE) ELSE r
      put == [left EXCEPT !.cur = [num |-> FrameOf(n), lines |-> Put(left.cur.lines, LineOf(n), n)]]
  IN  IF ~Ends(n) THEN put
      ELSE [Finalize([put EXCEPT !.marked = TRUE], TRUE) EXCEPT !.cur.num = NoFrame]

\* The held datagrams of a stream that began again.
Readmit(r, held) ==
  LET after[i \in 0..Len(held)] ==
        IF i = 0 THEN r ELSE Apply(after[i - 1], held[i].payload)
  IN  after[Len(held)]

\* _process: a late line goes into the frame that is being put together, and is
\* stale if its own is finished.
Process(r, n) ==
  LET ev == Observe(r.t, Datagram(n))
      seen == [r EXCEPT !.t = ev.t]
  IN  CASE ev.kind = "held" -> seen
        [] ev.kind = "late" /\ FrameOf(n) # r.cur.num -> [seen EXCEPT !.lost.stale = @ + 1]
        [] OTHER -> Apply(Readmit(seen, ev.readmit), n)

DiscardZero(r) == IF pending = 0 THEN r ELSE [r EXCEPT !.lost.tails = @ + 1]

Becomes(r) ==
  /\ tracker' = r.t /\ current' = r.cur /\ marked' = r.marked
  /\ frames' = r.frames /\ lost' = r.lost

\* _recv_loop, for one datagram: a (0, 0, 0) after the first is put off until the
\* next one shows whether a stream begins there.
Receive(n) ==
  IF IsZero(n) /\ tracker.highest # None
  THEN pending' = n /\ Becomes(DiscardZero(Receiver))
  ELSE /\ pending' = 0
       /\ Becomes(Process(IF pending # 0 /\ NumberOf(n) = 1 THEN Process(Receiver, pending)
                          ELSE DiscardZero(Receiver), n))

\* A datagram numbered 1 does not come late right behind the stop tail: the
\* receiver would take the two for the beginning of a stream.
Arrives(n) ==
  /\ pending = TailId => NumberOf(n) # 1
  /\ n <= newest + MaxLost + 1 /\ n + MaxLate >= newest
  /\ tail = "sent" => n <= newest
  /\ IF arrived[n] = 0 THEN TRUE
     ELSE arrived[n] = 1 /\ Cardinality({k \in 1..Sent : arrived[k] = 2}) < MaxTwice
  /\ arrived' = [arrived EXCEPT ![n] = @ + 1]
  /\ newest' = IF n > newest THEN n ELSE newest

Line(n) ==
  /\ running /\ Arrives(n) /\ Receive(n)
  /\ UNCHANGED <<running, first, tail>>

\* The stream is stopped while the capture still runs.
StopTail ==
  /\ running /\ tail = "no" /\ newest > 0
  /\ tail' = "sent"
  /\ Receive(TailId)
  /\ UNCHANGED <<running, first, arrived, newest>>

\* stop(): what is put off or held is discarded, and the last frame closed.
Stop ==
  /\ running
  /\ running' = FALSE /\ pending' = 0
  /\ LET r == DiscardZero(Receiver) IN Becomes(Finalize([r EXCEPT !.t = FlushHeld(r.t)], FALSE))
  /\ UNCHANGED <<first, arrived, newest, tail>>

VideoNext == (\E n \in 1..Sent : Line(n)) \/ StopTail \/ Stop

Spec == VideoInit /\ [][VideoNext]_wvars

-----------------------------------------------------------------------------
\* A frame the capture hands out is one the device sent: every line is the line
\* of that frame and none is missing, and no frame comes twice or out of order,
\* whatever the network loses, delays or doubles.  Until a first end marker has
\* been seen, a frame may lack lines at its bottom: nothing told its height.
FramesAreWhole ==
  /\ \A i \in 1..Len(frames) :
       LET f == frames[i] IN
       /\ \A l \in DOMAIN f.lines : f.lines[l] = f.num * Lines + l + 1
       /\ f.marked => DOMAIN f.lines = 0..(Lines - 1)
  /\ \A i, j \in 1..Len(frames) : i < j /\ frames[i].marked => frames[i].num < frames[j].num
=============================================================================
