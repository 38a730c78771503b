----------------------------- MODULE StreamCapture -----------------------------
(***************************************************************************)
(* AudioCapture and DebugCapture (u64_audio_capture.py,                    *)
(* u64_debug_capture.py): a thread receives the stream's datagrams, the    *)
(* tracker says what each one is, and the payloads are put in order.  The  *)
(* audio receiver fills what is lost with silence, so that a sample's      *)
(* index is its time; the debug receiver keeps what came, up to a limit.   *)
(*                                                                         *)
(* A datagram is its position in the stream.  The network loses, delays    *)
(* and doubles datagrams; the device's counter may restart once.           *)
(***************************************************************************)
EXTENDS StreamSeq, FiniteSets

CONSTANTS
  Sent,       \* bound: datagrams of the stream
  MaxLate,    \* the network: how many positions late a datagram may come,
  MaxLost,    \* how many it may lose in a row
  MaxTwice,   \* and how many it may deliver twice;
              \* MaxLost + 1 + Window <= Modulus: a longer loss looks like a duplicate
  MaxChunks   \* max_bytes, in payloads, of the debug receiver

VARIABLES
  capture,  \* "audio" or "debug", and its state: "capturing" or "stopped"
  stream,   \* the device: first number, where it restarts, whether it is silent
  arrived,  \* how many times each datagram arrived
  newest,   \* the furthest datagram that arrived
  tracker,  \* _seq
  chunks,   \* the payloads, in order; 0 is silence filled in
  received, filled,
  options   \* DebugCapture's max_bytes, in payloads, and the payloads of which its
            \* filter keeps no entry

svars == <<capture, stream, arrived, newest, tracker, chunks, received, filled, options>>

NoLimit == 0
Plain == [limit |-> NoLimit, sifted |-> {}]
Options(kind) ==
  IF kind = "audio" THEN {Plain}
  ELSE [limit : {NoLimit, MaxChunks}, sifted : {{}, {n \in 1..Sent : n % 2 = 0}}]

Streams == [first : {Modulus - 2}, restart : 1..(Sent + 1), silent : BOOLEAN]

StreamInit ==
  /\ capture \in [kind : {"audio", "debug"}, state : {"capturing"}]
  /\ stream \in Streams
  /\ arrived = [n \in 1..Sent |-> 0] /\ newest = 0
  /\ tracker = Fresh /\ chunks = <<>>
  /\ received = 0 /\ filled = 0
  /\ options \in Options(capture.kind)

Restarted == newest >= stream.restart

\* The number of the n-th datagram of a stream that has not restarted.
Number(n) == Plus(stream.first, n - 1)

\* A datagram as it is sent.  Payloads of a silent stream are all alike.
Datagram(n) ==
  [seq |-> IF n >= stream.restart THEN (n - stream.restart) % Modulus
           ELSE Number(n),
   digest |-> IF stream.silent THEN 0 ELSE n,
   payload |-> n]

Arrives(n) ==
  /\ n <= newest + MaxLost + 1 /\ n + MaxLate >= newest
  /\ IF arrived[n] = 0 THEN TRUE
     ELSE arrived[n] = 1 /\ Cardinality({k \in 1..Sent : arrived[k] = 2}) < MaxTwice
  /\ arrived' = [arrived EXCEPT ![n] = @ + 1]
  /\ newest' = IF n > newest THEN n ELSE newest

Payloads(held) == [i \in 1..Len(held) |-> held[i].payload]

\* The silence a gap is filled with: the numbers that are not remembered, then
\* a slot of its own for each that is.
Silence(ev) == [i \in 1..(ev.untracked + Len(ev.gap)) |-> 0]

SlotOf(ev) == [s \in {ev.gap[i] : i \in 1..Len(ev.gap)} |->
                 Len(chunks) + ev.untracked + (CHOOSE i \in 1..Len(ev.gap) : ev.gap[i] = s)]

\* AudioCapture._recv_loop, for one datagram.
AudioReceives(n) ==
  LET ev == Observe(tracker, Datagram(n)) IN
  /\ capture = [kind |-> "audio", state |-> "capturing"]
  /\ Arrives(n)
  /\ received' = received + 1
  /\ tracker' = IF ev.kind = "gap" THEN Bind(ev.t, SlotOf(ev)) ELSE ev.t
  /\ chunks' = IF ev.kind = "held" THEN chunks
               ELSE IF ev.kind = "late" THEN [chunks EXCEPT ![ev.slot] = n]
               ELSE chunks \o Silence(ev) \o Append(Payloads(ev.readmit), n)
  /\ filled' = IF ev.kind = "late" THEN filled - 1 ELSE filled + Len(Silence(ev))
  /\ UNCHANGED <<capture, stream, options>>

\* What the filter leaves of payloads: one of which it keeps no entry is skipped.
Passed(payloads) ==
  LET left[i \in 0..Len(payloads)] ==
        IF i = 0 THEN <<>>
        ELSE IF payloads[i] \in options.sifted THEN left[i - 1]
        ELSE Append(left[i - 1], payloads[i])
  IN  left[Len(payloads)]

\* The rolling window: the oldest are thrown out, one is always kept.
Trimmed(all) ==
  IF options.limit = NoLimit \/ Len(all) <= options.limit THEN all
  ELSE SubSeq(all, Len(all) - options.limit + 1, Len(all))

\* DebugCapture._recv_loop: payloads in the order they came.
DebugReceives(n) ==
  LET ev == Observe(tracker, Datagram(n)) IN
  /\ capture = [kind |-> "debug", state |-> "capturing"]
  /\ Arrives(n)
  /\ received' = received + 1
  /\ tracker' = ev.t
  /\ chunks' = IF ev.kind = "held" THEN chunks
               ELSE Trimmed(chunks \o Passed(Append(Payloads(ev.readmit), n)))
  /\ UNCHANGED <<capture, stream, filled, options>>

\* stop(): the thread has been joined; what is still held is discarded.
StopOf(kind) ==
  /\ capture = [kind |-> kind, state |-> "capturing"]
  /\ capture' = [capture EXCEPT !.state = "stopped"]
  /\ tracker' = FlushHeld(tracker)
  /\ UNCHANGED <<stream, arrived, newest, chunks, received, filled, options>>

AudioStop == StopOf("audio")
DebugStop == StopOf("debug")

StreamNext ==
  \/ \E n \in 1..Sent : AudioReceives(n) \/ DebugReceives(n)
  \/ AudioStop \/ DebugStop

Spec == StreamInit /\ [][StreamNext]_svars

-----------------------------------------------------------------------------
\* CaptureResult.time_base_intact.
TimeBaseIntact == tracker.dropped = filled /\ tracker.resyncs = 0

\* As long as a recording of a stream that did not restart says that its time
\* base is intact, the sample index is the time: every datagram that arrived is
\* at its own place, counted from the first one, every other place is silence,
\* and exactly those are counted as dropped.
SamplesAreOnTime ==
  capture.kind = "audio" /\ TimeBaseIntact /\ ~Restarted /\ chunks # <<>> =>
    LET first == newest - Len(chunks) + 1 IN
    /\ \A i \in 1..Len(chunks) :
         chunks[i] = IF arrived[first + i - 1] = 0 THEN 0 ELSE first + i - 1
    /\ tracker.dropped = Cardinality({i \in 1..Len(chunks) : chunks[i] = 0})

Kept == Cardinality({i \in 1..Len(chunks) : chunks[i] # 0})

\* The datagrams neither discarded nor still held.
Handed == received - tracker.discarded - Len(tracker.held)

\* Restart or not, every datagram that was received and neither counted as
\* discarded nor still held is in an audio recording, whose other places are
\* the silence it counts, and in a debug trace without options, as
\* DebugCaptureResult says of packets_received.  With max_bytes the trace has as
\* many of them as the limit allows, and with a filter only such as it keeps:
\* what these take out no field counts.
BooksClose ==
  /\ capture.kind = "audio" =>
       /\ Kept = Handed
       /\ filled = Len(chunks) - Kept /\ tracker.dropped = filled
  /\ capture.kind = "debug" =>
       /\ Kept <= Handed
       /\ options.limit # NoLimit => Kept <= options.limit
       /\ options.sifted = {} =>
            \/ Kept = Handed
            \/ options.limit # NoLimit /\ Kept = options.limit
       /\ \A i \in 1..Len(chunks) : chunks[i] \notin options.sifted

(* What these rest on.                                                       *)
NetworkAssumption ==
  /\ {Modulus, MaxHeld, Sent, MaxLate, MaxLost} \subseteq Nat /\ {Window, MaxChunks} \subseteq Nat \ {0}
  /\ MaxLost + 1 + Window <= Modulus /\ MaxLate + Half < Modulus

Numbers == 0..(Modulus - 1)
Datagrams == [seq : Numbers, digest : Nat, payload : 1..Sent]
IsBook(b) == DOMAIN b \subseteq Numbers /\ b \in [DOMAIN b -> Nat]
IsTracker(t) ==
  /\ t \in [highest : Numbers \cup {None}, owed : {t.owed}, got : {t.got}, held : Seq(Datagrams),
            dropped : Int, resyncs : Nat, discarded : Nat]
  /\ IsBook(t.owed) /\ IsBook(t.got)

TypeOK ==
  /\ capture \in [kind : {"audio", "debug"}, state : {"capturing", "stopped"}]
  /\ stream \in [first : Numbers, restart : Nat, silent : BOOLEAN]
  /\ arrived \in [1..Sent -> Nat] /\ newest \in 0..Sent
  /\ IsTracker(tracker) /\ chunks \in Seq(0..Sent)
  /\ received \in Nat /\ filled \in Int
  /\ options \in [limit : Nat, sifted : SUBSET (1..Sent)]

\* Nothing has come before the first datagram, nor beyond the newest.
Begun ==
  /\ newest = 0 <=> tracker.highest = None
  /\ newest = 0 => chunks = <<>> /\ tracker.owed = Empty /\ tracker.got = Empty
  /\ \A n \in 1..Sent : n > newest => arrived[n] = 0

\* A number that is owed has a slot of its own, which is still silence.
SlotsAreFree ==
  capture.kind = "audio" =>
    /\ \A s \in DOMAIN tracker.owed :
         tracker.owed[s] \in 1..Len(chunks) /\ chunks[tracker.owed[s]] = 0
    /\ \A r, s \in DOMAIN tracker.owed : tracker.owed[r] = tracker.owed[s] => r = s

NoSilence == capture.kind = "debug" => \A i \in 1..Len(chunks) : chunks[i] # 0

\* The books are about the numbers they say they are about: what is owed is the
\* place of its slot, what was got has arrived, and both are in the window.
Place(i) == newest - Len(chunks) + i

OnTime ==
  capture.kind = "audio" /\ tracker.resyncs = 0 /\ ~Restarted =>
    /\ Len(chunks) <= newest
    /\ newest > 0 => tracker.highest = Number(newest)
    /\ \A i \in 1..Len(chunks) :
         chunks[i] = IF arrived[Place(i)] = 0 THEN 0 ELSE Place(i)
    /\ \A s \in DOMAIN tracker.owed :
         /\ s = Number(Place(tracker.owed[s]))
         /\ newest - Place(tracker.owed[s]) < Window
    /\ \A s \in DOMAIN tracker.got :
         \E n \in 1..newest : s = Number(n) /\ arrived[n] > 0 /\ newest - n < Window

CaptureInv ==
  /\ TypeOK /\ Begun /\ SlotsAreFree /\ NoSilence /\ OnTime /\ BooksClose
=============================================================================
