---------------------------- MODULE StreamProofs -----------------------------
(* Proofs about the two captures of MCToolkit, which share the tracker of a  *)
(* stream's numbers: the recordings of the audio and of the debug stream,    *)
(* and the frames of the video stream.                                       *)
EXTENDS ToolkitProofs, WellFoundedInduction

-----------------------------------------------------------------------------
(* The recordings of the audio and of the debug stream (StreamSeq,           *)
(* StreamCapture), for numbers of any width, any window, and a network that  *)
(* loses, delays and doubles within the bounds of NetworkAssumption.         *)

LEMMA ModIs ==
    ASSUME NEW m \in Nat \ {0}, NEW a \in Int
    PROVE  \E q \in Int, r \in 0 .. m - 1 : r = a % m /\ a = m * q + r
<1>1. a % m \in 0 .. m - 1 /\ a \div m \in Int /\ a = m * (a \div m) + (a % m)
  OBVIOUS
<1> QED BY <1>1

LEMMA ModOf ==
    ASSUME NEW m \in Nat \ {0}, NEW q \in Int, NEW r \in 0 .. m - 1
    PROVE  (m * q + r) % m = r
<1> DEFINE a == m * q + r
<1>1. a \in Int
  OBVIOUS
<1>2. PICK p \in Int, t \in 0 .. m - 1 : t = a % m /\ a = m * p + t
  BY <1>1, ModIs
<1>3. m * (q - p) = t - r
  BY <1>2
<1>4. ~(q - p >= 1) /\ ~(q - p <= -1)
  <2>1. ASSUME q - p >= 1 PROVE FALSE
    <3>1. m * (q - p) >= m
      BY <2>1
    <3> QED BY <1>3, <3>1
  <2>2. ASSUME q - p <= -1 PROVE FALSE
    <3>1. m * (p - q) >= m
      BY <2>2
    <3>2. m * (p - q) = r - t
      BY <1>2
    <3> QED BY <3>1, <3>2
  <2> QED BY <2>1, <2>2
<1> QED BY <1>2, <1>3, <1>4

LEMMA ModSame ==
    ASSUME NEW m \in Nat \ {0}, NEW a \in Int, NEW b \in Int,
           a % m = b % m, a - b < m, b - a < m
    PROVE  a = b
<1>1. PICK q \in Int, r \in 0 .. m - 1 : r = a % m /\ a = m * q + r
  BY ModIs
<1>2. PICK p \in Int, t \in 0 .. m - 1 : t = b % m /\ b = m * p + t
  BY ModIs
<1>3. r = t
  BY <1>1, <1>2
<1>4. m * (q - p) = a - b /\ m * (p - q) = b - a
  BY <1>1, <1>2, <1>3
<1>5. ASSUME q - p >= 1 PROVE FALSE
  <2>1. m * (q - p) >= m
    BY <1>5
  <2> QED BY <1>4, <2>1
<1>6. ASSUME q - p <= -1 PROVE FALSE
  <2>1. m * (p - q) >= m
    BY <1>6
  <2> QED BY <1>4, <2>1
<1>7. q = p
  BY <1>5, <1>6
<1> QED BY <1>1, <1>2, <1>3, <1>7

LEMMA ModMinus ==
    ASSUME NEW m \in Nat \ {0}, NEW a \in Int, NEW b \in Int, b <= a, a - b < m
    PROVE  ((a % m) + m - (b % m)) % m = a - b
<1>1. PICK q \in Int, r \in 0 .. m - 1 : r = a % m /\ a = m * q + r
  BY ModIs
<1>2. PICK p \in Int, t \in 0 .. m - 1 : t = b % m /\ b = m * p + t
  BY ModIs
<1>3. a - b \in 0 .. m - 1 /\ p - q + 1 \in Int
  OBVIOUS
<1>4. r + m - t = m * (p - q + 1) + (a - b)
  BY <1>1, <1>2
<1>5. (m * (p - q + 1) + (a - b)) % m = a - b
  BY <1>3, ModOf
<1> QED BY <1>1, <1>2, <1>4, <1>5

LEMMA ModShift ==
    ASSUME NEW m \in Nat \ {0}, NEW q \in Int, NEW c \in Int
    PROVE  (m * q + c) % m = c % m
<1>1. PICK p \in Int, t \in 0 .. m - 1 : t = c % m /\ c = m * p + t
  BY ModIs
<1>2. m * q + c = m * (q + p) + t /\ q + p \in Int
  BY <1>1
<1>3. (m * (q + p) + t) % m = t
  BY <1>2, ModOf
<1> QED BY <1>1, <1>2, <1>3

LEMMA StreamModulus ==
    /\ Modulus \in Nat \ {0} /\ Window \in Nat \ {0} /\ MaxHeld \in Nat /\ Sent \in Nat
    /\ MaxLate \in Nat /\ MaxLost \in Nat /\ MaxChunks \in Nat \ {0}
    /\ Stream!Half \in Nat /\ MaxLost + 1 + Window <= Modulus
    /\ MaxLate + Stream!Half < Modulus
<1>1. {Modulus, MaxHeld, Sent, MaxLate, MaxLost} \subseteq Nat
  BY StreamAssumption DEF Stream!NetworkAssumption
<1>2. /\ {Window, MaxChunks} \subseteq Nat \ {0} /\ MaxLost + 1 + Window <= Modulus
      /\ MaxLate + Stream!Half < Modulus
  BY StreamAssumption DEF Stream!NetworkAssumption
<1>3. Stream!Half \in Nat
  BY <1>1 DEF Stream!Half
<1> QED BY <1>1, <1>2, <1>3

LEMMA NumbersMod ==
    ASSUME NEW a \in Int, NEW b \in Int
    PROVE  /\ Stream!Plus(a % Modulus, 1) = (a + 1) % Modulus
           /\ Stream!Minus(a % Modulus, b) = (a - b) % Modulus
           /\ Stream!Minus(a % Modulus, b % Modulus) = (a - b) % Modulus
           /\ Stream!Minus(a % Modulus, (b % Modulus) + 1) = (a - b - 1) % Modulus
<1>0. Modulus \in Nat \ {0}
  BY StreamModulus
<1>1. PICK q \in Int, r \in 0 .. Modulus - 1 : r = a % Modulus /\ a = Modulus * q + r
  BY <1>0, ModIs
<1>2. Stream!Plus(a % Modulus, 1) = (a + 1) % Modulus
  <2>1. a + 1 = Modulus * q + (r + 1) /\ r + 1 \in Int
    BY <1>0, <1>1
  <2>2. (Modulus * q + (r + 1)) % Modulus = (r + 1) % Modulus
    BY <1>0, <2>1, ModShift
  <2> QED BY <1>1, <2>1, <2>2 DEF Stream!Plus
<1>3. ASSUME NEW c \in Int
      PROVE  Stream!Minus(a % Modulus, c) = (a - c) % Modulus
  <2>1. PICK p \in Int, t \in 0 .. Modulus - 1 : t = c % Modulus /\ c = Modulus * p + t
    BY <1>0, ModIs
  <2>2. /\ a - c = Modulus * (q - p - 1) + (r + Modulus - t)
        /\ q - p - 1 \in Int /\ r + Modulus - t \in Int
    BY <1>0, <1>1, <2>1
  <2>3. (Modulus * (q - p - 1) + (r + Modulus - t)) % Modulus = (r + Modulus - t) % Modulus
    BY <1>0, <2>2, ModShift
  <2> QED BY <1>1, <2>1, <2>2, <2>3 DEF Stream!Minus
<1>4. PICK p \in Int, t \in 0 .. Modulus - 1 : t = b % Modulus /\ b = Modulus * p + t
  BY <1>0, ModIs
<1>5. Stream!Minus(a % Modulus, b % Modulus) = (a - b) % Modulus
  <2>1. Stream!Minus(a % Modulus, t) = (a - t) % Modulus
    BY <1>3
  <2>2. a - t = Modulus * p + (a - b) /\ a - b \in Int
    BY <1>0, <1>4
  <2>3. (Modulus * p + (a - b)) % Modulus = (a - b) % Modulus
    BY <1>0, <2>2, ModShift
  <2> QED BY <1>4, <2>1, <2>2, <2>3
<1>6. Stream!Minus(a % Modulus, (b % Modulus) + 1) = (a - b - 1) % Modulus
  <2>1. Stream!Minus(a % Modulus, t + 1) = (a - (t + 1)) % Modulus
    BY <1>3
  <2>2. a - (t + 1) = Modulus * p + (a - b - 1) /\ a - b - 1 \in Int
    BY <1>0, <1>4
  <2>3. (Modulus * p + (a - b - 1)) % Modulus = (a - b - 1) % Modulus
    BY <1>0, <2>2, ModShift
  <2> QED BY <1>4, <2>1, <2>2, <2>3
<1> QED BY <1>2, <1>3, <1>5, <1>6

(* The numbers of a stream that has not restarted.                           *)
Num(f, n) == Stream!Plus(f, n - 1)

LEMMA NumbersDiffer ==
    ASSUME NEW f \in Int, NEW a \in Int, NEW b \in Int,
           a - b < Modulus, b - a < Modulus, Num(f, a) = Num(f, b)
    PROVE  a = b
<1>0. Modulus \in Nat \ {0}
  BY StreamModulus
<1>1. PICK x \in Int, y \in Int : x = f + (a - 1) /\ y = f + (b - 1)
  OBVIOUS
<1>2. x % Modulus = y % Modulus
  BY <1>1 DEF Num, Stream!Plus
<1>3. x - y < Modulus /\ y - x < Modulus
  BY <1>0, <1>1
<1>4. x = y
  BY <1>0, <1>2, <1>3, ModSame
<1> QED BY <1>1, <1>4

LEMMA NumbersRun ==
    ASSUME NEW f \in Int, NEW a \in Int, NEW b \in Int
    PROVE  /\ Num(f, a) \in 0 .. Modulus - 1
           /\ Stream!Plus(Num(f, a), 1) = Num(f, a + 1)
           /\ Stream!Minus(Num(f, a), b) = Num(f, a - b)
           /\ Stream!Minus(Num(f, a), Num(f, b)) = (a - b) % Modulus
           /\ Stream!Minus(Num(f, a), Num(f, b) + 1) = (a - b - 1) % Modulus
<1>0. Modulus \in Nat \ {0}
  BY StreamModulus
<1>1. PICK x \in Int, y \in Int : x = f + (a - 1) /\ y = f + (b - 1)
  OBVIOUS
<1>2. Num(f, a) = x % Modulus /\ Num(f, b) = y % Modulus
  BY <1>1 DEF Num, Stream!Plus
<1>3. /\ Num(f, a + 1) = (x + 1) % Modulus
      /\ Num(f, a - b) = (x - b) % Modulus
  <2>1. f + (a + 1 - 1) = x + 1 /\ f + (a - b - 1) = x - b
    BY <1>1
  <2> QED BY <2>1 DEF Num, Stream!Plus
<1>4. x - y = a - b /\ x - y - 1 = a - b - 1
  BY <1>1
<1>5. x % Modulus \in 0 .. Modulus - 1
  BY <1>0
<1>6. /\ Stream!Plus(x % Modulus, 1) = (x + 1) % Modulus
      /\ Stream!Minus(x % Modulus, y % Modulus) = (x - y) % Modulus
      /\ Stream!Minus(x % Modulus, (y % Modulus) + 1) = (x - y - 1) % Modulus
  BY NumbersMod
<1>7. Stream!Minus(x % Modulus, b) = (x - b) % Modulus
  BY NumbersMod
<1> QED BY <1>2, <1>3, <1>4, <1>5, <1>6, <1>7

(* The books, and a tracker that goes on to a number.                        *)
LEMMA YoungIs ==
    ASSUME NEW b, Stream!IsBook(b), NEW h
    PROVE  /\ Stream!IsBook(Stream!Young(b, h))
           /\ DOMAIN Stream!Young(b, h) = {x \in DOMAIN b : Stream!Minus(h, x) < Window}
           /\ \A s \in DOMAIN Stream!Young(b, h) : Stream!Young(b, h)[s] = b[s]
BY DEF Stream!IsBook, Stream!Young

LEMMA PutIs ==
    ASSUME NEW b, Stream!IsBook(b), NEW s \in Stream!Numbers, NEW v \in Nat
    PROVE  /\ Stream!IsBook(Stream!Put(b, s, v))
           /\ DOMAIN Stream!Put(b, s, v) = DOMAIN b \cup {s}
           /\ \A x \in DOMAIN b \cup {s} :
                Stream!Put(b, s, v)[x] = IF x = s THEN v ELSE b[x]
BY DEF Stream!IsBook, Stream!Put

LEMMA EmptyIs == Stream!IsBook(Stream!Empty) /\ DOMAIN Stream!Empty = {}
BY DEF Stream!IsBook, Stream!Empty

LEMMA TrackerIs ==
    ASSUME NEW t, Stream!IsTracker(t)
    PROVE  /\ t.highest \in Stream!Numbers \cup {Stream!None}
           /\ t.held \in Seq(Stream!Datagrams) /\ Len(t.held) \in Nat
           /\ t.dropped \in Int /\ t.resyncs \in Nat /\ t.discarded \in Nat
           /\ Stream!IsBook(t.owed) /\ Stream!IsBook(t.got)
BY DEF Stream!IsTracker

LEMMA AdvanceIs ==
    ASSUME NEW t, Stream!IsTracker(t), NEW s \in Stream!Numbers, NEW g \in Nat,
           NEW a, a = Stream!Advance(t, s, g)
    PROVE  /\ Stream!IsTracker(a)
           /\ a.highest = s /\ a.owed = Stream!Young(t.owed, s)
           /\ a.got = Stream!Young(Stream!Put(t.got, s, g), s)
           /\ a.held = t.held /\ a.dropped = t.dropped /\ a.resyncs = t.resyncs
           /\ a.discarded = t.discarded
<1> DEFINE o == Stream!Young(t.owed, s)
           b == Stream!Young(Stream!Put(t.got, s, g), s)
<1>1. Stream!IsBook(o) /\ Stream!IsBook(b)
  BY YoungIs, PutIs DEF Stream!IsTracker
<1>2. a = [t EXCEPT !.highest = s, !.got = b, !.owed = o]
  BY DEF Stream!Advance
<1> HIDE DEF o, b
<1>3. /\ a.highest = s /\ a.owed = o /\ a.got = b /\ a.held = t.held
      /\ a.dropped = t.dropped /\ a.resyncs = t.resyncs /\ a.discarded = t.discarded
      /\ a \in [highest : Stream!Numbers \cup {Stream!None}, owed : {o}, got : {b},
                held : Seq(Stream!Datagrams), dropped : Int, resyncs : Nat, discarded : Nat]
  BY <1>2 DEF Stream!IsTracker
<1>4. Stream!IsTracker(a)
  BY <1>1, <1>3 DEF Stream!IsTracker
<1> QED BY <1>3, <1>4 DEF o, b

LEMMA FlushIs ==
    ASSUME NEW t, Stream!IsTracker(t), NEW a, a = Stream!FlushHeld(t)
    PROVE  /\ Stream!IsTracker(a) /\ a.held = <<>>
           /\ a.discarded = t.discarded + Len(t.held)
           /\ a.highest = t.highest /\ a.owed = t.owed /\ a.got = t.got
           /\ a.dropped = t.dropped /\ a.resyncs = t.resyncs
<1>1. Len(t.held) \in Nat /\ <<>> \in Seq(Stream!Datagrams)
  BY TrackerIs
<1>2. PICK n, o, b :
        n \in Nat /\ n = t.discarded + Len(t.held) /\ o = t.owed /\ b = t.got
  BY <1>1, TrackerIs
<1>3. a = [t EXCEPT !.held = <<>>, !.discarded = n]
  BY <1>2 DEF Stream!FlushHeld
<1>4. /\ a.held = <<>> /\ a.discarded = n /\ a.highest = t.highest
      /\ a.owed = o /\ a.got = b /\ a.dropped = t.dropped /\ a.resyncs = t.resyncs
      /\ a \in [highest : Stream!Numbers \cup {Stream!None}, owed : {o}, got : {b},
                held : Seq(Stream!Datagrams), dropped : Int, resyncs : Nat, discarded : Nat]
  BY <1>1, <1>2, <1>3 DEF Stream!IsTracker
<1>5. Stream!IsTracker(a)
  BY <1>2, <1>4 DEF Stream!IsTracker
<1> QED BY <1>2, <1>4, <1>5

LEMMA ForgetIs ==
    ASSUME NEW t, Stream!IsTracker(t), NEW a, a = Stream!Forget(t)
    PROVE  /\ Stream!IsTracker(a) /\ a.owed = Stream!Empty /\ a.got = Stream!Empty
           /\ a.resyncs = t.resyncs + 1 /\ a.held = t.held /\ a.dropped = t.dropped
           /\ a.discarded = t.discarded /\ a.highest = t.highest
<1> PICK e : e = Stream!Empty
  OBVIOUS
<1>1. PICK n \in Nat : n = t.resyncs + 1
  BY TrackerIs
<1>2. a = [t EXCEPT !.owed = e, !.got = e, !.resyncs = n]
  BY <1>1 DEF Stream!Forget
<1>3. /\ a.owed = e /\ a.got = e /\ a.resyncs = n /\ a.held = t.held
      /\ a.dropped = t.dropped /\ a.discarded = t.discarded /\ a.highest = t.highest
      /\ a \in [highest : Stream!Numbers \cup {Stream!None}, owed : {e}, got : {e},
                held : Seq(Stream!Datagrams), dropped : Int, resyncs : Nat, discarded : Nat]
  BY <1>2 DEF Stream!IsTracker
<1>4. Stream!IsTracker(a)
  BY <1>1, <1>3, EmptyIs DEF Stream!IsTracker
<1> QED BY <1>1, <1>3, <1>4

LEMMA HoldIs ==
    ASSUME NEW t, Stream!IsTracker(t), NEW d \in Stream!Datagrams,
           NEW a, a = Stream!HoldBack(t, d)
    PROVE  /\ Stream!IsTracker(a) /\ a.held = Append(t.held, d)
           /\ Len(a.held) = Len(t.held) + 1
           /\ a.highest = t.highest /\ a.owed = t.owed /\ a.got = t.got
           /\ a.dropped = t.dropped /\ a.resyncs = t.resyncs /\ a.discarded = t.discarded
<1>1. a = [t EXCEPT !.held = Append(@, d)]
  BY DEF Stream!HoldBack
<1>2. t.held \in Seq(Stream!Datagrams)
  BY TrackerIs
<1> QED BY <1>1, <1>2 DEF Stream!IsTracker

LEMMA EventIs ==
    ASSUME NEW k, NEW t, NEW ev, ev = Stream!Event(k, t)
    PROVE  /\ ev.kind = k /\ ev.t = t /\ ev.gap = <<>> /\ ev.untracked = 0
           /\ ev.readmit = <<>>
BY DEF Stream!Event

LEMMA NextIs ==
    ASSUME NEW t, Stream!IsTracker(t), NEW d \in Stream!Datagrams,
           NEW ev, ev = Stream!Event("next", Stream!Advance(t, d.seq, d.digest))
    PROVE  /\ Stream!IsTracker(ev.t) /\ ev.kind = "next" /\ ev.gap = <<>> /\ ev.untracked = 0
           /\ ev.readmit = <<>> /\ ev.t.highest = d.seq
           /\ ev.t.owed = Stream!Young(t.owed, d.seq)
           /\ ev.t.got = Stream!Young(Stream!Put(t.got, d.seq, d.digest), d.seq)
           /\ ev.t.held = t.held /\ ev.t.dropped = t.dropped /\ ev.t.resyncs = t.resyncs
           /\ ev.t.discarded = t.discarded
<1>1. PICK a : a = Stream!Advance(t, d.seq, d.digest)
  OBVIOUS
<1>2. /\ ev.kind = "next" /\ ev.t = a /\ ev.gap = <<>> /\ ev.untracked = 0
      /\ ev.readmit = <<>>
  BY <1>1, EventIs
<1>3. d.seq \in Stream!Numbers /\ d.digest \in Nat
  BY DEF Stream!Datagrams
<1> QED BY <1>1, <1>2, <1>3, AdvanceIs

(* What a late datagram leaves: its slot is owed no more.                    *)
GivesSlot(t, d, ev) ==
  /\ Stream!IsTracker(ev.t) /\ ev.kind = "late" /\ ev.slot = t.owed[d.seq]
  /\ ev.gap = <<>> /\ ev.untracked = 0 /\ ev.readmit = <<>>
  /\ ev.t.highest = t.highest /\ ev.t.got = Stream!Put(t.got, d.seq, d.digest)
  /\ DOMAIN ev.t.owed = DOMAIN t.owed \ {d.seq}
  /\ \A s \in DOMAIN t.owed \ {d.seq} : ev.t.owed[s] = t.owed[s]
  /\ ev.t.held = t.held /\ ev.t.dropped = t.dropped - 1
  /\ ev.t.resyncs = t.resyncs /\ ev.t.discarded = t.discarded

LEMMA LateIs ==
    ASSUME NEW t, Stream!IsTracker(t), NEW d \in Stream!Datagrams, d.seq \in DOMAIN t.owed,
           NEW ev, ev = Stream!Late(t, d)
    PROVE  GivesSlot(t, d, ev)
<1>1. d.seq \in Stream!Numbers /\ d.digest \in Nat
  BY DEF Stream!Datagrams
<1>2. PICK o : o = [s \in DOMAIN t.owed \ {d.seq} |-> t.owed[s]]
  OBVIOUS
<1>3. /\ Stream!IsBook(o) /\ DOMAIN o = DOMAIN t.owed \ {d.seq}
      /\ \A s \in DOMAIN t.owed \ {d.seq} : o[s] = t.owed[s]
  BY <1>2 DEF Stream!IsTracker, Stream!IsBook
<1>4. PICK b : b = Stream!Put(t.got, d.seq, d.digest)
  OBVIOUS
<1>5. Stream!IsBook(b)
  BY <1>1, <1>4, PutIs, TrackerIs
<1>6. PICK n \in Int : n = t.dropped - 1
  BY TrackerIs
<1>7. PICK a : a = [t EXCEPT !.dropped = n, !.got = b, !.owed = o]
  OBVIOUS
<1>8. /\ a.highest = t.highest /\ a.owed = o /\ a.got = b /\ a.held = t.held
      /\ a.dropped = n /\ a.resyncs = t.resyncs /\ a.discarded = t.discarded
      /\ a \in [highest : Stream!Numbers \cup {Stream!None}, owed : {o}, got : {b},
                held : Seq(Stream!Datagrams), dropped : Int, resyncs : Nat, discarded : Nat]
  BY <1>7 DEF Stream!IsTracker
<1>9. Stream!IsTracker(a)
  BY <1>3, <1>5, <1>8 DEF Stream!IsTracker
<1>10. ev = [Stream!Event("late", a) EXCEPT !.slot = t.owed[d.seq]]
  BY <1>2, <1>4, <1>6, <1>7 DEF Stream!Late
<1>11. /\ ev.kind = "late" /\ ev.t = a /\ ev.slot = t.owed[d.seq] /\ ev.gap = <<>>
       /\ ev.untracked = 0 /\ ev.readmit = <<>>
  BY <1>10 DEF Stream!Event
<1> QED BY <1>3, <1>4, <1>6, <1>8, <1>9, <1>11 DEF GivesSlot

(* The numbers that a gap skips, those remembered and how many are not.      *)
Skips(t, d, ev) ==
  \E k \in Nat, m \in Nat :
    /\ k + m = Stream!Minus(d.seq, t.highest + 1) /\ k < Window
    /\ ev.untracked = m /\ ev.gap \in Seq(Stream!Numbers) /\ Len(ev.gap) = k
    /\ \A i \in 1 .. k : ev.gap[i] = Stream!Minus(d.seq, k + 1 - i)
    /\ \A s \in DOMAIN ev.t.owed :
         /\ Stream!Minus(d.seq, s) < Window
         /\ \/ s \in {ev.gap[i] : i \in 1 .. k}
            \/ s \in DOMAIN t.owed /\ ev.t.owed[s] = t.owed[s]
    /\ ev.t.dropped = t.dropped + k + m

LEMMA GapIs ==
    ASSUME NEW t, Stream!IsTracker(t), NEW d \in Stream!Datagrams, NEW ev, ev = Stream!Gap(t, d)
    PROVE  /\ Stream!IsTracker(ev.t) /\ ev.kind = "gap" /\ ev.readmit = <<>> /\ Skips(t, d, ev)
           /\ ev.t.highest = d.seq
           /\ ev.t.got = Stream!Young(Stream!Put(t.got, d.seq, d.digest), d.seq)
           /\ ev.t.held = t.held /\ ev.t.resyncs = t.resyncs /\ ev.t.discarded = t.discarded
<1>0. Modulus \in Nat \ {0} /\ Window \in Nat \ {0}
  BY StreamModulus
<1>1. d.seq \in Stream!Numbers /\ d.digest \in Nat /\ d.seq \in Nat
  BY <1>0 DEF Stream!Datagrams, Stream!Numbers
<1>2. ASSUME NEW c \in Int PROVE Stream!Minus(d.seq, c) \in Stream!Numbers
  BY <1>0, <1>1 DEF Stream!Minus, Stream!Numbers
<1>3. t.highest \in Int
  BY <1>0, TrackerIs DEF Stream!Numbers, Stream!None
<1>4. PICK gap \in Nat : gap = Stream!Minus(d.seq, t.highest + 1)
  BY <1>0, <1>2, <1>3 DEF Stream!Numbers
<1>5. PICK k \in Nat : k = (IF gap < Window THEN gap ELSE Window - 1) /\ k < Window /\ k <= gap
  BY <1>0
<1>6. PICK m \in Nat : m = gap - k
  BY <1>5
<1>7. PICK skipped : skipped = [i \in 1 .. k |-> Stream!Minus(d.seq, k + 1 - i)]
  OBVIOUS
<1>8. /\ skipped \in Seq(Stream!Numbers) /\ Len(skipped) = k
      /\ \A i \in 1 .. k : skipped[i] = Stream!Minus(d.seq, k + 1 - i)
  <2>1. \A i \in 1 .. k : Stream!Minus(d.seq, k + 1 - i) \in Stream!Numbers
    BY <1>2
  <2> QED BY <1>7, <2>1
<1>9. PICK numbers : numbers = {skipped[i] : i \in 1 .. k}
  OBVIOUS
<1>10. numbers \subseteq Stream!Numbers
  BY <1>8, <1>9
<1>11. PICK o : o = [s \in DOMAIN t.owed \cup numbers |-> IF s \in numbers THEN 0 ELSE t.owed[s]]
  OBVIOUS
<1>12. Stream!IsBook(o)
  BY <1>10, <1>11 DEF Stream!IsTracker, Stream!IsBook
<1>13. PICK n \in Int : n = t.dropped + gap
  BY TrackerIs
<1>14. PICK a : a = [t EXCEPT !.dropped = n, !.owed = o]
  OBVIOUS
<1>15. /\ a.highest = t.highest /\ a.owed = o /\ a.got = t.got /\ a.held = t.held
       /\ a.dropped = n /\ a.resyncs = t.resyncs /\ a.discarded = t.discarded
       /\ a \in [highest : Stream!Numbers \cup {Stream!None}, owed : {o}, got : {t.got},
                 held : Seq(Stream!Datagrams), dropped : Int, resyncs : Nat, discarded : Nat]
  BY <1>14 DEF Stream!IsTracker
<1>16. Stream!IsTracker(a)
  BY <1>12, <1>15 DEF Stream!IsTracker
<1>17. PICK b : b = Stream!Advance(a, d.seq, d.digest)
  OBVIOUS
<1>18. /\ Stream!IsTracker(b)
       /\ b.highest = d.seq /\ b.owed = Stream!Young(o, d.seq)
       /\ b.got = Stream!Young(Stream!Put(t.got, d.seq, d.digest), d.seq)
       /\ b.held = t.held /\ b.dropped = n /\ b.resyncs = t.resyncs
       /\ b.discarded = t.discarded
  <2>1. /\ Stream!IsTracker(b)
        /\ b.highest = d.seq /\ b.owed = Stream!Young(a.owed, d.seq)
        /\ b.got = Stream!Young(Stream!Put(a.got, d.seq, d.digest), d.seq)
        /\ b.held = a.held /\ b.dropped = a.dropped /\ b.resyncs = a.resyncs
        /\ b.discarded = a.discarded
    <3>1. PICK s \in Stream!Numbers, g \in Nat : s = d.seq /\ g = d.digest
      BY <1>1
    <3>2. b = Stream!Advance(a, s, g)
      BY <1>17, <3>1
    <3>3. /\ Stream!IsTracker(b)
          /\ b.highest = s /\ b.owed = Stream!Young(a.owed, s)
          /\ b.got = Stream!Young(Stream!Put(a.got, s, g), s)
          /\ b.held = a.held /\ b.dropped = a.dropped /\ b.resyncs = a.resyncs
          /\ b.discarded = a.discarded
      BY ONLY <1>16, <3>2, AdvanceIs, s \in Stream!Numbers, g \in Nat
    <3> QED BY <3>1, <3>3
  <2> QED BY <1>15, <2>1
<1>19. ev = [Stream!Event("gap", b) EXCEPT !.gap = skipped, !.untracked = m]
  BY <1>4, <1>5, <1>6, <1>7, <1>9, <1>11, <1>13, <1>14, <1>17 DEF Stream!Gap
<1>20. /\ ev.kind = "gap" /\ ev.t = b /\ ev.gap = skipped /\ ev.untracked = m
       /\ ev.readmit = <<>>
  BY <1>19 DEF Stream!Event
<1>21. ASSUME NEW s \in DOMAIN b.owed
       PROVE  /\ Stream!Minus(d.seq, s) < Window
              /\ s \in numbers \/ (s \in DOMAIN t.owed /\ b.owed[s] = t.owed[s])
  <2>1. s \in DOMAIN o /\ Stream!Minus(d.seq, s) < Window /\ b.owed[s] = o[s]
    <3>1. PICK y : y = Stream!Young(o, d.seq)
      OBVIOUS
    <3>2. /\ DOMAIN y = {x \in DOMAIN o : Stream!Minus(d.seq, x) < Window}
          /\ \A x \in DOMAIN y : y[x] = o[x]
      BY ONLY <1>12, <3>1, YoungIs, Zenon
    <3> QED BY <1>18, <1>21, <3>1, <3>2
  <2> QED BY <1>11, <2>1
<1>22. t.dropped + k + m = n
  BY <1>6, <1>13, TrackerIs
<1>23. k + m = gap
  BY <1>5, <1>6
<1>24. \A s \in DOMAIN b.owed :
         /\ Stream!Minus(d.seq, s) < Window
         /\ s \in {skipped[i] : i \in 1 .. k} \/ (s \in DOMAIN t.owed /\ b.owed[s] = t.owed[s])
  BY <1>9, <1>21
<1>25. t.dropped + k + m = b.dropped
  BY <1>18, <1>22
<1>26. Skips(t, d, ev)
  <2> SUFFICES \E p \in Nat, q \in Nat :
                 /\ p + q = gap /\ p < Window
                 /\ m = q /\ skipped \in Seq(Stream!Numbers) /\ Len(skipped) = p
                 /\ \A i \in 1 .. p : skipped[i] = Stream!Minus(d.seq, p + 1 - i)
                 /\ \A s \in DOMAIN b.owed :
                      /\ Stream!Minus(d.seq, s) < Window
                      /\ \/ s \in {skipped[i] : i \in 1 .. p}
                         \/ s \in DOMAIN t.owed /\ b.owed[s] = t.owed[s]
                 /\ b.dropped = t.dropped + p + q
    BY <1>4, <1>20, ZenonT(30) DEF Skips
  <2> WITNESS k \in Nat, m \in Nat
  <2>1. b.dropped = t.dropped + k + m
    BY ONLY <1>25, Zenon
  <2>2. /\ k < Window /\ skipped \in Seq(Stream!Numbers) /\ Len(skipped) = k
        /\ \A i \in 1 .. k : skipped[i] = Stream!Minus(d.seq, k + 1 - i)
    BY ONLY <1>5, <1>8, Zenon
  <2> QED BY ONLY <1>23, <1>24, <2>1, <2>2, Zenon
<1> QED BY ONLY <1>18, <1>20, <1>26, Zenon

LEMMA ReopenedIs ==
    ASSUME NEW t, Stream!IsTracker(t), NEW d \in Stream!Datagrams,
           NEW a, a = Stream!Reopened(t, d)
    PROVE  /\ Stream!IsTracker(a) /\ a.highest = d.seq /\ DOMAIN a.owed = {} /\ a.held = <<>>
           /\ a.resyncs = t.resyncs + 1 /\ a.dropped = t.dropped
           /\ a.discarded = t.discarded
<1>1. d.seq \in Stream!Numbers /\ d.digest \in Nat
  BY DEF Stream!Datagrams
<1>2. PICK h \in Seq(Stream!Datagrams) : h = t.held
  BY TrackerIs
<1> DEFINE numbers == {h[i].seq : i \in 1 .. Len(h)}
           digestOf(s) == h[CHOOSE i \in 1 .. Len(h) : h[i].seq = s].digest
<1>3. PICK b : b = [s \in numbers |-> digestOf(s)]
  OBVIOUS
<1>4. Stream!IsBook(b)
  <2>0. \A e \in Stream!Datagrams : e.seq \in Stream!Numbers /\ e.digest \in Nat
    BY DEF Stream!Datagrams
  <2>1. \A i \in 1 .. Len(h) : h[i].seq \in Stream!Numbers /\ h[i].digest \in Nat
    <3>1. \A i \in 1 .. Len(h) : h[i] \in Stream!Datagrams
      OBVIOUS
    <3> QED BY <2>0, <3>1
  <2>2. ASSUME NEW s \in numbers PROVE digestOf(s) \in Nat
    BY <2>1
  <2>3. numbers \subseteq Stream!Numbers
    BY <2>1
  <2> HIDE DEF numbers, digestOf
  <2> QED BY <1>3, <2>2, <2>3 DEF Stream!IsBook
<1>5. PICK f : f = Stream!Forget(t)
  OBVIOUS
<1>6. /\ Stream!IsTracker(f) /\ f.owed = Stream!Empty /\ f.got = Stream!Empty
      /\ f.resyncs = t.resyncs + 1 /\ f.held = t.held /\ f.dropped = t.dropped
      /\ f.discarded = t.discarded /\ f.highest = t.highest
  BY <1>5, ForgetIs
<1>7. PICK g : g = [f EXCEPT !.got = b, !.held = <<>>]
  OBVIOUS
<1>8. /\ g.highest = f.highest /\ g.owed = f.owed /\ g.got = b /\ g.held = <<>>
      /\ g.dropped = f.dropped /\ g.resyncs = f.resyncs /\ g.discarded = f.discarded
      /\ g \in [highest : Stream!Numbers \cup {Stream!None}, owed : {f.owed}, got : {b},
                held : Seq(Stream!Datagrams), dropped : Int, resyncs : Nat, discarded : Nat]
  <2>1. <<>> \in Seq(Stream!Datagrams)
    OBVIOUS
  <2> QED BY <1>6, <1>7, <2>1 DEF Stream!IsTracker
<1>9. Stream!IsTracker(g)
  BY <1>4, <1>6, <1>8 DEF Stream!IsTracker
<1>10. a = Stream!Advance(g, d.seq, d.digest)
  BY <1>2, <1>3, <1>5, <1>7 DEF Stream!Reopened
<1>11. /\ Stream!IsTracker(a) /\ a.highest = d.seq /\ a.owed = Stream!Young(g.owed, d.seq)
       /\ a.held = g.held /\ a.dropped = g.dropped /\ a.resyncs = g.resyncs
       /\ a.discarded = g.discarded
  BY <1>1, <1>9, <1>10, AdvanceIs
<1>12. DOMAIN a.owed = {}
  BY <1>6, <1>8, <1>11, EmptyIs DEF Stream!Young
<1> QED BY <1>6, <1>8, <1>11, <1>12

(* What a datagram can be to the tracker.                                    *)
AsHeld(t, d, ev) ==
  /\ ev.kind = "held" /\ ev.readmit = <<>> /\ ev.gap = <<>> /\ ev.untracked = 0
  /\ d.seq \in DOMAIN t.got
  /\ ev.t.highest = t.highest /\ ev.t.owed = t.owed /\ ev.t.got = t.got
  /\ ev.t.dropped = t.dropped /\ ev.t.resyncs = t.resyncs
  /\ ev.t.discarded + Len(ev.t.held) = t.discarded + Len(t.held) + 1

Moves(t, d, ev) ==
  /\ ev.t.highest = d.seq
  /\ ev.t.got = Stream!Young(Stream!Put(t.got, d.seq, d.digest), d.seq)
  /\ ev.t.resyncs = t.resyncs

AsNext(t, d, ev) ==
  /\ ev.kind = "next" /\ ev.readmit = <<>> /\ ev.gap = <<>> /\ ev.untracked = 0
  /\ t.highest = Stream!None \/ d.seq = Stream!Plus(t.highest, 1)
  /\ Moves(t, d, ev)
  /\ ev.t.owed = Stream!Young(t.owed, d.seq) /\ ev.t.dropped = t.dropped

AsGap(t, d, ev) ==
  /\ ev.kind = "gap" /\ ev.readmit = <<>> /\ t.highest # Stream!None
  /\ ~Stream!Behind(t, d.seq)
  /\ Moves(t, d, ev)
  /\ Skips(t, d, ev)

AsLate(t, d, ev) ==
  /\ ev.kind = "late" /\ ev.readmit = <<>> /\ ev.gap = <<>> /\ ev.untracked = 0
  /\ t.highest # Stream!None /\ d.seq \in DOMAIN t.owed /\ ev.slot = t.owed[d.seq]
  /\ ev.t.highest = t.highest /\ ev.t.got = Stream!Put(t.got, d.seq, d.digest)
  /\ DOMAIN ev.t.owed = DOMAIN t.owed \ {d.seq}
  /\ \A s \in DOMAIN t.owed \ {d.seq} : ev.t.owed[s] = t.owed[s]
  /\ ev.t.dropped = t.dropped - 1 /\ ev.t.resyncs = t.resyncs

AsResync(t, d, ev) ==
  /\ ev.kind = "resync" /\ ev.gap = <<>> /\ ev.untracked = 0
  /\ ev.t.highest = d.seq /\ DOMAIN ev.t.owed = {}
  /\ ev.t.dropped = t.dropped /\ ev.t.resyncs = t.resyncs + 1

LEMMA ClassifyIs ==
    ASSUME NEW t, Stream!IsTracker(t), NEW d \in Stream!Datagrams,
           NEW ev, ev = Stream!Classify(t, d), t.held = <<>>
    PROVE  /\ Stream!IsTracker(ev.t)
           /\ \/ AsHeld(t, d, ev)
              \/ /\ \/ AsNext(t, d, ev)
                    \/ AsGap(t, d, ev)
                    \/ AsLate(t, d, ev)
                    \/ AsResync(t, d, ev)
                 /\ ev.t.held = <<>> /\ ev.readmit = <<>>
                 /\ ev.t.discarded = t.discarded
<1>0. d.seq \in Stream!Numbers /\ d.digest \in Nat
  BY DEF Stream!Datagrams
<1>1. CASE t.highest = Stream!None \/ d.seq = Stream!Plus(t.highest, 1)
  <2>1. ev = Stream!Event("next", Stream!Advance(t, d.seq, d.digest))
    BY <1>1 DEF Stream!Classify
  <2>2. /\ Stream!IsTracker(ev.t) /\ ev.kind = "next" /\ ev.gap = <<>> /\ ev.untracked = 0
        /\ ev.readmit = <<>> /\ ev.t.highest = d.seq
        /\ ev.t.owed = Stream!Young(t.owed, d.seq)
        /\ ev.t.got = Stream!Young(Stream!Put(t.got, d.seq, d.digest), d.seq)
        /\ ev.t.held = t.held /\ ev.t.dropped = t.dropped /\ ev.t.resyncs = t.resyncs
        /\ ev.t.discarded = t.discarded
    BY <2>1, NextIs
  <2> QED BY <1>1, <2>2 DEF AsNext, Moves
<1>2. CASE /\ t.highest # Stream!None /\ d.seq # Stream!Plus(t.highest, 1)
           /\ ~Stream!Behind(t, d.seq)
  <2>1. ev = Stream!Gap(t, d)
    BY <1>2 DEF Stream!Classify
  <2>2. /\ Stream!IsTracker(ev.t) /\ ev.kind = "gap" /\ ev.readmit = <<>> /\ Skips(t, d, ev)
        /\ ev.t.highest = d.seq
        /\ ev.t.got = Stream!Young(Stream!Put(t.got, d.seq, d.digest), d.seq)
        /\ ev.t.held = t.held /\ ev.t.resyncs = t.resyncs /\ ev.t.discarded = t.discarded
    BY <2>1, GapIs
  <2>3. AsGap(t, d, ev)
    BY <1>2, <2>2, Zenon DEF AsGap, Moves
  <2> QED BY <2>2, <2>3
<1>3. CASE /\ t.highest # Stream!None /\ d.seq # Stream!Plus(t.highest, 1)
           /\ Stream!Behind(t, d.seq) /\ Stream!Owed(t, d.seq)
  <2>1. ev = Stream!Late(t, d)
    BY <1>3 DEF Stream!Classify
  <2>2. d.seq \in DOMAIN t.owed
    BY <1>3 DEF Stream!Owed
  <2>3. GivesSlot(t, d, ev)
    BY ONLY Stream!IsTracker(t), d \in Stream!Datagrams, <2>1, <2>2, LateIs
  <2>4. AsLate(t, d, ev)
    BY <1>3, <2>2, <2>3, Zenon DEF AsLate, GivesSlot
  <2> QED BY <2>3, <2>4 DEF GivesSlot
<1>4. CASE /\ t.highest # Stream!None /\ d.seq # Stream!Plus(t.highest, 1)
           /\ Stream!Behind(t, d.seq) /\ ~Stream!Owed(t, d.seq)
           /\ Stream!SeenIdentical(t, d.seq, d.digest)
  <2>1. ev = Stream!Event("held", Stream!HoldBack(t, d))
    BY <1>4 DEF Stream!Classify
  <2>2. PICK a : a = Stream!HoldBack(t, d)
    OBVIOUS
  <2>3. /\ Stream!IsTracker(a) /\ Len(a.held) = Len(t.held) + 1
        /\ a.highest = t.highest /\ a.owed = t.owed /\ a.got = t.got
        /\ a.dropped = t.dropped /\ a.resyncs = t.resyncs /\ a.discarded = t.discarded
    BY <2>2, HoldIs, ZenonT(30)
  <2>4. ev.kind = "held" /\ ev.t = a /\ ev.gap = <<>> /\ ev.untracked = 0 /\ ev.readmit = <<>>
    BY <2>1, <2>2, EventIs
  <2>5. d.seq \in DOMAIN t.got
    BY <1>4 DEF Stream!SeenIdentical
  <2>6. a.discarded + Len(a.held) = t.discarded + Len(t.held) + 1
    BY <2>3, TrackerIs
  <2> QED BY <2>3, <2>4, <2>5, <2>6 DEF AsHeld
<1>5. CASE /\ t.highest # Stream!None /\ d.seq # Stream!Plus(t.highest, 1)
           /\ Stream!Behind(t, d.seq) /\ ~Stream!Owed(t, d.seq)
           /\ ~Stream!SeenIdentical(t, d.seq, d.digest)
  <2>1. PICK f : f = Stream!Forget(t)
    OBVIOUS
  <2>2. PICK a : a = Stream!Advance(f, d.seq, d.digest)
    OBVIOUS
  <2>3. ev = Stream!Event("resync", a)
    BY <1>5, <2>1, <2>2 DEF Stream!Classify
  <2>4. ev.kind = "resync" /\ ev.t = a /\ ev.gap = <<>> /\ ev.untracked = 0 /\ ev.readmit = <<>>
    BY <2>3, EventIs
  <2>5. /\ Stream!IsTracker(f) /\ f.owed = Stream!Empty
        /\ f.resyncs = t.resyncs + 1 /\ f.held = t.held /\ f.dropped = t.dropped
        /\ f.discarded = t.discarded
    BY <2>1, ForgetIs
  <2>6. /\ Stream!IsTracker(a) /\ a.highest = d.seq /\ a.owed = Stream!Young(f.owed, d.seq)
        /\ a.held = f.held /\ a.dropped = f.dropped /\ a.resyncs = f.resyncs
        /\ a.discarded = f.discarded
    BY <1>0, <2>2, <2>5, AdvanceIs
  <2>7. DOMAIN a.owed = {}
    BY <2>5, <2>6, EmptyIs DEF Stream!Young
  <2> QED BY <2>4, <2>5, <2>6, <2>7 DEF AsResync
<1> QED BY <1>1, <1>2, <1>3, <1>4, <1>5, Zenon

LEMMA ObserveIs ==
    ASSUME NEW t, Stream!IsTracker(t), NEW d \in Stream!Datagrams,
           NEW ev, ev = Stream!Observe(t, d)
    PROVE  /\ Stream!IsTracker(ev.t) /\ ev.readmit \in Seq(Stream!Datagrams)
           /\ \/ AsHeld(t, d, ev)
              \/ /\ \/ ev.readmit = <<>> /\ (AsNext(t, d, ev) \/ AsGap(t, d, ev) \/ AsLate(t, d, ev))
                    \/ AsResync(t, d, ev)
                 /\ ev.t.held = <<>>
                 /\ ev.t.discarded + Len(ev.readmit) = t.discarded + Len(t.held)
<1>1. CASE ~Stream!Continues(t, d)
  <2>1. PICK u : u = Stream!FlushHeld(t)
    OBVIOUS
  <2>2. /\ Stream!IsTracker(u) /\ u.held = <<>>
        /\ u.discarded = t.discarded + Len(t.held)
        /\ u.highest = t.highest /\ u.owed = t.owed /\ u.got = t.got
        /\ u.dropped = t.dropped /\ u.resyncs = t.resyncs
    BY <2>1, FlushIs
  <2>3. ev = Stream!Classify(u, d)
    BY <1>1, <2>1 DEF Stream!Observe
  <2>4. /\ Stream!IsTracker(ev.t)
        /\ \/ AsHeld(u, d, ev)
           \/ /\ \/ AsNext(u, d, ev)
                 \/ AsGap(u, d, ev)
                 \/ AsLate(u, d, ev)
                 \/ AsResync(u, d, ev)
              /\ ev.t.held = <<>> /\ ev.readmit = <<>>
              /\ ev.t.discarded = u.discarded
    BY ONLY <2>2, <2>3, ClassifyIs, d \in Stream!Datagrams
  <2>5. <<>> \in Seq(Stream!Datagrams) /\ Len(<<>>) = 0
    OBVIOUS
  <2>6. t.discarded \in Nat /\ Len(t.held) \in Nat
    BY TrackerIs
  <2>7. u.discarded + Len(u.held) + 1 = t.discarded + Len(t.held) + 1 /\ u.discarded + 0 = t.discarded + Len(t.held)
    BY <2>2, <2>5, <2>6
  <2>8. ASSUME AsHeld(u, d, ev) PROVE AsHeld(t, d, ev) /\ ev.readmit = <<>>
    BY <2>2, <2>7, <2>8, Zenon DEF AsHeld
  <2>9. AsNext(u, d, ev) => AsNext(t, d, ev)
    BY <2>2, Zenon DEF AsNext, Moves
  <2>10. AsGap(u, d, ev) => AsGap(t, d, ev)
    <3>1. Stream!Behind(u, d.seq) <=> Stream!Behind(t, d.seq)
      BY <2>2 DEF Stream!Behind
    <3>2. Skips(u, d, ev) => Skips(t, d, ev)
      BY <2>2, Zenon DEF Skips
    <3> QED BY <2>2, <3>1, <3>2, Zenon DEF AsGap, Moves
  <2>11. AsLate(u, d, ev) => AsLate(t, d, ev)
    BY <2>2, Zenon DEF AsLate
  <2>12. AsResync(u, d, ev) => AsResync(t, d, ev)
    BY <2>2, Zenon DEF AsResync
  <2>13. ev.readmit = <<>> /\ ev.t.discarded = u.discarded =>
           ev.t.discarded + Len(ev.readmit) = t.discarded + Len(t.held)
    BY <2>5, <2>7
  <2> QED BY ONLY <2>4, <2>5, <2>8, <2>9, <2>10, <2>11, <2>12, <2>13, Zenon
<1>2. CASE /\ Stream!Continues(t, d)
           /\ Stream!SeenIdentical(t, d.seq, d.digest) /\ Len(t.held) < MaxHeld
  <2>1. ev = Stream!Event("held", Stream!HoldBack(t, d))
    BY <1>2 DEF Stream!Observe
  <2>2. PICK a : a = Stream!HoldBack(t, d)
    OBVIOUS
  <2>3. /\ Stream!IsTracker(a) /\ Len(a.held) = Len(t.held) + 1
        /\ a.highest = t.highest /\ a.owed = t.owed /\ a.got = t.got
        /\ a.dropped = t.dropped /\ a.resyncs = t.resyncs /\ a.discarded = t.discarded
    BY <2>2, HoldIs
  <2>4. ev.kind = "held" /\ ev.t = a /\ ev.gap = <<>> /\ ev.untracked = 0 /\ ev.readmit = <<>>
    BY <2>1, <2>2, EventIs
  <2>5. d.seq \in DOMAIN t.got
    BY <1>2 DEF Stream!SeenIdentical
  <2>6. a.discarded + Len(a.held) = t.discarded + Len(t.held) + 1
    BY <2>3, TrackerIs
  <2>7. <<>> \in Seq(Stream!Datagrams)
    OBVIOUS
  <2> QED BY <2>3, <2>4, <2>5, <2>6, <2>7 DEF AsHeld
<1>3. CASE /\ Stream!Continues(t, d)
           /\ ~(Stream!SeenIdentical(t, d.seq, d.digest) /\ Len(t.held) < MaxHeld)
  <2>1. ev = Stream!Restart(t, d)
    BY <1>3 DEF Stream!Observe
  <2>2. PICK a : a = Stream!Reopened(t, d)
    OBVIOUS
  <2>3. ev = [Stream!Event("resync", a) EXCEPT !.readmit = t.held]
    BY <2>1, <2>2 DEF Stream!Restart
  <2>4. ev.kind = "resync" /\ ev.t = a /\ ev.gap = <<>> /\ ev.untracked = 0 /\ ev.readmit = t.held
    BY <2>3 DEF Stream!Event
  <2>5. /\ Stream!IsTracker(a) /\ a.highest = d.seq /\ DOMAIN a.owed = {} /\ a.held = <<>>
        /\ a.resyncs = t.resyncs + 1 /\ a.dropped = t.dropped
        /\ a.discarded = t.discarded
    BY <2>2, ReopenedIs
  <2> QED BY <2>4, <2>5, TrackerIs DEF AsResync
<1> QED BY <1>1, <1>2, <1>3, Zenon

(* The places of a recording that hold a payload.                            *)
Voice(c) == {i \in 1 .. Len(c) : c[i] # 0}

LEMMA VoiceIs ==
    ASSUME NEW c, Len(c) \in Nat
    PROVE  /\ IsFiniteSet(Voice(c)) /\ Cardinality(Voice(c)) \in Nat
           /\ Cardinality({i \in 1 .. Len(c) : c[i] = 0}) = Len(c) - Cardinality(Voice(c))
           /\ (\A i \in 1 .. Len(c) : c[i] # 0) => Cardinality(Voice(c)) = Len(c)
<1> PICK n \in Nat : n = Len(c)
  OBVIOUS
<1>1. IsFiniteSet(1 .. n) /\ Cardinality(1 .. n) = n
  <2>1. IsFiniteSet(1 .. n) /\ Cardinality(1 .. n) = IF 1 > n THEN 0 ELSE n - 1 + 1
    BY FS_Interval, 1 \in Int, n \in Int
  <2> QED BY <2>1
<1> DEFINE v == Voice(c)
           z == {i \in 1 .. n : c[i] = 0}
<1>2. v \subseteq 1 .. n /\ z \subseteq 1 .. n /\ v \cup z = 1 .. n /\ v \cap z = {}
  BY DEF Voice
<1> HIDE DEF v, z
<1>3. /\ IsFiniteSet(v) /\ Cardinality(v) \in Nat
      /\ IsFiniteSet(z) /\ Cardinality(z) \in Nat
  BY <1>1, <1>2, FS_Subset, FS_CardinalityType
<1>4. Cardinality(1 .. n) = Cardinality(v) + Cardinality(z) - Cardinality({})
  BY <1>2, <1>3, FS_Union
<1>5. Cardinality({}) = 0
  BY FS_EmptySet
<1>6. Cardinality(z) = n - Cardinality(v)
  BY <1>1, <1>3, <1>4, <1>5
<1>7. ASSUME \A i \in 1 .. n : c[i] # 0 PROVE Cardinality(v) = n
  <2>1. v = 1 .. n
    BY <1>7 DEF v, Voice
  <2> QED BY <1>1, <2>1
<1> QED BY <1>3, <1>6, <1>7 DEF v, z

LEMMA VoiceGrows ==
    ASSUME NEW c, NEW r, NEW l \in Nat, l = Len(c), NEW j \in Nat, NEW k \in Nat,
           Len(r) = l + j + k,
           \A i \in 1 .. l : r[i] = c[i],
           \A i \in l + 1 .. l + j : r[i] = 0,
           \A i \in l + j + 1 .. l + j + k : r[i] # 0
    PROVE  Cardinality(Voice(r)) = Cardinality(Voice(c)) + k
<1> DEFINE v == Voice(c)
           w == l + j + 1 .. l + j + k
<1>1. Voice(r) = v \cup w /\ v \cap w = {}
  BY DEF Voice
<1>2. IsFiniteSet(w) /\ Cardinality(w) = k
  <2>1. PICK a \in Int, b \in Int : a = l + j + 1 /\ b = l + j + k
    OBVIOUS
  <2>2. IsFiniteSet(a .. b) /\ Cardinality(a .. b) = IF a > b THEN 0 ELSE b - a + 1
    BY FS_Interval
  <2>3. (IF a > b THEN 0 ELSE b - a + 1) = k
    BY <2>1
  <2> QED BY <2>1, <2>2, <2>3
<1>3. IsFiniteSet(v) /\ Cardinality(v) \in Nat
  BY VoiceIs
<1> HIDE DEF v, w
<1>4. Cardinality(v \cup w) = Cardinality(v) + Cardinality(w) - Cardinality(v \cap w)
  BY ONLY <1>2, <1>3, FS_Union
<1>5. Cardinality(v \cap w) = 0
  BY ONLY <1>1, FS_EmptySet
<1>6. Cardinality(v \cup w) = Cardinality(v) + k
  BY ONLY <1>2, <1>3, <1>4, <1>5, k \in Nat
<1>7. Voice(r) = v \cup w
  BY <1>1
<1> QED BY ONLY <1>6, <1>7 DEF v

LEMMA VoiceFilled ==
    ASSUME NEW c, NEW r, NEW l \in Nat, l = Len(c), Len(r) = l,
           NEW s \in 1 .. l, c[s] = 0, r[s] # 0,
           \A i \in 1 .. l : i # s => r[i] = c[i]
    PROVE  Cardinality(Voice(r)) = Cardinality(Voice(c)) + 1
<1>1. Voice(r) = Voice(c) \cup {s} /\ s \notin Voice(c)
  BY DEF Voice
<1>2. IsFiniteSet(Voice(c))
  BY VoiceIs
<1> QED BY <1>1, <1>2, FS_AddElement

Joins(r, a, b, l, k) ==
  /\ Len(r) = l + k
  /\ \A i \in 1 .. l : r[i] = a[i]
  /\ \A i \in 1 .. k : r[l + i] = b[i]

LEMMA CatIs ==
    ASSUME NEW S, NEW a \in Seq(S), NEW b \in Seq(S), NEW l \in Nat, NEW k \in Nat,
           l = Len(a), k = Len(b), NEW r, r = a \o b
    PROVE  r \in Seq(S) /\ Joins(r, a, b, l, k)
<1>1. /\ r \in Seq(S) /\ Len(r) = l + k
      /\ \A i \in 1 .. l + k : r[i] = IF i <= l THEN a[i] ELSE b[i - l]
  BY ConcatProperties
<1>2. ASSUME NEW i \in 1 .. l PROVE r[i] = a[i]
  BY <1>1
<1>3. ASSUME NEW i \in 1 .. k PROVE r[l + i] = b[i]
  <2>1. PICK x \in 1 .. l + k : x = l + i
    OBVIOUS
  <2>2. ~(x <= l) /\ x - l = i
    BY <2>1
  <2> QED BY <1>1, <2>1, <2>2
<1> QED BY <1>1, <1>2, <1>3 DEF Joins

PaysFor(q, k, n) ==
  /\ q \in Seq(0 .. Sent) /\ Len(q) = k + 1 /\ q[k + 1] = n
  /\ \A i \in 1 .. k + 1 : q[i] # 0

(* The payloads of what is readmitted, and the datagram's own.               *)
LEMMA PayloadsIs ==
    ASSUME NEW h \in Seq(Stream!Datagrams), NEW k, k = Len(h), NEW n \in 1 .. Sent,
           NEW q, q = Append(Stream!Payloads(h), n)
    PROVE  PaysFor(q, k, n)
<1>0. Sent \in Nat
  BY StreamModulus
<1>1. PICK p : p = Stream!Payloads(h)
  OBVIOUS
<1>2. p \in Seq(0 .. Sent) /\ Len(p) = k /\ \A i \in 1 .. k : p[i] # 0
  <2>1. \A i \in 1 .. k : h[i] \in Stream!Datagrams
    OBVIOUS
  <2>2. \A d \in Stream!Datagrams : d.payload \in 0 .. Sent /\ d.payload # 0
    BY <1>0 DEF Stream!Datagrams
  <2>3. p = [i \in 1 .. k |-> h[i].payload]
    BY <1>1 DEF Stream!Payloads
  <2> QED BY <2>1, <2>2, <2>3
<1>3. n \in 0 .. Sent /\ n # 0
  BY <1>0
<1>4. q \in Seq(0 .. Sent) /\ Len(q) = k + 1 /\ q[k + 1] = n /\ \A i \in 1 .. k + 1 : q[i] # 0
  BY <1>1, <1>2, <1>3
<1> QED BY <1>4, Zenon DEF PaysFor

Extends(c, r, j, k, n) ==
  /\ Len(r) = Len(c) + j + (k + 1)
  /\ \A i \in 1 .. Len(c) : r[i] = c[i]
  /\ \A i \in Len(c) + 1 .. Len(c) + j : r[i] = 0
  /\ \A i \in Len(c) + j + 1 .. Len(c) + j + (k + 1) : r[i] # 0
  /\ r[Len(c) + j + (k + 1)] = n

Continued(c, ev, n) == c \o Stream!Silence(ev) \o Append(Stream!Payloads(ev.readmit), n)

(* A recording goes on with the silence of a gap, what is readmitted, and the *)
(* datagram itself.                                                           *)
LEMMA ExtendIs ==
    ASSUME NEW c \in Seq(0 .. Sent), NEW j \in Nat, NEW k \in Nat, NEW ev, NEW n \in 1 .. Sent,
           ev.readmit \in Seq(Stream!Datagrams), k = Len(ev.readmit),
           j = ev.untracked + Len(ev.gap),
           NEW r, r = Continued(c, ev, n)
    PROVE  r \in Seq(0 .. Sent) /\ Extends(c, r, j, k, n) /\ Len(Stream!Silence(ev)) = j
<1>0. Sent \in Nat
  BY StreamModulus
<1> PICK h \in Seq(Stream!Datagrams) : h = ev.readmit
  OBVIOUS
<1> PICK S : S = 0 .. Sent
  OBVIOUS
<1>1. PICK z : z = Stream!Silence(ev)
  OBVIOUS
<1>2. z \in Seq(S) /\ Len(z) = j /\ \A i \in 1 .. j : z[i] = 0
  BY <1>0, <1>1 DEF Stream!Silence
<1>3. PICK q : q = Append(Stream!Payloads(ev.readmit), n)
  OBVIOUS
<1>7. q \in Seq(S) /\ Len(q) = k + 1 /\ q[k + 1] = n /\ \A i \in 1 .. k + 1 : q[i] # 0
  <2>1. PaysFor(q, k, n)
    BY <1>3, PayloadsIs, Zenon
  <2>2. S = 0 .. Sent
    OBVIOUS
  <2> QED BY ONLY <2>1, <2>2, Zenon DEF PaysFor
<1>8. PICK l \in Nat : l = Len(c)
  OBVIOUS
<1>9. PICK y : y = c \o z
  OBVIOUS
<1>10. /\ y \in Seq(S) /\ Len(y) = l + j
       /\ \A i \in 1 .. l : y[i] = c[i]
       /\ \A i \in 1 .. j : y[l + i] = z[i]
  <2>1. c \in Seq(S) /\ z \in Seq(S) /\ j = Len(z)
    BY <1>2
  <2>2. y \in Seq(S) /\ Joins(y, c, z, l, j)
    BY ONLY <1>8, <1>9, <2>1, CatIs, l \in Nat, j \in Nat, Zenon
  <2> QED BY ONLY <2>2, Zenon DEF Joins
<1>11. r = y \o q
  BY <1>1, <1>3, <1>9 DEF Continued
<1>12. PICK x \in Nat, w \in Nat : x = l + j /\ w = k + 1
  OBVIOUS
<1>13. /\ r \in Seq(S) /\ Len(r) = x + w
       /\ \A i \in 1 .. x : r[i] = y[i]
       /\ \A i \in 1 .. w : r[x + i] = q[i]
  <2>1. Len(q) = w /\ Len(y) = x
    BY <1>7, <1>10, <1>12
  <2>2. q \in Seq(S) /\ y \in Seq(S)
    BY <1>7, <1>10
  <2>3. r \in Seq(S) /\ Joins(r, y, q, x, w)
    BY ONLY <1>11, <2>1, <2>2, CatIs, x \in Nat, w \in Nat, Zenon
  <2> QED BY ONLY <2>3, Zenon DEF Joins
<1>14. r[x + w] = n
  <2>1. w \in 1 .. w /\ q[w] = n
    BY <1>7, <1>12
  <2> QED BY ONLY <1>13, <2>1
<1>15. ASSUME NEW i \in x + 1 .. x + w PROVE r[i] # 0
  <2>1. PICK e \in 1 .. w : i = x + e
    <3> i - x \in 1 .. w /\ i = x + (i - x)
      OBVIOUS
    <3> QED OBVIOUS
  <2> QED BY <1>7, <1>12, <1>13, <2>1
<1>16. ASSUME NEW i \in 1 .. l PROVE r[i] = c[i]
  <2>1. i \in 1 .. x
    BY <1>12
  <2> QED BY ONLY <1>10, <1>13, <2>1, i \in 1 .. l
<1>17. ASSUME NEW i \in l + 1 .. l + j PROVE r[i] = 0
  <2>1. PICK e \in 1 .. j : i = l + e
    <3> i - l \in 1 .. j /\ i = l + (i - l)
      OBVIOUS
    <3> QED OBVIOUS
  <2>2. i \in 1 .. x
    BY <1>12
  <2> QED BY <1>2, <1>10, <1>13, <2>1, <2>2
<1>18. x + w = l + j + (k + 1) /\ x = l + j
  BY <1>12
<1>19. Len(z) = j
  BY <1>2
<1>20. r \in Seq(0 .. Sent)
  BY <1>13
<1>21. Len(r) = l + j + (k + 1) /\ r[l + j + (k + 1)] = n
  BY ONLY <1>13, <1>14, <1>18
<1>22. \A i \in l + j + 1 .. l + j + (k + 1) : r[i] # 0
  BY ONLY <1>15, <1>18
<1>23. Extends(c, r, j, k, n)
  BY ONLY <1>8, <1>16, <1>17, <1>21, <1>22 DEF Extends
<1> QED BY ONLY <1>1, <1>19, <1>20, <1>23

LEMMA DatagramIs ==
    ASSUME Stream!TypeOK, NEW n \in 1 .. Sent, NEW d, d = Stream!Datagram(n)
    PROVE  /\ d \in Stream!Datagrams /\ d.payload = n
           /\ n < stream.restart => d.seq = Num(stream.first, n)
<1>1. Modulus \in Nat \ {0} /\ Sent \in Nat
  BY StreamModulus
<1>2. stream.first \in Int /\ stream.restart \in Nat
  BY <1>1 DEF Stream!TypeOK, Stream!Numbers
<1>3. Stream!Number(n) \in Stream!Numbers
  <2>1. n \in Int
    BY <1>1
  <2>2. Num(stream.first, n) \in 0 .. Modulus - 1
    BY <1>2, <2>1, NumbersRun
  <2> QED BY <2>2 DEF Stream!Numbers, Stream!Number, Num
<1>4. PICK r \in Nat : r = stream.restart
  BY <1>2
<1>5. (n - r) % Modulus \in Stream!Numbers
  BY <1>1 DEF Stream!Numbers
<1>6. PICK s : s = (IF n >= r THEN (n - r) % Modulus ELSE Stream!Number(n))
  OBVIOUS
<1>7. PICK g \in Nat : g = (IF stream.silent THEN 0 ELSE n)
  <2>1. n \in Nat
    BY <1>1
  <2> QED BY <2>1
<1>8. s \in Stream!Numbers
  BY <1>3, <1>5, <1>6
<1>9. d = [seq |-> s, digest |-> g, payload |-> n]
  BY <1>4, <1>6, <1>7 DEF Stream!Datagram
<1>10. Stream!Number(n) = Num(stream.first, n)
  BY DEF Stream!Number, Num
<1> QED BY <1>1, <1>4, <1>6, <1>7, <1>8, <1>9, <1>10 DEF Stream!Datagrams

LEMMA BindIs ==
    ASSUME NEW t, Stream!IsTracker(t), NEW f, \A s \in DOMAIN f : f[s] \in Nat,
           NEW a, a = Stream!Bind(t, f)
    PROVE  /\ Stream!IsTracker(a) /\ a.highest = t.highest /\ a.got = t.got
           /\ a.held = t.held /\ a.dropped = t.dropped /\ a.resyncs = t.resyncs
           /\ a.discarded = t.discarded
           /\ DOMAIN a.owed = DOMAIN t.owed
           /\ \A s \in DOMAIN t.owed : a.owed[s] = IF s \in DOMAIN f THEN f[s] ELSE t.owed[s]
<1>1. PICK o : o = [s \in DOMAIN t.owed |-> IF s \in DOMAIN f THEN f[s] ELSE t.owed[s]]
  OBVIOUS
<1>2. /\ Stream!IsBook(o) /\ DOMAIN o = DOMAIN t.owed
      /\ \A s \in DOMAIN t.owed : o[s] = IF s \in DOMAIN f THEN f[s] ELSE t.owed[s]
  BY <1>1 DEF Stream!IsTracker, Stream!IsBook
<1>3. a = [t EXCEPT !.owed = o]
  BY <1>1 DEF Stream!Bind
<1>4. /\ a.highest = t.highest /\ a.owed = o /\ a.got = t.got /\ a.held = t.held
      /\ a.dropped = t.dropped /\ a.resyncs = t.resyncs /\ a.discarded = t.discarded
      /\ a \in [highest : Stream!Numbers \cup {Stream!None}, owed : {o}, got : {t.got},
                held : Seq(Stream!Datagrams), dropped : Int, resyncs : Nat, discarded : Nat]
  BY <1>3 DEF Stream!IsTracker
<1>5. Stream!IsTracker(a)
  BY <1>2, <1>4 DEF Stream!IsTracker
<1> QED BY <1>2, <1>4, <1>5

HasSlots(f, ev, k, m) ==
  /\ DOMAIN f = {ev.gap[i] : i \in 1 .. k}
  /\ \A s \in DOMAIN f : \E i \in 1 .. k : s = ev.gap[i] /\ f[s] = Len(chunks) + m + i

LEMMA SlotOfIs ==
    ASSUME NEW ev, NEW k \in Nat, k = Len(ev.gap), NEW l \in Nat, l = Len(chunks),
           NEW m \in Nat, m = ev.untracked, NEW f, f = Stream!SlotOf(ev)
    PROVE  HasSlots(f, ev, k, m)
<1>1. f = [s \in {ev.gap[i] : i \in 1 .. k} |-> l + m + (CHOOSE i \in 1 .. k : ev.gap[i] = s)]
  BY DEF Stream!SlotOf
<1>2. DOMAIN f = {ev.gap[i] : i \in 1 .. k}
  BY <1>1
<1>3. ASSUME NEW s \in DOMAIN f
      PROVE  \E i \in 1 .. k : s = ev.gap[i] /\ f[s] = l + m + i
  <2>1. \E i \in 1 .. k : ev.gap[i] = s
    BY <1>2
  <2>2. PICK i : i = CHOOSE e \in 1 .. k : ev.gap[e] = s
    OBVIOUS
  <2>3. i \in 1 .. k /\ ev.gap[i] = s
    BY <2>1, <2>2
  <2>4. f[s] = l + m + i
    BY <1>1, <1>2, <2>2
  <2> QED BY <2>3, <2>4
<1> QED BY <1>2, <1>3 DEF HasSlots

LEMMA StreamTypes ==
    ASSUME Stream!TypeOK
    PROVE  /\ chunks \in Seq(0 .. Sent) /\ Len(chunks) \in Nat /\ newest \in 0 .. Sent /\ newest \in Nat
           /\ arrived \in [1 .. Sent -> Nat]
           /\ received \in Nat /\ filled \in Int
           /\ options \in [limit : Nat, sifted : SUBSET (1 .. Sent)]
           /\ stream.first \in Int /\ stream.restart \in Nat
           /\ Stream!IsTracker(tracker)
<1>1. Modulus \in Nat \ {0} /\ Sent \in Nat
  BY StreamModulus
<1> QED BY <1>1 DEF Stream!TypeOK, Stream!Numbers

LEMMA ArrivesIs ==
    ASSUME Stream!TypeOK, NEW n \in 1 .. Sent, Stream!Arrives(n)
    PROVE  /\ n \in Nat /\ n <= newest + MaxLost + 1 /\ n + MaxLate >= newest
           /\ arrived' \in [1 .. Sent -> Nat] /\ arrived'[n] > 0
           /\ \A i \in 1 .. Sent : i # n => arrived'[i] = arrived[i]
           /\ newest' \in 0 .. Sent /\ newest' \in Nat /\ newest' > 0
           /\ (n > newest => newest' = n) /\ (n <= newest => newest' = newest)
<1>1. Sent \in Nat
  BY StreamModulus
<1>2. arrived \in [1 .. Sent -> Nat] /\ newest \in 0 .. Sent /\ newest \in Nat
  BY StreamTypes
<1>3. /\ n <= newest + MaxLost + 1 /\ n + MaxLate >= newest
      /\ arrived' = [arrived EXCEPT ![n] = @ + 1]
      /\ newest' = IF n > newest THEN n ELSE newest
  BY DEF Stream!Arrives
<1>4. arrived[n] \in Nat
  BY <1>2
<1> QED BY <1>1, <1>2, <1>3, <1>4

(* What a datagram does to an audio recording.                               *)
Grows(j, k, n) == Extends(chunks, chunks', j, k, n) /\ filled' = filled + j

Released(k) ==
  /\ tracker'.held = <<>>
  /\ tracker'.discarded + k = tracker.discarded + Len(tracker.held)

Goes(d) ==
  /\ tracker'.highest = d.seq
  /\ tracker'.got = Stream!Young(Stream!Put(tracker.got, d.seq, d.digest), d.seq)
  /\ tracker'.resyncs = tracker.resyncs

DoesHeld(n, d) ==
  /\ chunks' = chunks /\ filled' = filled /\ d.seq \in DOMAIN tracker.got
  /\ tracker'.highest = tracker.highest /\ tracker'.owed = tracker.owed
  /\ tracker'.got = tracker.got
  /\ tracker'.dropped = tracker.dropped /\ tracker'.resyncs = tracker.resyncs
  /\ tracker'.discarded + Len(tracker'.held) = tracker.discarded + Len(tracker.held) + 1

DoesNext(n, d) ==
  /\ Grows(0, 0, n) /\ Released(0) /\ Goes(d)
  /\ tracker.highest = Stream!None \/ d.seq = Stream!Plus(tracker.highest, 1)
  /\ tracker'.owed = Stream!Young(tracker.owed, d.seq)
  /\ tracker'.dropped = tracker.dropped

\* What is owed after a gap: the new slots come after l, the others were there.
OwesGap(o, old, d, k, l) ==
  \A s \in DOMAIN o :
    /\ Stream!Minus(d.seq, s) < Window
    /\ \/ \E i \in 1 .. k : s = Stream!Minus(d.seq, k + 1 - i) /\ o[s] = l + i
       \/ s \in DOMAIN old /\ o[s] = old[s]

DoesGap(n, d) ==
  /\ tracker.highest # Stream!None /\ ~Stream!Behind(tracker, d.seq)
  /\ Released(0) /\ Goes(d)
  /\ \E k \in Nat, m \in Nat :
       /\ k + m = Stream!Minus(d.seq, tracker.highest + 1) /\ k < Window
       /\ Grows(k + m, 0, n)
       /\ OwesGap(tracker'.owed, tracker.owed, d, k, Len(chunks) + m)
       /\ tracker'.dropped = tracker.dropped + k + m

DoesLate(n, d) ==
  /\ tracker.highest # Stream!None /\ d.seq \in DOMAIN tracker.owed
  /\ chunks' = [chunks EXCEPT ![tracker.owed[d.seq]] = n] /\ filled' = filled - 1
  /\ Released(0)
  /\ tracker'.highest = tracker.highest /\ tracker'.resyncs = tracker.resyncs
  /\ tracker'.got = Stream!Put(tracker.got, d.seq, d.digest)
  /\ DOMAIN tracker'.owed = DOMAIN tracker.owed \ {d.seq}
  /\ \A s \in DOMAIN tracker.owed \ {d.seq} : tracker'.owed[s] = tracker.owed[s]
  /\ tracker'.dropped = tracker.dropped - 1

DoesResync(n, d) ==
  \E k \in Nat :
    /\ Grows(0, k, n) /\ Released(k)
    /\ tracker'.highest = d.seq /\ DOMAIN tracker'.owed = {}
    /\ tracker'.dropped = tracker.dropped /\ tracker'.resyncs = tracker.resyncs + 1

Does(n, d) ==
  DoesHeld(n, d) \/ DoesNext(n, d) \/ DoesGap(n, d) \/ DoesLate(n, d) \/ DoesResync(n, d)

LEMMA AudioExtends ==
    ASSUME Stream!TypeOK, NEW n \in 1 .. Sent, Stream!AudioReceives(n),
           NEW d, d = Stream!Datagram(n), NEW ev, ev = Stream!Observe(tracker, d),
           ev.kind # "held", ev.kind # "late",
           ev.readmit \in Seq(Stream!Datagrams), NEW k \in Nat, k = Len(ev.readmit),
           NEW j \in Nat, j = ev.untracked + Len(ev.gap)
    PROVE  chunks' \in Seq(0 .. Sent) /\ Grows(j, k, n)
<1>1. /\ chunks' = chunks \o Stream!Silence(ev) \o Append(Stream!Payloads(ev.readmit), n)
      /\ filled' = filled + Len(Stream!Silence(ev))
  BY DEF Stream!AudioReceives
<1>2. chunks \in Seq(0 .. Sent)
  BY StreamTypes
<1>4. PICK r : r = chunks'
  OBVIOUS
<1>5. r = chunks \o Stream!Silence(ev) \o Append(Stream!Payloads(ev.readmit), n)
  BY <1>1, <1>4
<1>6. r \in Seq(0 .. Sent) /\ Extends(chunks, r, j, k, n) /\ Len(Stream!Silence(ev)) = j
  <2>1. PICK c \in Seq(0 .. Sent) : c = chunks
    BY <1>2
  <2>2. /\ r = Continued(c, ev, n)
        /\ ev.readmit \in Seq(Stream!Datagrams)
        /\ k = Len(ev.readmit) /\ j = ev.untracked + Len(ev.gap)
    BY <1>5, <2>1 DEF Continued
  <2>3. r \in Seq(0 .. Sent) /\ Extends(c, r, j, k, n) /\ Len(Stream!Silence(ev)) = j
    BY ONLY <2>2, ExtendIs, c \in Seq(0 .. Sent), n \in 1 .. Sent, j \in Nat, k \in Nat
  <2> QED BY ONLY <2>1, <2>3, Zenon
<1> QED BY <1>1, <1>4, <1>6 DEF Grows

LEMMA AudioDoes ==
    ASSUME Stream!TypeOK, NEW n \in 1 .. Sent, Stream!AudioReceives(n),
           NEW d, d = Stream!Datagram(n)
    PROVE  Stream!IsTracker(tracker') /\ chunks' \in Seq(0 .. Sent) /\ Does(n, d)
<1> PICK ev : ev = Stream!Observe(tracker, d)
  OBVIOUS
<1>1. /\ ev.kind # "gap" => tracker' = ev.t
      /\ ev.kind = "gap" => tracker' = Stream!Bind(ev.t, Stream!SlotOf(ev))
      /\ ev.kind = "held" => chunks' = chunks /\ filled' = filled + Len(Stream!Silence(ev))
      /\ ev.kind = "late" => chunks' = [chunks EXCEPT ![ev.slot] = n] /\ filled' = filled - 1
  BY DEF Stream!AudioReceives
<1>2. Stream!IsTracker(tracker) /\ chunks \in Seq(0 .. Sent) /\ d \in Stream!Datagrams
  BY StreamTypes, DatagramIs
<1>3. /\ Stream!IsTracker(ev.t) /\ ev.readmit \in Seq(Stream!Datagrams)
      /\ \/ AsHeld(tracker, d, ev)
         \/ /\ \/ ev.readmit = <<>> /\ (AsNext(tracker, d, ev) \/ AsGap(tracker, d, ev) \/ AsLate(tracker, d, ev))
               \/ AsResync(tracker, d, ev)
            /\ ev.t.held = <<>>
            /\ ev.t.discarded + Len(ev.readmit) = tracker.discarded + Len(tracker.held)
  BY <1>2, ObserveIs
<1>4. PICK k \in Nat : k = Len(ev.readmit)
  BY <1>3, LenProperties
<1>5. CASE AsHeld(tracker, d, ev)
  <2>1. Len(Stream!Silence(ev)) = 0
    BY <1>5 DEF AsHeld, Stream!Silence
  <2>2. filled' = filled
    <3>1. filled' = filled + 0 /\ filled \in Int
      BY <1>1, <1>5, <2>1, StreamTypes DEF AsHeld
    <3> QED BY <3>1
  <2> QED BY <1>1, <1>2, <1>3, <1>5, <2>2 DEF AsHeld, DoesHeld, Does
<1>6. CASE ev.readmit = <<>> /\ AsNext(tracker, d, ev) /\ ev.t.held = <<>>
           /\ ev.t.discarded + Len(ev.readmit) = tracker.discarded + Len(tracker.held)
  <2>1. tracker' = ev.t /\ ev.kind = "next"
    BY <1>1, <1>6 DEF AsNext
  <2>2. k = 0 /\ ev.untracked + Len(ev.gap) = 0
    BY <1>4, <1>6 DEF AsNext
  <2>3. chunks' \in Seq(0 .. Sent) /\ Grows(0, 0, n)
    BY <1>3, <1>4, <2>1, <2>2, AudioExtends
  <2>4. Released(0)
    BY <1>4, <1>6, <2>1, <2>2 DEF Released
  <2>5. DoesNext(n, d)
    BY <1>6, <2>1, <2>3, <2>4, Zenon DEF DoesNext, AsNext, Moves, Goes
  <2> QED BY <1>3, <2>1, <2>3, <2>5 DEF Does
<1>7. CASE ev.readmit = <<>> /\ AsGap(tracker, d, ev) /\ ev.t.held = <<>>
           /\ ev.t.discarded + Len(ev.readmit) = tracker.discarded + Len(tracker.held)
  <2>1. PICK f : f = Stream!SlotOf(ev)
    OBVIOUS
  <2>2. tracker' = Stream!Bind(ev.t, f) /\ ev.kind = "gap"
    BY <1>1, <1>7, <2>1 DEF AsGap
  <2>3. PICK p \in Nat, m \in Nat :
          /\ p + m = Stream!Minus(d.seq, tracker.highest + 1) /\ p < Window
          /\ ev.untracked = m /\ ev.gap \in Seq(Stream!Numbers) /\ Len(ev.gap) = p
          /\ \A i \in 1 .. p : ev.gap[i] = Stream!Minus(d.seq, p + 1 - i)
          /\ \A s \in DOMAIN ev.t.owed :
               /\ Stream!Minus(d.seq, s) < Window
               /\ \/ s \in {ev.gap[i] : i \in 1 .. p}
                  \/ s \in DOMAIN tracker.owed /\ ev.t.owed[s] = tracker.owed[s]
          /\ ev.t.dropped = tracker.dropped + p + m
    BY <1>7, Zenon DEF AsGap, Skips
  <2>4. PICK l \in Nat : l = Len(chunks)
    BY StreamTypes
  <2>5. /\ DOMAIN f = {ev.gap[i] : i \in 1 .. p}
        /\ \A s \in DOMAIN f : \E i \in 1 .. p : s = ev.gap[i] /\ f[s] = l + m + i
    <3>1. HasSlots(f, ev, p, m)
      BY <2>1, <2>3, <2>4, SlotOfIs, Zenon
    <3> QED BY <2>4, <3>1 DEF HasSlots
  <2>6. \A s \in DOMAIN f : f[s] \in Nat
    BY <2>5
  <2>7. PICK a : a = tracker'
    OBVIOUS
  <2>8. /\ Stream!IsTracker(a) /\ a.highest = ev.t.highest /\ a.got = ev.t.got
        /\ a.held = ev.t.held /\ a.dropped = ev.t.dropped /\ a.resyncs = ev.t.resyncs
        /\ a.discarded = ev.t.discarded
        /\ DOMAIN a.owed = DOMAIN ev.t.owed
        /\ \A s \in DOMAIN ev.t.owed : a.owed[s] = IF s \in DOMAIN f THEN f[s] ELSE ev.t.owed[s]
    <3> PICK t : t = ev.t
      OBVIOUS
    <3>1. Stream!IsTracker(t) /\ a = Stream!Bind(t, f)
      BY <1>3, <2>2, <2>7
    <3>2. /\ Stream!IsTracker(a) /\ a.highest = t.highest /\ a.got = t.got
          /\ a.held = t.held /\ a.dropped = t.dropped /\ a.resyncs = t.resyncs
          /\ a.discarded = t.discarded
          /\ DOMAIN a.owed = DOMAIN t.owed
          /\ \A s \in DOMAIN t.owed : a.owed[s] = IF s \in DOMAIN f THEN f[s] ELSE t.owed[s]
      BY ONLY <2>6, <3>1, BindIs
    <3> QED BY ONLY <3>2, t = ev.t
  <2>9. PICK j \in Nat : j = p + m
    OBVIOUS
  <2>10. j = ev.untracked + Len(ev.gap) /\ k = 0
    BY <1>4, <1>7, <2>3, <2>9
  <2>11. chunks' \in Seq(0 .. Sent) /\ Grows(p + m, 0, n)
    BY <1>3, <1>4, <2>2, <2>9, <2>10, AudioExtends
  <2>12. ASSUME NEW s \in DOMAIN a.owed
         PROVE  /\ Stream!Minus(d.seq, s) < Window
                /\ \/ \E i \in 1 .. p :
                        s = Stream!Minus(d.seq, p + 1 - i) /\ a.owed[s] = l + m + i
                   \/ s \in DOMAIN tracker.owed /\ a.owed[s] = tracker.owed[s]
    <3>1. CASE s \in DOMAIN f
      <4>1. PICK i \in 1 .. p : s = ev.gap[i] /\ f[s] = l + m + i
        BY <2>5, <3>1
      <4> QED BY <2>3, <2>8, <3>1, <4>1
    <3>2. CASE s \notin DOMAIN f
      BY <2>3, <2>5, <2>8, <3>2
    <3> QED BY <3>1, <3>2
  <2>13. Released(0)
    BY <1>4, <1>7, <2>7, <2>8, <2>10 DEF Released
  <2>14. Goes(d)
    BY <1>7, <2>7, <2>8 DEF Goes, AsGap, Moves
  <2>15. DoesGap(n, d)
    <3>1. tracker.highest # Stream!None /\ ~Stream!Behind(tracker, d.seq)
      BY <1>7 DEF AsGap
    <3>2. a.dropped = tracker.dropped + p + m
      BY <2>3, <2>8
    <3>3. OwesGap(a.owed, tracker.owed, d, p, l + m)
      BY ONLY <2>12 DEF OwesGap
    <3>4. OwesGap(tracker'.owed, tracker.owed, d, p, Len(chunks) + m)
      BY ONLY <2>4, <2>7, <3>3, Zenon
    <3>5. tracker'.dropped = tracker.dropped + p + m
      BY <2>7, <3>2
    <3> QED BY ONLY <2>3, <2>11, <2>13, <2>14, <3>1, <3>4, <3>5, p \in Nat, m \in Nat, Zenon DEF DoesGap
  <2> QED BY <2>7, <2>8, <2>11, <2>15 DEF Does
<1>8. CASE ev.readmit = <<>> /\ AsLate(tracker, d, ev) /\ ev.t.held = <<>>
           /\ ev.t.discarded + Len(ev.readmit) = tracker.discarded + Len(tracker.held)
  <2>1. /\ tracker' = ev.t /\ ev.kind = "late"
        /\ chunks' = [chunks EXCEPT ![tracker.owed[d.seq]] = n] /\ filled' = filled - 1
    BY <1>1, <1>8 DEF AsLate
  <2>2. k = 0
    BY <1>4, <1>8
  <2>3. chunks' \in Seq(0 .. Sent)
    <3> PICK s : s = tracker.owed[d.seq]
      OBVIOUS
    <3>1. n \in 0 .. Sent
      BY StreamModulus
    <3>2. PICK l \in Nat : chunks \in [1 .. l -> 0 .. Sent]
      BY <1>2, LenProperties
    <3>3. [chunks EXCEPT ![s] = n] \in [1 .. l -> 0 .. Sent]
      BY <3>1, <3>2
    <3>4. chunks' \in [1 .. l -> 0 .. Sent]
      BY <2>1, <3>3
    <3> QED BY ONLY <3>4, l \in Nat, SeqDef, Zenon
  <2>4. Released(0)
    BY <1>4, <1>8, <2>1, <2>2 DEF Released
  <2>5. DoesLate(n, d)
    BY <1>8, <2>1, <2>4, Zenon DEF DoesLate, AsLate
  <2> QED BY <1>3, <2>1, <2>3, <2>5 DEF Does
<1>9. CASE AsResync(tracker, d, ev) /\ ev.t.held = <<>>
           /\ ev.t.discarded + Len(ev.readmit) = tracker.discarded + Len(tracker.held)
  <2>1. tracker' = ev.t /\ ev.kind = "resync"
    BY <1>1, <1>9 DEF AsResync
  <2>2. ev.untracked + Len(ev.gap) = 0
    BY <1>9 DEF AsResync
  <2>3. chunks' \in Seq(0 .. Sent) /\ Grows(0, k, n)
    BY <1>3, <1>4, <2>1, <2>2, AudioExtends
  <2>4. Released(k)
    BY <1>4, <1>9, <2>1 DEF Released
  <2>5. DoesResync(n, d)
    BY <1>9, <2>1, <2>3, <2>4, Zenon DEF DoesResync, AsResync
  <2> QED BY <1>3, <2>1, <2>3, <2>5 DEF Does
<1> QED BY <1>3, <1>5, <1>6, <1>7, <1>8, <1>9, Zenon

LEMMA AudioIs ==
    ASSUME NEW n \in 1 .. Sent, Stream!AudioReceives(n)
    PROVE  /\ Stream!Arrives(n) /\ received' = received + 1 /\ capture.kind = "audio"
           /\ capture' = capture /\ stream' = stream /\ options' = options
BY DEF Stream!AudioReceives

LEMMA GrowsIs ==
    ASSUME Stream!TypeOK, NEW j \in Nat, NEW k \in Nat, NEW n, Grows(j, k, n)
    PROVE  \E l \in Nat :
             /\ l = Len(chunks) /\ Len(chunks') = l + j + (k + 1)
             /\ \A i \in 1 .. l : chunks'[i] = chunks[i]
             /\ \A i \in l + 1 .. l + j : chunks'[i] = 0
             /\ \A i \in l + j + 1 .. l + j + (k + 1) : chunks'[i] # 0
             /\ chunks'[l + j + (k + 1)] = n
             /\ filled' = filled + j
<1>1. PICK l \in Nat : l = Len(chunks)
  BY StreamTypes
<1> QED BY <1>1 DEF Grows, Extends

LEMMA KeptGrows ==
    ASSUME Stream!TypeOK, NEW j \in Nat, NEW k \in Nat, NEW n, Grows(j, k, n)
    PROVE  Cardinality(Voice(chunks')) = Cardinality(Voice(chunks)) + (k + 1)
<1>1. PICK l \in Nat :
        /\ l = Len(chunks) /\ Len(chunks') = l + j + (k + 1)
        /\ \A i \in 1 .. l : chunks'[i] = chunks[i]
        /\ \A i \in l + 1 .. l + j : chunks'[i] = 0
        /\ \A i \in l + j + 1 .. l + j + (k + 1) : chunks'[i] # 0
  BY GrowsIs
<1>2. PICK c, r : c = chunks /\ r = chunks'
  OBVIOUS
<1>3. PICK w \in Nat : w = k + 1
  OBVIOUS
<1>4. /\ l = Len(c) /\ Len(r) = l + j + w
      /\ \A i \in 1 .. l : r[i] = c[i]
      /\ \A i \in l + 1 .. l + j : r[i] = 0
      /\ \A i \in l + j + 1 .. l + j + w : r[i] # 0
  BY <1>1, <1>2, <1>3
<1>5. Cardinality(Voice(r)) = Cardinality(Voice(c)) + w
  BY ONLY <1>4, VoiceGrows, l \in Nat, j \in Nat, w \in Nat
<1> QED BY <1>2, <1>3, <1>5

(* The slot that a late datagram fills.                                      *)
LEMMA LateSlot ==
    ASSUME Stream!TypeOK, Stream!SlotsAreFree, capture.kind = "audio",
           NEW n \in 1 .. Sent, NEW d, DoesLate(n, d)
    PROVE  \E l \in Nat : \E s \in 1 .. l :
             /\ s = tracker.owed[d.seq] /\ l = Len(chunks) /\ chunks[s] = 0
             /\ chunks' = [chunks EXCEPT ![s] = n] /\ Len(chunks') = l /\ chunks'[s] = n /\ n # 0
             /\ \A i \in 1 .. l : i # s => chunks'[i] = chunks[i]
<1>1. PICK l \in Nat : l = Len(chunks) /\ chunks \in [1 .. l -> 0 .. Sent] /\ chunks \in Seq(0 .. Sent)
  BY StreamTypes, LenProperties
<1>2. PICK s : s = tracker.owed[d.seq]
  OBVIOUS
<1>3. s \in 1 .. l /\ chunks[s] = 0
  BY <1>1, <1>2 DEF DoesLate, Stream!SlotsAreFree
<1>4. chunks' = [chunks EXCEPT ![s] = n]
  BY <1>2 DEF DoesLate
<1>5. n \in 0 .. Sent /\ n # 0
  BY StreamModulus
<1>6. chunks' \in [1 .. l -> 0 .. Sent] /\ chunks'[s] = n /\ \A i \in 1 .. l : i # s => chunks'[i] = chunks[i]
  BY <1>1, <1>3, <1>4, <1>5
<1>7. Len(chunks') = l
  BY ONLY <1>1, <1>3, <1>4, <1>5, ExceptSeq
<1>8. /\ s = tracker.owed[d.seq] /\ l = Len(chunks) /\ chunks[s] = 0
      /\ chunks' = [chunks EXCEPT ![s] = n] /\ Len(chunks') = l /\ chunks'[s] = n /\ n # 0
      /\ \A i \in 1 .. l : i # s => chunks'[i] = chunks[i]
  BY ONLY <1>1, <1>2, <1>3, <1>4, <1>5, <1>6, <1>7, Zenon
<1> QED BY ONLY <1>3, <1>8, l \in Nat, Zenon

LEMMA CountIs == \A S : Stream!Cardinality(S) = Cardinality(S)
BY DEF Stream!Cardinality, Cardinality

LEMMA BooksCloseIs ==
    /\ Stream!Kept = Cardinality(Voice(chunks)) /\ Stream!Kept' = Cardinality(Voice(chunks'))
    /\ capture'.kind = "audio" =>
         (Stream!BooksClose' <=>
            /\ Stream!Kept' = received' - tracker'.discarded - Len(tracker'.held)
            /\ filled' = Len(chunks') - Stream!Kept' /\ tracker'.dropped = filled')
<1>1. Stream!Kept = Cardinality(Voice(chunks))
  BY CountIs DEF Stream!Kept, Voice
<1>2. Stream!Kept' = Cardinality(Voice(chunks'))
  BY CountIs DEF Stream!Kept, Voice
<1> QED BY <1>1, <1>2 DEF Stream!BooksClose, Stream!Handed

LEMMA AudioBooks ==
    ASSUME Stream!CaptureInv, NEW n \in 1 .. Sent, Stream!AudioReceives(n)
    PROVE  Stream!BooksClose'
<1> PICK d : d = Stream!Datagram(n)
  OBVIOUS
<1>1. Stream!TypeOK /\ Stream!SlotsAreFree /\ Stream!BooksClose
  BY DEF Stream!CaptureInv
<1>2. /\ received' = received + 1 /\ capture.kind = "audio" /\ capture' = capture
     
  BY AudioIs
<1>3. Stream!IsTracker(tracker') /\ Does(n, d)
  BY <1>1, AudioDoes
<1>4. PICK L \in Nat, K \in Nat : L = Len(chunks) /\ K = Cardinality(Voice(chunks))
  BY <1>1, StreamTypes, VoiceIs
<1>5. PICK D \in Nat, H \in Nat, D2 \in Nat, H2 \in Nat, S2 \in Int :
        /\ D = tracker.discarded /\ H = Len(tracker.held) /\ S2 = tracker.dropped
        /\ D2 = tracker'.discarded /\ H2 = Len(tracker'.held)
  <2>1. tracker.discarded \in Nat /\ Len(tracker.held) \in Nat /\ tracker.dropped \in Int
    BY <1>1, StreamTypes, TrackerIs
  <2>2. tracker'.discarded \in Nat /\ Len(tracker'.held) \in Nat
    BY <1>3, TrackerIs
  <2> QED BY ONLY <2>1, <2>2
<1>6. received \in Nat /\ filled \in Int
  BY <1>1, StreamTypes
<1>7. received = K + D + H /\ filled = L - K /\ S2 = filled
  <2>1. K = Stream!Kept
    BY <1>4, BooksCloseIs
  <2>2. /\ Stream!Kept = received - tracker.discarded - Len(tracker.held)
        /\ filled = Len(chunks) - Stream!Kept /\ tracker.dropped = filled
    BY <1>1, <1>2 DEF Stream!BooksClose, Stream!Handed
  <2>3. K = received - D - H /\ filled = L - K /\ S2 = filled
    BY <1>4, <1>5, <2>1, <2>2
  <2> QED BY ONLY <1>6, <2>3, K \in Nat, D \in Nat, H \in Nat
<1>8. SUFFICES \E K2 \in Int, L2 \in Int :
                 /\ K2 = Cardinality(Voice(chunks')) /\ L2 = Len(chunks')
                 /\ received + 1 = K2 + D2 + H2
                 /\ filled' = L2 - K2 /\ tracker'.dropped = filled'
  <2>1. PICK K2 \in Int, L2 \in Int :
          /\ K2 = Cardinality(Voice(chunks')) /\ L2 = Len(chunks')
          /\ received + 1 = K2 + D2 + H2
          /\ filled' = L2 - K2 /\ tracker'.dropped = filled'
    BY <1>8
  <2>2. K2 = received' - D2 - H2
    <3>1. received' = received + 1 /\ received + 1 = K2 + D2 + H2
      BY <1>2, <2>1
    <3> QED BY ONLY <1>6, <3>1, K2 \in Int, D2 \in Nat, H2 \in Nat
  <2>3. /\ Stream!Kept' = received' - tracker'.discarded - Len(tracker'.held)
        /\ filled' = Len(chunks') - Stream!Kept' /\ tracker'.dropped = filled'
    BY <1>5, <2>1, <2>2, BooksCloseIs
  <2>4. capture'.kind = "audio"
    BY <1>2
  <2> QED BY ONLY <2>3, <2>4, BooksCloseIs
<1>9. CASE DoesHeld(n, d)
  <2>1. /\ chunks' = chunks /\ filled' = filled /\ tracker'.dropped = S2 /\ D2 + H2 = D + H + 1
    BY <1>5, <1>9 DEF DoesHeld
  <2> WITNESS K \in Int, L \in Int
  <2>2. K = Cardinality(Voice(chunks')) /\ L = Len(chunks')
    BY <1>4, <2>1
  <2>3. received + 1 = K + D2 + H2
    BY <1>6, <1>7, <2>1
  <2>4. filled' = L - K /\ tracker'.dropped = filled'
    BY <1>7, <2>1
  <2> QED BY ONLY <2>2, <2>3, <2>4, Zenon
<1>10. ASSUME NEW j \in Nat, NEW k \in Nat, Grows(j, k, n), Released(k),
              tracker'.dropped = tracker.dropped + j
       PROVE  \E K2 \in Int, L2 \in Int :
                /\ K2 = Cardinality(Voice(chunks')) /\ L2 = Len(chunks')
                /\ received + 1 = K2 + D2 + H2
                /\ filled' = L2 - K2 /\ tracker'.dropped = filled'
  <2>1. PICK K2 \in Int, L2 \in Int : K2 = K + (k + 1) /\ L2 = L + j + (k + 1)
    OBVIOUS
  <2>2. K2 = Cardinality(Voice(chunks')) /\ L2 = Len(chunks') /\ filled' = filled + j
    BY <1>1, <1>4, <1>10, <2>1, KeptGrows, GrowsIs
  <2>3. D2 + k = D + H /\ H2 = 0
    BY <1>5, <1>10 DEF Released
  <2>4. tracker'.dropped = S2 + j
    BY <1>5, <1>10
  <2> WITNESS K2 \in Int, L2 \in Int
  <2> QED BY ONLY <1>6, <1>7, <2>1, <2>2, <2>3, <2>4
<1>11. CASE DoesNext(n, d)
  <2>1. tracker'.dropped = tracker.dropped + 0
    BY <1>5, <1>11 DEF DoesNext
  <2> QED BY <1>10, <1>11, <2>1 DEF DoesNext
<1>12. CASE DoesGap(n, d)
  <2>1. PICK k \in Nat, m \in Nat : Grows(k + m, 0, n) /\ tracker'.dropped = tracker.dropped + k + m
    BY <1>12 DEF DoesGap
  <2>2. PICK j \in Nat : j = k + m
    OBVIOUS
  <2>3. tracker'.dropped = tracker.dropped + j
    BY <1>5, <2>1, <2>2
  <2> QED BY <1>10, <1>12, <2>1, <2>2, <2>3 DEF DoesGap
<1>13. CASE DoesLate(n, d)
  <2>0. PICK l \in Nat : \E s \in 1 .. l :
          /\ s = tracker.owed[d.seq] /\ l = Len(chunks) /\ chunks[s] = 0
          /\ chunks' = [chunks EXCEPT ![s] = n] /\ Len(chunks') = l /\ chunks'[s] = n /\ n # 0
          /\ \A i \in 1 .. l : i # s => chunks'[i] = chunks[i]
    BY <1>1, <1>2, <1>13, LateSlot
  <2>1. PICK s \in 1 .. l :
          /\ l = Len(chunks) /\ chunks[s] = 0 /\ Len(chunks') = l /\ chunks'[s] = n /\ n # 0
          /\ \A i \in 1 .. l : i # s => chunks'[i] = chunks[i]
    BY <2>0
  <2>2. PICK c, r : c = chunks /\ r = chunks'
    OBVIOUS
  <2>3. /\ l = Len(c) /\ c[s] = 0 /\ Len(r) = l /\ r[s] # 0
        /\ \A i \in 1 .. l : i # s => r[i] = c[i]
    BY <2>1, <2>2
  <2>4. Cardinality(Voice(r)) = Cardinality(Voice(c)) + 1
    BY ONLY <2>3, VoiceFilled, l \in Nat, s \in 1 .. l
  <2>5. PICK K2 \in Int : K2 = K + 1
    OBVIOUS
  <2>6. K2 = Cardinality(Voice(chunks')) /\ L = Len(chunks')
    BY <1>4, <2>1, <2>2, <2>4, <2>5
  <2>7. /\ filled' = filled - 1 /\ tracker'.dropped = S2 - 1 /\ D2 + 0 = D + H /\ H2 = 0
    BY <1>5, <1>13 DEF DoesLate, Released
  <2> WITNESS K2 \in Int, L \in Int
  <2> QED BY ONLY <1>6, <1>7, <2>5, <2>6, <2>7
<1>14. CASE DoesResync(n, d)
  <2>1. PICK k \in Nat : Grows(0, k, n) /\ Released(k) /\ tracker'.dropped = tracker.dropped
    BY <1>14 DEF DoesResync
  <2>2. tracker'.dropped = tracker.dropped + 0
    BY <1>5, <2>1
  <2> QED BY <1>10, <2>1, <2>2
<1> QED BY <1>3, <1>9, <1>11, <1>12, <1>13, <1>14 DEF Does

LEMMA AgeIs ==
    ASSUME NEW f \in Int, NEW n \in Int, NEW p \in Int, p <= n, n - p < Modulus
    PROVE  Stream!Minus(Num(f, n), Num(f, p)) = n - p
<1>0. Modulus \in Nat \ {0}
  BY StreamModulus
<1>1. PICK e \in 0 .. Modulus - 1 : e = n - p
  <2>1. n - p \in 0 .. Modulus - 1
    BY <1>0
  <2> QED BY <2>1
<1>2. (Modulus * 0 + e) % Modulus = e
  BY <1>0, ModOf
<1>3. Modulus * 0 + e = e
  BY <1>0
<1>4. Stream!Minus(Num(f, n), Num(f, p)) = (n - p) % Modulus
  BY NumbersRun
<1> QED BY ONLY <1>1, <1>2, <1>3, <1>4

(* A gap that is not behind is what was skipped.                             *)
LEMMA GapMeans ==
    ASSUME NEW w \in Nat, NEW n \in Nat, n <= w + MaxLost + 1, n + MaxLate >= w,
           (n - w - 1) % Modulus < Stream!Half
    PROVE  n > w /\ (n - w - 1) % Modulus = n - w - 1
<1>0. /\ Modulus \in Nat \ {0} /\ Window \in Nat \ {0} /\ MaxLate \in Nat /\ MaxLost \in Nat
      /\ Stream!Half \in Nat /\ MaxLost + 1 + Window <= Modulus /\ MaxLate + Stream!Half < Modulus
  BY StreamModulus
<1>1. PICK e \in Int : e = n - w - 1
  OBVIOUS
<1>2. CASE e < 0
  <2>1. PICK r \in 0 .. Modulus - 1 : r = Modulus + e
    <3>1. Modulus + e \in 0 .. Modulus - 1
      BY <1>0, <1>1, <1>2
    <3> QED BY <3>1
  <2>2. (Modulus * (0 - 1) + r) % Modulus = r
    BY <1>0, ModOf
  <2>3. Modulus * (0 - 1) + r = e
    BY <1>0, <2>1
  <2>4. r >= Stream!Half
    BY <1>0, <1>1, <2>1
  <2> QED BY <1>0, <1>1, <2>2, <2>3, <2>4
<1>3. CASE e >= 0
  <2>1. e \in 0 .. Modulus - 1
    BY <1>0, <1>1, <1>3
  <2>2. (Modulus * 0 + e) % Modulus = e
    BY <1>0, <2>1, ModOf
  <2>3. Modulus * 0 + e = e
    BY <1>0
  <2>4. n > w
    BY <1>1, <1>3
  <2> QED BY ONLY <1>1, <2>2, <2>3, <2>4
<1> QED BY <1>2, <1>3

(* The n-th datagram arrives at a receiver that has come to the w-th.        *)
Comes(w, a, n, v, b) ==
  /\ w \in 0 .. Sent /\ n \in 1 .. Sent /\ n <= w + MaxLost + 1 /\ n + MaxLate >= w
  /\ a \in [1 .. Sent -> Nat] /\ b \in [1 .. Sent -> Nat]
  /\ b[n] > 0 /\ (\A i \in 1 .. Sent : i # n => b[i] = a[i])
  /\ (n > w => v = n) /\ (n <= w => v = w)
  /\ \A i \in 1 .. Sent : i > w => a[i] = 0

(* OnTime, of a stream that begins with f: the w-th datagram is the newest of *)
(* those that have arrived, a, the recording is c, h the highest number, o and *)
(* g are the books.                                                          *)
OwedOnTime(f, w, l, o) ==
  \A s \in DOMAIN o : s = Num(f, w - l + o[s]) /\ w - (w - l + o[s]) < Window
GotOnTime(f, w, a, g) ==
  \A s \in DOMAIN g : \E x \in 1 .. w : s = Num(f, x) /\ a[x] > 0 /\ w - x < Window
PlacesOnTime(w, c, a) ==
  \A i \in 1 .. Len(c) : c[i] = IF a[w - Len(c) + i] = 0 THEN 0 ELSE w - Len(c) + i
Timely(f, w, c, a, o, g, h) ==
  /\ Len(c) <= w /\ (w > 0 => h = Num(f, w))
  /\ PlacesOnTime(w, c, a) /\ OwedOnTime(f, w, Len(c), o) /\ GotOnTime(f, w, a, g)

LEMMA ComesIs ==
    ASSUME NEW w, NEW a, NEW n, NEW v, NEW b, Comes(w, a, n, v, b)
    PROVE  /\ w \in Nat /\ w <= Sent /\ n \in Nat /\ n \in 1 .. Sent /\ n <= w + MaxLost + 1
           /\ n + MaxLate >= w
           /\ a \in [1 .. Sent -> Nat] /\ b \in [1 .. Sent -> Nat]
           /\ b[n] > 0 /\ (\A i \in 1 .. Sent : i # n => b[i] = a[i])
           /\ \A i \in 1 .. Sent : i > w => a[i] = 0
           /\ (n > w => v = n) /\ (n <= w => v = w)
<1>0. Sent \in Nat
  BY StreamModulus
<1>1. w \in 0 .. Sent /\ n \in 1 .. Sent
  BY Zenon DEF Comes
<1>2. w \in Nat /\ w <= Sent /\ n \in Nat
  BY <1>0, <1>1
<1> QED BY <1>1, <1>2, Zenon DEF Comes

LEMMA TimelyGrows ==
    ASSUME NEW f \in Int, NEW w, NEW c, NEW a, NEW o, NEW g, NEW h, Timely(f, w, c, a, o, g, h),
           NEW n, NEW b, Comes(w, a, n, n, b), n > w,
           Len(c) \in Nat, \A s \in DOMAIN o : o[s] \in 1 .. Len(c),
           NEW j \in Nat, NEW k \in Nat, NEW m \in Nat, j = k + m, k < Window,
           (w > 0 /\ j = n - w - 1) \/ (w = 0 /\ Len(c) = 0 /\ j = 0),
           NEW d, d.seq = Num(f, n), NEW r, Extends(c, r, j, 0, n),
           NEW p, OwesGap(p, o, d, k, Len(c) + m),
           NEW q, \A s \in DOMAIN q :
                    s = d.seq \/ (s \in DOMAIN g /\ Stream!Minus(d.seq, s) < Window)
    PROVE  Timely(f, n, r, b, p, q, d.seq)
<1>0. /\ Modulus \in Nat \ {0} /\ Window \in Nat \ {0} /\ MaxLost \in Nat
      /\ MaxLost + 1 + Window <= Modulus /\ Sent \in Nat
  BY StreamModulus
<1>1. /\ w \in Nat /\ w <= Sent /\ n \in Nat /\ n \in 1 .. Sent /\ n <= w + MaxLost + 1
      /\ a \in [1 .. Sent -> Nat] /\ b \in [1 .. Sent -> Nat]
      /\ b[n] > 0 /\ (\A i \in 1 .. Sent : i # n => b[i] = a[i])
      /\ \A i \in 1 .. Sent : i > w => a[i] = 0
  BY ONLY Comes(w, a, n, n, b), ComesIs
<1>2. PICK l \in Nat : l = Len(c)
  OBVIOUS
<1>3. /\ l <= w
      /\ \A i \in 1 .. l : c[i] = IF a[w - l + i] = 0 THEN 0 ELSE w - l + i
      /\ \A s \in DOMAIN o : s = Num(f, w - l + o[s]) /\ w - (w - l + o[s]) < Window
      /\ \A s \in DOMAIN g : \E x \in 1 .. w : s = Num(f, x) /\ a[x] > 0 /\ w - x < Window
  BY <1>2 DEF Timely, PlacesOnTime, OwedOnTime, GotOnTime
<1>4. PICK y \in Nat : y = l + j + 1
  OBVIOUS
<1>5. /\ Len(r) = y /\ r[y] = n
      /\ \A i \in 1 .. l : r[i] = c[i]
      /\ \A i \in l + 1 .. l + j : r[i] = 0
  <2>1. l + j + (0 + 1) = y
    BY <1>4
  <2> QED BY <1>2, <2>1 DEF Extends
<1>6. y <= n
  BY <1>1, <1>2, <1>3, <1>4
<1>7. w > 0 => j = n - w - 1 /\ n - y = w - l
  BY <1>1, <1>4
<1>8. w = 0 => l = 0 /\ j = 0
  BY <1>1, <1>2
<1>9. ASSUME NEW i \in 1 .. y
      PROVE  r[i] = IF b[n - y + i] = 0 THEN 0 ELSE n - y + i
  <2>1. PICK x \in Int : x = n - y + i
    BY <1>1
  <2>2. CASE i <= l
    <3>1. w > 0 /\ i \in 1 .. l
      BY <1>1, <1>8, <2>2
    <3>2. x = w - l + i /\ x \in 1 .. Sent /\ x # n /\ x <= w
      BY <1>0, <1>1, <1>3, <1>7, <2>1, <2>2, <3>1
    <3>3. c[i] = IF a[x] = 0 THEN 0 ELSE x
      BY <1>3, <3>1, <3>2
    <3>4. b[x] = a[x] /\ r[i] = c[i]
      BY <1>1, <1>5, <3>1, <3>2
    <3> QED BY ONLY <2>1, <3>3, <3>4
  <2>3. CASE i > l /\ i <= l + j
    <3>1. w > 0 /\ i \in l + 1 .. l + j
      BY <1>1, <1>8, <2>3
    <3>2. x > w /\ x < n /\ x \in 1 .. Sent
      BY <1>0, <1>1, <1>4, <1>7, <2>1, <2>3, <3>1
    <3>3. b[x] = 0
      BY <1>1, <3>2
    <3> QED BY <1>5, <2>1, <3>1, <3>3
  <2>4. CASE i = y
    <3>1. x = n
      BY <1>1, <2>1, <2>4
    <3> QED BY <1>1, <1>5, <2>1, <2>4, <3>1
  <2> QED BY <1>4, <2>2, <2>3, <2>4
<1>10. PlacesOnTime(n, r, b)
  BY <1>5, <1>9 DEF PlacesOnTime
<1>11. ASSUME NEW x \in Int, x <= w, w - x < Window,
              Stream!Minus(Num(f, n), Num(f, x)) < Window
       PROVE  n - x < Window
  <2>1. x <= n /\ n - x < Modulus
    BY <1>0, <1>1, <1>11
  <2>2. Stream!Minus(Num(f, n), Num(f, x)) = n - x
    BY <1>1, <2>1, AgeIs
  <2> QED BY <1>11, <2>2
<1>12. ASSUME NEW s \in DOMAIN p
       PROVE  s = Num(f, n - y + p[s]) /\ n - (n - y + p[s]) < Window
  <2>1. CASE \E i \in 1 .. k : s = Stream!Minus(d.seq, k + 1 - i) /\ p[s] = Len(c) + m + i
    <3>1. PICK i \in 1 .. k : s = Stream!Minus(Num(f, n), k + 1 - i) /\ p[s] = l + m + i
      BY <1>2, <2>1
    <3>2. PICK e \in Int, x \in Int : e = k + 1 - i /\ x = n - e
      BY <1>1
    <3>3. Stream!Minus(Num(f, n), e) = Num(f, x)
      BY <1>1, <3>2, NumbersRun
    <3>4. n - y + (l + m + i) = x /\ n - x < Window
      <4>1. y = l + (k + m) + 1
        BY ONLY <1>4, j = k + m
      <4>2. n - x = k + 1 - i
        BY ONLY <1>1, <3>2, i \in 1 .. k, k \in Nat
      <4> QED BY ONLY <1>0, <1>1, <3>2, <4>1, <4>2, i \in 1 .. k, k \in Nat, m \in Nat, l \in Nat,
                      k < Window
    <3> QED BY ONLY <3>1, <3>2, <3>3, <3>4
  <2>2. CASE s \in DOMAIN o /\ p[s] = o[s]
    <3>1. Stream!Minus(Num(f, n), s) < Window
      BY DEF OwesGap
    <3>2. PICK v \in 1 .. l : v = o[s]
      BY <1>2, <2>2
    <3>3. w > 0
      BY <1>1, <1>8
    <3>4. PICK x \in Int : x = w - l + v /\ x <= w /\ x = n - y + v
      BY <1>1, <1>7, <3>3
    <3>5. s = Num(f, x) /\ w - x < Window
      BY <1>3, <2>2, <3>2, <3>4
    <3>6. n - x < Window
      BY <1>11, <3>1, <3>4, <3>5
    <3> QED BY <2>2, <3>2, <3>4, <3>5, <3>6
  <2> QED BY <2>1, <2>2 DEF OwesGap
<1>13. OwedOnTime(f, n, Len(r), p)
  BY <1>5, <1>12 DEF OwedOnTime
<1>14. ASSUME NEW s \in DOMAIN q
       PROVE  \E x \in 1 .. n : s = Num(f, x) /\ b[x] > 0 /\ n - x < Window
  <2>1. CASE s = Num(f, n)
    <3>1. n \in 1 .. n /\ n - n < Window
      BY <1>0, <1>1
    <3> QED BY <1>1, <2>1, <3>1
  <2>2. CASE s \in DOMAIN g /\ Stream!Minus(Num(f, n), s) < Window
    <3>1. PICK x \in 1 .. w : s = Num(f, x) /\ a[x] > 0 /\ w - x < Window
      BY <1>3, <2>2
    <3>2. n - x < Window
      BY <1>1, <1>11, <2>2, <3>1
    <3>3. x \in 1 .. n /\ b[x] = a[x]
      BY <1>0, <1>1, <3>1
    <3> QED BY <3>1, <3>2, <3>3
  <2> QED BY <2>1, <2>2
<1>15. GotOnTime(f, n, b, q)
  BY <1>14 DEF GotOnTime
<1>16. Len(r) <= n
  BY <1>5, <1>6
<1> QED BY <1>10, <1>13, <1>15, <1>16 DEF Timely

(* A datagram that was got, or is owed, has the number of the one that comes. *)
LEMMA SamePlace ==
    ASSUME NEW f \in Int, NEW w, NEW a, NEW n, NEW v, NEW b, Comes(w, a, n, v, b),
           NEW x \in Int, x <= w, w - x < Window, Num(f, n) = Num(f, x)
    PROVE  x = n
<1>0. /\ Modulus \in Nat \ {0} /\ Window \in Nat \ {0} /\ MaxLate \in Nat /\ MaxLost \in Nat
      /\ Stream!Half \in Nat /\ MaxLost + 1 + Window <= Modulus /\ MaxLate + Stream!Half < Modulus
  BY StreamModulus
<1>1. w \in Nat /\ n \in Nat /\ n <= w + MaxLost + 1 /\ n + MaxLate >= w
  BY ONLY Comes(w, a, n, v, b), ComesIs
<1>2. n - x < Modulus /\ x - n < Modulus
  BY <1>0, <1>1
<1> QED BY ONLY <1>1, <1>2, NumbersDiffer, Num(f, n) = Num(f, x), f \in Int, x \in Int

LEMMA TimelyHeld ==
    ASSUME NEW f \in Int, NEW w, NEW c, NEW a, NEW o, NEW g, NEW h, Timely(f, w, c, a, o, g, h),
           NEW n, NEW v, NEW b, Comes(w, a, n, v, b), Len(c) \in Nat, Num(f, n) \in DOMAIN g
    PROVE  Timely(f, v, c, b, o, g, h)
<1>1. /\ w \in Nat /\ w <= Sent /\ n \in Nat /\ n \in 1 .. Sent
      /\ b[n] > 0 /\ (\A i \in 1 .. Sent : i # n => b[i] = a[i]) /\ (n <= w => v = w)
      /\ a \in [1 .. Sent -> Nat] /\ b \in [1 .. Sent -> Nat]
  BY ONLY Comes(w, a, n, v, b), ComesIs
<1>2. PICK l \in Nat : l = Len(c)
  OBVIOUS
<1>3. /\ l <= w /\ (w > 0 => h = Num(f, w))
      /\ \A i \in 1 .. l : c[i] = IF a[w - l + i] = 0 THEN 0 ELSE w - l + i
      /\ OwedOnTime(f, w, l, o)
      /\ \A s \in DOMAIN g : \E x \in 1 .. w : s = Num(f, x) /\ a[x] > 0 /\ w - x < Window
  BY <1>2 DEF Timely, PlacesOnTime, GotOnTime
<1>4. PICK x \in 1 .. w : Num(f, n) = Num(f, x) /\ a[x] > 0 /\ w - x < Window
  BY <1>3
<1>5. x = n
  BY <1>1, <1>4, SamePlace
<1>6. v = w /\ a[n] > 0
  BY <1>1, <1>4, <1>5
<1>7. Sent \in Nat
  BY StreamModulus
<1>8. \A i \in 1 .. Sent : (b[i] = 0 <=> a[i] = 0) /\ (a[i] > 0 => b[i] > 0)
  BY <1>1, <1>6
<1>9. ASSUME NEW i \in 1 .. l
      PROVE  c[i] = IF b[w - l + i] = 0 THEN 0 ELSE w - l + i
  <2>1. PICK e \in 1 .. Sent : e = w - l + i
    <3>1. w - l + i \in 1 .. Sent
      BY <1>1, <1>3, <1>7
    <3> QED BY <3>1
  <2>2. c[i] = IF a[e] = 0 THEN 0 ELSE e
    BY <1>3, <2>1
  <2> QED BY ONLY <1>8, <2>1, <2>2, e \in 1 .. Sent
<1>10. ASSUME NEW s \in DOMAIN g
       PROVE  \E e \in 1 .. w : s = Num(f, e) /\ b[e] > 0 /\ w - e < Window
  <2>1. PICK e \in 1 .. w : s = Num(f, e) /\ a[e] > 0 /\ w - e < Window
    BY <1>3
  <2>2. e \in 1 .. Sent
    BY <1>1, <1>7
  <2> QED BY <1>8, <2>1, <2>2
<1>11. PlacesOnTime(w, c, b)
  BY <1>2, <1>9 DEF PlacesOnTime
<1>12. GotOnTime(f, w, b, g)
  BY <1>10 DEF GotOnTime
<1> QED BY <1>2, <1>3, <1>6, <1>11, <1>12, Zenon DEF Timely

LEMMA TimelyLate ==
    ASSUME NEW f \in Int, NEW w, NEW c, NEW a, NEW o, NEW g, NEW h, Timely(f, w, c, a, o, g, h),
           NEW n, NEW v, NEW b, Comes(w, a, n, v, b), NEW l \in Nat, l = Len(c),
           Num(f, n) \in DOMAIN o, NEW t \in 1 .. l, t = o[Num(f, n)],
           NEW r, Len(r) = l, r[t] = n, \A i \in 1 .. l : i # t => r[i] = c[i],
           NEW p, DOMAIN p \subseteq DOMAIN o, \A s \in DOMAIN p : p[s] = o[s],
           NEW q, \A s \in DOMAIN q : s = Num(f, n) \/ s \in DOMAIN g
    PROVE  Timely(f, v, r, b, p, q, h)
<1>1. /\ w \in Nat /\ w <= Sent /\ n \in Nat /\ n \in 1 .. Sent
      /\ b[n] > 0 /\ (\A i \in 1 .. Sent : i # n => b[i] = a[i]) /\ (n <= w => v = w)
      /\ a \in [1 .. Sent -> Nat] /\ b \in [1 .. Sent -> Nat]
  BY ONLY Comes(w, a, n, v, b), ComesIs
<1>3. /\ l <= w /\ (w > 0 => h = Num(f, w))
      /\ \A i \in 1 .. l : c[i] = IF a[w - l + i] = 0 THEN 0 ELSE w - l + i
      /\ \A s \in DOMAIN o : s = Num(f, w - l + o[s]) /\ w - (w - l + o[s]) < Window
      /\ \A s \in DOMAIN g : \E x \in 1 .. w : s = Num(f, x) /\ a[x] > 0 /\ w - x < Window
  BY DEF Timely, PlacesOnTime, OwedOnTime, GotOnTime
<1>4. PICK x \in Int : x = w - l + t /\ x <= w
  BY <1>1
<1>5. Num(f, n) = Num(f, x) /\ w - x < Window
  BY <1>3, <1>4, SMTT(30)
<1>6. x = n
  BY ONLY <1>4, <1>5, SamePlace, Comes(w, a, n, v, b), f \in Int, x \in Int
<1>7. v = w /\ n <= w
  BY <1>1, <1>4, <1>6
<1>8. Sent \in Nat
  BY StreamModulus
<1>9. ASSUME NEW i \in 1 .. l
      PROVE  r[i] = IF b[w - l + i] = 0 THEN 0 ELSE w - l + i
  <2>1. PICK e \in 1 .. Sent : e = w - l + i
    <3>1. w - l + i \in 1 .. Sent
      BY ONLY <1>1, <1>3, <1>8, i \in 1 .. l, SMTT(30)
    <3> QED BY <3>1
  <2>2. CASE i = t
    BY <1>1, <1>4, <1>6, <2>1, <2>2
  <2>3. CASE i # t
    <3>1. c[i] = IF a[e] = 0 THEN 0 ELSE e
      BY <1>3, <2>1
    <3>2. e # n
      BY <1>1, <1>4, <1>6, <2>1, <2>3
    <3>3. b[e] = a[e] /\ r[i] = c[i]
      BY <1>1, <2>3, <3>2
    <3> QED BY ONLY <2>1, <3>1, <3>3
  <2> QED BY <2>2, <2>3
<1>10. ASSUME NEW s \in DOMAIN q
       PROVE  \E e \in 1 .. w : s = Num(f, e) /\ b[e] > 0 /\ w - e < Window
  <2>1. CASE s = Num(f, n)
    <3>1. n \in 1 .. w /\ w - n < Window
      BY <1>1, <1>5, <1>6, <1>7
    <3> QED BY <1>1, <2>1, <3>1
  <2>2. CASE s \in DOMAIN g
    <3>1. PICK e \in 1 .. w : s = Num(f, e) /\ a[e] > 0 /\ w - e < Window
      BY <1>3, <2>2
    <3>2. e \in 1 .. Sent
      BY <1>1, <1>8
    <3>3. b[e] > 0
      BY <1>1, <3>1, <3>2
    <3> QED BY <3>1, <3>3
  <2> QED BY <2>1, <2>2
<1>11. PlacesOnTime(w, r, b)
  BY <1>9 DEF PlacesOnTime
<1>12. GotOnTime(f, w, b, q)
  BY <1>10 DEF GotOnTime
<1>13. OwedOnTime(f, w, l, p)
  BY <1>3 DEF OwedOnTime
<1> QED BY <1>3, <1>7, <1>11, <1>12, <1>13, Zenon DEF Timely

(* OnTime in these terms.                                                    *)
LEMMA OnTimeIs ==
    /\ Stream!OnTime <=>
         (capture.kind = "audio" /\ tracker.resyncs = 0 /\ ~(newest >= stream.restart) =>
            Timely(stream.first, newest, chunks, arrived, tracker.owed, tracker.got, tracker.highest))
    /\ Stream!OnTime' <=>
         (capture'.kind = "audio" /\ tracker'.resyncs = 0 /\ ~(newest' >= stream'.restart) =>
            Timely(stream'.first, newest', chunks', arrived', tracker'.owed, tracker'.got,
                   tracker'.highest))
<1>1. Stream!OnTime <=>
         (capture.kind = "audio" /\ tracker.resyncs = 0 /\ ~(newest >= stream.restart) =>
            Timely(stream.first, newest, chunks, arrived, tracker.owed, tracker.got, tracker.highest))
  BY DEF Stream!OnTime, Stream!Place, Stream!Number, Stream!Restarted, Num, Timely, PlacesOnTime,
         OwedOnTime, GotOnTime
<1>2. Stream!OnTime' <=>
         (capture'.kind = "audio" /\ tracker'.resyncs = 0 /\ ~(newest' >= stream'.restart) =>
            Timely(stream'.first, newest', chunks', arrived', tracker'.owed, tracker'.got,
                   tracker'.highest))
  BY DEF Stream!OnTime, Stream!Place, Stream!Number, Stream!Restarted, Num, Timely, PlacesOnTime,
         OwedOnTime, GotOnTime
<1> QED BY <1>1, <1>2

LEMMA CaptureParts ==
    ASSUME Stream!CaptureInv
    PROVE  /\ Stream!TypeOK /\ Stream!Begun /\ Stream!SlotsAreFree /\ Stream!NoSilence
           /\ Stream!OnTime /\ Stream!BooksClose
BY DEF Stream!CaptureInv

LEMMA ComesNow ==
    ASSUME Stream!TypeOK, Stream!Begun, NEW n \in 1 .. Sent, Stream!Arrives(n)
    PROVE  Comes(newest, arrived, n, newest', arrived')
<1>1. newest \in 0 .. Sent /\ newest \in Nat /\ arrived \in [1 .. Sent -> Nat]
  BY StreamTypes
<1>2. /\ n \in Nat /\ n <= newest + MaxLost + 1 /\ n + MaxLate >= newest
      /\ arrived' \in [1 .. Sent -> Nat] /\ arrived'[n] > 0
      /\ \A i \in 1 .. Sent : i # n => arrived'[i] = arrived[i]
      /\ (n > newest => newest' = n) /\ (n <= newest => newest' = newest)
  BY ArrivesIs
<1>3. \A i \in 1 .. Sent : i > newest => arrived[i] = 0
  BY DEF Stream!Begun
<1> QED BY <1>1, <1>2, <1>3, Zenon DEF Comes

LEMMA BegunStep ==
    ASSUME Stream!TypeOK, Stream!Begun, NEW n \in 1 .. Sent, Stream!Arrives(n),
           tracker'.highest # Stream!None
    PROVE  Stream!Begun'
<1>1. newest \in 0 .. Sent /\ newest \in Nat /\ Sent \in Nat
  BY StreamTypes, StreamModulus
<1>2. /\ n \in Nat /\ newest' \in Nat /\ newest' > 0
      /\ \A i \in 1 .. Sent : i # n => arrived'[i] = arrived[i]
      /\ (n > newest => newest' = n) /\ (n <= newest => newest' = newest)
  BY ArrivesIs
<1>3. ASSUME NEW i \in 1 .. Sent, i > newest' PROVE arrived'[i] = 0
  <2>1. i > newest /\ i # n
    BY <1>1, <1>2, <1>3
  <2> QED BY <1>2, <2>1 DEF Stream!Begun
<1>4. newest' # 0
  BY <1>2
<1> QED BY <1>3, <1>4 DEF Stream!Begun

LEMMA NumberIsOne == \A s \in Stream!Numbers : s # Stream!None
<1>1. Modulus \in Nat \ {0}
  BY StreamModulus
<1> QED BY <1>1 DEF Stream!Numbers, Stream!None

LEMMA AudioBegun ==
    ASSUME Stream!CaptureInv, NEW n \in 1 .. Sent, Stream!AudioReceives(n)
    PROVE  Stream!Begun'
<1> PICK d : d = Stream!Datagram(n)
  OBVIOUS
<1>1. Stream!TypeOK /\ Stream!Begun
  BY CaptureParts
<1>2. Stream!Arrives(n)
  BY AudioIs
<1>3. Does(n, d) /\ d \in Stream!Datagrams
  BY <1>1, AudioDoes, DatagramIs
<1>4. d.seq # Stream!None
  BY <1>3, NumberIsOne DEF Stream!Datagrams
<1>5. tracker'.highest # Stream!None
  <2>1. CASE DoesHeld(n, d)
    <3>1. d.seq \in DOMAIN tracker.got
      BY <2>1 DEF DoesHeld
    <3>2. newest # 0
      BY <1>1, <3>1, EmptyIs DEF Stream!Begun
    <3> QED BY <1>1, <2>1, <3>2 DEF Stream!Begun, DoesHeld
  <2>2. CASE DoesNext(n, d)
    BY <1>4, <2>2 DEF DoesNext, Goes
  <2>3. CASE DoesGap(n, d)
    BY <1>4, <2>3 DEF DoesGap, Goes
  <2>4. CASE DoesLate(n, d)
    BY <2>4 DEF DoesLate
  <2>5. CASE DoesResync(n, d)
    BY <1>4, <2>5 DEF DoesResync
  <2> QED BY <1>3, <2>1, <2>2, <2>3, <2>4, <2>5 DEF Does
<1> QED BY <1>1, <1>2, <1>5, BegunStep

(* The slots, as a fact about a recording and a book.                        *)
EmptySlots(c, o) ==
  /\ \A s \in DOMAIN o : o[s] \in 1 .. Len(c) /\ c[o[s]] = 0
  /\ \A r, s \in DOMAIN o : o[r] = o[s] => r = s

LEMMA FreeIs ==
    /\ Stream!SlotsAreFree <=> (capture.kind = "audio" => EmptySlots(chunks, tracker.owed))
    /\ Stream!SlotsAreFree' <=> (capture'.kind = "audio" => EmptySlots(chunks', tracker'.owed))
BY DEF Stream!SlotsAreFree, EmptySlots

LEMMA FreeGrows ==
    ASSUME NEW c, Len(c) \in Nat, NEW o, EmptySlots(c, o), NEW r, NEW j \in Nat, NEW k \in Nat, NEW n,
           Extends(c, r, j, k, n),
           NEW p, \A s \in DOMAIN p : s \in DOMAIN o /\ p[s] = o[s]
    PROVE  EmptySlots(r, p)
<1> PICK l \in Nat : l = Len(c)
  OBVIOUS
<1>1. PICK y \in Nat : y = Len(r) /\ l <= y /\ \A i \in 1 .. l : r[i] = c[i]
  BY DEF Extends
<1>2. /\ \A s \in DOMAIN o : o[s] \in 1 .. l /\ c[o[s]] = 0
      /\ \A x, s \in DOMAIN o : o[x] = o[s] => x = s
  BY DEF EmptySlots
<1>3. ASSUME NEW s \in DOMAIN p PROVE p[s] \in 1 .. y /\ r[p[s]] = 0
  <2>1. PICK v \in 1 .. l : v = o[s] /\ p[s] = v /\ c[v] = 0
    BY <1>2
  <2> QED BY <1>1, <2>1
<1>4. \A x, s \in DOMAIN p : p[x] = p[s] => x = s
  BY <1>2
<1> QED BY <1>1, <1>3, <1>4 DEF EmptySlots

LEMMA FreeGap ==
    ASSUME NEW c, Len(c) \in Nat, NEW o, EmptySlots(c, o), NEW r,
           NEW j \in Nat, NEW k \in Nat, NEW m \in Nat, j = k + m, NEW n, Extends(c, r, j, 0, n),
           NEW d, NEW p, OwesGap(p, o, d, k, Len(c) + m)
    PROVE  EmptySlots(r, p)
<1> PICK l \in Nat : l = Len(c)
  OBVIOUS
<1>1. /\ Len(r) = l + j + 1
      /\ \A i \in 1 .. l : r[i] = c[i]
      /\ \A i \in l + 1 .. l + j : r[i] = 0
  BY DEF Extends
<1>2. /\ \A s \in DOMAIN o : o[s] \in 1 .. l /\ c[o[s]] = 0
      /\ \A x, s \in DOMAIN o : o[x] = o[s] => x = s
  BY DEF EmptySlots
<1>3. \A s \in DOMAIN p :
        \/ \E i \in 1 .. k : s = Stream!Minus(d.seq, k + 1 - i) /\ p[s] = l + m + i
        \/ s \in DOMAIN o /\ p[s] = o[s]
  BY DEF OwesGap
<1>4. ASSUME NEW s \in DOMAIN p PROVE p[s] \in 1 .. l + j + 1 /\ r[p[s]] = 0
  <2>1. CASE \E i \in 1 .. k : s = Stream!Minus(d.seq, k + 1 - i) /\ p[s] = l + m + i
    <3>1. PICK i \in 1 .. k : p[s] = l + m + i
      BY <2>1
    <3>2. PICK v \in l + 1 .. l + j : v = l + m + i
      <4>1. l + m + i \in l + 1 .. l + j
        OBVIOUS
      <4> QED BY <4>1
    <3> QED BY <1>1, <3>1, <3>2
  <2>2. CASE s \in DOMAIN o /\ p[s] = o[s]
    <3>1. PICK v \in 1 .. l : v = o[s] /\ p[s] = v /\ c[v] = 0
      BY <1>2, <2>2
    <3> QED BY <1>1, <3>1
  <2> QED BY <1>3, <2>1, <2>2
<1>5. ASSUME NEW x \in DOMAIN p, NEW s \in DOMAIN p, p[x] = p[s] PROVE x = s
  <2>1. CASE /\ \E i \in 1 .. k : x = Stream!Minus(d.seq, k + 1 - i) /\ p[x] = l + m + i
             /\ \E i \in 1 .. k : s = Stream!Minus(d.seq, k + 1 - i) /\ p[s] = l + m + i
    <3>1. PICK i \in 1 .. k : x = Stream!Minus(d.seq, k + 1 - i) /\ p[x] = l + m + i
      BY <2>1
    <3>2. PICK e \in 1 .. k : s = Stream!Minus(d.seq, k + 1 - e) /\ p[s] = l + m + e
      BY <2>1
    <3>3. i = e
      BY <1>5, <3>1, <3>2
    <3> QED BY ONLY <3>1, <3>2, <3>3
  <2>2. CASE /\ \E i \in 1 .. k : x = Stream!Minus(d.seq, k + 1 - i) /\ p[x] = l + m + i
             /\ s \in DOMAIN o /\ p[s] = o[s]
    <3>1. PICK i \in 1 .. k : p[x] = l + m + i
      BY <2>2
    <3>2. PICK v \in 1 .. l : p[s] = v
      BY <1>2, <2>2
    <3>3. v # l + m + i
      OBVIOUS
    <3> QED BY ONLY <1>5, <3>1, <3>2, <3>3
  <2>3. CASE /\ x \in DOMAIN o /\ p[x] = o[x]
             /\ \E i \in 1 .. k : s = Stream!Minus(d.seq, k + 1 - i) /\ p[s] = l + m + i
    <3>1. PICK i \in 1 .. k : p[s] = l + m + i
      BY <2>3
    <3>2. PICK v \in 1 .. l : p[x] = v
      BY <1>2, <2>3
    <3> QED BY <1>5, <3>1, <3>2
  <2>4. CASE (x \in DOMAIN o /\ p[x] = o[x]) /\ (s \in DOMAIN o /\ p[s] = o[s])
    BY <1>2, <1>5, <2>4
  <2>5. /\ \/ \E i \in 1 .. k : x = Stream!Minus(d.seq, k + 1 - i) /\ p[x] = l + m + i
           \/ x \in DOMAIN o /\ p[x] = o[x]
        /\ \/ \E i \in 1 .. k : s = Stream!Minus(d.seq, k + 1 - i) /\ p[s] = l + m + i
           \/ s \in DOMAIN o /\ p[s] = o[s]
    BY <1>3
  <2> QED BY ONLY <2>1, <2>2, <2>3, <2>4, <2>5, Zenon
<1> QED BY <1>1, <1>4, <1>5 DEF EmptySlots

LEMMA AudioSlots ==
    ASSUME Stream!CaptureInv, NEW n \in 1 .. Sent, Stream!AudioReceives(n)
    PROVE  Stream!SlotsAreFree'
<1> PICK d : d = Stream!Datagram(n)
  OBVIOUS
<1>1. Stream!TypeOK /\ Stream!SlotsAreFree
  BY CaptureParts
<1>2. capture.kind = "audio" /\ EmptySlots(chunks, tracker.owed)
  BY <1>1, AudioIs, FreeIs
<1>3. Does(n, d)
  BY <1>1, AudioDoes
<1>4. Len(chunks) \in Nat /\ Stream!IsBook(tracker.owed)
  BY <1>1, StreamTypes, TrackerIs
<1>5. PICK c, o, r, p : c = chunks /\ o = tracker.owed /\ r = chunks' /\ p = tracker'.owed
  OBVIOUS
<1>6. EmptySlots(c, o) /\ Len(c) \in Nat /\ Stream!IsBook(o)
  BY <1>2, <1>4, <1>5
<1>7. SUFFICES EmptySlots(r, p)
  BY <1>5, FreeIs
<1>8. CASE DoesHeld(n, d)
  BY <1>5, <1>6, <1>8 DEF DoesHeld
<1>9. CASE DoesNext(n, d)
  <2>1. Extends(c, r, 0, 0, n) /\ p = Stream!Young(o, d.seq)
    BY <1>5, <1>9 DEF DoesNext, Grows
  <2>2. \A s \in DOMAIN p : s \in DOMAIN o /\ p[s] = o[s]
    BY <2>1 DEF Stream!Young
  <2> QED BY <1>6, <2>1, <2>2, FreeGrows
<1>10. CASE DoesGap(n, d)
  <2>1. PICK k \in Nat, m \in Nat :
          Grows(k + m, 0, n) /\ OwesGap(tracker'.owed, tracker.owed, d, k, Len(chunks) + m)
    BY <1>10 DEF DoesGap
  <2>2. PICK j \in Nat : j = k + m
    OBVIOUS
  <2>3. Extends(c, r, j, 0, n) /\ OwesGap(p, o, d, k, Len(c) + m)
    BY <1>5, <2>1, <2>2 DEF Grows
  <2> QED BY ONLY <1>6, <2>2, <2>3, FreeGap, j \in Nat, k \in Nat, m \in Nat
<1>11. CASE DoesLate(n, d)
  <2>1. PICK l \in Nat : \E s \in 1 .. l :
          /\ s = tracker.owed[d.seq] /\ l = Len(chunks) /\ chunks[s] = 0
          /\ chunks' = [chunks EXCEPT ![s] = n] /\ Len(chunks') = l /\ chunks'[s] = n /\ n # 0
          /\ \A i \in 1 .. l : i # s => chunks'[i] = chunks[i]
    BY <1>1, <1>2, <1>11, LateSlot
  <2>2. PICK t \in 1 .. l :
          /\ t = o[d.seq] /\ l = Len(c) /\ Len(r) = l
          /\ \A i \in 1 .. l : i # t => r[i] = c[i]
    BY <1>5, <2>1
  <2>3. /\ d.seq \in DOMAIN o /\ DOMAIN p = DOMAIN o \ {d.seq}
        /\ \A s \in DOMAIN o \ {d.seq} : p[s] = o[s]
    BY <1>5, <1>11 DEF DoesLate
  <2>4. /\ \A s \in DOMAIN o : o[s] \in 1 .. l /\ c[o[s]] = 0
        /\ \A x, s \in DOMAIN o : o[x] = o[s] => x = s
    BY <1>6, <2>2 DEF EmptySlots
  <2>5. ASSUME NEW s \in DOMAIN p PROVE p[s] \in 1 .. l /\ r[p[s]] = 0
    <3>1. s \in DOMAIN o /\ s # d.seq /\ p[s] = o[s]
      BY <2>3
    <3>2. PICK v \in 1 .. l : v = o[s] /\ c[v] = 0
      BY <2>4, <3>1
    <3>3. v # t
      BY <2>2, <2>3, <2>4, <3>1, <3>2
    <3> QED BY <2>2, <3>1, <3>2, <3>3
  <2>6. \A x, s \in DOMAIN p : p[x] = p[s] => x = s
    BY <2>3, <2>4
  <2> QED BY <2>2, <2>5, <2>6 DEF EmptySlots
<1>12. CASE DoesResync(n, d)
  BY <1>5, <1>12 DEF DoesResync, EmptySlots
<1> QED BY <1>3, <1>8, <1>9, <1>10, <1>11, <1>12 DEF Does

LEMMA AudioOnTime ==
    ASSUME Stream!CaptureInv, NEW n \in 1 .. Sent, Stream!AudioReceives(n)
    PROVE  Stream!OnTime'
<1> PICK d : d = Stream!Datagram(n)
  OBVIOUS
<1>1. Stream!TypeOK /\ Stream!Begun /\ Stream!SlotsAreFree /\ Stream!OnTime
  BY CaptureParts
<1>2. /\ capture.kind = "audio" /\ capture' = capture /\ stream' = stream
      /\ Stream!Arrives(n)
  BY AudioIs
<1>3. Does(n, d) /\ d \in Stream!Datagrams /\ (n < stream.restart => d.seq = Num(stream.first, n))
  BY <1>1, AudioDoes, DatagramIs
<1>4. SUFFICES ASSUME tracker'.resyncs = 0, ~(newest' >= stream'.restart)
               PROVE  Timely(stream'.first, newest', chunks', arrived', tracker'.owed,
                             tracker'.got, tracker'.highest)
  BY OnTimeIs
<1>5. PICK f \in Int : f = stream.first /\ f = stream'.first
  BY <1>1, <1>2, StreamTypes
<1>6. PICK w, c, a, o, g, h : /\ w = newest /\ c = chunks /\ a = arrived
                              /\ o = tracker.owed /\ g = tracker.got /\ h = tracker.highest
  OBVIOUS
<1>7. PICK v, r, b, p, q, e : /\ v = newest' /\ r = chunks' /\ b = arrived'
                              /\ p = tracker'.owed /\ q = tracker'.got /\ e = tracker'.highest
  OBVIOUS
<1>8. SUFFICES Timely(f, v, r, b, p, q, e)
  BY <1>5, <1>7, Zenon
<1>9. Comes(w, a, n, v, b)
  <2>1. Comes(newest, arrived, n, newest', arrived')
    BY <1>1, <1>2, ComesNow
  <2> QED BY ONLY <1>6, <1>7, <2>1, Zenon
<1>10. /\ w \in Nat /\ n \in Nat /\ n <= w + MaxLost + 1 /\ n + MaxLate >= w
       /\ (n > w => v = n) /\ (n <= w => v = w)
  BY ONLY <1>9, ComesIs
<1>11. d.seq = Num(f, n) /\ ~(newest >= stream.restart)
  <2>1. PICK x \in Nat : x = stream.restart
    BY <1>1, StreamTypes
  <2>2. ~(v >= x)
    BY <1>2, <1>4, <1>7, <2>1
  <2>3. n < x /\ ~(w >= x)
    BY <1>10, <2>1, <2>2
  <2> QED BY <1>3, <1>5, <1>6, <2>1, <2>3
<1>12. tracker.resyncs = 0 => Timely(f, w, c, a, o, g, h)
  <2>1. tracker.resyncs = 0 =>
          Timely(stream.first, newest, chunks, arrived, tracker.owed, tracker.got, tracker.highest)
    BY <1>1, <1>2, <1>11, OnTimeIs
  <2> QED BY ONLY <1>5, <1>6, <2>1, Zenon
<1>13. /\ Len(c) \in Nat /\ Stream!IsBook(o) /\ Stream!IsBook(g)
       /\ \A s \in DOMAIN o : o[s] \in 1 .. Len(c)
  <2>1. Len(chunks) \in Nat /\ Stream!IsBook(tracker.owed) /\ Stream!IsBook(tracker.got)
    BY <1>1, StreamTypes, TrackerIs
  <2>2. EmptySlots(chunks, tracker.owed)
    BY <1>1, <1>2, FreeIs
  <2> QED BY ONLY <1>6, <2>1, <2>2 DEF EmptySlots
<1>14. (w = 0 <=> h = Stream!None) /\ (w = 0 => Len(c) = 0)
  BY <1>1, <1>6 DEF Stream!Begun
<1>15. d.seq \in Stream!Numbers /\ d.digest \in Nat
  BY <1>3 DEF Stream!Datagrams
<1>16. ASSUME q = Stream!Young(Stream!Put(g, d.seq, d.digest), d.seq)
       PROVE  \A s \in DOMAIN q : s = d.seq \/ (s \in DOMAIN g /\ Stream!Minus(d.seq, s) < Window)
  BY <1>16 DEF Stream!Young, Stream!Put
<1>17. ASSUME tracker.resyncs = 0, n > w, e = d.seq,
              q = Stream!Young(Stream!Put(g, d.seq, d.digest), d.seq),
              NEW j \in Nat, NEW k \in Nat, NEW m \in Nat, j = k + m, k < Window,
              (w > 0 /\ j = n - w - 1) \/ (w = 0 /\ Len(c) = 0 /\ j = 0),
              Extends(c, r, j, 0, n), OwesGap(p, o, d, k, Len(c) + m)
       PROVE  Timely(f, v, r, b, p, q, e)
  <2>1. v = n
    BY <1>10, <1>17
  <2>2. Comes(w, a, n, n, b) /\ Timely(f, w, c, a, o, g, h)
    BY ONLY <1>9, <1>12, <1>17, <2>1
  <2>3. Timely(f, n, r, b, p, q, d.seq)
    BY ONLY <1>11, <1>13, <1>16, <1>17, <2>2, TimelyGrows, f \in Int, j \in Nat, k \in Nat, m \in Nat
  <2> QED BY ONLY <1>17, <2>1, <2>3, Zenon
<1>18. CASE DoesHeld(n, d)
  <2>1. /\ r = c /\ p = o /\ q = g /\ e = h /\ d.seq \in DOMAIN g /\ tracker.resyncs = 0
    BY <1>4, <1>6, <1>7, <1>18 DEF DoesHeld
  <2>2. Timely(f, w, c, a, o, g, h) /\ Num(f, n) \in DOMAIN g
    BY ONLY <1>11, <1>12, <2>1
  <2>3. Timely(f, v, c, b, o, g, h)
    BY ONLY <1>9, <1>13, <2>2, TimelyHeld, f \in Int
  <2> QED BY ONLY <2>1, <2>3, Zenon
<1>19. CASE DoesNext(n, d)
  <2>1. /\ Extends(c, r, 0, 0, n) /\ e = d.seq /\ p = Stream!Young(o, d.seq)
        /\ q = Stream!Young(Stream!Put(g, d.seq, d.digest), d.seq)
        /\ tracker.resyncs = 0 /\ (h = Stream!None \/ d.seq = Stream!Plus(h, 1))
    BY <1>4, <1>6, <1>7, <1>19 DEF DoesNext, Goes, Grows
  <2>2. OwesGap(p, o, d, 0, Len(c) + 0)
    BY <2>1 DEF OwesGap, Stream!Young
  <2>3. 0 < Window /\ 0 = 0 + 0
    BY StreamModulus
  <2>4. CASE w = 0
    <3>1. n > w /\ Len(c) = 0
      BY <1>14, <2>4
    <3> QED BY <1>17, <2>1, <2>2, <2>3, <2>4, <3>1
  <2>5. CASE w # 0
    <3>1. h = Num(f, w) /\ h # Stream!None
      BY <1>10, <1>12, <1>14, <2>1, <2>5 DEF Timely
    <3>2. PICK x \in Int : x = w + 1
      BY <1>10
    <3>3. Num(f, n) = Num(f, x)
      BY <1>10, <1>11, <2>1, <3>1, <3>2, NumbersRun
    <3>4. n - x < Modulus /\ x - n < Modulus
      <4>1. /\ Modulus \in Nat \ {0} /\ Window \in Nat \ {0} /\ MaxLate \in Nat /\ MaxLost \in Nat
            /\ Stream!Half \in Nat /\ MaxLost + 1 + Window <= Modulus
            /\ MaxLate + Stream!Half < Modulus
        BY StreamModulus
      <4>2. Stream!Half >= 1
        <5>1. PICK y \in Nat : y = Modulus /\ y >= 2
          BY <4>1
        <5>2. y \div 2 >= 1
          BY <5>1
        <5> QED BY <5>1, <5>2 DEF Stream!Half
      <4> QED BY <1>10, <3>2, <4>1, <4>2
    <3>5. n = x
      BY ONLY <1>10, <3>3, <3>4, NumbersDiffer, f \in Int, x \in Int, n \in Int
    <3>6. n > w /\ w > 0 /\ 0 = n - w - 1
      BY <1>10, <2>5, <3>2, <3>5
    <3> QED BY <1>17, <2>1, <2>2, <2>3, <3>6
  <2> QED BY <2>4, <2>5
<1>20. CASE DoesGap(n, d)
  <2>1. /\ e = d.seq /\ q = Stream!Young(Stream!Put(g, d.seq, d.digest), d.seq)
        /\ tracker.resyncs = 0 /\ h # Stream!None /\ ~Stream!Behind(tracker, d.seq)
    BY <1>4, <1>6, <1>7, <1>20 DEF DoesGap, Goes
  <2>2. PICK k \in Nat, m \in Nat :
          /\ k + m = Stream!Minus(d.seq, tracker.highest + 1) /\ k < Window
          /\ Grows(k + m, 0, n)
          /\ OwesGap(tracker'.owed, tracker.owed, d, k, Len(chunks) + m)
    BY <1>20 DEF DoesGap
  <2>3. PICK j \in Nat : j = k + m
    OBVIOUS
  <2>4. Extends(c, r, j, 0, n) /\ OwesGap(p, o, d, k, Len(c) + m)
    BY <1>6, <1>7, <2>2, <2>3 DEF Grows
  <2>5. w > 0 /\ h = Num(f, w)
    BY <1>10, <1>12, <1>14, <2>1 DEF Timely
  <2>6. j = (n - w - 1) % Modulus
    <3>1. Stream!Minus(Num(f, n), Num(f, w) + 1) = (n - w - 1) % Modulus
      BY <1>10, NumbersRun
    <3> QED BY <1>6, <1>11, <2>2, <2>3, <2>5, <3>1
  <2>7. j < Stream!Half
    <3>1. ~(Stream!Minus(d.seq, h + 1) >= Stream!Half)
      BY <1>6, <2>1 DEF Stream!Behind
    <3>2. ~(j >= Stream!Half)
      BY <1>6, <2>2, <2>3, <3>1
    <3> QED BY <3>2, StreamModulus
  <2>8. n > w /\ j = n - w - 1
    BY <1>10, <2>6, <2>7, GapMeans
  <2> QED BY <1>17, <2>1, <2>2, <2>3, <2>4, <2>5, <2>8
<1>21. CASE DoesLate(n, d)
  <2>1. PICK l \in Nat : \E s \in 1 .. l :
          /\ s = tracker.owed[d.seq] /\ l = Len(chunks) /\ chunks[s] = 0
          /\ chunks' = [chunks EXCEPT ![s] = n] /\ Len(chunks') = l /\ chunks'[s] = n /\ n # 0
          /\ \A i \in 1 .. l : i # s => chunks'[i] = chunks[i]
    BY <1>1, <1>2, <1>21, LateSlot
  <2>2. PICK t \in 1 .. l :
          /\ t = o[Num(f, n)] /\ l = Len(c) /\ Len(r) = l /\ r[t] = n
          /\ \A i \in 1 .. l : i # t => r[i] = c[i]
    BY <1>6, <1>7, <1>11, <2>1
  <2>3. /\ Num(f, n) \in DOMAIN o /\ DOMAIN p \subseteq DOMAIN o
        /\ \A s \in DOMAIN p : p[s] = o[s]
        /\ tracker.resyncs = 0 /\ e = h /\ q = Stream!Put(g, d.seq, d.digest)
    BY <1>4, <1>6, <1>7, <1>11, <1>21 DEF DoesLate
  <2>4. \A s \in DOMAIN q : s = Num(f, n) \/ s \in DOMAIN g
    BY <1>11, <2>3 DEF Stream!Put
  <2>5. Timely(f, w, c, a, o, g, h)
    BY <1>12, <2>3
  <2>6. Timely(f, v, r, b, p, q, h)
    BY ONLY <1>9, <2>2, <2>3, <2>4, <2>5, TimelyLate, f \in Int, l \in Nat, t \in 1 .. l
  <2> QED BY ONLY <2>3, <2>6, Zenon
<1>22. CASE DoesResync(n, d)
  <2>1. tracker.resyncs \in Nat
    BY <1>1, StreamTypes, TrackerIs
  <2>2. tracker'.resyncs = tracker.resyncs + 1
    BY <1>22 DEF DoesResync
  <2> QED BY <1>4, <2>1, <2>2
<1> QED BY <1>3, <1>18, <1>19, <1>20, <1>21, <1>22 DEF Does

LEMMA AudioStep ==
    ASSUME Stream!CaptureInv, NEW n \in 1 .. Sent, Stream!AudioReceives(n)
    PROVE  Stream!CaptureInv'
<1> PICK d : d = Stream!Datagram(n)
  OBVIOUS
<1>1. Stream!TypeOK /\ Stream!BooksClose
  BY CaptureParts
<1>2. /\ received' = received + 1 /\ capture.kind = "audio" /\ capture' = capture
      /\ stream' = stream /\ options' = options /\ Stream!Arrives(n)
  BY AudioIs
<1>3. Stream!IsTracker(tracker') /\ chunks' \in Seq(0 .. Sent) /\ Does(n, d)
  BY <1>1, AudioDoes
<1>4. received \in Nat /\ filled \in Int
  BY <1>1, StreamTypes
<1>5. /\ arrived' \in [1 .. Sent -> Nat] /\ newest' \in 0 .. Sent
  BY <1>1, <1>2, ArrivesIs
<1>6. filled' \in Int
  <2>1. CASE DoesHeld(n, d)
    BY <1>4, <2>1 DEF DoesHeld
  <2>2. ASSUME NEW j \in Nat, NEW k \in Nat, Grows(j, k, n) PROVE filled' \in Int
    BY <1>4, <2>2 DEF Grows
  <2>3. CASE DoesLate(n, d)
    BY <1>4, <2>3 DEF DoesLate
  <2>4. CASE DoesNext(n, d)
    BY <2>2, <2>4 DEF DoesNext
  <2>5. CASE DoesGap(n, d)
    <3>1. PICK k \in Nat, m \in Nat : Grows(k + m, 0, n)
      BY <2>5 DEF DoesGap
    <3>2. k + m \in Nat
      OBVIOUS
    <3> QED BY <2>2, <3>1, <3>2
  <2>6. CASE DoesResync(n, d)
    BY <2>2, <2>6 DEF DoesResync
  <2> QED BY <1>3, <2>1, <2>3, <2>4, <2>5, <2>6 DEF Does
<1>7. received' \in Nat
  BY <1>2, <1>4
<1>8. Stream!TypeOK'
  BY <1>1, <1>2, <1>3, <1>5, <1>6, <1>7, Zenon DEF Stream!TypeOK
<1>9. Stream!NoSilence'
  BY <1>2 DEF Stream!NoSilence
<1> QED BY <1>8, <1>9, AudioBegun, AudioSlots, AudioOnTime, AudioBooks, Zenon DEF Stream!CaptureInv

LEMMA LeastNumber ==
    ASSUME NEW S \in SUBSET Nat, S # {}
    PROVE  \E n \in S : \A k \in S : ~(k < n)
<1>1. PICK n \in S : \A k \in S : ~(<<k, n>> \in OpToRel(<, Nat))
  BY NatLessThanWellFounded, WFMin
<1>2. \A k \in S : ~(k < n)
  BY <1>1, Zenon DEF OpToRel
<1> QED BY <1>2

(* What a filter leaves of a run of payloads, one after the other.           *)
Sifted(e, x) == IF x \in options.sifted THEN e ELSE Append(e, x)
Leaves(z, q, k, f) == f = [i \in 0 .. k |-> IF i = 0 THEN z ELSE Sifted(f[i - 1], q[i])]

LEMMA LeavesMore ==
    ASSUME NEW z, NEW q, NEW k \in Nat, NEW f, Leaves(z, q, k, f)
    PROVE  \E g : Leaves(z, q, k + 1, g)
<1>1. PICK g : g = [i \in 0 .. k + 1 |-> IF i = 0 THEN z ELSE Sifted(f[i - 1], q[i])]
  OBVIOUS
<1>2. \A i \in 0 .. k : g[i] = f[i]
  BY <1>1 DEF Leaves
<1>3. \A i \in 1 .. k + 1 : i - 1 \in 0 .. k
  OBVIOUS
<1>4. \A i \in 0 .. k + 1 : (IF i = 0 THEN z ELSE Sifted(f[i - 1], q[i]))
                               = (IF i = 0 THEN z ELSE Sifted(g[i - 1], q[i]))
  <2>1. ASSUME NEW i \in 1 .. k + 1 PROVE f[i - 1] = g[i - 1]
    BY ONLY <1>2, <1>3, i \in 1 .. k + 1
  <2>2. \A i \in 0 .. k + 1 : i = 0 \/ i \in 1 .. k + 1
    OBVIOUS
  <2> QED BY <2>1, <2>2
<1>5. g = [i \in 0 .. k + 1 |-> IF i = 0 THEN z ELSE Sifted(g[i - 1], q[i])]
  BY ONLY <1>1, <1>4
<1> QED BY <1>5 DEF Leaves

LEMMA LeavesExist ==
    ASSUME NEW z, NEW q, NEW k \in Nat
    PROVE  \E f : Leaves(z, q, k, f)
<1> DEFINE bad == {n \in Nat : ~\E f : Leaves(z, q, n, f)}
<1>1. CASE bad = {}
  BY <1>1
<1>2. CASE bad # {}
  <2>1. PICK n \in bad : \A m \in bad : ~(m < n)
    <3>1. bad \in SUBSET Nat
      OBVIOUS
    <3> HIDE DEF bad
    <3> QED BY ONLY <1>2, <3>1, LeastNumber
  <2>2. CASE n = 0
    <3>1. PICK f : f = [i \in 0 .. 0 |-> z]
      OBVIOUS
    <3>2. Leaves(z, q, 0, f)
      BY <3>1 DEF Leaves
    <3> QED BY <2>1, <2>2, <3>2
  <2>3. CASE n # 0
    <3>1. PICK m \in Nat : n = m + 1
      <4>1. n \in Nat /\ n - 1 \in Nat /\ n = n - 1 + 1
        BY <2>1, <2>3
      <4> QED BY <4>1
    <3>2. m \notin bad
      BY <2>1, <3>1
    <3>3. PICK f : Leaves(z, q, m, f)
      BY <3>2
    <3>4. \E g : Leaves(z, q, n, g)
      BY <3>1, <3>3, LeavesMore
    <3> QED BY <2>1, <3>4
  <2> QED BY <2>2, <2>3
<1> QED BY <1>1, <1>2

(* The payloads the filter keeps an entry of.                                *)
Wanted == {x \in 1 .. Sent : x \notin options.sifted}

IsLeft(p, k) ==
  p \in Seq(Wanted) /\ Len(p) \in Nat /\ Len(p) <= k /\ (options.sifted = {} => Len(p) = k)

LEMMA PassedIs ==
    ASSUME NEW k \in Nat, NEW q, \A i \in 1 .. k : q[i] \in 1 .. Sent, k = Len(q),
           NEW p, p = Stream!Passed(q)
    PROVE  IsLeft(p, k)
<1>1. \E f : Leaves(<<>>, q, k, f)
  BY LeavesExist
<1>2. PICK f : f = CHOOSE g : Leaves(<<>>, q, k, g)
  OBVIOUS
<1>3. Leaves(<<>>, q, k, f)
  BY <1>1, <1>2, Zenon
<1>4. p = f[k]
  BY <1>2 DEF Stream!Passed, Leaves, Sifted
<1>5. f[0] = <<>> /\ \A i \in 1 .. k : f[i] = Sifted(f[i - 1], q[i])
  <2>1. PICK z : z = <<>>
    OBVIOUS
  <2>2. f = [i \in 0 .. k |-> IF i = 0 THEN z ELSE Sifted(f[i - 1], q[i])]
    BY <1>3, <2>1 DEF Leaves
  <2>3. f[0] = z /\ \A i \in 1 .. k : f[i] = Sifted(f[i - 1], q[i])
    BY ONLY <2>2, k \in Nat
  <2> QED BY <2>1, <2>3
<1> DEFINE bad == {i \in 0 .. k : ~IsLeft(f[i], i)}
<1>6. IsLeft(f[0], 0)
  BY <1>5 DEF IsLeft
<1>7. ASSUME NEW i \in 1 .. k, IsLeft(f[i - 1], i - 1) PROVE IsLeft(f[i], i)
  <2>1. PICK e : e = f[i - 1]
    OBVIOUS
  <2>2. e \in Seq(Wanted) /\ Len(e) \in Nat /\ Len(e) <= i - 1 /\ (options.sifted = {} => Len(e) = i - 1)
    BY <1>7, <2>1 DEF IsLeft
  <2>3. CASE q[i] \in options.sifted
    <3>1. f[i] = e /\ options.sifted # {}
      BY <1>5, <2>1, <2>3 DEF Sifted
    <3>2. Len(e) <= i
      BY <2>2
    <3> QED BY ONLY <2>2, <3>1, <3>2 DEF IsLeft
  <2>4. CASE q[i] \notin options.sifted
    <3>1. f[i] = Append(e, q[i])
      BY <1>5, <2>1, <2>4 DEF Sifted
    <3>2. q[i] \in Wanted
      BY <2>4 DEF Wanted
    <3>3. f[i] \in Seq(Wanted) /\ Len(f[i]) = Len(e) + 1
      BY ONLY <2>2, <3>1, <3>2
    <3> QED BY ONLY <2>2, <3>3, i \in 1 .. k, k \in Nat DEF IsLeft
  <2> QED BY <2>3, <2>4
<1>8. bad = {}
  <2> SUFFICES ASSUME bad # {} PROVE FALSE
    OBVIOUS
  <2>1. PICK n \in bad : \A m \in bad : ~(m < n)
    <3>1. bad \in SUBSET Nat
      OBVIOUS
    <3> HIDE DEF bad
    <3> QED BY ONLY <3>1, LeastNumber, bad # {}
  <2>2. n \in 1 .. k
    BY <1>6, <2>1
  <2>3. n - 1 \in 0 .. k /\ n - 1 \notin bad
    BY <2>1, <2>2
  <2> QED BY <1>7, <2>1, <2>2, <2>3
<1> QED BY <1>4, <1>8

(* What is left of the payloads when the oldest are thrown out.              *)
CutTo(y, l) ==
  /\ y \in Seq(Wanted) /\ Len(y) \in Nat /\ Len(y) <= l
  /\ \/ Len(y) = l /\ (options.limit # 0 => l <= options.limit)
     \/ options.limit # 0 /\ Len(y) = options.limit

LEMMA TrimmedIs ==
    ASSUME NEW a \in Seq(Wanted), NEW l \in Nat, l = Len(a), options.limit \in Nat,
           NEW y, y = Stream!Trimmed(a)
    PROVE  CutTo(y, l)
<1>1. CASE options.limit = 0 \/ l <= options.limit
  BY <1>1 DEF CutTo, Stream!Trimmed, Stream!NoLimit
<1>2. CASE options.limit # 0 /\ l > options.limit
  <2>1. PICK x \in Int, c \in Nat : x = l - options.limit + 1 /\ c = options.limit /\ c > 0
    BY <1>2
  <2>2. \A i \in x .. l : a[i] \in Wanted
    BY ONLY <1>2, <2>1, l = Len(a), a \in Seq(Wanted), l \in Nat
  <2>3. y = SubSeq(a, x, l)
    <3>1. ~(options.limit = Stream!NoLimit \/ Len(a) <= options.limit)
      BY <1>2 DEF Stream!NoLimit
    <3>2. y = SubSeq(a, Len(a) - options.limit + 1, Len(a))
      BY <3>1, Zenon DEF Stream!Trimmed
    <3>3. x = Len(a) - options.limit + 1
      BY <2>1
    <3> QED BY <3>2, <3>3
  <2>4. y \in Seq(Wanted) /\ Len(y) = IF x <= l THEN l - x + 1 ELSE 0
    <3>1. l \in Int
      OBVIOUS
    <3> QED BY ONLY <2>2, <2>3, <3>1, SubSeqProperties, x \in Int
  <2>5. Len(y) = c
    BY ONLY <1>2, <2>1, <2>4, l \in Nat, c \in Nat
  <2> QED BY ONLY <1>2, <2>1, <2>4, <2>5, l \in Nat, c \in Nat DEF CutTo
<1> QED BY <1>1, <1>2

(* The books of a debug capture, with L payloads of R datagrams handed over. *)
LimitBooks(L, R) ==
  /\ L <= R
  /\ options.limit # 0 => L <= options.limit
  /\ options.sifted = {} => L = R \/ (options.limit # 0 /\ L = options.limit)

LEMMA BooksGrow ==
    ASSUME NEW L \in Nat, NEW R \in Int, LimitBooks(L, R), options.limit \in Nat,
           NEW k \in Nat, NEW w \in Nat, w <= k, options.sifted = {} => w = k,
           NEW m \in Nat, m <= L + w,
           \/ m = L + w /\ (options.limit # 0 => m <= options.limit)
           \/ options.limit # 0 /\ m = options.limit
    PROVE  LimitBooks(m, R + k)
BY DEF LimitBooks

(* What BooksClose says of a debug trace, before a step and after it.        *)
LEMMA DebugBooksAre ==
    ASSUME capture.kind = "debug", Stream!TypeOK, Stream!NoSilence, Stream!BooksClose
    PROVE  /\ LimitBooks(Len(chunks), received - tracker.discarded - Len(tracker.held))
           /\ chunks \in Seq(Wanted)
<1>1. chunks \in Seq(0 .. Sent) /\ Len(chunks) \in Nat /\ Sent \in Nat
  BY StreamTypes, StreamModulus
<1>2. \A i \in 1 .. Len(chunks) : chunks[i] # 0 /\ chunks[i] \notin options.sifted
  BY DEF Stream!NoSilence, Stream!BooksClose
<1>3. Stream!Kept = Len(chunks)
  BY <1>1, <1>2, VoiceIs, BooksCloseIs
<1>4. chunks \in Seq(Wanted)
  <2>1. \A i \in 1 .. Len(chunks) : chunks[i] \in Wanted
    BY <1>1, <1>2 DEF Wanted
  <2>2. chunks = [i \in 1 .. Len(chunks) |-> chunks[i]]
    BY <1>1
  <2> QED BY ONLY <1>1, <2>1, <2>2
<1> QED BY <1>3, <1>4 DEF Stream!BooksClose, Stream!Handed, Stream!NoLimit, LimitBooks

LEMMA DebugBooksClose ==
    ASSUME capture'.kind = "debug", options' = options, chunks' \in Seq(Wanted), Len(chunks') \in Nat,
           LimitBooks(Len(chunks'), received' - tracker'.discarded - Len(tracker'.held))
    PROVE  Stream!BooksClose' /\ Stream!NoSilence'
<1>1. \A i \in 1 .. Len(chunks') : chunks'[i] \in Wanted
  OBVIOUS
<1>2. \A x \in Wanted : x # 0 /\ x \notin options.sifted
  BY StreamModulus DEF Wanted
<1>3. Stream!Kept' = Len(chunks')
  <2>1. PICK r : r = chunks'
    OBVIOUS
  <2>2. Len(r) \in Nat /\ \A i \in 1 .. Len(r) : r[i] # 0
    BY <1>1, <1>2, <2>1
  <2>3. Cardinality(Voice(r)) = Len(r)
    BY ONLY <2>2, VoiceIs
  <2> QED BY <2>1, <2>3, BooksCloseIs
<1>4. Stream!NoSilence'
  BY <1>1, <1>2 DEF Stream!NoSilence
<1>5. Stream!BooksClose'
  BY <1>1, <1>2, <1>3 DEF Stream!BooksClose, Stream!Handed, Stream!NoLimit, LimitBooks
<1> QED BY <1>4, <1>5

(* The debug receiver keeps payloads only, such as its filter leaves, and    *)
(* throws out the oldest.                                                    *)
LEMMA DebugStep ==
    ASSUME Stream!CaptureInv, NEW n \in 1 .. Sent, Stream!DebugReceives(n)
    PROVE  Stream!CaptureInv'
<1> PICK d : d = Stream!Datagram(n)
  OBVIOUS
<1> PICK ev : ev = Stream!Observe(tracker, d)
  OBVIOUS
<1>1. Stream!TypeOK /\ Stream!Begun /\ Stream!NoSilence /\ Stream!BooksClose
  BY CaptureParts
<1>2. /\ capture.kind = "debug" /\ Stream!Arrives(n) /\ received' = received + 1
      /\ tracker' = ev.t
      /\ chunks' = IF ev.kind = "held" THEN chunks
                   ELSE Stream!Trimmed(chunks \o Stream!Passed(Append(Stream!Payloads(ev.readmit), n)))
      /\ capture' = capture /\ stream' = stream /\ filled' = filled /\ options' = options
  BY Zenon DEF Stream!DebugReceives
<1>3. Stream!IsTracker(tracker) /\ chunks \in Seq(0 .. Sent) /\ d \in Stream!Datagrams
  BY <1>1, StreamTypes, DatagramIs
<1>4. /\ Stream!IsTracker(ev.t) /\ ev.readmit \in Seq(Stream!Datagrams)
      /\ \/ AsHeld(tracker, d, ev)
         \/ /\ \/ ev.readmit = <<>> /\ (AsNext(tracker, d, ev) \/ AsGap(tracker, d, ev) \/ AsLate(tracker, d, ev))
               \/ AsResync(tracker, d, ev)
            /\ ev.t.held = <<>>
            /\ ev.t.discarded + Len(ev.readmit) = tracker.discarded + Len(tracker.held)
  BY <1>3, ObserveIs
<1>5. received \in Nat /\ filled \in Int /\ options.limit \in Nat
      /\ options \in [limit : Nat, sifted : SUBSET (1 .. Sent)]
  BY <1>1, StreamTypes
<1>6. PICK L \in Nat, D \in Nat, H \in Nat, D2 \in Nat, H2 \in Nat, k \in Nat :
        /\ L = Len(chunks) /\ D = tracker.discarded /\ H = Len(tracker.held)
        /\ D2 = ev.t.discarded /\ H2 = Len(ev.t.held) /\ k = Len(ev.readmit)
  <2>1. Len(chunks) \in Nat /\ tracker.discarded \in Nat /\ Len(tracker.held) \in Nat
    BY <1>1, <1>3, StreamTypes, TrackerIs
  <2>2. ev.t.discarded \in Nat /\ Len(ev.t.held) \in Nat /\ Len(ev.readmit) \in Nat
    BY <1>4, TrackerIs, LenProperties
  <2> QED BY ONLY <2>1, <2>2
<1>7. PICK R \in Int : R = received - D - H /\ LimitBooks(L, R)
  <2>1. received - D - H \in Int
    BY ONLY <1>5, D \in Nat, H \in Nat
  <2> QED BY <1>1, <1>2, <1>6, <2>1, DebugBooksAre
<1>8. chunks \in Seq(Wanted)
  BY <1>1, <1>2, DebugBooksAre
<1>9. /\ chunks' \in Seq(Wanted) /\ Len(chunks') \in Nat
      /\ LimitBooks(Len(chunks'), received + 1 - D2 - H2)
  <2>1. CASE ev.kind = "held" /\ AsHeld(tracker, d, ev)
    <3>1. chunks' = chunks
      BY <1>2, <2>1
    <3>2. ev.t.discarded + Len(ev.t.held) = tracker.discarded + Len(tracker.held) + 1
      BY <2>1 DEF AsHeld
    <3>3. received + 1 - D2 - H2 = R
      <4>1. D2 + H2 = D + H + 1
        BY <1>6, <3>2
      <4> QED BY ONLY <1>5, <1>7, <4>1, D \in Nat, H \in Nat, D2 \in Nat, H2 \in Nat
    <3> QED BY ONLY <1>6, <1>7, <1>8, <3>1, <3>3
  <2>2. CASE ev.kind # "held" /\ D2 + k = D + H /\ H2 = 0
    <3>1. PICK q : q = Append(Stream!Payloads(ev.readmit), n)
      OBVIOUS
    <3>2. PICK w \in Nat : w = k + 1
      OBVIOUS
    <3>3. w = Len(q) /\ \A i \in 1 .. w : q[i] \in 1 .. Sent
      <4>1. PICK h \in Seq(Stream!Datagrams) : h = ev.readmit
        BY <1>4
      <4>2. h \in Seq(Stream!Datagrams) /\ k = Len(h) /\ q = Append(Stream!Payloads(h), n)
        BY ONLY <1>6, <3>1, <4>1
      <4>3. PaysFor(q, k, n)
        BY ONLY <4>2, PayloadsIs, n \in 1 .. Sent, Zenon
      <4>4. q \in Seq(0 .. Sent) /\ Len(q) = w /\ \A i \in 1 .. w : q[i] # 0
        BY ONLY <3>2, <4>3 DEF PaysFor
      <4> QED BY ONLY <4>4, StreamModulus
    <3>4. PICK p : p = Stream!Passed(q)
      OBVIOUS
    <3>5. IsLeft(p, w)
      BY ONLY <3>3, <3>4, w \in Nat, PassedIs
    <3>6. PICK m \in Nat : m = Len(p) /\ m <= w /\ (options.sifted = {} => m = w)
      BY ONLY <3>5 DEF IsLeft
    <3>7. PICK all : all = chunks \o p
      OBVIOUS
    <3>8. all \in Seq(Wanted) /\ Len(all) = L + m
      <4>1. p \in Seq(Wanted)
        BY ONLY <3>5 DEF IsLeft
      <4> QED BY ONLY <1>6, <1>8, <3>6, <3>7, <4>1
    <3>9. PICK l \in Nat : l = L + m
      OBVIOUS
    <3>10. PICK y : y = Stream!Trimmed(all)
      OBVIOUS
    <3>11. CutTo(y, l)
      BY ONLY <1>5, <3>8, <3>9, <3>10, l \in Nat, TrimmedIs
    <3>12. chunks' = y
      BY ONLY <1>2, <2>2, <3>1, <3>4, <3>7, <3>10, Zenon
    <3>13. PICK z \in Nat : /\ z = Len(y) /\ z <= L + m /\ y \in Seq(Wanted)
                            /\ \/ z = L + m /\ (options.limit # 0 => z <= options.limit)
                               \/ options.limit # 0 /\ z = options.limit
      BY ONLY <3>9, <3>11 DEF CutTo
    <3>14. LimitBooks(z, R + w)
      BY ONLY <1>5, <1>7, <3>6, <3>13, BooksGrow, L \in Nat, R \in Int, w \in Nat, m \in Nat, z \in Nat
    <3>15. R + w = received + 1 - D2 - H2
      BY ONLY <1>5, <1>7, <2>2, <3>2, D \in Nat, H \in Nat, D2 \in Nat, H2 \in Nat, k \in Nat
    <3> QED BY ONLY <3>12, <3>13, <3>14, <3>15
  <2>3. \/ ev.kind = "held" /\ AsHeld(tracker, d, ev)
        \/ ev.kind # "held" /\ D2 + k = D + H /\ H2 = 0
    BY <1>4, <1>6 DEF AsHeld, AsNext, AsGap, AsLate, AsResync
  <2> QED BY <2>1, <2>2, <2>3
<1>10. Stream!BooksClose' /\ Stream!NoSilence'
  <2>1. LimitBooks(Len(chunks'), received' - tracker'.discarded - Len(tracker'.held))
    <3>1. received' = received + 1 /\ D2 = tracker'.discarded /\ H2 = Len(tracker'.held)
      BY <1>2, <1>6
    <3>2. PICK b : b = received + 1 - D2 - H2
      OBVIOUS
    <3>3. LimitBooks(Len(chunks'), b)
      BY ONLY <1>9, <3>2
    <3>4. b = received' - tracker'.discarded - Len(tracker'.held)
      <4>1. PICK x, y, z : x = received' /\ y = tracker'.discarded /\ z = Len(tracker'.held)
        OBVIOUS
      <4>2. x = received + 1 /\ y = D2 /\ z = H2
        BY <3>1, <4>1
      <4>3. b = x - y - z
        BY ONLY <1>5, <3>2, <4>2, D2 \in Nat, H2 \in Nat
      <4> QED BY ONLY <4>1, <4>3
    <3> QED BY ONLY <3>3, <3>4
  <2>2. capture'.kind = "debug" /\ options' = options
    BY <1>2
  <2> QED BY ONLY <1>9, <2>1, <2>2, DebugBooksClose
<1>11. tracker'.highest # Stream!None
  <2>1. d.seq # Stream!None
    BY <1>3, NumberIsOne DEF Stream!Datagrams
  <2>2. ASSUME AsHeld(tracker, d, ev) PROVE ev.t.highest # Stream!None
    <3>1. newest # 0
      BY <1>1, <2>2, EmptyIs DEF Stream!Begun, AsHeld
    <3> QED BY <1>1, <2>2, <3>1 DEF Stream!Begun, AsHeld
  <2>3. AsNext(tracker, d, ev) \/ AsGap(tracker, d, ev) => ev.t.highest = d.seq
    BY DEF AsNext, AsGap, Moves
  <2>4. AsLate(tracker, d, ev) => ev.t.highest # Stream!None
    BY DEF AsLate
  <2>5. AsResync(tracker, d, ev) => ev.t.highest = d.seq
    BY DEF AsResync
  <2> QED BY <1>2, <1>4, <2>1, <2>2, <2>3, <2>4, <2>5
<1>12. Stream!Begun'
  BY <1>1, <1>2, <1>11, BegunStep
<1>13. Stream!TypeOK'
  <2>1. /\ arrived' \in [1 .. Sent -> Nat] /\ newest' \in 0 .. Sent
    BY <1>1, <1>2, ArrivesIs
  <2>2. received' \in Nat /\ filled' \in Int
    BY <1>2, <1>5
  <2>3. chunks' \in Seq(0 .. Sent)
    <3>1. Wanted \subseteq 0 .. Sent
      BY StreamModulus DEF Wanted
    <3>2. PICK r : r = chunks'
      OBVIOUS
    <3>3. r \in Seq(Wanted)
      BY <1>9, <3>2
    <3>4. PICK S, T : S = Wanted /\ T = 0 .. Sent
      OBVIOUS
    <3>5. PICK m \in Nat : m = Len(r)
      BY ONLY <3>3
    <3>6. r = [i \in 1 .. m |-> r[i]] /\ \A i \in 1 .. m : r[i] \in S
      BY ONLY <3>3, <3>4, <3>5
    <3>7. \A i \in 1 .. m : r[i] \in T
      BY ONLY <3>1, <3>4, <3>6
    <3>8. r \in Seq(T)
      BY ONLY <3>6, <3>7, m \in Nat
    <3> QED BY ONLY <3>2, <3>4, <3>8
  <2>4. /\ Stream!IsTracker(tracker') /\ capture' = capture /\ stream' = stream
        /\ options' = options
    BY <1>2, <1>4
  <2>5. /\ capture \in [kind : {"audio", "debug"}, state : {"capturing", "stopped"}]
        /\ stream \in [first : Stream!Numbers, restart : Nat, silent : BOOLEAN]
    BY <1>1 DEF Stream!TypeOK
  <2> QED BY <1>5, <2>1, <2>2, <2>3, <2>4, <2>5, Zenon DEF Stream!TypeOK
<1>14. Stream!SlotsAreFree' /\ Stream!OnTime'
  <2>1. capture'.kind # "audio"
    BY <1>2
  <2> QED BY <2>1, FreeIs, OnTimeIs
<1> QED BY <1>10, <1>12, <1>13, <1>14, Zenon DEF Stream!CaptureInv

LEMMA StopStep ==
    ASSUME Stream!CaptureInv, NEW k, Stream!StopOf(k), k \in {"audio", "debug"}
    PROVE  Stream!CaptureInv'
<1>1. /\ capture = [kind |-> k, state |-> "capturing"]
      /\ capture' = [capture EXCEPT !.state = "stopped"]
      /\ tracker' = Stream!FlushHeld(tracker)
      /\ stream' = stream /\ arrived' = arrived /\ newest' = newest /\ chunks' = chunks
      /\ received' = received /\ filled' = filled /\ options' = options
  BY DEF Stream!StopOf
<1>2. capture'.kind = capture.kind /\ capture' = [kind |-> k, state |-> "stopped"]
  BY <1>1
<1>3. /\ Stream!TypeOK /\ Stream!Begun /\ Stream!SlotsAreFree /\ Stream!NoSilence
      /\ Stream!OnTime /\ Stream!BooksClose
  BY CaptureParts
<1>4. Stream!IsTracker(tracker)
  BY <1>3, StreamTypes
<1>5. /\ Stream!IsTracker(tracker') /\ tracker'.held = <<>>
      /\ tracker'.discarded = tracker.discarded + Len(tracker.held)
      /\ tracker'.highest = tracker.highest /\ tracker'.owed = tracker.owed
      /\ tracker'.got = tracker.got
      /\ tracker'.dropped = tracker.dropped /\ tracker'.resyncs = tracker.resyncs
  BY <1>1, <1>4, FlushIs
<1>6. Stream!TypeOK'
  <2>1. capture' \in [kind : {"audio", "debug"}, state : {"capturing", "stopped"}]
    BY <1>2
  <2> QED BY <1>1, <1>3, <1>5, <2>1, Zenon DEF Stream!TypeOK
<1>7. Stream!Begun' /\ Stream!NoSilence'
  BY <1>1, <1>2, <1>3, <1>5 DEF Stream!Begun, Stream!NoSilence
<1>8. Stream!SlotsAreFree'
  BY <1>1, <1>2, <1>3, <1>5, FreeIs
<1>9. Stream!OnTime'
  BY <1>1, <1>2, <1>3, <1>5, OnTimeIs
<1>10. Stream!BooksClose'
  <2>1. PICK D \in Nat, H \in Nat : D = tracker.discarded /\ H = Len(tracker.held)
    BY <1>4, TrackerIs
  <2>3. tracker'.discarded = D + H /\ Len(tracker'.held) = 0
    BY <1>5, <2>1
  <2>4. Stream!Handed' = Stream!Handed
    <3>1. received \in Nat
      BY <1>3, StreamTypes
    <3>2. received - (D + H) - 0 = received - D - H
      BY ONLY <3>1, D \in Nat, H \in Nat
    <3> QED BY <1>1, <2>1, <2>3, <3>2 DEF Stream!Handed
  <2>5. Stream!Kept' = Stream!Kept
    BY <1>1, BooksCloseIs
  <2> QED BY <1>1, <1>2, <1>3, <1>5, <2>4, <2>5 DEF Stream!BooksClose
<1> QED BY <1>6, <1>7, <1>8, <1>9, <1>10, Zenon DEF Stream!CaptureInv

LEMMA EmptyBooks ==
    /\ Stream!IsBook(Stream!Empty) /\ DOMAIN Stream!Empty = {} /\ Stream!IsTracker(Stream!Fresh)
    /\ Stream!Fresh.highest = Stream!None /\ Stream!Fresh.owed = Stream!Empty
    /\ Stream!Fresh.got = Stream!Empty /\ Len(Stream!Fresh.held) = 0
    /\ Stream!Fresh.discarded = 0 /\ Stream!Fresh.dropped = 0
<1>1. Stream!IsBook(Stream!Empty) /\ DOMAIN Stream!Empty = {}
  BY EmptyIs
<1>2. PICK b : b = Stream!Empty
  OBVIOUS
<1>3. Stream!Fresh = [highest |-> Stream!None, owed |-> b, got |-> b, held |-> <<>>,
                      dropped |-> 0, resyncs |-> 0, discarded |-> 0]
  BY <1>2 DEF Stream!Fresh
<1>4. <<>> \in Seq(Stream!Datagrams) /\ Len(<<>>) = 0
  OBVIOUS
<1>5. Stream!IsTracker(Stream!Fresh)
  BY <1>1, <1>2, <1>3, <1>4 DEF Stream!IsTracker
<1> QED BY <1>1, <1>2, <1>3, <1>4, <1>5

LEMMA StreamBegins == Stream!StreamInit => Stream!CaptureInv
<1> SUFFICES ASSUME Stream!StreamInit PROVE Stream!CaptureInv
  OBVIOUS
<1>1. /\ capture \in [kind : {"audio", "debug"}, state : {"capturing"}]
      /\ stream \in Stream!Streams
      /\ arrived = [n \in 1 .. Sent |-> 0] /\ newest = 0
      /\ tracker = Stream!Fresh /\ chunks = <<>>
      /\ received = 0 /\ filled = 0 /\ options \in Stream!Options(capture.kind)
  BY DEF Stream!StreamInit
<1>2. /\ Stream!IsTracker(tracker) /\ tracker.highest = Stream!None
      /\ tracker.owed = Stream!Empty /\ tracker.got = Stream!Empty
      /\ DOMAIN tracker.owed = {} /\ DOMAIN tracker.got = {}
      /\ Len(tracker.held) = 0 /\ tracker.discarded = 0 /\ tracker.dropped = 0
  BY <1>1, EmptyBooks
<1>3. stream \in [first : Stream!Numbers, restart : Nat, silent : BOOLEAN] /\ stream.restart >= 1
  <2>1. Modulus - 2 \in Stream!Numbers
    BY StreamModulus DEF Stream!Numbers
  <2>2. Sent \in Nat
    BY StreamModulus
  <2> QED BY <1>1, <2>1, <2>2 DEF Stream!Streams
<1>4. capture \in [kind : {"audio", "debug"}, state : {"capturing", "stopped"}]
  BY <1>1
<1>5. chunks \in Seq(0 .. Sent) /\ Len(chunks) = 0 /\ arrived \in [1 .. Sent -> Nat] /\ newest \in 0 .. Sent
  BY <1>1, StreamModulus
<1>6. received \in Nat /\ filled \in Int /\ options \in [limit : Nat, sifted : SUBSET (1 .. Sent)]
  BY <1>1, StreamModulus DEF Stream!Options, Stream!Plain, Stream!NoLimit
<1>7. Stream!TypeOK
  BY <1>2, <1>3, <1>4, <1>5, <1>6, Zenon DEF Stream!TypeOK
<1>8. Stream!Begun
  BY <1>1, <1>2 DEF Stream!Begun
<1>9. Stream!SlotsAreFree
  BY <1>2 DEF Stream!SlotsAreFree
<1>10. Stream!NoSilence
  BY <1>5 DEF Stream!NoSilence
<1>11. Stream!OnTime
  <2>1. \A i \in 1 .. Len(chunks) : FALSE
    BY <1>5
  <2>2. ~(newest > 0) /\ Len(chunks) <= newest
    BY <1>1, <1>5
  <2> QED BY <1>2, <2>1, <2>2, Zenon DEF Stream!OnTime
<1>12. Stream!BooksClose
  <2>1. Stream!Kept = 0
    <3>1. \A i \in 1 .. Len(chunks) : chunks[i] # 0
      BY <1>5
    <3>2. Cardinality(Voice(chunks)) = Len(chunks)
      <4>1. Len(chunks) \in Nat
        BY <1>5
      <4> QED BY ONLY <3>1, <4>1, VoiceIs
    <3> QED BY <1>5, <3>2, BooksCloseIs
  <2>2. Stream!Handed = 0
    BY <1>1, <1>2 DEF Stream!Handed
  <2>3. filled = Len(chunks) - Stream!Kept /\ tracker.dropped = filled
    BY <1>1, <1>2, <1>5, <2>1
  <2>4. options.limit \in Nat /\ \A i \in 1 .. Len(chunks) : FALSE
    BY <1>5, <1>6
  <2> QED BY ONLY <2>1, <2>2, <2>3, <2>4 DEF Stream!BooksClose, Stream!NoLimit
<1> QED BY <1>7, <1>8, <1>9, <1>10, <1>11, <1>12, Zenon DEF Stream!CaptureInv

LEMMA StreamStep ==
    Stream!CaptureInv /\ [Stream!StreamNext]_(Stream!svars) => Stream!CaptureInv'
<1>1. ASSUME Stream!CaptureInv, UNCHANGED Stream!svars PROVE Stream!CaptureInv'
  <2>1. /\ capture' = capture /\ stream' = stream /\ arrived' = arrived /\ newest' = newest
        /\ tracker' = tracker /\ chunks' = chunks
        /\ received' = received /\ filled' = filled /\ options' = options
    BY ONLY <1>1, Zenon DEF Stream!svars
  <2>2. /\ Stream!TypeOK /\ Stream!Begun /\ Stream!SlotsAreFree /\ Stream!NoSilence
        /\ Stream!OnTime /\ Stream!BooksClose
    BY <1>1, CaptureParts
  <2>3. Stream!TypeOK'
    BY <2>1, <2>2, Zenon DEF Stream!TypeOK
  <2>4. Stream!Begun' /\ Stream!NoSilence'
    BY <2>1, <2>2 DEF Stream!Begun, Stream!NoSilence
  <2>5. Stream!SlotsAreFree' /\ Stream!OnTime'
    BY ONLY <2>1, <2>2, FreeIs, OnTimeIs
  <2>6. Stream!BooksClose'
    <3>1. Stream!Kept' = Stream!Kept
      BY <2>1, BooksCloseIs
    <3>2. Stream!Handed' = Stream!Handed
      BY <2>1 DEF Stream!Handed
    <3> QED BY <2>1, <2>2, <3>1, <3>2 DEF Stream!BooksClose
  <2> QED BY <2>3, <2>4, <2>5, <2>6, Zenon DEF Stream!CaptureInv
<1>2. ASSUME Stream!CaptureInv, NEW n \in 1 .. Sent,
             Stream!AudioReceives(n) \/ Stream!DebugReceives(n)
      PROVE  Stream!CaptureInv'
  BY <1>2, AudioStep, DebugStep
<1>3. ASSUME Stream!CaptureInv, Stream!AudioStop \/ Stream!DebugStop PROVE Stream!CaptureInv'
  BY <1>3, StopStep DEF Stream!AudioStop, Stream!DebugStop
<1> QED BY <1>1, <1>2, <1>3 DEF Stream!StreamNext

LEMMA SamplesFollow ==
    ASSUME Stream!TypeOK, Stream!OnTime, Stream!BooksClose
    PROVE  Stream!SamplesAreOnTime
<1> SUFFICES ASSUME capture.kind = "audio", Stream!TimeBaseIntact, ~Stream!Restarted, chunks # <<>>
             PROVE  /\ \A i \in 1 .. Len(chunks) :
                         chunks[i] = IF arrived[newest - Len(chunks) + 1 + i - 1] = 0 THEN 0
                                     ELSE newest - Len(chunks) + 1 + i - 1
                    /\ tracker.dropped = Cardinality({i \in 1 .. Len(chunks) : chunks[i] = 0})
  BY CountIs DEF Stream!SamplesAreOnTime
<1>1. newest \in Nat /\ Len(chunks) \in Nat
  BY StreamTypes
<1>2. tracker.dropped = filled /\ tracker.resyncs = 0
  BY DEF Stream!TimeBaseIntact
<1>3. \A i \in 1 .. Len(chunks) :
        chunks[i] = IF arrived[newest - Len(chunks) + i] = 0 THEN 0 ELSE newest - Len(chunks) + i
  BY <1>2 DEF Stream!OnTime, Stream!Place
<1>4. ASSUME NEW i \in 1 .. Len(chunks)
      PROVE  chunks[i] = IF arrived[newest - Len(chunks) + 1 + i - 1] = 0 THEN 0
                         ELSE newest - Len(chunks) + 1 + i - 1
  <2>1. newest - Len(chunks) + 1 + i - 1 = newest - Len(chunks) + i
    BY ONLY <1>1, i \in 1 .. Len(chunks)
  <2> QED BY ONLY <1>3, <2>1, i \in 1 .. Len(chunks)
<1>5. tracker.dropped = Cardinality({i \in 1 .. Len(chunks) : chunks[i] = 0})
  <2>1. filled = Len(chunks) - Cardinality(Voice(chunks))
    BY BooksCloseIs DEF Stream!BooksClose
  <2>2. Cardinality({i \in 1 .. Len(chunks) : chunks[i] = 0}) = Len(chunks) - Cardinality(Voice(chunks))
    BY <1>1, VoiceIs
  <2> QED BY <1>2, <2>1, <2>2
<1> QED BY ONLY <1>4, <1>5

(* For every stream and every capture: while a recording of a stream that    *)
(* did not restart says that its time base is intact, the sample index is    *)
(* the time; restart or not, a datagram that was received is in the audio    *)
(* recording or counted; and so it is in a debug trace without max_bytes and *)
(* filter, while of one with these the theorem says how much they leave.     *)
THEOREM RecordingsAreOnTime == RunSpec => []RecordingsAreSound
<1> DEFINE I == subject = "stream" => Stream!CaptureInv
<1>1. RunInit => I
  BY SubjectBegins, StreamBegins
<1>2. I /\ [RunNext]_allvars => I'
  BY SubjectMoves, StreamStep
<1>3. I => RecordingsAreSound
  BY CaptureParts, SamplesFollow DEF RecordingsAreSound
<1> QED BY <1>1, <1>2, <1>3, PTL DEF RunSpec

-----------------------------------------------------------------------------
(* The frames of a video capture (VideoCapture).  A frame that is finished   *)
(* with its end has every line, so that its second completion would take all *)
(* its lines again: each would have to come twice, or so late that it comes  *)
(* behind the whole frame.  The network neither doubles as many datagrams    *)
(* as a frame has nor delays one by as much as two frames, and that is why   *)
(* no frame is finished twice (NoSecondWhole).  The tracker matters in two   *)
(* ways only: what it holds back has come before, and a held run is one of   *)
(* consecutive datagrams.                                                    *)

(* What a tracker needs to be for the video receiver: a record that holds    *)
(* back datagrams of the stream.                                             *)
Sends == {Video!Datagram(n) : n \in 1 .. VideoSent}

IsWatch(t) ==
  t \in [highest : {t.highest}, owed : {t.owed}, got : {t.got}, held : Seq(Sends),
         dropped : {t.dropped}, resyncs : {t.resyncs}, discarded : {t.discarded}]

(* Its books tell of no datagram outside a set.                              *)
Knows(t, S) ==
  /\ \A s \in DOMAIN t.got : t.got[s] \in S
  /\ \A i \in 1 .. Len(t.held) : t.held[i].digest \in S

LEMMA WatchIs == ASSUME NEW t, IsWatch(t) PROVE t.held \in Seq(Sends)
BY DEF IsWatch

LEMMA WatchAdvances ==
    ASSUME NEW t, IsWatch(t), NEW S, Knows(t, S), NEW s, NEW g \in S,
           NEW a, a = Video!Advance(t, s, g)
    PROVE  IsWatch(a) /\ Knows(a, S) /\ a.held = t.held /\ a.highest = s
<1>1. PICK y : y = Video!Young(Video!Put(t.got, s, g), s)
  OBVIOUS
<1>2. \A x \in DOMAIN y : y[x] \in S
  BY <1>1 DEF Video!Young, Video!Put, Knows
<1>3. PICK o : o = Video!Young(t.owed, s)
  OBVIOUS
<1>4. a = [t EXCEPT !.highest = s, !.got = y, !.owed = o]
  BY <1>1, <1>3 DEF Video!Advance
<1>5. a.held = t.held /\ a.highest = s /\ a.got = y
  BY <1>4 DEF IsWatch
<1>6. IsWatch(a)
  BY <1>4 DEF IsWatch
<1> QED BY <1>2, <1>5, <1>6 DEF Knows

LEMMA WatchFlushes ==
    ASSUME NEW t, IsWatch(t), NEW S, Knows(t, S), NEW a, a = Video!FlushHeld(t)
    PROVE  IsWatch(a) /\ Knows(a, S) /\ a.held = <<>> /\ a.highest = t.highest /\ a.got = t.got
<1>0. <<>> \in Seq(Sends)
  OBVIOUS
<1>1. PICK h \in Seq(Sends) : h = <<>>
  BY ONLY <1>0, Zenon
<1>2. PICK n : n = t.discarded + Len(t.held)
  OBVIOUS
<1>3. a = [t EXCEPT !.held = h, !.discarded = n]
  BY <1>1, <1>2 DEF Video!FlushHeld
<1>4. a.held = h /\ a.highest = t.highest /\ a.got = t.got
  BY <1>3 DEF IsWatch
<1>5. IsWatch(a)
  BY <1>3 DEF IsWatch
<1>6. Len(h) = 0
  BY <1>1
<1> QED BY <1>1, <1>4, <1>5, <1>6 DEF Knows

LEMMA WatchHolds ==
    ASSUME NEW t, IsWatch(t), NEW S, Knows(t, S), NEW d \in Sends, d.digest \in S,
           NEW a, a = Video!HoldBack(t, d)
    PROVE  /\ IsWatch(a) /\ Knows(a, S) /\ a.highest = t.highest /\ a.got = t.got
           /\ a.held = Append(t.held, d)
<1>1. PICK h \in Seq(Sends) : h = t.held
  BY WatchIs
<1>2. PICK k \in Seq(Sends) : k = Append(h, d)
  <2>1. Append(h, d) \in Seq(Sends)
    BY <1>1
  <2> QED BY ONLY <2>1, Zenon
<1>3. a = [t EXCEPT !.held = k]
  BY <1>1, <1>2 DEF Video!HoldBack, IsWatch
<1>4. a.held = k /\ a.highest = t.highest /\ a.got = t.got
  BY <1>3 DEF IsWatch
<1>5. IsWatch(a)
  BY <1>3 DEF IsWatch
<1>6. \A i \in 1 .. Len(k) : k[i].digest \in S
  <2>1. Len(k) = Len(h) + 1 /\ \A i \in 1 .. Len(k) : k[i] = IF i = Len(h) + 1 THEN d ELSE h[i]
    BY <1>2
  <2>2. \A i \in 1 .. Len(h) : h[i].digest \in S
    BY <1>1 DEF Knows
  <2> QED BY <2>1, <2>2
<1> QED BY <1>1, <1>2, <1>4, <1>5, <1>6 DEF Knows

LEMMA WatchForgets ==
    ASSUME NEW t, IsWatch(t), NEW S, Knows(t, S), NEW a, a = Video!Forget(t)
    PROVE  IsWatch(a) /\ Knows(a, S) /\ a.held = t.held
<1>1. PICK n, e : n = t.resyncs + 1 /\ e = Video!Empty
  OBVIOUS
<1>2. a = [t EXCEPT !.owed = e, !.got = e, !.resyncs = n]
  BY <1>1 DEF Video!Forget
<1>3. a.held = t.held /\ a.got = e
  BY <1>2 DEF IsWatch
<1>4. IsWatch(a)
  BY <1>2 DEF IsWatch
<1>5. DOMAIN e = {}
  BY <1>1 DEF Video!Empty
<1> QED BY <1>3, <1>4, <1>5 DEF Knows

LEMMA EventHas ==
    ASSUME NEW k, NEW t, NEW e, e = Video!Event(k, t)
    PROVE  e.kind = k /\ e.t = t /\ e.readmit = <<>>
BY DEF Video!Event

(* What an observation of a datagram may be.                                 *)
Follows(t, d) == t.held # <<>> /\ d.seq = Video!Plus(t.held[Len(t.held)].seq, 1)

KnownTo(t, d) == \E s \in DOMAIN t.got : t.got[s] = d.digest

Watched(t, d, ev, S) ==
  /\ IsWatch(ev.t) /\ Knows(ev.t, S)
  /\ ev.t.highest # Video!None
  /\ \/ /\ ev.kind = "held" /\ KnownTo(t, d)
        /\ \/ ev.t.held = Append(<<>>, d)
           \/ Follows(t, d) /\ ev.t.held = Append(t.held, d)
     \/ /\ ev.kind # "held" /\ ev.t.held = <<>>
        /\ ev.readmit = <<>> \/ (Follows(t, d) /\ ev.readmit = t.held)

LEMMA GapWatched ==
    ASSUME NEW t, IsWatch(t), NEW S, Knows(t, S), NEW d, d.digest \in S,
           NEW ev, ev = Video!Gap(t, d)
    PROVE  /\ IsWatch(ev.t) /\ Knows(ev.t, S) /\ ev.t.held = t.held /\ ev.t.highest = d.seq
           /\ ev.kind = "gap" /\ ev.readmit = <<>>
<1>1. PICK s, g : s = d.seq /\ g = d.digest /\ g \in S
  OBVIOUS
<1>2. \E n, o, sk, m, a, b : /\ a = [t EXCEPT !.dropped = n, !.owed = o]
                             /\ b = Video!Advance(a, s, g)
                             /\ ev = [Video!Event("gap", b) EXCEPT !.gap = sk, !.untracked = m]
  BY <1>1, Zenon DEF Video!Gap
<1>3. PICK n, o, sk, m, a, b : /\ a = [t EXCEPT !.dropped = n, !.owed = o]
                               /\ b = Video!Advance(a, s, g)
                               /\ ev = [Video!Event("gap", b) EXCEPT !.gap = sk, !.untracked = m]
  BY <1>2, Zenon
<1>4. a.held = t.held /\ a.got = t.got /\ IsWatch(a)
  BY <1>3 DEF IsWatch
<1>5. Knows(a, S)
  BY <1>4 DEF Knows
<1>6. IsWatch(b) /\ Knows(b, S) /\ b.held = a.held /\ b.highest = s
  <2>1. b = Video!Advance(a, s, g) /\ g \in S /\ IsWatch(a) /\ Knows(a, S)
    BY <1>1, <1>3, <1>4, <1>5, Zenon
  <2> QED BY ONLY <2>1, WatchAdvances
<1>7. ev.t = b /\ ev.kind = "gap" /\ ev.readmit = <<>>
  BY <1>3 DEF Video!Event
<1> QED BY <1>1, <1>4, <1>6, <1>7

LEMMA LateWatched ==
    ASSUME NEW t, IsWatch(t), NEW S, Knows(t, S), NEW d, d.digest \in S,
           NEW ev, ev = Video!Late(t, d)
    PROVE  /\ IsWatch(ev.t) /\ Knows(ev.t, S) /\ ev.t.held = t.held
           /\ ev.t.highest = t.highest /\ ev.kind = "late" /\ ev.readmit = <<>>
<1>1. PICK y : y = Video!Put(t.got, d.seq, d.digest)
  OBVIOUS
<1>2. \E n, o, sl, a : /\ a = [t EXCEPT !.dropped = n, !.got = y, !.owed = o]
                       /\ ev = [Video!Event("late", a) EXCEPT !.slot = sl]
  BY <1>1, Zenon DEF Video!Late
<1>3. PICK n, o, sl, a : /\ a = [t EXCEPT !.dropped = n, !.got = y, !.owed = o]
                         /\ ev = [Video!Event("late", a) EXCEPT !.slot = sl]
  BY <1>2, Zenon
<1>4. a.held = t.held /\ a.got = y /\ a.highest = t.highest /\ IsWatch(a)
  BY <1>3 DEF IsWatch
<1>5. \A x \in DOMAIN y : y[x] \in S
  BY <1>1 DEF Video!Put, Knows
<1>6. Knows(a, S)
  BY <1>4, <1>5 DEF Knows
<1>7. ev.t = a /\ ev.kind = "late" /\ ev.readmit = <<>>
  BY <1>3 DEF Video!Event
<1> QED BY <1>4, <1>6, <1>7

LEMMA ClassifyWatched ==
    ASSUME NEW t, IsWatch(t), NEW S, Knows(t, S), t.held = <<>>,
           NEW d \in Sends, d.digest \in S, d.seq # Video!None,
           NEW ev, ev = Video!Classify(t, d)
    PROVE  Watched(t, d, ev, S)
<1>1. CASE t.highest = Video!None \/ d.seq = Video!Plus(t.highest, 1)
  <2>1. PICK a : a = Video!Advance(t, d.seq, d.digest)
    OBVIOUS
  <2>2. ev = Video!Event("next", a)
    BY <1>1, <2>1 DEF Video!Classify
  <2>3. IsWatch(a) /\ Knows(a, S) /\ a.held = t.held /\ a.highest = d.seq
    BY <2>1, WatchAdvances
  <2>4. ev.kind = "next" /\ ev.t = a /\ ev.readmit = <<>>
    BY <2>2, EventHas
  <2> QED BY <2>3, <2>4 DEF Watched
<1>2. CASE /\ t.highest # Video!None /\ d.seq # Video!Plus(t.highest, 1)
           /\ ~Video!Behind(t, d.seq)
  <2>1. ev = Video!Gap(t, d)
    BY <1>2 DEF Video!Classify
  <2>2. /\ IsWatch(ev.t) /\ Knows(ev.t, S) /\ ev.t.held = t.held /\ ev.t.highest = d.seq
        /\ ev.kind = "gap" /\ ev.readmit = <<>>
    BY <2>1, GapWatched
  <2> QED BY <2>2 DEF Watched
<1>3. CASE /\ t.highest # Video!None /\ d.seq # Video!Plus(t.highest, 1)
           /\ Video!Behind(t, d.seq) /\ Video!Owed(t, d.seq)
  <2>1. ev = Video!Late(t, d)
    BY <1>3 DEF Video!Classify
  <2>2. /\ IsWatch(ev.t) /\ Knows(ev.t, S) /\ ev.t.held = t.held
        /\ ev.t.highest = t.highest /\ ev.kind = "late" /\ ev.readmit = <<>>
    BY <2>1, LateWatched
  <2> QED BY <1>3, <2>2 DEF Watched
<1>4. CASE /\ t.highest # Video!None /\ d.seq # Video!Plus(t.highest, 1)
           /\ Video!Behind(t, d.seq) /\ ~Video!Owed(t, d.seq)
           /\ Video!SeenIdentical(t, d.seq, d.digest)
  <2>1. PICK a : a = Video!HoldBack(t, d)
    OBVIOUS
  <2>2. ev = Video!Event("held", a)
    BY <1>4, <2>1 DEF Video!Classify
  <2>3. /\ IsWatch(a) /\ Knows(a, S) /\ a.highest = t.highest
        /\ a.held = Append(t.held, d)
    BY <2>1, WatchHolds
  <2>4. ev.kind = "held" /\ ev.t = a
    BY <2>2, EventHas
  <2>5. KnownTo(t, d)
    BY <1>4 DEF Video!SeenIdentical, KnownTo
  <2>6. a.held = Append(<<>>, d)
    BY <2>3, Zenon
  <2> QED BY <1>4, <2>3, <2>4, <2>5, <2>6, Zenon DEF Watched
<1>5. CASE /\ t.highest # Video!None /\ d.seq # Video!Plus(t.highest, 1)
           /\ Video!Behind(t, d.seq) /\ ~Video!Owed(t, d.seq)
           /\ ~Video!SeenIdentical(t, d.seq, d.digest)
  <2>1. PICK f : f = Video!Forget(t)
    OBVIOUS
  <2>2. PICK a : a = Video!Advance(f, d.seq, d.digest)
    OBVIOUS
  <2>3. ev = Video!Event("resync", a)
    BY <1>5, <2>1, <2>2 DEF Video!Classify
  <2>4. IsWatch(f) /\ Knows(f, S) /\ f.held = t.held
    BY <2>1, WatchForgets
  <2>5. IsWatch(a) /\ Knows(a, S) /\ a.held = f.held /\ a.highest = d.seq
    BY <2>2, <2>4, WatchAdvances
  <2>6. ev.kind = "resync" /\ ev.t = a /\ ev.readmit = <<>>
    BY <2>3, EventHas
  <2> QED BY <2>4, <2>5, <2>6 DEF Watched
<1> QED BY <1>1, <1>2, <1>3, <1>4, <1>5, Zenon

LEMMA ReopenedWatched ==
    ASSUME NEW t, IsWatch(t), NEW S, Knows(t, S), NEW d, d.digest \in S,
           NEW a, a = Video!Reopened(t, d)
    PROVE  IsWatch(a) /\ Knows(a, S) /\ a.held = <<>> /\ a.highest = d.seq
<1>1. PICK h \in Seq(Sends) : h = t.held
  BY WatchIs
<1>2. PICK n : n = {h[i].seq : i \in 1 .. Len(h)}
  OBVIOUS
<1>3. PICK b : b = [s \in n |-> h[CHOOSE i \in 1 .. Len(h) : h[i].seq = s].digest]
  OBVIOUS
<1>4. \A s \in DOMAIN b : b[s] \in S
  <2>1. \A i \in 1 .. Len(h) : h[i].digest \in S
    BY <1>1 DEF Knows
  <2>2. ASSUME NEW s \in n PROVE (CHOOSE i \in 1 .. Len(h) : h[i].seq = s) \in 1 .. Len(h)
    BY <1>2, <2>2
  <2> QED BY <1>3, <2>1, <2>2
<1>5. PICK f : f = Video!Forget(t)
  OBVIOUS
<1>6. IsWatch(f) /\ Knows(f, S)
  BY <1>5, WatchForgets
<1>7. <<>> \in Seq(Sends) /\ Len(<<>>) = 0
  OBVIOUS
<1>8. PICK e \in Seq(Sends) : e = <<>>
  BY ONLY <1>7, Zenon
<1>9. PICK c : c = [f EXCEPT !.got = b, !.held = e]
  OBVIOUS
<1>10. a = Video!Advance(c, d.seq, d.digest)
  BY <1>1, <1>2, <1>3, <1>5, <1>8, <1>9 DEF Video!Reopened
<1>11. c.got = b /\ c.held = e /\ IsWatch(c)
  BY <1>6, <1>9 DEF IsWatch
<1>12. Knows(c, S)
  BY <1>4, <1>7, <1>8, <1>11 DEF Knows
<1>13. IsWatch(a) /\ Knows(a, S) /\ a.held = c.held /\ a.highest = d.seq
  BY <1>10, <1>11, <1>12, WatchAdvances
<1> QED BY <1>8, <1>11, <1>13

LEMMA ObserveWatched ==
    ASSUME NEW t, IsWatch(t), NEW S, Knows(t, S), t.held # <<>> => t.highest # Video!None,
           NEW d \in Sends, d.digest \in S, d.seq # Video!None,
           NEW ev, ev = Video!Observe(t, d)
    PROVE  Watched(t, d, ev, S)
<1>1. CASE ~Video!Continues(t, d)
  <2>1. PICK u : u = Video!FlushHeld(t)
    OBVIOUS
  <2>2. /\ IsWatch(u) /\ Knows(u, S) /\ u.held = <<>>
        /\ u.highest = t.highest /\ u.got = t.got
    BY <2>1, WatchFlushes
  <2>3. ev = Video!Classify(u, d)
    BY <1>1, <2>1 DEF Video!Observe
  <2>4. Watched(u, d, ev, S)
    BY <2>2, <2>3, ClassifyWatched
  <2>5. ~Follows(u, d) /\ (KnownTo(u, d) => KnownTo(t, d))
    BY <2>2 DEF Follows, KnownTo
  <2> QED BY <2>4, <2>5, Zenon DEF Watched
<1>2. CASE Video!Continues(t, d)
  <2>1. Follows(t, d) /\ t.highest # Video!None
    BY <1>2 DEF Video!Continues, Follows
  <2>2. CASE Video!SeenIdentical(t, d.seq, d.digest) /\ Len(t.held) < MaxHeld
    <3>1. PICK a : a = Video!HoldBack(t, d)
      OBVIOUS
    <3>2. ev = Video!Event("held", a)
      BY <1>2, <2>2, <3>1 DEF Video!Observe
    <3>3. /\ IsWatch(a) /\ Knows(a, S) /\ a.highest = t.highest
          /\ a.held = Append(t.held, d)
      BY <3>1, WatchHolds
    <3>4. ev.kind = "held" /\ ev.t = a
      BY <3>2, EventHas
    <3>5. KnownTo(t, d)
      BY <2>2 DEF Video!SeenIdentical, KnownTo
    <3> QED BY <2>1, <3>3, <3>4, <3>5, Zenon DEF Watched
  <2>3. CASE ~(Video!SeenIdentical(t, d.seq, d.digest) /\ Len(t.held) < MaxHeld)
    <3>1. PICK a : a = Video!Reopened(t, d)
      OBVIOUS
    <3>2. ev = [Video!Event("resync", a) EXCEPT !.readmit = t.held]
      BY <1>2, <2>3, <3>1 DEF Video!Observe, Video!Restart
    <3>3. ev.kind = "resync" /\ ev.t = a /\ ev.readmit = t.held
      BY <3>2 DEF Video!Event
    <3>4. IsWatch(a) /\ Knows(a, S) /\ a.held = <<>> /\ a.highest = d.seq
      BY <3>1, ReopenedWatched
    <3> QED BY <2>1, <3>3, <3>4 DEF Watched
  <2> QED BY <2>2, <2>3
<1> QED BY <1>1, <1>2

LEMMA FilmNumbers ==
    /\ VideoSent \in Nat /\ Lines \in Nat \ {0} /\ Modulus \in Nat \ {0, 1}
    /\ VideoLate \in Nat /\ MaxLost \in Nat /\ MaxTwice \in Nat
    /\ MaxTwice < Lines /\ MaxTwice + VideoLate + 1 < 2 * Lines
    /\ VideoLate + 1 < Modulus /\ VideoLate + MaxLost < Modulus
<1>1. /\ Modulus \in Nat /\ VideoSent \in Nat /\ Lines \in Nat \ {0}
      /\ VideoLate \in Nat /\ MaxLost \in Nat /\ MaxTwice \in Nat
      /\ MaxTwice < Lines /\ MaxTwice + VideoLate + 1 < 2 * Lines
      /\ VideoLate + 1 < Modulus /\ VideoLate + MaxLost < Modulus
  BY VideoAssumption DEF Video!NetworkAssumption
<1> QED BY <1>1

(* The last datagram before a frame.                                         *)
Base(f) == f * Lines

LEMMA BaseIs ==
    ASSUME NEW f \in Int
    PROVE  Base(f) \in Int /\ Base(f + 1) = Base(f) + Lines /\ Base(0) = 0
BY FilmNumbers DEF Base

LEMMA BaseGrows ==
    ASSUME NEW f \in Int, NEW g \in Int, f < g
    PROVE  Base(f) + Lines <= Base(g)
<1>1. PICK k \in Nat : g = f + 1 + k
  <2>1. g - f - 1 \in Nat /\ g = f + 1 + (g - f - 1)
    OBVIOUS
  <2> QED BY <2>1
<1>2. k * Lines >= 0 /\ (f + 1 + k) * Lines = f * Lines + Lines + k * Lines
  BY FilmNumbers
<1>3. f * Lines \in Int /\ k * Lines \in Int
  BY FilmNumbers
<1> QED BY <1>1, <1>2, <1>3, FilmNumbers DEF Base

LEMMA FrameLine ==
    ASSUME NEW n \in 1 .. VideoSent
    PROVE  /\ Video!FrameOf(n) \in Nat /\ Video!LineOf(n) \in 0 .. Lines - 1
           /\ n = Base(Video!FrameOf(n)) + Video!LineOf(n) + 1
           /\ Video!Ends(n) <=> Video!LineOf(n) = Lines - 1
<1>0. Lines \in Nat \ {0} /\ n # Video!TailId /\ n - 1 \in Nat
  BY FilmNumbers DEF Video!TailId
<1>1. Video!FrameOf(n) = (n - 1) \div Lines /\ Video!LineOf(n) = (n - 1) % Lines
  BY <1>0 DEF Video!FrameOf, Video!LineOf
<1>2. PICK m \in Nat, k \in Nat \ {0} : m = n - 1 /\ k = Lines
  BY <1>0
<1>3. /\ m \div k \in Nat /\ m % k \in 0 .. k - 1
      /\ m = (m \div k) * k + (m % k)
  OBVIOUS
<1> QED BY <1>0, <1>1, <1>2, <1>3 DEF Base, Video!Ends

(* A datagram belongs to a frame up to f exactly if it is no later than it.  *)
LEMMA FrameUpTo ==
    ASSUME NEW n \in 1 .. VideoSent, NEW f \in Int
    PROVE  /\ Video!FrameOf(n) <= f <=> n <= Base(f) + Lines
           /\ Video!FrameOf(n) < f <=> n <= Base(f)
<1>1. /\ Video!FrameOf(n) \in Nat /\ Video!LineOf(n) \in 0 .. Lines - 1
      /\ n = Base(Video!FrameOf(n)) + Video!LineOf(n) + 1
  BY FrameLine
<1>2. PICK g \in Nat, l \in Nat : g = Video!FrameOf(n) /\ l = Video!LineOf(n) /\ l < Lines
  <2>1. Video!LineOf(n) \in Nat /\ Video!LineOf(n) < Lines
    BY <1>1, FilmNumbers
  <2> QED BY ONLY <1>1, <2>1, Zenon
<1>3. PICK x \in Int, y \in Int, k \in Nat : x = Base(g) /\ y = Base(f) /\ k = Lines
  <2>1. g \in Int
    BY <1>2
  <2>2. Base(g) \in Int /\ Base(f) \in Int
    BY <2>1, BaseIs
  <2>3. Lines \in Nat
    BY FilmNumbers
  <2> QED BY ONLY <2>2, <2>3, Zenon
<1>4. f < g => y + k <= x
  BY <1>3, BaseGrows
<1>5. g < f => x + k <= y
  BY <1>3, BaseGrows
<1>6. g = f => x = y
  BY <1>3
<1>7. n = x + l + 1 /\ l < k
  BY <1>1, <1>2, <1>3
<1>8. /\ g <= f <=> n <= y + k
      /\ g < f <=> n <= y
  BY <1>4, <1>5, <1>6, <1>7
<1> QED BY <1>2, <1>3, <1>8

(* The number behind another's is the next datagram's, unless one of the two *)
(* is further away than the network delays or loses.                         *)
LEMMA SendIs ==
    ASSUME NEW n \in 1 .. VideoSent, NEW d, d = Video!Datagram(n)
    PROVE  d \in Sends /\ d.digest = n /\ d.payload = n /\ d.seq = Video!NumberOf(n)
BY DEF Video!Datagram, Sends

LEMMA NumberIsPlus ==
    ASSUME NEW n \in 1 .. VideoSent
    PROVE  Video!NumberOf(n) = Num(first, n)
<1>1. n # Video!TailId
  BY FilmNumbers DEF Video!TailId
<1> QED BY <1>1 DEF Video!NumberOf, Num, Video!Plus, Stream!Plus

LEMMA NumberBehind ==
    ASSUME first \in Int, NEW a \in 1 .. VideoSent, NEW b \in 1 .. VideoSent,
           a - b - 1 < Modulus, b + 1 - a < Modulus,
           Video!NumberOf(a) = Video!Plus(Video!NumberOf(b), 1)
    PROVE  a = b + 1
<1>1. Num(first, a) = Stream!Plus(Num(first, b), 1)
  BY NumberIsPlus DEF Video!Plus, Stream!Plus
<1>2. Stream!Plus(Num(first, b), 1) = Num(first, b + 1)
  BY NumbersRun
<1>3. a - (b + 1) < Modulus /\ (b + 1) - a < Modulus
  BY FilmNumbers
<1> QED BY <1>1, <1>2, <1>3, NumbersDiffer

(* The sheet of a frame: a datagram at each line that came.                  *)
Sheets == UNION {[s -> Nat] : s \in SUBSET (0 .. Lines - 1)}

Pictures == [num : Nat, lines : Sheets, marked : BOOLEAN]

Whole(b) == DOMAIN b = 0 .. Lines - 1

(* Every line is the line of that frame, and has arrived.                    *)
Shows(num, b, a) ==
  \A l \in DOMAIN b : b[l] = Base(num) + l + 1 /\ b[l] \in 1 .. VideoSent /\ a[b[l]] >= 1

(* A datagram that is still to be used when frame f has been finished: one   *)
(* of a later frame, or the second of its kind, or one that came late from   *)
(* the frame before.                                                         *)
Later(m, f, a) ==
  \/ m > Base(f) + Lines
  \/ a[m] = 2
  \/ m <= Base(f) /\ Base(f) + Lines <= m + VideoLate

FewTwice(a) == Cardinality({k \in 1 .. VideoSent : a[k] = 2}) <= MaxTwice

LEMMA NoSecondWhole ==
    ASSUME NEW a, FewTwice(a), NEW f \in Nat, NEW g \in Nat, g <= f,
           NEW b, Shows(g, b, a), Whole(b), \A l \in DOMAIN b : Later(b[l], f, a)
    PROVE  FALSE
<1>1. /\ VideoSent \in Nat /\ Lines \in Nat /\ MaxTwice \in Nat /\ VideoLate \in Nat
      /\ MaxTwice < Lines /\ MaxTwice + VideoLate + 1 < 2 * Lines
  BY FilmNumbers
<1>2. PICK x \in Int, y \in Int : x = Base(f) /\ y = Base(g)
  <2>1. Base(f) \in Int /\ Base(g) \in Int
    BY BaseIs
  <2> QED BY ONLY <2>1, Zenon
<1>3. x = y \/ y + Lines <= x
  <2>1. CASE g = f
    BY <1>2, <2>1
  <2>2. CASE g < f
    BY <1>2, <2>2, BaseGrows
  <2> QED BY <2>1, <2>2
<1>4. ASSUME NEW k \in y + 1 .. y + MaxTwice + 1
      PROVE  k \in 1 .. VideoSent /\ a[k] = 2
  <2>1. PICK l \in 0 .. Lines - 1 : l = k - y - 1
    BY <1>1
  <2>2. l \in DOMAIN b
    BY <2>1 DEF Whole
  <2>3. b[l] = Base(g) + l + 1 /\ b[l] \in 1 .. VideoSent
    BY <2>2 DEF Shows
  <2>4. b[l] = k
    BY <1>2, <2>1, <2>3
  <2>5. k > x + Lines \/ a[k] = 2 \/ (k <= x /\ x + Lines <= k + VideoLate)
    BY <1>2, <2>2, <2>4 DEF Later
  <2>6. ~(k > x + Lines) /\ ~(k <= x /\ x + Lines <= k + VideoLate)
    BY <1>1, <1>3
  <2> QED BY <2>3, <2>4, <2>5, <2>6
<1> DEFINE few == {k \in 1 .. VideoSent : a[k] = 2}
<1>5. y + 1 .. y + MaxTwice + 1 \in SUBSET few
  BY <1>4
<1>6. IsFiniteSet(few)
  <2>1. IsFiniteSet(1 .. VideoSent)
    BY <1>1, FS_Interval
  <2> QED BY <2>1, FS_Subset
<1>7. /\ IsFiniteSet(y + 1 .. y + MaxTwice + 1)
      /\ Cardinality(y + 1 .. y + MaxTwice + 1) = MaxTwice + 1
  <2>1. PICK p \in Int, q \in Int : p = y + 1 /\ q = y + MaxTwice + 1
    BY <1>1
  <2>2. Cardinality(p .. q) = IF p > q THEN 0 ELSE q - p + 1
    BY FS_Interval
  <2>3. IsFiniteSet(p .. q)
    BY FS_Interval
  <2>4. ~(p > q) /\ q - p + 1 = MaxTwice + 1
    BY <1>1, <2>1
  <2> QED BY <2>1, <2>2, <2>3, <2>4
<1>8. Cardinality(y + 1 .. y + MaxTwice + 1) <= Cardinality(few) /\ Cardinality(few) \in Nat
  BY <1>5, <1>6, FS_Subset, FS_CardinalityType
<1>9. Cardinality(few) <= MaxTwice
  BY DEF FewTwice
<1> QED BY <1>1, <1>7, <1>8, <1>9

(* What is known of the finished frames.                                     *)
Finished(fs, mark, a) ==
  \A i \in 1 .. Len(fs) : /\ Shows(fs[i].num, fs[i].lines, a)
                          /\ fs[i].marked => mark /\ Whole(fs[i].lines)

InOrder(fs) == \A i, j \in 1 .. Len(fs) : i < j /\ fs[i].marked => fs[i].num < fs[j].num

Outlives(fs, m, a) == \A i \in 1 .. Len(fs) : fs[i].marked => Later(m, fs[i].num, a)

Longer(fs, f, g) ==
  /\ Len(g) = Len(fs) + 1 /\ g[Len(fs) + 1] = f
  /\ \A i \in 1 .. Len(fs) : g[i] = fs[i]

LEMMA FinishedGrows ==
    ASSUME NEW fs \in Seq(Pictures), NEW mark, NEW a, Finished(fs, mark, a), InOrder(fs),
           NEW f \in Pictures, Shows(f.num, f.lines, a), f.marked => mark /\ Whole(f.lines),
           \A i \in 1 .. Len(fs) : fs[i].marked => fs[i].num < f.num,
           NEW g, g = Append(fs, f)
    PROVE  /\ g \in Seq(Pictures) /\ Longer(fs, f, g)
           /\ Finished(g, mark, a) /\ InOrder(g)
<1>1. PICK n \in Nat : n = Len(fs)
  OBVIOUS
<1>2. g \in Seq(Pictures) /\ Len(g) = n + 1 /\ g[n + 1] = f /\ \A i \in 1 .. n : g[i] = fs[i]
  BY <1>1
<1>3. Finished(g, mark, a)
  <2>1. \A i \in 1 .. n : /\ Shows(fs[i].num, fs[i].lines, a)
                          /\ fs[i].marked => mark /\ Whole(fs[i].lines)
    BY <1>1 DEF Finished
  <2>2. ASSUME NEW i \in 1 .. n + 1
        PROVE  /\ Shows(g[i].num, g[i].lines, a)
               /\ g[i].marked => mark /\ Whole(g[i].lines)
    <3>1. CASE i = n + 1
      BY ONLY <1>2, <3>1, Shows(f.num, f.lines, a), f.marked => mark /\ Whole(f.lines), Zenon
    <3>2. CASE i # n + 1
      <4>1. i \in 1 .. n
        BY <3>2
      <4> QED BY ONLY <1>2, <2>1, <4>1, Zenon
    <3> QED BY <3>1, <3>2
  <2> QED BY <1>2, <2>2 DEF Finished
<1>4. InOrder(g)
  <2>1. \A i, j \in 1 .. n : i < j /\ fs[i].marked => fs[i].num < fs[j].num
    BY <1>1 DEF InOrder
  <2>2. ASSUME NEW i \in 1 .. n + 1, NEW j \in 1 .. n + 1, i < j, g[i].marked
        PROVE  g[i].num < g[j].num
    <3>1. i \in 1 .. n /\ (j = n + 1 \/ j \in 1 .. n)
      BY ONLY n \in Nat, <2>2
    <3>2. g[i] = fs[i] /\ fs[i].marked
      BY ONLY <1>2, <2>2, <3>1, Zenon
    <3>3. CASE j = n + 1
      BY ONLY <1>1, <1>2, <3>1, <3>2, <3>3, Zenon,
         \A k \in 1 .. Len(fs) : fs[k].marked => fs[k].num < f.num
    <3>4. CASE j \in 1 .. n
      BY ONLY <1>2, <2>1, <2>2, <3>1, <3>2, <3>4, Zenon
    <3> QED BY <3>1, <3>3, <3>4
  <2> QED BY <1>2, <2>2 DEF InOrder
<1> QED BY <1>1, <1>2, <1>3, <1>4 DEF Longer

(* A receiver: what its frames and the one under assembly consist of.        *)
IsReceiver(r) ==
  r \in [t : {r.t}, cur : [num : Nat \cup {Video!NoFrame}, lines : Sheets],
         marked : BOOLEAN, frames : Seq(Pictures), lost : {r.lost}]

Receives(r, a) ==
  /\ IsReceiver(r)
  /\ r.cur.num = Video!NoFrame => r.cur.lines = Video!Empty
  /\ Shows(r.cur.num, r.cur.lines, a)
  /\ Finished(r.frames, r.marked, a) /\ InOrder(r.frames)
  /\ \A l \in DOMAIN r.cur.lines : Outlives(r.frames, r.cur.lines[l], a)

(* The marked frames of y that x has not got end with one of these.          *)
Adds(x, y, S) ==
  \A i \in 1 .. Len(y) : y[i].marked =>
    \/ i \in 1 .. Len(x) /\ y[i] = x[i]
    \/ \E q \in S : Video!Ends(q) /\ y[i].num = Video!FrameOf(q)

LEMMA EmptySheet == Video!Empty \in Sheets /\ DOMAIN Video!Empty = {}
<1>1. Video!Empty \in [{} -> Nat] /\ DOMAIN Video!Empty = {}
  BY DEF Video!Empty
<1>2. {} \in SUBSET (0 .. Lines - 1)
  OBVIOUS
<1> QED BY <1>1, <1>2 DEF Sheets

LEMMA SheetIs ==
    ASSUME NEW b
    PROVE  b \in Sheets <=> DOMAIN b \subseteq 0 .. Lines - 1 /\ b \in [DOMAIN b -> Nat]
<1>1. ASSUME b \in Sheets PROVE DOMAIN b \subseteq 0 .. Lines - 1 /\ b \in [DOMAIN b -> Nat]
  <2>1. PICK s \in SUBSET (0 .. Lines - 1) : b \in [s -> Nat]
    BY <1>1, Zenon DEF Sheets
  <2>2. DOMAIN b = s
    BY <2>1
  <2> QED BY <2>1, <2>2
<1>2. ASSUME DOMAIN b \subseteq 0 .. Lines - 1, b \in [DOMAIN b -> Nat] PROVE b \in Sheets
  <2>1. DOMAIN b \in SUBSET (0 .. Lines - 1)
    BY <1>2
  <2> QED BY <1>2, <2>1, Zenon DEF Sheets
<1> QED BY <1>1, <1>2, Zenon

LEMMA NoLines == ASSUME NEW b \in Sheets, DOMAIN b = {} PROVE b = Video!Empty
<1>1. b \in [{} -> Nat]
  BY SheetIs
<1> QED BY <1>1 DEF Video!Empty

(* _finalize_frame, of a frame with lines.                                   *)
Closed(r, e, x) ==
  /\ IsReceiver(x) /\ x.t = r.t /\ x.marked = r.marked
  /\ x.cur.num = r.cur.num /\ x.cur.lines = Video!Empty
  /\ x.frames = IF Video!HasHoles(r.cur.lines) \/ Video!Unended(r, e) THEN r.frames
                ELSE Append(r.frames, [num |-> r.cur.num, lines |-> r.cur.lines,
                                       marked |-> r.marked])

LEMMA FinalizeIs ==
    ASSUME NEW r, IsReceiver(r), r.cur.num = Video!NoFrame => r.cur.lines = Video!Empty,
           NEW e, NEW x, x = Video!Finalize(r, e)
    PROVE  IF r.cur.lines = Video!Empty THEN x = r ELSE Closed(r, e, x)
<1>1. CASE r.cur.lines = Video!Empty
  BY <1>1 DEF Video!Finalize
<1>2. CASE r.cur.lines # Video!Empty
  <2>1. r.cur.num # Video!NoFrame
    BY <1>2
  <2>2. /\ r.cur \in [num : Nat \cup {Video!NoFrame}, lines : Sheets] /\ r.marked \in BOOLEAN
        /\ r.frames \in Seq(Pictures)
    BY DEF IsReceiver
  <2>3. PICK c : c = [r.cur EXCEPT !.lines = Video!Empty]
    OBVIOUS
  <2>4. /\ c \in [num : Nat \cup {Video!NoFrame}, lines : Sheets]
        /\ c.num = r.cur.num /\ c.lines = Video!Empty
    BY <2>2, <2>3, EmptySheet
  <2>5. CASE Video!HasHoles(r.cur.lines) \/ Video!Unended(r, e)
    <3>1. \E z : x = [[r EXCEPT !.lost = z] EXCEPT !.cur.lines = Video!Empty]
      BY <1>2, <2>1, <2>5, Zenon DEF Video!Finalize
    <3>2. PICK z : x = [[r EXCEPT !.lost = z] EXCEPT !.cur.lines = Video!Empty]
      BY <3>1, Zenon
    <3>3. x = [r EXCEPT !.lost = z, !.cur = c]
      BY <2>3, <3>2 DEF IsReceiver
    <3>4. /\ IsReceiver(x) /\ x.t = r.t /\ x.marked = r.marked /\ x.cur = c
          /\ x.frames = r.frames
      BY <2>4, <3>3 DEF IsReceiver
    <3> QED BY <1>2, <2>4, <2>5, <3>4 DEF Closed
  <2>6. CASE ~(Video!HasHoles(r.cur.lines) \/ Video!Unended(r, e))
    <3>1. PICK f \in Pictures : f = [num |-> r.cur.num, lines |-> r.cur.lines,
                                     marked |-> r.marked]
      BY <2>1, <2>2 DEF Pictures
    <3>2. PICK g \in Seq(Pictures) : g = Append(r.frames, f)
      <4>1. Append(r.frames, f) \in Seq(Pictures)
        BY <2>2
      <4> QED BY ONLY <4>1, Zenon
    <3>3. x = [[r EXCEPT !.frames = g] EXCEPT !.cur.lines = Video!Empty]
      BY <1>2, <2>1, <2>6, <3>1, <3>2, Zenon DEF Video!Finalize
    <3>4. x = [r EXCEPT !.frames = g, !.cur = c]
      BY <2>3, <3>3 DEF IsReceiver
    <3>5. /\ IsReceiver(x) /\ x.t = r.t /\ x.marked = r.marked /\ x.cur = c
          /\ x.frames = g
      BY <2>4, <3>4 DEF IsReceiver
    <3> QED BY <1>2, <2>4, <2>6, <3>1, <3>2, <3>5 DEF Closed
  <2> QED BY <2>5, <2>6
<1> QED BY <1>1, <1>2

LEMMA AddsNothing == ASSUME NEW x, NEW S PROVE Adds(x, x, S)
BY DEF Adds

LEMMA AddsMore ==
    ASSUME NEW x, NEW y, NEW z, NEW P, NEW Q, NEW S, P \subseteq S, Q \subseteq S,
           Adds(x, y, P), Adds(y, z, Q)
    PROVE  Adds(x, z, S)
BY Zenon DEF Adds

(* A frame that is left without its end.                                     *)
LEMMA FrameLeft ==
    ASSUME NEW r, NEW a, Receives(r, a), NEW x, x = Video!Finalize(r, FALSE)
    PROVE  /\ Receives(x, a) /\ x.t = r.t /\ x.marked = r.marked
           /\ x.cur.num = r.cur.num /\ x.cur.lines = Video!Empty
           /\ Adds(r.frames, x.frames, {})
<1>1. /\ IsReceiver(r) /\ (r.cur.num = Video!NoFrame => r.cur.lines = Video!Empty)
      /\ Shows(r.cur.num, r.cur.lines, a) /\ Finished(r.frames, r.marked, a)
      /\ InOrder(r.frames)
  BY DEF Receives
<1>2. CASE r.cur.lines = Video!Empty
  <2>1. x = r
    BY <1>1, <1>2, FinalizeIs
  <2> QED BY <1>2, <2>1, AddsNothing
<1>3. CASE r.cur.lines # Video!Empty
  <2>1. Closed(r, FALSE, x)
    BY <1>1, <1>3, FinalizeIs
  <2>2. /\ r.cur.num \in Nat /\ r.cur.lines \in Sheets /\ r.marked \in BOOLEAN
        /\ r.frames \in Seq(Pictures)
    BY <1>1, <1>3 DEF IsReceiver
  <2>3. /\ Finished(x.frames, r.marked, a) /\ InOrder(x.frames)
        /\ Adds(r.frames, x.frames, {})
    <3>1. CASE x.frames = r.frames
      BY <1>1, <3>1, AddsNothing
    <3>2. CASE x.frames # r.frames
      <4>1. PICK f : f = [num |-> r.cur.num, lines |-> r.cur.lines, marked |-> r.marked]
        OBVIOUS
      <4>2. x.frames = Append(r.frames, f) /\ r.marked = FALSE
        BY <2>1, <2>2, <3>2, <4>1 DEF Closed, Video!Unended
      <4>3. f \in Pictures /\ f.num = r.cur.num /\ f.lines = r.cur.lines /\ f.marked = FALSE
        BY <2>2, <4>1, <4>2 DEF Pictures
      <4>4. \A i \in 1 .. Len(r.frames) : ~r.frames[i].marked
        BY <1>1, <4>2 DEF Finished
      <4>5. PICK fs, g, m : fs = r.frames /\ g = x.frames /\ m = r.marked
        OBVIOUS
      <4>6. /\ g \in Seq(Pictures) /\ Longer(fs, f, g)
            /\ Finished(g, m, a) /\ InOrder(g)
        <5>1. /\ fs \in Seq(Pictures) /\ f \in Pictures
              /\ Finished(fs, m, a) /\ InOrder(fs) /\ g = Append(fs, f)
              /\ \A i \in 1 .. Len(fs) : fs[i].marked => fs[i].num < f.num
          BY <1>1, <2>2, <4>2, <4>3, <4>4, <4>5
        <5>2. Shows(f.num, f.lines, a) /\ (f.marked => m /\ Whole(f.lines))
          BY <1>1, <4>3
        <5> QED BY ONLY <5>1, <5>2, FinishedGrows
      <4>7. Adds(fs, g, {})
        <5>1. PICK n \in Nat : n = Len(fs)
          BY <2>2, <4>5
        <5>2. ASSUME NEW i \in 1 .. n + 1, g[i].marked PROVE i \in 1 .. n
          BY <4>3, <4>6, <5>1, <5>2 DEF Longer
        <5> QED BY <4>6, <5>1, <5>2 DEF Adds, Longer
      <4> QED BY <4>5, <4>6, <4>7
    <3> QED BY <3>1, <3>2
  <2>4. Shows(x.cur.num, x.cur.lines, a)
    BY <2>1, EmptySheet DEF Closed, Shows
  <2>5. \A l \in DOMAIN x.cur.lines : Outlives(x.frames, x.cur.lines[l], a)
    BY <2>1, EmptySheet DEF Closed
  <2> QED BY <2>1, <2>3, <2>4, <2>5 DEF Closed, Receives
<1> QED BY <1>2, <1>3

LEMMA NoHoles ==
    ASSUME NEW b \in Sheets, Lines - 1 \in DOMAIN b, ~Video!HasHoles(b)
    PROVE  Whole(b)
<1>1. DOMAIN b \subseteq 0 .. Lines - 1 /\ Lines \in Nat \ {0}
  BY SheetIs, FilmNumbers
<1>2. PICK h : h = Video!Height(b)
  OBVIOUS
<1>3. h \in 1 .. Lines /\ h - 1 \in DOMAIN b /\ \A l \in DOMAIN b : l < h
  <2>1. \E k \in 1 .. Lines : k - 1 \in DOMAIN b /\ \A l \in DOMAIN b : l < k
    <3>1. Lines \in 1 .. Lines /\ Lines - 1 \in DOMAIN b /\ \A l \in DOMAIN b : l < Lines
      BY <1>1
    <3> QED BY ONLY <3>1, Zenon
  <2> QED BY <1>2, <2>1, Zenon DEF Video!Height
<1>4. h = Lines
  <2>1. Lines - 1 < h
    BY <1>3
  <2> QED BY <1>1, <1>3, <2>1
<1>5. DOMAIN b = 0 .. h - 1
  BY <1>2 DEF Video!HasHoles
<1> QED BY <1>4, <1>5 DEF Whole

LEMMA OutlivesOld ==
    ASSUME NEW x, NEW y, Adds(x, y, {}), NEW m, NEW a, Outlives(x, m, a)
    PROVE  Outlives(y, m, a)
BY Zenon DEF Adds, Outlives

(* A line is put into its frame.                                             *)
Written(b, c, l, n) ==
  /\ b \in Sheets /\ DOMAIN b = DOMAIN c \cup {l} /\ b[l] = n
  /\ \A k \in DOMAIN c : k # l => b[k] = c[k]

LEMMA LineWritten ==
    ASSUME NEW c \in Sheets, NEW l \in 0 .. Lines - 1, NEW n \in Nat,
           NEW b, b = Video!Put(c, l, n)
    PROVE  Written(b, c, l, n)
<1>1. DOMAIN c \subseteq 0 .. Lines - 1 /\ c \in [DOMAIN c -> Nat]
  BY SheetIs
<1>2. PICK s : s = DOMAIN c
  OBVIOUS
<1>3. b = [k \in s \cup {l} |-> IF k = l THEN n ELSE c[k]]
  BY <1>2 DEF Video!Put
<1>4. DOMAIN b = s \cup {l} /\ b \in [s \cup {l} -> Nat]
  BY <1>1, <1>2, <1>3
<1>5. DOMAIN b \subseteq 0 .. Lines - 1 /\ b \in [DOMAIN b -> Nat]
  BY <1>1, <1>2, <1>4
<1>6. b \in Sheets
  BY <1>5, SheetIs
<1> QED BY <1>2, <1>3, <1>4, <1>6 DEF Written

Placed(r, n) ==
  [r EXCEPT !.cur = [num |-> Video!FrameOf(n),
                     lines |-> Video!Put(r.cur.lines, Video!LineOf(n), n)]]

LEMMA FramePut ==
    ASSUME NEW r, NEW a, Receives(r, a), NEW n \in 1 .. VideoSent, a[n] >= 1,
           Outlives(r.frames, n, a),
           r.cur.num = Video!FrameOf(n) \/ r.cur.lines = Video!Empty,
           NEW x, x = Placed(r, n)
    PROVE  /\ Receives(x, a) /\ x.t = r.t /\ x.frames = r.frames /\ x.marked = r.marked
           /\ x.cur.num = Video!FrameOf(n) /\ x.cur.num \in Nat
           /\ Video!LineOf(n) \in DOMAIN x.cur.lines
<1>1. /\ IsReceiver(r) /\ Shows(r.cur.num, r.cur.lines, a) /\ Finished(r.frames, r.marked, a)
      /\ InOrder(r.frames)
      /\ \A l \in DOMAIN r.cur.lines : Outlives(r.frames, r.cur.lines[l], a)
  BY DEF Receives
<1>2. /\ Video!FrameOf(n) \in Nat /\ Video!LineOf(n) \in 0 .. Lines - 1
      /\ n = Base(Video!FrameOf(n)) + Video!LineOf(n) + 1
  BY FrameLine
<1>3. PICK f \in Nat, l \in 0 .. Lines - 1 : f = Video!FrameOf(n) /\ l = Video!LineOf(n)
  BY <1>2
<1>4. PICK c \in Sheets : c = r.cur.lines
  BY <1>1 DEF IsReceiver
<1>5. PICK b : b = Video!Put(c, l, n)
  OBVIOUS
<1>6. Written(b, c, l, n)
  <2>1. n \in Nat
    OBVIOUS
  <2> QED BY ONLY <1>5, <2>1, LineWritten, c \in Sheets, l \in 0 .. Lines - 1
<1>7. PICK u : u = [num |-> f, lines |-> b]
  OBVIOUS
<1>8. /\ u \in [num : Nat \cup {Video!NoFrame}, lines : Sheets]
      /\ u.num = f /\ u.lines = b
  BY <1>6, <1>7 DEF Written
<1>9. x = [r EXCEPT !.cur = u]
  BY <1>3, <1>4, <1>5, <1>7 DEF Placed
<1>10. /\ IsReceiver(x) /\ x.t = r.t /\ x.frames = r.frames /\ x.marked = r.marked
       /\ x.cur = u
  BY <1>1, <1>8, <1>9 DEF IsReceiver
<1>11. ASSUME NEW k \in DOMAIN b
       PROVE  /\ b[k] = Base(f) + k + 1 /\ b[k] \in 1 .. VideoSent /\ a[b[k]] >= 1
              /\ Outlives(r.frames, b[k], a)
  <2>1. CASE k = l
    BY <1>2, <1>3, <1>6, <2>1 DEF Written
  <2>2. CASE k # l
    <3>1. k \in DOMAIN c /\ b[k] = c[k] /\ c = r.cur.lines
      BY <1>4, <1>6, <1>11, <2>2 DEF Written
    <3>2. r.cur.num = f
      BY <1>3, <3>1, EmptySheet
    <3>3. c[k] = Base(f) + k + 1 /\ c[k] \in 1 .. VideoSent /\ a[c[k]] >= 1
      BY <1>1, <3>1, <3>2 DEF Shows
    <3>4. Outlives(r.frames, c[k], a)
      BY <1>1, <3>1
    <3> QED BY <3>1, <3>3, <3>4
  <2> QED BY <2>1, <2>2
<1>12. Shows(f, b, a)
  BY <1>11 DEF Shows
<1>13. x.cur.num = f /\ x.cur.lines = b /\ f # Video!NoFrame
  BY <1>8, <1>10 DEF Video!NoFrame
<1>14. Receives(x, a)
  <2>1. \A k \in DOMAIN x.cur.lines : Outlives(x.frames, x.cur.lines[k], a)
    BY <1>10, <1>11, <1>13
  <2> QED BY <1>1, <1>10, <1>12, <1>13, <2>1 DEF Receives
<1>15. l \in DOMAIN b
  BY <1>6 DEF Written
<1> QED BY <1>3, <1>10, <1>13, <1>14, <1>15

LEMMA FrameEnded ==
    ASSUME NEW a, FewTwice(a), NEW r, Receives(r, a), r.cur.num \in Nat, r.marked = TRUE,
           NEW n \in 1 .. VideoSent, Video!Ends(n), r.cur.num = Video!FrameOf(n),
           Video!LineOf(n) \in DOMAIN r.cur.lines,
           NEW x, x = [Video!Finalize(r, TRUE) EXCEPT !.cur.num = Video!NoFrame]
    PROVE  Receives(x, a) /\ x.t = r.t /\ Adds(r.frames, x.frames, {n})
<1>1. /\ IsReceiver(r) /\ (r.cur.num = Video!NoFrame => r.cur.lines = Video!Empty)
      /\ Shows(r.cur.num, r.cur.lines, a) /\ Finished(r.frames, r.marked, a)
      /\ InOrder(r.frames)
      /\ \A l \in DOMAIN r.cur.lines : Outlives(r.frames, r.cur.lines[l], a)
  BY DEF Receives
<1>2. PICK y : y = Video!Finalize(r, TRUE)
  OBVIOUS
<1>3. PICK b \in Sheets : b = r.cur.lines
  BY <1>1 DEF IsReceiver
<1>4. b # Video!Empty
  BY <1>3, EmptySheet
<1>5. Closed(r, TRUE, y)
  <2>1. r.cur.lines # Video!Empty
    BY <1>3, <1>4
  <2> QED BY <1>1, <1>2, <2>1, FinalizeIs
<1>6. x = [y EXCEPT !.cur.num = Video!NoFrame]
  BY <1>2
<1>7. /\ IsReceiver(x) /\ x.t = y.t /\ x.marked = y.marked /\ x.frames = y.frames
      /\ x.cur.num = Video!NoFrame /\ x.cur.lines = Video!Empty
  <2>1. /\ IsReceiver(y) /\ y.cur \in [num : Nat \cup {Video!NoFrame}, lines : Sheets]
        /\ y.cur.lines = Video!Empty
    BY <1>5 DEF Closed, IsReceiver
  <2>2. PICK c : c = [y.cur EXCEPT !.num = Video!NoFrame]
    OBVIOUS
  <2>3. /\ c \in [num : Nat \cup {Video!NoFrame}, lines : Sheets]
        /\ c.num = Video!NoFrame /\ c.lines = Video!Empty
    BY <2>1, <2>2
  <2>4. x = [y EXCEPT !.cur = c]
    BY <1>6, <2>1, <2>2 DEF IsReceiver
  <2>5. /\ IsReceiver(x) /\ x.t = y.t /\ x.marked = y.marked /\ x.frames = y.frames /\ x.cur = c
    BY <2>1, <2>3, <2>4 DEF IsReceiver
  <2> QED BY <2>3, <2>5
<1>8. x.t = r.t /\ x.marked = TRUE
  BY <1>5, <1>7 DEF Closed
<1>9. Finished(x.frames, TRUE, a) /\ InOrder(x.frames) /\ Adds(r.frames, x.frames, {n})
  <2>1. CASE x.frames = r.frames
    BY <1>1, <2>1, AddsNothing
  <2>2. CASE x.frames # r.frames
    <3>1. PICK g \in Nat : g = r.cur.num
      OBVIOUS
    <3>2. PICK f : f = [num |-> g, lines |-> b, marked |-> TRUE]
      OBVIOUS
    <3>3. x.frames = Append(r.frames, f) /\ ~Video!HasHoles(b)
      BY <1>3, <1>5, <1>7, <2>2, <3>1, <3>2 DEF Closed
    <3>4. f \in Pictures /\ f.num = g /\ f.lines = b /\ f.marked = TRUE
      BY <3>2 DEF Pictures
    <3>5. Whole(b)
      <4>1. Lines - 1 \in DOMAIN b
        BY <1>3, FrameLine
      <4> QED BY <3>3, <4>1, NoHoles
    <3>6. PICK fs \in Seq(Pictures) : fs = r.frames
      BY <1>1 DEF IsReceiver
    <3>7. ASSUME NEW i \in 1 .. Len(fs), fs[i].marked PROVE fs[i].num < g
      <4>1. fs[i] \in Pictures
        OBVIOUS
      <4>2. PICK h \in Nat : h = fs[i].num
        BY <4>1 DEF Pictures
      <4>3. ASSUME NEW l \in DOMAIN b PROVE Later(b[l], h, a)
        <5>1. Outlives(fs, b[l], a)
          BY <1>1, <1>3, <3>6
        <5> QED BY <3>7, <4>2, <5>1 DEF Outlives
      <4>4. Shows(g, b, a)
        BY <1>1, <1>3, <3>1
      <4>5. ~(g <= h)
        BY <3>5, <4>3, <4>4, NoSecondWhole
      <4> QED BY <4>2, <4>5
    <3>8. PICK v : v = x.frames
      OBVIOUS
    <3>9. v \in Seq(Pictures) /\ Longer(fs, f, v) /\ Finished(v, TRUE, a) /\ InOrder(v)
      <4>1. /\ fs \in Seq(Pictures) /\ f \in Pictures
            /\ Finished(fs, TRUE, a) /\ InOrder(fs) /\ v = Append(fs, f)
            /\ \A i \in 1 .. Len(fs) : fs[i].marked => fs[i].num < f.num
        BY <1>1, <3>3, <3>4, <3>6, <3>7, <3>8
      <4>2. Shows(f.num, f.lines, a) /\ Whole(f.lines)
        BY <1>1, <1>3, <3>1, <3>4, <3>5
      <4> QED BY ONLY <4>1, <4>2, FinishedGrows
    <3>10. Adds(fs, v, {n})
      <4>1. PICK k \in Nat : k = Len(fs)
        OBVIOUS
      <4>2. f.num = Video!FrameOf(n)
        BY <3>1, <3>4
      <4>3. ASSUME NEW i \in 1 .. k + 1
            PROVE  \/ i \in 1 .. k /\ v[i] = fs[i]
                   \/ \E q \in {n} : Video!Ends(q) /\ v[i].num = Video!FrameOf(q)
        BY <3>9, <4>1, <4>2 DEF Longer
      <4> QED BY <3>9, <4>1, <4>3 DEF Adds, Longer
    <3> QED BY <3>6, <3>8, <3>9, <3>10
  <2> QED BY <2>1, <2>2
<1>10. Receives(x, a)
  BY <1>7, <1>8, <1>9, EmptySheet DEF Receives, Shows
<1> QED BY <1>8, <1>9, <1>10

(* _apply_packet.                                                            *)
LEMMA Applies ==
    ASSUME NEW a, FewTwice(a), NEW r, Receives(r, a), NEW n \in 1 .. VideoSent, a[n] >= 1,
           Outlives(r.frames, n, a), NEW x, x = Video!Apply(r, n)
    PROVE  Receives(x, a) /\ x.t = r.t /\ Adds(r.frames, x.frames, {n})
<1>1. PICK y : y = IF r.cur.num # Video!NoFrame /\ r.cur.num # Video!FrameOf(n)
                   THEN Video!Finalize(r, FALSE) ELSE r
  OBVIOUS
<1>2. /\ Receives(y, a) /\ y.t = r.t /\ Adds(r.frames, y.frames, {})
      /\ y.cur.num = Video!FrameOf(n) \/ y.cur.lines = Video!Empty
  <2>1. CASE r.cur.num # Video!NoFrame /\ r.cur.num # Video!FrameOf(n)
    <3>1. y = Video!Finalize(r, FALSE)
      BY <1>1, <2>1
    <3> QED BY <3>1, FrameLeft
  <2>2. CASE ~(r.cur.num # Video!NoFrame /\ r.cur.num # Video!FrameOf(n))
    <3>1. y = r
      BY <1>1, <2>2
    <3>2. r.cur.num = Video!NoFrame => r.cur.lines = Video!Empty
      BY DEF Receives
    <3> QED BY <2>2, <3>1, <3>2, AddsNothing
  <2> QED BY <2>1, <2>2
<1>3. Outlives(y.frames, n, a)
  BY <1>2, OutlivesOld
<1>4. PICK z : z = Placed(y, n)
  OBVIOUS
<1>5. /\ Receives(z, a) /\ z.t = y.t /\ z.frames = y.frames
      /\ z.cur.num = Video!FrameOf(n) /\ z.cur.num \in Nat
      /\ Video!LineOf(n) \in DOMAIN z.cur.lines
  <2>1. /\ Receives(y, a) /\ n \in 1 .. VideoSent /\ a[n] >= 1 /\ Outlives(y.frames, n, a)
        /\ y.cur.num = Video!FrameOf(n) \/ y.cur.lines = Video!Empty
    BY <1>2, <1>3
  <2> QED BY ONLY <1>4, <2>1, FramePut
<1>6. x = IF ~Video!Ends(n) THEN z
          ELSE [Video!Finalize([z EXCEPT !.marked = TRUE], TRUE) EXCEPT !.cur.num = Video!NoFrame]
  BY <1>1, <1>4, Zenon DEF Video!Apply, Placed
<1>7. Receives(x, a) /\ x.t = z.t /\ Adds(z.frames, x.frames, {n})
  <2>1. CASE ~Video!Ends(n)
    BY <1>5, <1>6, <2>1, AddsNothing
  <2>2. CASE Video!Ends(n)
    <3>1. PICK w : w = [z EXCEPT !.marked = TRUE]
      OBVIOUS
    <3>2. IsReceiver(z)
      BY <1>5 DEF Receives
    <3>3. /\ IsReceiver(w) /\ w.t = z.t /\ w.cur = z.cur /\ w.frames = z.frames
          /\ w.marked = TRUE
      BY <3>1, <3>2 DEF IsReceiver
    <3>4. Receives(w, a)
      BY <1>5, <3>3, Zenon DEF Receives, Finished
    <3>5. x = [Video!Finalize(w, TRUE) EXCEPT !.cur.num = Video!NoFrame]
      BY <1>6, <2>2, <3>1
    <3>6. Receives(x, a) /\ x.t = w.t /\ Adds(w.frames, x.frames, {n})
      <4>1. /\ w.cur.num \in Nat /\ w.cur.num = Video!FrameOf(n)
            /\ Video!LineOf(n) \in DOMAIN w.cur.lines
        BY <1>5, <3>3
      <4> QED BY <2>2, <3>3, <3>4, <3>5, <4>1, FrameEnded
    <3> QED BY <3>3, <3>6
  <2> QED BY <2>1, <2>2
<1>8. Adds(r.frames, x.frames, {n})
  <2>1. Adds(y.frames, x.frames, {n})
    BY <1>5, <1>7
  <2>2. {} \subseteq {n} /\ {n} \subseteq {n}
    OBVIOUS
  <2> QED BY <1>2, <2>1, <2>2, AddsMore
<1> QED BY <1>2, <1>5, <1>7, <1>8

Steps(r, h, k, f) ==
  f = [i \in 0 .. k |-> IF i = 0 THEN r ELSE Video!Apply(f[i - 1], h[i].payload)]

LEMMA StepsMore ==
    ASSUME NEW r, NEW h, NEW k \in Nat, NEW f, Steps(r, h, k, f)
    PROVE  \E g : Steps(r, h, k + 1, g)
<1>1. PICK g : g = [i \in 0 .. k + 1 |-> IF i = 0 THEN r ELSE Video!Apply(f[i - 1], h[i].payload)]
  OBVIOUS
<1>2. \A i \in 0 .. k : g[i] = f[i]
  BY <1>1 DEF Steps
<1>3. \A i \in 1 .. k + 1 : i - 1 \in 0 .. k
  OBVIOUS
<1>4. g = [i \in 0 .. k + 1 |-> IF i = 0 THEN r ELSE Video!Apply(g[i - 1], h[i].payload)]
  BY <1>1, <1>2, <1>3
<1> QED BY <1>4 DEF Steps

LEMMA StepsExist ==
    ASSUME NEW r, NEW h, NEW k \in Nat
    PROVE  \E f : Steps(r, h, k, f)
<1> DEFINE bad == {n \in Nat : ~\E f : Steps(r, h, n, f)}
<1>1. CASE bad = {}
  BY <1>1
<1>2. CASE bad # {}
  <2>1. PICK n \in bad : \A m \in bad : ~(m < n)
    <3>1. bad \in SUBSET Nat
      OBVIOUS
    <3> HIDE DEF bad
    <3> QED BY ONLY <1>2, <3>1, LeastNumber
  <2>2. CASE n = 0
    <3>1. PICK f : f = [i \in 0 .. 0 |-> r]
      OBVIOUS
    <3>2. f = [i \in 0 .. 0 |-> IF i = 0 THEN r ELSE Video!Apply(f[i - 1], h[i].payload)]
      BY <3>1
    <3>3. Steps(r, h, 0, f)
      BY <3>2 DEF Steps
    <3> QED BY <2>1, <2>2, <3>3
  <2>3. CASE n # 0
    <3>1. PICK m \in Nat : n = m + 1
      <4>1. n \in Nat /\ n - 1 \in Nat /\ n = n - 1 + 1
        BY <2>1, <2>3
      <4> QED BY <4>1
    <3>2. m \notin bad
      BY <2>1, <3>1
    <3>3. PICK f : Steps(r, h, m, f)
      BY <3>2
    <3>4. \E g : Steps(r, h, n, g)
      BY <3>1, <3>3, StepsMore
    <3> QED BY <2>1, <3>4
  <2> QED BY <2>2, <2>3
<1> QED BY <1>1, <1>2

LEMMA ReadmitIs ==
    ASSUME NEW r, NEW h, Len(h) \in Nat
    PROVE  \E f : Steps(r, h, Len(h), f) /\ Video!Readmit(r, h) = f[Len(h)]
<1>1. PICK k \in Nat : k = Len(h)
  OBVIOUS
<1>2. \E f : Steps(r, h, k, f)
  BY StepsExist
<1>3. PICK f : f = CHOOSE g : Steps(r, h, k, g)
  OBVIOUS
<1>4. Steps(r, h, k, f)
  BY <1>2, <1>3, Zenon
<1>5. Video!Readmit(r, h) = f[k]
  BY <1>1, <1>3 DEF Video!Readmit, Steps
<1> QED BY <1>1, <1>4, <1>5

LEMMA SendsAre == ASSUME NEW d \in Sends
                  PROVE d.payload \in 1 .. VideoSent /\ d = Video!Datagram(d.payload)
BY DEF Sends, Video!Datagram

LEMMA TwiceOutlives ==
    ASSUME NEW fs, NEW m, NEW a, a[m] = 2 PROVE Outlives(fs, m, a)
BY DEF Outlives, Later

(* The datagrams of a run that is taken in again, every one the second of    *)
(* its kind.                                                                 *)
Seconds(h, a, S) == \A i \in 1 .. Len(h) : a[h[i].payload] = 2 /\ h[i].payload \in S

Adding(x, r, a, S) == Receives(x, a) /\ x.t = r.t /\ Adds(r.frames, x.frames, S)

LEMMA Readmits ==
    ASSUME NEW a, FewTwice(a), NEW r, Receives(r, a), NEW h \in Seq(Sends),
           NEW S, Seconds(h, a, S), NEW x, x = Video!Readmit(r, h)
    PROVE  Adding(x, r, a, S)
<1>1. PICK k \in Nat : k = Len(h)
  OBVIOUS
<1>2. PICK f : Steps(r, h, k, f) /\ x = f[k]
  BY <1>1, ReadmitIs
<1>3. f[0] = r /\ \A i \in 1 .. k : f[i] = Video!Apply(f[i - 1], h[i].payload)
  BY <1>2 DEF Steps
<1> DEFINE Good(i) == Receives(f[i], a) /\ f[i].t = r.t /\ Adds(r.frames, f[i].frames, S)
           bad == {i \in 0 .. k : ~Good(i)}
<1>4. Good(0)
  BY <1>3, AddsNothing
<1>5. ASSUME NEW i \in 1 .. k, Good(i - 1) PROVE Good(i)
  <2>1. PICK n : n = h[i].payload
    OBVIOUS
  <2>2. n \in 1 .. VideoSent /\ a[n] = 2 /\ n \in S
    <3>1. h[i] \in Sends
      BY <1>1
    <3> QED BY <1>1, <2>1, <3>1, SendsAre DEF Seconds
  <2>3. PICK y, z : y = f[i - 1] /\ z = f[i]
    OBVIOUS
  <2>4. Receives(y, a) /\ y.t = r.t /\ Adds(r.frames, y.frames, S) /\ z = Video!Apply(y, n)
    BY <1>3, <1>5, <2>1, <2>3
  <2>5. Outlives(y.frames, n, a) /\ a[n] >= 1
    BY <2>2, TwiceOutlives
  <2>6. Receives(z, a) /\ z.t = y.t /\ Adds(y.frames, z.frames, {n})
    BY <2>2, <2>4, <2>5, Applies
  <2>7. {n} \subseteq S /\ S \subseteq S
    BY <2>2
  <2>8. Adds(r.frames, z.frames, S)
    BY <2>4, <2>6, <2>7, AddsMore
  <2> QED BY <2>3, <2>4, <2>6, <2>8
<1> HIDE DEF Good
<1>6. bad = {}
  <2> SUFFICES ASSUME bad # {} PROVE FALSE
    OBVIOUS
  <2>1. PICK i \in bad : \A j \in bad : ~(j < i)
    <3>1. bad \in SUBSET Nat
      BY <1>1
    <3> HIDE DEF bad
    <3> QED BY ONLY <3>1, bad # {}, LeastNumber
  <2>2. i \in 1 .. k
    BY <1>4, <2>1
  <2>3. i - 1 \in 0 .. k /\ i - 1 < i
    BY <2>2
  <2>4. Good(i - 1)
    BY <2>1, <2>3
  <2> QED BY <1>5, <2>1, <2>2, <2>4
<1>7. Good(k)
  BY <1>6
<1> QED BY <1>2, <1>7 DEF Good, Adding

(* A run of held datagrams, every one the second of its kind.                *)
HeldRun(h, a) ==
  \A i \in 1 .. Len(h) :
    a[h[i].payload] = 2 /\ h[i].payload + (Len(h) - i) = h[Len(h)].payload

HeldFrom(g, h, n) ==
  \A i \in 1 .. Len(g) : g[i].payload = n \/ \E j \in 1 .. Len(h) : g[i] = h[j]

LEMMA NothingHeld == ASSUME NEW a, NEW h, NEW n
                     PROVE HeldRun(<<>>, a) /\ HeldFrom(<<>>, h, n)
<1>1. Len(<<>>) = 0
  OBVIOUS
<1> QED BY <1>1 DEF HeldRun, HeldFrom

LEMMA RunGrows ==
    ASSUME NEW h \in Seq(Sends), NEW a, HeldRun(h, a), NEW n \in 1 .. VideoSent, a[n] = 2,
           h # <<>> => n = h[Len(h)].payload + 1,
           NEW g, g = Append(h, Video!Datagram(n))
    PROVE  HeldRun(g, a) /\ HeldFrom(g, h, n)
<1>1. PICK k \in Nat : k = Len(h)
  OBVIOUS
<1>2. PICK d \in Sends : d = Video!Datagram(n) /\ d.payload = n
  BY SendIs
<1>3. Len(g) = k + 1 /\ g[k + 1] = d /\ \A i \in 1 .. k : g[i] = h[i]
  BY <1>1, <1>2
<1>4. ASSUME NEW i \in 1 .. k + 1
      PROVE  a[g[i].payload] = 2 /\ g[i].payload + (k + 1 - i) = n
  <2>1. CASE i = k + 1
    BY <1>2, <1>3, <2>1
  <2>2. CASE i # k + 1
    <3>1. i \in 1 .. k /\ h # <<>>
      BY <1>1, <2>2
    <3>2. g[i] = h[i] /\ h[i] \in Sends /\ h[k] \in Sends
      BY <1>1, <1>3, <3>1
    <3>3. a[h[i].payload] = 2 /\ h[i].payload + (k - i) = h[k].payload
      BY <1>1, <3>1 DEF HeldRun
    <3>4. h[i].payload \in Int /\ h[k].payload \in Int /\ n = h[k].payload + 1
      BY <1>1, <3>1, <3>2, SendsAre, FilmNumbers
    <3>5. PICK p \in Int, q \in Int : p = h[i].payload /\ q = h[k].payload
      BY ONLY <3>4, Zenon
    <3> QED BY <3>2, <3>3, <3>4, <3>5
  <2> QED BY <2>1, <2>2
<1>5. HeldRun(g, a)
  BY <1>2, <1>3, <1>4 DEF HeldRun
<1>6. HeldFrom(g, h, n)
  <2>1. ASSUME NEW i \in 1 .. k + 1
        PROVE  g[i].payload = n \/ \E j \in 1 .. k : g[i] = h[j]
    <3>1. i = k + 1 \/ i \in 1 .. k
      OBVIOUS
    <3> QED BY <1>2, <1>3, <3>1
  <2> QED BY <1>1, <1>3, <2>1 DEF HeldFrom
<1> QED BY <1>5, <1>6

LEMMA SendNumber ==
    ASSUME first \in Int, NEW n \in 1 .. VideoSent
    PROVE  Video!NumberOf(n) # Video!None
<1>1. Num(first, n) \in 0 .. Modulus - 1
  <2>1. n \in Int /\ first \in Int
    BY FilmNumbers
  <2> QED BY ONLY <2>1, NumbersRun
<1>2. Num(first, n) # Modulus
  BY ONLY <1>1, FilmNumbers
<1> QED BY <1>2, NumberIsPlus DEF Video!None

(* Steps that touch neither the frames nor the one under assembly.           *)
Alike(x, r) == x.frames = r.frames /\ x.cur = r.cur /\ x.marked = r.marked

LEMMA Retracked ==
    ASSUME NEW r, NEW a, Receives(r, a), NEW u, NEW x, x = [r EXCEPT !.t = u]
    PROVE  Receives(x, a) /\ x.t = u /\ Alike(x, r)
<1>1. IsReceiver(r)
  BY DEF Receives
<1>2. IsReceiver(x) /\ x.t = u /\ Alike(x, r)
  BY <1>1 DEF IsReceiver, Alike
<1> QED BY <1>2, Zenon DEF Receives, Alike

LEMMA Recounted ==
    ASSUME NEW r, NEW a, Receives(r, a), NEW z, NEW x, x = [r EXCEPT !.lost = z]
    PROVE  Receives(x, a) /\ x.t = r.t /\ Alike(x, r)
<1>1. IsReceiver(r)
  BY DEF Receives
<1>2. IsReceiver(x) /\ x.t = r.t /\ Alike(x, r)
  BY <1>1 DEF IsReceiver, Alike
<1> QED BY <1>2, Zenon DEF Receives, Alike

(* What a datagram that is processed finds, and what it leaves.              *)
Fit(r, n, a, S) ==
  /\ Receives(r, a) /\ Outlives(r.frames, n, a) /\ a[n] >= 1
  /\ IsWatch(r.t) /\ Knows(r.t, S) /\ n \in S
  /\ KnownTo(r.t, Video!Datagram(n)) => a[n] = 2
  /\ r.t.held # <<>> => r.t.highest # Video!None
  /\ HeldRun(r.t.held, a)
  /\ Follows(r.t, Video!Datagram(n)) => n = r.t.held[Len(r.t.held)].payload + 1

Taken(x, r, n, a, S) ==
  /\ Receives(x, a) /\ IsWatch(x.t) /\ Knows(x.t, S)
  /\ x.t.highest # Video!None
  /\ HeldRun(x.t.held, a) /\ HeldFrom(x.t.held, r.t.held, n)
  /\ x.t.held # <<>> => a[n] = 2
  /\ Adds(r.frames, x.frames, 1 .. n)

LEMMA OutlivesNew ==
    ASSUME NEW x, NEW y, NEW m \in 1 .. VideoSent, Adds(x, y, 1 .. m - 1), NEW a, Outlives(x, m, a)
    PROVE  Outlives(y, m, a)
<1> SUFFICES ASSUME NEW i \in 1 .. Len(y), y[i].marked PROVE Later(m, y[i].num, a)
  BY DEF Outlives
<1>1. CASE i \in 1 .. Len(x) /\ y[i] = x[i]
  BY <1>1 DEF Outlives
<1>2. CASE \E q \in 1 .. m - 1 : Video!Ends(q) /\ y[i].num = Video!FrameOf(q)
  <2>1. PICK q \in 1 .. m - 1 : Video!Ends(q) /\ y[i].num = Video!FrameOf(q)
    BY <1>2
  <2>2. q \in 1 .. VideoSent
    BY FilmNumbers
  <2>3. PICK f \in Nat : f = Video!FrameOf(q)
    BY <2>2, FrameLine
  <2>4. q = Base(f) + (Lines - 1) + 1
    BY <2>1, <2>2, <2>3, FrameLine
  <2>5. m > Base(f) + Lines
    <3>1. PICK b \in Int : b = Base(f)
      <4>1. f \in Int
        OBVIOUS
      <4> QED BY ONLY <4>1, BaseIs
    <3>2. q = b + (Lines - 1) + 1 /\ q < m
      BY <2>4, <3>1
    <3>3. q \in Int /\ m \in Int /\ Lines \in Int
      BY FilmNumbers
    <3>4. m > b + Lines
      BY ONLY <3>1, <3>2, <3>3
    <3> QED BY <3>1, <3>4
  <2> QED BY <2>1, <2>3, <2>5 DEF Later
<1> QED BY <1>1, <1>2 DEF Adds

LEMMA ReadmitNothing ==
    ASSUME NEW r PROVE Video!Readmit(r, <<>>) = r
<1>1. Len(<<>>) = 0
  OBVIOUS
<1>2. PICK f : Steps(r, <<>>, 0, f) /\ Video!Readmit(r, <<>>) = f[0]
  BY <1>1, ReadmitIs
<1> QED BY <1>2 DEF Steps

(* _process.                                                                 *)
LEMMA Processes ==
    ASSUME first \in Int, NEW a, FewTwice(a), NEW r, NEW S, NEW n \in 1 .. VideoSent,
           Fit(r, n, a, S), NEW x, x = Video!Process(r, n)
    PROVE  Taken(x, r, n, a, S)
<1>1. PICK d \in Sends : d = Video!Datagram(n) /\ d.digest = n /\ d.payload = n
                         /\ d.seq = Video!NumberOf(n)
  BY SendIs
<1>2. PICK ev : ev = Video!Observe(r.t, d)
  OBVIOUS
<1>3. PICK t : t = r.t
  OBVIOUS
<1>4. /\ Receives(r, a) /\ Outlives(r.frames, n, a) /\ a[n] >= 1
      /\ IsWatch(t) /\ Knows(t, S) /\ n \in S
      /\ KnownTo(t, d) => a[n] = 2
      /\ t.held # <<>> => t.highest # Video!None
      /\ HeldRun(t.held, a)
      /\ Follows(t, d) => n = t.held[Len(t.held)].payload + 1
  BY <1>1, <1>3 DEF Fit
<1>5. Watched(t, d, ev, S)
  <2>1. d.digest \in S /\ d.seq # Video!None
    BY <1>1, <1>4, SendNumber
  <2>2. ev = Video!Observe(t, d)
    BY <1>2, <1>3
  <2> QED BY ONLY <1>4, <2>1, <2>2, d \in Sends, ObserveWatched
<1>6. PICK seen : seen = [r EXCEPT !.t = ev.t]
  OBVIOUS
<1>7. Receives(seen, a) /\ seen.t = ev.t /\ Alike(seen, r)
  <2>1. PICK u : u = ev.t
    OBVIOUS
  <2>0. Receives(r, a)
    BY <1>4
  <2>2. seen = [r EXCEPT !.t = u]
    BY <1>6, <2>1
  <2>3. Receives(seen, a) /\ seen.t = u /\ Alike(seen, r)
    BY ONLY <2>0, <2>2, Retracked
  <2> QED BY <2>1, <2>3
<1>8. t.held \in Seq(Sends)
  BY <1>4, WatchIs
<1>9. CASE ev.kind = "held"
  <2>1. x = seen
    BY <1>1, <1>2, <1>6, <1>9 DEF Video!Process
  <2>2. /\ KnownTo(t, d)
        /\ \/ ev.t.held = Append(<<>>, d)
           \/ Follows(t, d) /\ ev.t.held = Append(t.held, d)
    BY <1>5, <1>9, Zenon DEF Watched
  <2>3. a[n] = 2
    BY <1>4, <2>2
  <2>4. HeldRun(ev.t.held, a) /\ HeldFrom(ev.t.held, t.held, n)
    <3>1. CASE ev.t.held = Append(<<>>, d)
      <4>1. <<>> \in Seq(Sends) /\ HeldRun(<<>>, a)
        BY NothingHeld
      <4>2. PICK g, e : g = Append(e, Video!Datagram(n)) /\ e = <<>> /\ g = ev.t.held
        BY <1>1, <3>1
      <4>3. HeldRun(g, a) /\ HeldFrom(g, e, n)
        BY <2>3, <4>1, <4>2, RunGrows
      <4>4. HeldFrom(g, t.held, n)
        BY <4>2, <4>3 DEF HeldFrom
      <4> QED BY <4>2, <4>3, <4>4
    <3>2. CASE Follows(t, d) /\ ev.t.held = Append(t.held, d)
      <4>1. PICK g, e : g = Append(e, Video!Datagram(n)) /\ e = t.held /\ g = ev.t.held
        BY <1>1, <3>2
      <4>2. e \in Seq(Sends) /\ HeldRun(e, a) /\ n = e[Len(e)].payload + 1
        BY <1>4, <1>8, <3>2, <4>1
      <4>3. HeldRun(g, a) /\ HeldFrom(g, e, n)
        BY <2>3, <4>1, <4>2, RunGrows
      <4> QED BY <4>1, <4>3
    <3> QED BY <2>2, <3>1, <3>2
  <2>5. Adds(r.frames, x.frames, 1 .. n)
    BY <1>7, <2>1, AddsNothing DEF Alike
  <2> QED BY <1>3, <1>5, <1>7, <2>1, <2>3, <2>4, <2>5 DEF Taken, Watched
<1>10. CASE ev.kind # "held"
  <2>1. ev.t.held = <<>> /\ (ev.readmit = <<>> \/ (Follows(t, d) /\ ev.readmit = t.held))
    BY <1>5, <1>10, Zenon DEF Watched
  <2>2. HeldRun(ev.t.held, a) /\ HeldFrom(ev.t.held, r.t.held, n)
    BY <2>1, NothingHeld
  <2>3. Receives(x, a) /\ x.t = ev.t /\ Adds(r.frames, x.frames, 1 .. n)
    <3>1. CASE ev.kind = "late" /\ Video!FrameOf(n) # r.cur.num
      <4>1. x = [seen EXCEPT !.lost.stale = @ + 1]
        BY <1>1, <1>2, <1>6, <1>10, <3>1 DEF Video!Process
      <4>2. \E z : x = [seen EXCEPT !.lost = z]
        BY <4>1, Zenon
      <4>3. PICK z : x = [seen EXCEPT !.lost = z]
        BY <4>2, Zenon
      <4>4. Receives(x, a) /\ x.t = seen.t /\ Alike(x, seen)
        BY <1>7, <4>3, Recounted
      <4> QED BY <1>7, <4>4, AddsNothing DEF Alike
    <3>2. CASE ~(ev.kind = "late" /\ Video!FrameOf(n) # r.cur.num)
      <4>1. PICK y : y = Video!Readmit(seen, ev.readmit)
        OBVIOUS
      <4>2. x = Video!Apply(y, n)
        BY <1>1, <1>2, <1>6, <1>10, <3>2, <4>1 DEF Video!Process
      <4>3. Receives(y, a) /\ y.t = seen.t /\ Adds(seen.frames, y.frames, 1 .. n - 1)
        <5>1. CASE ev.readmit = <<>>
          <6>1. y = seen
            BY <4>1, <5>1, ReadmitNothing
          <6> QED BY <1>7, <6>1, AddsNothing
        <5>2. CASE Follows(t, d) /\ ev.readmit = t.held
          <6>1. PICK h \in Seq(Sends) : h = t.held
            BY <1>8
          <6>2. PICK k \in Nat : k = Len(h)
            OBVIOUS
          <6>3. n = h[k].payload + 1
            BY <1>4, <5>2, <6>1, <6>2
          <6>4. ASSUME NEW i \in 1 .. k
                PROVE  a[h[i].payload] = 2 /\ h[i].payload \in 1 .. n - 1
            <7>1. a[h[i].payload] = 2 /\ h[i].payload + (k - i) = h[k].payload
              BY <1>4, <6>1, <6>2 DEF HeldRun
            <7>2. h[i] \in Sends
              BY <6>2
            <7>3. PICK p \in 1 .. VideoSent : p = h[i].payload
              BY <7>2, SendsAre
            <7>4. p + (k - i) = n - 1
              <8>1. PICK q : q = h[k].payload
                OBVIOUS
              <8>2. h[k] \in Sends
                BY <6>2
              <8>3. q \in 1 .. VideoSent
                BY <8>1, <8>2, SendsAre
              <8> QED BY <6>3, <7>1, <7>3, <8>1, <8>3, FilmNumbers
            <7> QED BY <7>1, <7>3, <7>4
          <6>5. y = Video!Readmit(seen, h)
            BY <4>1, <5>2, <6>1
          <6>6. /\ \A i \in 1 .. Len(h) : a[h[i].payload] = 2
                /\ \A i \in 1 .. Len(h) : h[i].payload \in 1 .. n - 1
            BY <6>2, <6>4
          <6>7. PICK Q : Q = 1 .. n - 1
            OBVIOUS
          <6>8. Seconds(h, a, Q)
            BY <6>6, <6>7 DEF Seconds
          <6>9. Adding(y, seen, a, Q)
            BY ONLY <1>7, <6>5, <6>8, FewTwice(a), Readmits, h \in Seq(Sends)
          <6> QED BY <6>7, <6>9 DEF Adding
        <5> QED BY <2>1, <5>1, <5>2
      <4>4. Adds(r.frames, y.frames, 1 .. n - 1)
        BY <1>7, <4>3 DEF Alike
      <4>5. Outlives(y.frames, n, a)
        BY <1>4, <4>4, OutlivesNew
      <4>6. Receives(x, a) /\ x.t = y.t /\ Adds(y.frames, x.frames, {n})
        BY <1>4, <4>2, <4>3, <4>5, Applies
      <4>7. 1 .. n - 1 \subseteq 1 .. n /\ {n} \subseteq 1 .. n
        OBVIOUS
      <4> QED BY ONLY <1>7, <4>3, <4>4, <4>6, <4>7, AddsMore
    <3> QED BY <3>1, <3>2
  <2> QED BY <1>5, <2>1, <2>2, <2>3 DEF Taken, Watched
<1> QED BY <1>9, <1>10

(* A datagram arrives: a is what came before it, b with it, w and v are the  *)
(* newest of each.                                                           *)
Twice(a) == {k \in 1 .. VideoSent : a[k] = 2}

Lands(n, a, b, w, v) ==
  /\ n <= w + MaxLost + 1 /\ w <= n + VideoLate
  /\ a[n] = 0 \/ (a[n] = 1 /\ Cardinality(Twice(a)) < MaxTwice)
  /\ b = [a EXCEPT ![n] = @ + 1]
  /\ v = IF n > w THEN n ELSE w

Arrivals(a, w) ==
  /\ a \in [1 .. VideoSent -> 0 .. 2] /\ w \in 0 .. VideoSent
  /\ \A k \in 1 .. VideoSent : a[k] >= 1 => k <= w
  /\ FewTwice(a)

Onward(a, b) ==
  \A k \in 1 .. VideoSent : (a[k] >= 1 => b[k] >= 1) /\ (a[k] = 2 => b[k] = 2)

Arrived(n, a, b, w, v) ==
  /\ Arrivals(b, v) /\ Onward(a, b) /\ b[n] >= 1
  /\ a[n] >= 1 => b[n] = 2
  /\ b[n] = 2 => n <= w /\ v = w
  /\ v <= n + VideoLate

LEMMA ArrivalsStep ==
    ASSUME NEW n \in 1 .. VideoSent, NEW a, NEW b, NEW w, NEW v,
           Arrivals(a, w), Lands(n, a, b, w, v)
    PROVE  Arrived(n, a, b, w, v)
<1>1. /\ a \in [1 .. VideoSent -> 0 .. 2] /\ w \in 0 .. VideoSent
      /\ \A k \in 1 .. VideoSent : a[k] >= 1 => k <= w
      /\ FewTwice(a)
  BY DEF Arrivals
<1>2. /\ n <= w + MaxLost + 1 /\ w <= n + VideoLate
      /\ a[n] = 0 \/ (a[n] = 1 /\ Cardinality(Twice(a)) < MaxTwice)
      /\ b = [a EXCEPT ![n] = @ + 1]
      /\ v = IF n > w THEN n ELSE w
  BY DEF Lands
<1>3. b[n] = a[n] + 1 /\ \A k \in 1 .. VideoSent : k # n => b[k] = a[k]
  BY <1>1, <1>2
<1>4. b \in [1 .. VideoSent -> 0 .. 2]
  BY <1>1, <1>2
<1>5. FewTwice(b)
  <2>1. IsFiniteSet(Twice(a))
    <3>1. IsFiniteSet(1 .. VideoSent)
      BY FilmNumbers, FS_Interval
    <3> QED BY <3>1, FS_Subset DEF Twice
  <2>2. Cardinality(Twice(a)) \in Nat /\ Cardinality(Twice(a)) <= MaxTwice
    BY <1>1, <2>1, FS_CardinalityType DEF FewTwice, Twice
  <2>3. CASE a[n] = 0
    <3>1. Twice(b) = Twice(a)
      BY <1>1, <1>3, <2>3 DEF Twice
    <3> QED BY <2>2, <3>1 DEF FewTwice, Twice
  <2>4. CASE a[n] # 0
    <3>1. Twice(b) = Twice(a) \cup {n} /\ Cardinality(Twice(a)) < MaxTwice
      BY <1>1, <1>2, <1>3, <2>4 DEF Twice
    <3>2. Cardinality(Twice(b)) <= Cardinality(Twice(a)) + 1
      BY <2>1, <2>2, <3>1, FS_AddElement
    <3>3. Cardinality(Twice(b)) <= MaxTwice
      <4>1. Cardinality(Twice(b)) \in Nat
        BY <2>1, <2>2, <3>1, FS_AddElement
      <4> QED BY ONLY <2>2, <3>1, <3>2, <4>1, FilmNumbers
    <3> QED BY <3>3 DEF FewTwice, Twice
  <2> QED BY <2>3, <2>4
<1>6. v \in 0 .. VideoSent /\ \A k \in 1 .. VideoSent : b[k] >= 1 => k <= v
  <2>1. v \in 0 .. VideoSent /\ w <= v /\ n <= v
    BY <1>1, <1>2, FilmNumbers
  <2>2. ASSUME NEW k \in 1 .. VideoSent, b[k] >= 1 PROVE k <= v
    <3>1. k = n \/ k <= w
      BY <1>1, <1>3, <2>2
    <3> QED BY <1>1, <2>1, <3>1, FilmNumbers
  <2> QED BY <2>1, <2>2
<1>7. Onward(a, b)
  BY <1>1, <1>2, <1>3 DEF Onward
<1>8. b[n] >= 1 /\ (a[n] >= 1 => b[n] = 2)
  BY <1>1, <1>2, <1>3
<1>9. b[n] = 2 => n <= w /\ v = w
  <2>1. b[n] = 2 => n <= w
    BY <1>1, <1>3
  <2>2. n <= w => v = w
    BY ONLY <1>1, <1>2, FilmNumbers, n \in 1 .. VideoSent
  <2> QED BY <2>1, <2>2
<1>10. v <= n + VideoLate
  BY ONLY <1>1, <1>2, FilmNumbers, n \in 1 .. VideoSent
<1> QED BY <1>4, <1>5, <1>6, <1>7, <1>8, <1>9, <1>10 DEF Arrived, Arrivals

LEMMA LaterGrows ==
    ASSUME NEW a, NEW b, Onward(a, b), NEW m \in 1 .. VideoSent, NEW f, Later(m, f, a)
    PROVE  Later(m, f, b)
BY DEF Onward, Later

LEMMA OutlivesGrows ==
    ASSUME NEW a, NEW b, Onward(a, b), NEW m \in 1 .. VideoSent, NEW fs, Outlives(fs, m, a)
    PROVE  Outlives(fs, m, b)
BY LaterGrows DEF Outlives

LEMMA ShowsGrows ==
    ASSUME NEW a, NEW b, Onward(a, b), NEW f, NEW s, Shows(f, s, a)
    PROVE  Shows(f, s, b)
BY DEF Onward, Shows

LEMMA ReceivesGrows ==
    ASSUME NEW a, NEW b, Onward(a, b), NEW r, Receives(r, a)
    PROVE  Receives(r, b)
<1>1. /\ IsReceiver(r) /\ (r.cur.num = Video!NoFrame => r.cur.lines = Video!Empty)
      /\ Shows(r.cur.num, r.cur.lines, a) /\ Finished(r.frames, r.marked, a)
      /\ InOrder(r.frames)
      /\ \A l \in DOMAIN r.cur.lines : Outlives(r.frames, r.cur.lines[l], a)
  BY DEF Receives
<1>2. Shows(r.cur.num, r.cur.lines, b)
  BY <1>1, ShowsGrows
<1>3. Finished(r.frames, r.marked, b)
  BY <1>1, ShowsGrows DEF Finished
<1>4. ASSUME NEW l \in DOMAIN r.cur.lines PROVE Outlives(r.frames, r.cur.lines[l], b)
  <2>1. PICK m \in 1 .. VideoSent : m = r.cur.lines[l]
    BY <1>1 DEF Shows
  <2>2. Outlives(r.frames, m, a)
    BY <1>1, <2>1
  <2> QED BY <2>1, <2>2, OutlivesGrows
<1> QED BY <1>1, <1>2, <1>3, <1>4 DEF Receives

LEMMA RunKept ==
    ASSUME NEW a, NEW b, Onward(a, b), NEW h \in Seq(Sends), HeldRun(h, a)
    PROVE  HeldRun(h, b)
<1> SUFFICES ASSUME NEW i \in 1 .. Len(h)
             PROVE  /\ b[h[i].payload] = 2
                    /\ h[i].payload + (Len(h) - i) = h[Len(h)].payload
  BY DEF HeldRun
<1>1. PICK m \in 1 .. VideoSent : m = h[i].payload
  <2>1. h[i] \in Sends
    OBVIOUS
  <2> QED BY <2>1, SendsAre
<1>2. a[m] = 2
  BY <1>1 DEF HeldRun
<1>3. b[m] = 2
  BY <1>2 DEF Onward
<1> QED BY <1>1, <1>3 DEF HeldRun

(* What arrives can still be used when a frame has been finished: all of the *)
(* frame has arrived, so this is not late by more than the network delays.   *)
LEMMA ComesOutlives ==
    ASSUME NEW n \in 1 .. VideoSent, NEW a, NEW b, NEW w, NEW v,
           Arrivals(a, w), Lands(n, a, b, w, v), NEW r, Receives(r, a)
    PROVE  Outlives(r.frames, n, b)
<1> SUFFICES ASSUME NEW i \in 1 .. Len(r.frames), r.frames[i].marked
             PROVE  Later(n, r.frames[i].num, b)
  BY DEF Outlives
<1>1. PICK p \in Pictures : p = r.frames[i]
  BY DEF Receives, IsReceiver
<1>2. PICK f \in Nat : f = p.num
  BY <1>1 DEF Pictures
<1>3. Shows(f, p.lines, a) /\ Whole(p.lines)
  BY <1>1, <1>2 DEF Receives, Finished
<1>4. PICK k \in Int : k = Base(f)
  BY BaseIs
<1>5. \A l \in 0 .. Lines - 1 : k + l + 1 \in 1 .. VideoSent /\ a[k + l + 1] >= 1
  BY <1>3, <1>4 DEF Shows, Whole
<1>6. w \in Nat /\ (\A j \in 1 .. VideoSent : a[j] >= 1 => j <= w) /\ w <= n + VideoLate
  BY DEF Arrivals, Lands
<1>7. k + Lines <= w
  <2>1. Lines - 1 \in 0 .. Lines - 1 /\ k + (Lines - 1) + 1 = k + Lines
    BY FilmNumbers
  <2> QED BY <1>5, <1>6, <2>1
<1>8. CASE n <= k
  <2>1. k + Lines <= n + VideoLate
    BY ONLY <1>4, <1>6, <1>7, FilmNumbers, n \in 1 .. VideoSent
  <2> QED BY <1>1, <1>2, <1>4, <1>8, <2>1 DEF Later
<1>9. CASE n > k /\ n <= k + Lines
  <2>1. n - k - 1 \in 0 .. Lines - 1 /\ k + (n - k - 1) + 1 = n
    BY ONLY <1>4, <1>9, FilmNumbers, n \in 1 .. VideoSent
  <2>2. a[n] >= 1
    BY <1>5, <2>1
  <2>3. b[n] = 2
    BY <2>2, ArrivalsStep DEF Arrived
  <2> QED BY <2>3 DEF Later
<1>10. CASE n > k + Lines
  BY <1>1, <1>2, <1>4, <1>10 DEF Later
<1>11. n <= k \/ (n > k /\ n <= k + Lines) \/ n > k + Lines
  BY ONLY <1>4, FilmNumbers, n \in 1 .. VideoSent
<1> QED BY <1>8, <1>9, <1>10, <1>11

(* What the receiver is between two datagrams.                               *)
Near(h, w) == \A i \in 1 .. Len(h) : h[i].payload <= w /\ w <= h[i].payload + VideoLate

Processed(a, p) == {k \in 1 .. VideoSent : a[k] >= 1 /\ (p = k => a[k] = 2)}

PutOff(fs, a, w, p) ==
  p \in 1 .. VideoSent =>
    /\ p = 1 /\ Video!NumberOf(1) = 0
    /\ a[1] >= 1 /\ w <= 1 + VideoLate /\ Outlives(fs, 1, a)

Filming(r, a, w, p) ==
  /\ Arrivals(a, w) /\ Receives(r, a)
  /\ IsWatch(r.t) /\ Knows(r.t, Processed(a, p))
  /\ w > 0 => r.t.highest # Video!None
  /\ HeldRun(r.t.held, a) /\ Near(r.t.held, w)
  /\ PutOff(r.frames, a, w, p)

LEMMA KnowsMore ==
    ASSUME NEW t, NEW S, NEW T, S \subseteq T, Knows(t, S)
    PROVE  Knows(t, T)
BY DEF Knows

LEMMA KnownBefore ==
    ASSUME NEW t, NEW S, Knows(t, S), NEW n \in 1 .. VideoSent, KnownTo(t, Video!Datagram(n))
    PROVE  n \in S
BY SendIs DEF Knows, KnownTo

LEMMA FollowsNear ==
    ASSUME first \in Int, NEW t, t.held \in Seq(Sends), NEW w \in Nat, Near(t.held, w),
           NEW n \in 1 .. VideoSent, n <= w + MaxLost + 1, w <= n + VideoLate,
           Follows(t, Video!Datagram(n))
    PROVE  n = t.held[Len(t.held)].payload + 1
<1>1. PICK h \in Seq(Sends) : h = t.held
  OBVIOUS
<1>2. PICK k \in Nat : k = Len(h)
  OBVIOUS
<1>3. h # <<>> /\ Video!NumberOf(n) = Video!Plus(h[k].seq, 1)
  BY <1>1, <1>2, SendIs DEF Follows
<1>4. k \in 1 .. k /\ h[k] \in Sends
  BY <1>2, <1>3
<1>5. PICK p \in 1 .. VideoSent : p = h[k].payload
  BY <1>4, SendsAre
<1>6. h[k].seq = Video!NumberOf(p)
  BY <1>4, <1>5, SendsAre, SendIs
<1>7. p <= w /\ w <= p + VideoLate
  BY <1>1, <1>2, <1>4, <1>5 DEF Near
<1>8. n - p - 1 < Modulus /\ p + 1 - n < Modulus
  <2>1. p \in Int /\ n \in Int
    OBVIOUS
  <2> QED BY ONLY <1>7, <2>1, FilmNumbers, w \in Nat, n <= w + MaxLost + 1, w <= n + VideoLate
<1>9. n = p + 1
  BY <1>3, <1>6, <1>8, NumberBehind
<1> QED BY <1>1, <1>2, <1>5, <1>9

LEMMA NothingNear == ASSUME NEW w PROVE Near(<<>>, w)
<1>1. Len(<<>>) = 0
  OBVIOUS
<1> QED BY <1>1 DEF Near

(* After the datagram that arrived has been processed.                       *)
LEMMA Consumed ==
    ASSUME NEW n \in 1 .. VideoSent, NEW a, NEW b, NEW w, NEW v,
           Arrivals(a, w), Lands(n, a, b, w, v),
           NEW y, IsWatch(y.t), Near(y.t.held, w), NEW S, S \subseteq Processed(b, 0),
           NEW x, Taken(x, y, n, b, S)
    PROVE  Filming(x, b, v, 0)
<1>1. Arrived(n, a, b, w, v)
  BY ArrivalsStep
<1>2. /\ Receives(x, b) /\ IsWatch(x.t) /\ Knows(x.t, S)
      /\ x.t.highest # Video!None
      /\ HeldRun(x.t.held, b) /\ HeldFrom(x.t.held, y.t.held, n)
      /\ x.t.held # <<>> => b[n] = 2
  BY DEF Taken
<1>3. Knows(x.t, Processed(b, 0))
  BY <1>2, KnowsMore
<1>4. Near(x.t.held, v)
  <2>1. CASE x.t.held = <<>>
    BY <2>1, NothingNear
  <2>2. CASE x.t.held # <<>>
    <3>1. n <= w /\ v = w /\ w <= n + VideoLate
      BY <1>1, <1>2, <2>2 DEF Arrived, Lands
    <3>2. PICK h : h = x.t.held
      OBVIOUS
    <3>3. ASSUME NEW i \in 1 .. Len(h)
          PROVE  h[i].payload <= w /\ w <= h[i].payload + VideoLate
      <4>1. h[i].payload = n \/ \E j \in 1 .. Len(y.t.held) : h[i] = y.t.held[j]
        BY <1>2, <3>2, <3>3 DEF HeldFrom
      <4> QED BY <3>1, <4>1 DEF Near
    <3> QED BY <3>1, <3>2, <3>3 DEF Near
  <2> QED BY <2>1, <2>2
<1>5. PutOff(x.frames, b, v, 0)
  <2>1. 0 \notin 1 .. VideoSent
    OBVIOUS
  <2> QED BY <2>1 DEF PutOff
<1> QED BY <1>1, <1>2, <1>3, <1>4, <1>5 DEF Filming, Arrived

(* A datagram that is processed at once.                                     *)
LEMMA FitsNow ==
    ASSUME first \in Int, NEW n \in 1 .. VideoSent, NEW a, NEW b, NEW w, NEW v, NEW p,
           NEW r, Filming(r, a, w, p), Lands(n, a, b, w, v)
    PROVE  Fit(r, n, b, Processed(a, p) \cup {n})
<1>1. /\ Arrivals(a, w) /\ Receives(r, a)
      /\ IsWatch(r.t) /\ Knows(r.t, Processed(a, p))
      /\ w > 0 => r.t.highest # Video!None
      /\ HeldRun(r.t.held, a) /\ Near(r.t.held, w)
  BY DEF Filming
<1>2. Arrived(n, a, b, w, v)
  BY <1>1, ArrivalsStep
<1>3. Onward(a, b) /\ b[n] >= 1 /\ (a[n] >= 1 => b[n] = 2)
  BY <1>2 DEF Arrived
<1>4. r.t.held \in Seq(Sends)
  BY <1>1, WatchIs
<1>5. Receives(r, b) /\ Outlives(r.frames, n, b) /\ HeldRun(r.t.held, b)
  BY <1>1, <1>3, <1>4, ReceivesGrows, RunKept, ComesOutlives
<1>6. Knows(r.t, Processed(a, p) \cup {n})
  BY <1>1, KnowsMore
<1>7. KnownTo(r.t, Video!Datagram(n)) => b[n] = 2
  BY <1>1, <1>3, KnownBefore DEF Processed
<1>8. r.t.held # <<>> => r.t.highest # Video!None
  <2>1. SUFFICES ASSUME r.t.held # <<>> PROVE w > 0
    BY <1>1
  <2>2. PICK h \in Seq(Sends) : h = r.t.held
    BY <1>4
  <2>3. 1 \in 1 .. Len(h) /\ h[1] \in Sends
    BY <2>1, <2>2
  <2>4. PICK q \in 1 .. VideoSent : q = h[1].payload
    BY <2>3, SendsAre
  <2>5. q <= w
    BY <1>1, <2>2, <2>3, <2>4 DEF Near
  <2> QED BY <1>1, <2>5 DEF Arrivals
<1>9. Follows(r.t, Video!Datagram(n)) => n = r.t.held[Len(r.t.held)].payload + 1
  <2>1. w \in Nat /\ n <= w + MaxLost + 1 /\ w <= n + VideoLate
    BY <1>1 DEF Arrivals, Lands
  <2>2. PICK t : t = r.t
    OBVIOUS
  <2>3. t.held \in Seq(Sends) /\ Near(t.held, w)
    BY <1>1, <1>4, <2>2
  <2>4. Follows(t, Video!Datagram(n)) => n = t.held[Len(t.held)].payload + 1
    BY ONLY <2>1, <2>3, FollowsNear, first \in Int, n \in 1 .. VideoSent
  <2> QED BY <2>2, <2>4
<1> QED BY <1>1, <1>3, <1>5, <1>6, <1>7, <1>8, <1>9 DEF Fit

(* The first datagram of the stream, put off until the second came.          *)
LEMMA FitsFirst ==
    ASSUME first \in Int, NEW n \in 1 .. VideoSent, NEW a, NEW b, NEW w, NEW v, NEW p,
           NEW r, Filming(r, a, w, p), Lands(n, a, b, w, v), p \in 1 .. VideoSent
    PROVE  /\ p = 1 /\ 1 \in 1 .. VideoSent /\ Video!NumberOf(1) = 0
           /\ 1 <= w /\ w <= 1 + VideoLate /\ b[1] >= 1
           /\ Fit(r, 1, b, Processed(a, p) \cup {1})
<1>1. /\ Arrivals(a, w) /\ Receives(r, a)
      /\ IsWatch(r.t) /\ Knows(r.t, Processed(a, p))
      /\ HeldRun(r.t.held, a) /\ Near(r.t.held, w)
  BY DEF Filming
<1>2. /\ p = 1 /\ 1 \in 1 .. VideoSent /\ Video!NumberOf(1) = 0
      /\ a[1] >= 1 /\ w <= 1 + VideoLate /\ Outlives(r.frames, 1, a)
  BY DEF Filming, PutOff
<1>3. w \in Nat /\ 1 <= w
  BY <1>1, <1>2 DEF Arrivals
<1>4. Fit(r, n, b, Processed(a, p) \cup {n}) /\ Arrived(n, a, b, w, v)
  BY <1>1, FitsNow, ArrivalsStep
<1>5. Onward(a, b)
  BY <1>4 DEF Arrived
<1>6. Outlives(r.frames, 1, b) /\ b[1] >= 1
  BY <1>2, <1>5, OutlivesGrows DEF Onward
<1>7. KnownTo(r.t, Video!Datagram(1)) => b[1] = 2
  <2>1. KnownTo(r.t, Video!Datagram(1)) => 1 \in Processed(a, p)
    BY <1>1, <1>2, KnownBefore
  <2> QED BY <1>2, <1>5, <2>1 DEF Processed, Onward
<1>8. Follows(r.t, Video!Datagram(1)) => 1 = r.t.held[Len(r.t.held)].payload + 1
  <2>1. PICK t, m : t = r.t /\ m = 1
    OBVIOUS
  <2>2. /\ t.held \in Seq(Sends) /\ Near(t.held, w)
        /\ m \in 1 .. VideoSent /\ m <= w + MaxLost + 1 /\ w <= m + VideoLate
    BY <1>1, <1>2, <1>3, <2>1, WatchIs, FilmNumbers
  <2>3. Follows(t, Video!Datagram(m)) => m = t.held[Len(t.held)].payload + 1
    BY ONLY <1>3, <2>2, FollowsNear, first \in Int
  <2> QED BY <2>1, <2>3
<1>9. Knows(r.t, Processed(a, p) \cup {1})
  BY <1>1, KnowsMore
<1>10. Fit(r, 1, b, Processed(a, p) \cup {1})
  BY <1>4, <1>6, <1>7, <1>8, <1>9 DEF Fit
<1> QED BY <1>2, <1>3, <1>6, <1>10

LEMMA FitsSecond ==
    ASSUME first \in Int, NEW n \in 1 .. VideoSent, NEW a, NEW b, NEW w, NEW v, NEW p,
           NEW r, Filming(r, a, w, p), Lands(n, a, b, w, v), p \in 1 .. VideoSent,
           Video!NumberOf(n) = 1,
           NEW S, S = Processed(a, p) \cup {1}, NEW y, Taken(y, r, 1, b, S)
    PROVE  Fit(y, n, b, S \cup {n}) /\ Near(y.t.held, w)
<1>1. /\ 1 \in 1 .. VideoSent /\ Video!NumberOf(1) = 0
      /\ 1 <= w /\ w <= 1 + VideoLate /\ b[1] >= 1
  BY FitsFirst
<1>2. n # 1 /\ n \in 2 .. VideoSent
  BY <1>1
<1>3. /\ Arrivals(a, w) /\ Receives(r, a) /\ IsWatch(r.t) /\ Near(r.t.held, w)
  BY DEF Filming
<1>4. Arrived(n, a, b, w, v)
  BY <1>3, ArrivalsStep
<1>5. /\ Receives(y, b) /\ IsWatch(y.t) /\ Knows(y.t, S)
      /\ y.t.highest # Video!None
      /\ HeldRun(y.t.held, b) /\ HeldFrom(y.t.held, r.t.held, 1)
      /\ Adds(r.frames, y.frames, 1 .. 1)
  BY DEF Taken
<1>6. Outlives(y.frames, n, b)
  <2>1. Adds(r.frames, y.frames, 1 .. n - 1)
    <3>1. PICK Q, T : Q = 1 .. 1 /\ T = 1 .. n - 1
      OBVIOUS
    <3>2. {} \subseteq T /\ Q \subseteq T
      BY <1>2, <3>1
    <3>3. Adds(r.frames, r.frames, {}) /\ Adds(r.frames, y.frames, Q)
      BY <1>5, <3>1, AddsNothing
    <3>4. Adds(r.frames, y.frames, T)
      BY ONLY <3>2, <3>3, AddsMore
    <3> QED BY <3>1, <3>4
  <2>2. Outlives(r.frames, n, b)
    BY <1>3, ComesOutlives
  <2> QED BY <2>1, <2>2, OutlivesNew
<1>7. KnownTo(y.t, Video!Datagram(n)) => b[n] = 2
  <2>1. KnownTo(y.t, Video!Datagram(n)) => n \in S
    BY <1>5, KnownBefore
  <2> QED BY <1>2, <1>4, <2>1 DEF Processed, Arrived
<1>8. Near(y.t.held, w)
  <2>1. PICK h : h = y.t.held
    OBVIOUS
  <2>2. ASSUME NEW i \in 1 .. Len(h)
        PROVE  h[i].payload <= w /\ w <= h[i].payload + VideoLate
    <3>1. h[i].payload = 1 \/ \E j \in 1 .. Len(r.t.held) : h[i] = r.t.held[j]
      BY <1>5, <2>1, <2>2 DEF HeldFrom
    <3> QED BY <1>1, <1>3, <3>1 DEF Near
  <2> QED BY <2>1, <2>2 DEF Near
<1>9. Follows(y.t, Video!Datagram(n)) => n = y.t.held[Len(y.t.held)].payload + 1
  <2>1. w \in Nat /\ n <= w + MaxLost + 1 /\ w <= n + VideoLate
    BY <1>3 DEF Arrivals, Lands
  <2>2. PICK t : t = y.t
    OBVIOUS
  <2>3. t.held \in Seq(Sends) /\ Near(t.held, w)
    BY <1>5, <1>8, <2>2, WatchIs
  <2>4. Follows(t, Video!Datagram(n)) => n = t.held[Len(t.held)].payload + 1
    BY ONLY <2>1, <2>3, FollowsNear, first \in Int, n \in 1 .. VideoSent
  <2> QED BY <2>2, <2>4
<1>10. Knows(y.t, S \cup {n})
  BY <1>5, KnowsMore
<1>11. b[n] >= 1
  BY <1>4 DEF Arrived
<1> QED BY <1>5, <1>6, <1>7, <1>8, <1>9, <1>10, <1>11 DEF Fit

(* A datagram numbered 0 is put off.                                         *)
LEMMA PutsOff ==
    ASSUME first \in Int, NEW n \in 1 .. VideoSent, NEW a, NEW b, NEW w, NEW v, NEW p,
           NEW r, Filming(r, a, w, p), Lands(n, a, b, w, v),
           n = 1, Video!NumberOf(1) = 0, r.t.highest # Video!None
    PROVE  Filming(r, b, v, n)
<1>1. /\ Arrivals(a, w) /\ Receives(r, a)
      /\ IsWatch(r.t) /\ Knows(r.t, Processed(a, p))
      /\ HeldRun(r.t.held, a) /\ Near(r.t.held, w)
  BY DEF Filming
<1>2. Fit(r, n, b, Processed(a, p) \cup {n}) /\ Arrived(n, a, b, w, v)
  BY <1>1, FitsNow, ArrivalsStep
<1>3. /\ Arrivals(b, v) /\ Onward(a, b) /\ b[n] >= 1 /\ (a[n] >= 1 => b[n] = 2)
      /\ v <= n + VideoLate
  BY <1>2 DEF Arrived
<1>4. Receives(r, b) /\ HeldRun(r.t.held, b) /\ Outlives(r.frames, n, b)
  BY <1>2 DEF Fit
<1>5. Knows(r.t, Processed(b, n))
  <2>1. Processed(a, p) \subseteq Processed(b, n)
    BY <1>3 DEF Processed, Onward
  <2> QED BY <1>1, <2>1, KnowsMore
<1>6. Near(r.t.held, v)
  <2>1. PICK h \in Seq(Sends) : h = r.t.held
    BY <1>1, WatchIs
  <2>2. CASE h = <<>>
    BY <2>1, <2>2, NothingNear
  <2>3. CASE h # <<>>
    <3>1. 1 \in 1 .. Len(h) /\ h[1] \in Sends
      BY <2>3
    <3>2. PICK q \in 1 .. VideoSent : q = h[1].payload
      BY <3>1, SendsAre
    <3>3. q <= w
      BY <1>1, <2>1, <3>1, <3>2 DEF Near
    <3>4. v = w
      <4>1. w \in Nat /\ q >= 1 /\ q \in Int
        BY <1>1, <3>2 DEF Arrivals
      <4>2. v = IF n > w THEN n ELSE w
        BY DEF Lands
      <4> QED BY ONLY <3>3, <4>1, <4>2, n = 1
    <3> QED BY <1>1, <3>4
  <2> QED BY <2>2, <2>3
<1>7. PutOff(r.frames, b, v, n)
  BY <1>3, <1>4 DEF PutOff
<1> QED BY <1>1, <1>3, <1>4, <1>5, <1>6, <1>7 DEF Filming

FilmInv ==
  /\ first \in Int /\ pending \in 0 .. VideoSent + 1
  /\ Filming(Video!Receiver, arrived, newest, pending)

LEMMA FilmKeeps ==
    ASSUME FilmInv, first' = first, pending' \in 0 .. VideoSent + 1,
           NEW r, Video!Becomes(r), Filming(r, arrived', newest', pending')
    PROVE  FilmInv'
<1>1. Sends' = Sends
  BY DEF Sends, Video!Datagram, Video!NumberOf, Video!TailId
<1>2. IsReceiver(r)
  BY DEF Filming, Receives
<1>3. Video!Receiver' = r
  BY <1>2 DEF Video!Becomes, Video!Receiver, IsReceiver
<1>4. Filming(Video!Receiver, arrived, newest, pending)'
  <2>1. /\ Arrivals(arrived', newest') /\ Receives(r, arrived')
        /\ IsWatch(r.t) /\ Knows(r.t, Processed(arrived', pending'))
        /\ newest' > 0 => r.t.highest # Video!None
        /\ HeldRun(r.t.held, arrived') /\ Near(r.t.held, newest')
        /\ PutOff(r.frames, arrived', newest', pending')
    BY DEF Filming
  <2>2. IsWatch(Video!Receiver.t)'
    BY <1>1, <1>3, <2>1 DEF IsWatch
  <2>3. PutOff(Video!Receiver.frames, arrived, newest, pending)'
    BY <1>3, <2>1 DEF PutOff, Video!NumberOf, Video!TailId
  <2> QED BY <1>3, <2>1, <2>2, <2>3 DEF Filming
<1> QED BY <1>4 DEF FilmInv

LEMMA FilmingLost ==
    ASSUME NEW r, NEW a, NEW w, NEW p, Filming(r, a, w, p), NEW y, y = Video!DiscardZero(r)
    PROVE  Filming(y, a, w, p) /\ y.t = r.t
<1>1. Receives(r, a)
  BY DEF Filming
<1>2. CASE y = r
  BY <1>2
<1>3. CASE y # r
  <2>1. \E z : y = [r EXCEPT !.lost = z]
    BY <1>3, Zenon DEF Video!DiscardZero
  <2>2. PICK z : y = [r EXCEPT !.lost = z]
    BY <2>1, Zenon
  <2>3. Receives(y, a) /\ y.t = r.t /\ Alike(y, r)
    BY <1>1, <2>2, Recounted
  <2> QED BY <2>3 DEF Filming, Alike
<1> QED BY <1>2, <1>3

LEMMA LineStep ==
    ASSUME FilmInv, NEW n \in 1 .. VideoSent, Video!Line(n)
    PROVE  FilmInv'
<1>1. PICK a, b, w, v, p, r : /\ a = arrived /\ b = arrived' /\ w = newest /\ v = newest'
                              /\ p = pending /\ r = Video!Receiver
  OBVIOUS
<1>2. /\ first \in Int /\ first' = first /\ p \in 0 .. VideoSent + 1
      /\ Filming(r, a, w, p)
  BY <1>1 DEF FilmInv, Video!Line
<1>3. Lands(n, a, b, w, v) /\ (p = VideoSent + 1 => Video!NumberOf(n) # 1)
  <2>1. Arrivals(a, w)
    BY <1>2 DEF Filming
  <2>2. /\ n <= w + MaxLost + 1 /\ w <= n + VideoLate
        /\ a[n] = 0 \/ (a[n] = 1 /\ Cardinality(Twice(a)) < MaxTwice)
        /\ b = [a EXCEPT ![n] = @ + 1]
        /\ v = IF n > w THEN n ELSE w
    <3>1. Video!Arrives(n)
      BY DEF Video!Line
    <3>2. n <= w + MaxLost + 1 /\ n + VideoLate >= w /\ b = [a EXCEPT ![n] = @ + 1]
          /\ v = IF n > w THEN n ELSE w
      BY <1>1, <3>1 DEF Video!Arrives
    <3>3. a[n] = 0 \/ (a[n] = 1 /\ Cardinality(Twice(a)) < MaxTwice)
      <4>1. Twice(a) = {k \in 1 .. VideoSent : arrived[k] = 2}
        BY <1>1 DEF Twice
      <4>2. PICK T : T = {k \in 1 .. VideoSent : arrived[k] = 2}
        OBVIOUS
      <4>3. IF arrived[n] = 0 THEN TRUE ELSE arrived[n] = 1 /\ Video!Cardinality(T) < MaxTwice
        BY ONLY <3>1, <4>2, Zenon DEF Video!Arrives
      <4>4. Video!Cardinality(T) = Cardinality(T)
        BY DEF Video!Cardinality, Cardinality
      <4> QED BY <1>1, <4>1, <4>2, <4>3, <4>4
    <3>4. w <= n + VideoLate
      <4>1. w \in Nat
        BY <2>1 DEF Arrivals
      <4> QED BY ONLY <3>2, <4>1, FilmNumbers, n \in 1 .. VideoSent
    <3> QED BY <3>2, <3>3, <3>4
  <2>3. p = VideoSent + 1 => Video!NumberOf(n) # 1
    BY <1>1 DEF Video!Line, Video!Arrives, Video!TailId
  <2> QED BY <2>2, <2>3 DEF Lands
<1>4. /\ Arrivals(a, w) /\ IsWatch(r.t) /\ Near(r.t.held, w)
      /\ Arrived(n, a, b, w, v) /\ Onward(a, b) /\ b[n] >= 1
  BY <1>2, <1>3, ArrivalsStep DEF Filming, Arrived
<1>5. PICK y : y = Video!DiscardZero(r)
  OBVIOUS
<1>6. Filming(y, a, w, p) /\ y.t = r.t
  BY <1>2, <1>5, FilmingLost
<1>7. r.t = tracker
  BY <1>1 DEF Video!Receiver
<1>8. CASE Video!IsZero(n) /\ tracker.highest # Video!None
  <2>1. pending' = n /\ Video!Becomes(y)
    BY <1>1, <1>5, <1>8 DEF Video!Line, Video!Receive
  <2>2. n = 1 /\ Video!NumberOf(1) = 0
    <3>1. Video!NumberOf(n) = 0 /\ Video!FrameOf(n) = 0 /\ Video!LineOf(n) = 0
      BY <1>8 DEF Video!IsZero
    <3>2. n = Base(0) + 0 + 1
      BY <3>1, FrameLine
    <3> QED BY <3>1, <3>2, BaseIs
  <2>3. Filming(y, b, v, n)
    BY <1>2, <1>3, <1>6, <1>7, <1>8, <2>2, PutsOff
  <2>4. n \in 0 .. VideoSent + 1
    BY FilmNumbers
  <2> QED BY <1>1, <1>2, <2>1, <2>3, <2>4, FilmKeeps
<1>9. CASE ~(Video!IsZero(n) /\ tracker.highest # Video!None)
  <2>1. PICK u : u = IF p # 0 /\ Video!NumberOf(n) = 1 THEN Video!Process(r, p) ELSE y
    OBVIOUS
  <2>2. PICK x : x = Video!Process(u, n)
    OBVIOUS
  <2>3. pending' = 0 /\ Video!Becomes(x)
    BY <1>1, <1>5, <1>9, <2>1, <2>2, Zenon DEF Video!Line, Video!Receive
  <2>4. FewTwice(b)
    BY <1>4 DEF Arrived, Arrivals
  <2>5. PICK S : S \subseteq Processed(b, 0) /\ Fit(u, n, b, S) /\ Near(u.t.held, w)
    <3>1. CASE p # 0 /\ Video!NumberOf(n) = 1
      <4>1. p \in 1 .. VideoSent
        BY <1>2, <1>3, <3>1, FilmNumbers
      <4>2. PICK T : T = Processed(a, p) \cup {1}
        OBVIOUS
      <4>3. p = 1 /\ 1 \in 1 .. VideoSent /\ b[1] >= 1 /\ Fit(r, 1, b, T)
        BY <1>2, <1>3, <4>1, <4>2, FitsFirst
      <4>4. u = Video!Process(r, 1)
        BY <2>1, <3>1, <4>3
      <4>5. Taken(u, r, 1, b, T)
        BY <1>2, <2>4, <4>3, <4>4, Processes
      <4>6. Fit(u, n, b, T \cup {n}) /\ Near(u.t.held, w)
        BY <1>2, <1>3, <3>1, <4>1, <4>2, <4>5, FitsSecond
      <4>7. T \cup {n} \subseteq Processed(b, 0)
        BY <1>4, <4>2, <4>3 DEF Processed, Onward
      <4> QED BY <4>6, <4>7
    <3>2. CASE ~(p # 0 /\ Video!NumberOf(n) = 1)
      <4>1. u = y
        BY <2>1, <3>2
      <4>2. Fit(u, n, b, Processed(a, p) \cup {n})
        BY <1>2, <1>3, <1>6, <4>1, FitsNow
      <4>3. Processed(a, p) \cup {n} \subseteq Processed(b, 0)
        BY <1>4 DEF Processed, Onward
      <4> QED BY <1>4, <1>6, <4>1, <4>2, <4>3
    <3> QED BY <3>1, <3>2
  <2>6. Taken(x, u, n, b, S)
    BY <1>2, <2>2, <2>4, <2>5, Processes
  <2>7. Filming(x, b, v, 0)
    <3>1. IsWatch(u.t)
      BY <2>5 DEF Fit
    <3> QED BY ONLY <1>3, <1>4, <2>5, <2>6, <3>1, Consumed, n \in 1 .. VideoSent
  <2>8. 0 \in 0 .. VideoSent + 1
    BY FilmNumbers
  <2> QED BY <1>1, <1>2, <2>3, <2>7, <2>8, FilmKeeps
<1> QED BY <1>8, <1>9

LEMMA StopTailStep ==
    ASSUME FilmInv, Video!StopTail
    PROVE  FilmInv'
<1>1. PICK a, w, p, r : /\ a = arrived /\ w = newest /\ p = pending /\ r = Video!Receiver
  OBVIOUS
<1>2. /\ first \in Int /\ Filming(r, a, w, p) /\ r.t = tracker
      /\ first' = first /\ arrived' = a /\ newest' = w /\ w > 0
      /\ Video!Receive(Video!TailId)
  BY <1>1 DEF FilmInv, Video!StopTail, Video!Receiver
<1>3. PICK y : y = Video!DiscardZero(r)
  OBVIOUS
<1>4. Filming(y, a, w, p) /\ y.t = r.t
  BY <1>2, <1>3, FilmingLost
<1>5. Video!TailId = VideoSent + 1 /\ Video!TailId \in 0 .. VideoSent + 1
      /\ Video!TailId \notin 1 .. VideoSent
  BY FilmNumbers DEF Video!TailId
<1>6. pending' = Video!TailId /\ Video!Becomes(y)
  <2>1. Video!IsZero(Video!TailId)
    BY DEF Video!IsZero, Video!NumberOf, Video!FrameOf, Video!LineOf
  <2>2. tracker.highest # Video!None
    BY <1>2 DEF Filming
  <2> QED BY <1>1, <1>2, <1>3, <2>1, <2>2 DEF Video!Receive
<1>7. Filming(y, a, w, Video!TailId)
  <2>1. Knows(y.t, Processed(a, p))
    BY <1>4 DEF Filming
  <2>2. Processed(a, p) \subseteq Processed(a, Video!TailId)
    BY <1>5 DEF Processed
  <2>3. Knows(y.t, Processed(a, Video!TailId))
    BY <2>1, <2>2, KnowsMore
  <2>4. PutOff(y.frames, a, w, Video!TailId)
    BY <1>5 DEF PutOff
  <2> QED BY <1>4, <2>3, <2>4 DEF Filming
<1> QED BY <1>2, <1>5, <1>6, <1>7, FilmKeeps

LEMMA StopFilmStep ==
    ASSUME FilmInv, Video!Stop
    PROVE  FilmInv'
<1>1. PICK a, w, p, r : /\ a = arrived /\ w = newest /\ p = pending /\ r = Video!Receiver
  OBVIOUS
<1>2. /\ first \in Int /\ Filming(r, a, w, p)
      /\ first' = first /\ arrived' = a /\ newest' = w /\ pending' = 0
  BY <1>1 DEF FilmInv, Video!Stop
<1>3. PICK y : y = Video!DiscardZero(r)
  OBVIOUS
<1>4. Filming(y, a, w, p) /\ y.t = r.t
  BY <1>2, <1>3, FilmingLost
<1>5. PICK u : u = Video!FlushHeld(y.t)
  OBVIOUS
<1>6. PICK z : z = [y EXCEPT !.t = u]
  OBVIOUS
<1>7. PICK x : x = Video!Finalize(z, FALSE)
  OBVIOUS
<1>8. Video!Becomes(x)
  BY <1>1, <1>3, <1>5, <1>6, <1>7 DEF Video!Stop
<1>9. /\ Arrivals(a, w) /\ Receives(y, a)
      /\ IsWatch(y.t) /\ Knows(y.t, Processed(a, p))
      /\ w > 0 => y.t.highest # Video!None
  BY <1>4 DEF Filming
<1>10. /\ IsWatch(u) /\ Knows(u, Processed(a, p)) /\ u.held = <<>>
       /\ u.highest = y.t.highest
  <2>1. PICK t, S : t = y.t /\ S = Processed(a, p)
    OBVIOUS
  <2>2. IsWatch(t) /\ Knows(t, S) /\ u = Video!FlushHeld(t)
    BY <1>5, <1>9, <2>1
  <2>3. IsWatch(u) /\ Knows(u, S) /\ u.held = <<>> /\ u.highest = t.highest
    BY ONLY <2>2, WatchFlushes
  <2> QED BY <2>1, <2>3
<1>11. Receives(z, a) /\ z.t = u
  BY <1>6, <1>9, Retracked
<1>12. Receives(x, a) /\ x.t = u
  BY <1>7, <1>11, FrameLeft
<1>13. Filming(x, a, w, 0)
  <2>1. Knows(x.t, Processed(a, 0))
    <3>1. Processed(a, p) \subseteq Processed(a, 0)
      BY DEF Processed
    <3> QED BY <1>10, <1>12, <3>1, KnowsMore
  <2>2. HeldRun(x.t.held, a) /\ Near(x.t.held, w)
    BY <1>10, <1>12, NothingHeld, NothingNear
  <2>3. PutOff(x.frames, a, w, 0)
    <3>1. 0 \notin 1 .. VideoSent
      OBVIOUS
    <3> QED BY <3>1 DEF PutOff
  <2> QED BY <1>9, <1>10, <1>12, <2>1, <2>2, <2>3 DEF Filming
<1>14. 0 \in 0 .. VideoSent + 1
  BY FilmNumbers
<1> QED BY <1>2, <1>8, <1>13, <1>14, FilmKeeps

LEMMA FilmBegins == Video!VideoInit => FilmInv
<1> SUFFICES ASSUME Video!VideoInit PROVE FilmInv
  OBVIOUS
<1>1. PICK a, t : a = arrived /\ t = Video!Fresh
  OBVIOUS
<1>2. /\ first \in Int /\ newest = 0 /\ pending = 0 /\ marked = FALSE /\ frames = <<>>
      /\ tracker = t /\ current = [num |-> Video!NoFrame, lines |-> Video!Empty]
      /\ a = [n \in 1 .. VideoSent |-> 0]
  BY <1>1, FilmNumbers DEF Video!VideoInit
<1>3. Arrivals(a, 0)
  <2>1. {k \in 1 .. VideoSent : a[k] = 2} = {}
    BY <1>2
  <2>2. FewTwice(a)
    BY <2>1, FilmNumbers, FS_EmptySet DEF FewTwice
  <2> QED BY <1>2, <2>2, FilmNumbers DEF Arrivals
<1>4. /\ t.held = <<>> /\ t.got = Video!Empty
      /\ t = [highest |-> t.highest, owed |-> t.owed, got |-> t.got, held |-> <<>>,
              dropped |-> t.dropped, resyncs |-> t.resyncs, discarded |-> t.discarded]
  BY <1>1 DEF Video!Fresh
<1>5. IsWatch(t)
  <2>1. <<>> \in Seq(Sends)
    OBVIOUS
  <2> QED BY <1>4, <2>1 DEF IsWatch
<1>6. Knows(t, Processed(a, 0))
  <2>1. Len(t.held) = 0
    BY <1>4
  <2>2. DOMAIN t.got = {}
    <3>1. t.got = Video!Empty
      BY <1>4
    <3> QED BY ONLY <3>1, EmptySheet
  <2> QED BY ONLY <2>1, <2>2 DEF Knows
<1>7. PICK r : r = Video!Receiver
  OBVIOUS
<1>8. /\ r.t = t /\ r.marked = FALSE /\ r.frames = <<>>
      /\ r.cur.num = Video!NoFrame /\ r.cur.lines = Video!Empty
      /\ IsReceiver(r)
  <2>1. PICK fs \in Seq(Pictures) : fs = <<>>
    <3>1. <<>> \in Seq(Pictures)
      OBVIOUS
    <3> QED BY ONLY <3>1, Zenon
  <2>2. PICK c : c = current
    OBVIOUS
  <2>3. c \in [num : Nat \cup {Video!NoFrame}, lines : Sheets]
    BY <1>2, <2>2, EmptySheet
  <2>4. PICK m : m = FALSE
    OBVIOUS
  <2>5. r = [t |-> t, cur |-> c, marked |-> m, frames |-> fs, lost |-> lost]
    BY <1>2, <1>7, <2>1, <2>2, <2>4 DEF Video!Receiver
  <2>6. IsReceiver(r) /\ r.t = t /\ r.cur = c /\ r.marked = m /\ r.frames = fs
    BY <2>1, <2>3, <2>4, <2>5 DEF IsReceiver
  <2> QED BY <1>2, <2>1, <2>2, <2>4, <2>6
<1>9. Receives(r, a)
  <2>1. Len(<<>>) = 0
    OBVIOUS
  <2> QED BY <1>8, <2>1, EmptySheet DEF Receives, Shows, Finished, InOrder
<1>10. Filming(r, a, 0, 0)
  <2>1. PutOff(r.frames, a, 0, 0)
    <3>1. 0 \notin 1 .. VideoSent
      OBVIOUS
    <3> QED BY <3>1 DEF PutOff
  <2> QED BY <1>3, <1>4, <1>5, <1>6, <1>8, <1>9, <2>1, NothingHeld, NothingNear DEF Filming
<1> QED BY <1>1, <1>2, <1>7, <1>10, FilmNumbers DEF FilmInv

LEMMA FilmStep ==
    FilmInv /\ [Video!VideoNext]_(Video!wvars) => FilmInv'
<1>1. ASSUME FilmInv, UNCHANGED Video!wvars PROVE FilmInv'
  <2>1. PICK r : r = Video!Receiver
    OBVIOUS
  <2>2. /\ first' = first /\ pending' = pending /\ arrived' = arrived /\ newest' = newest
        /\ tracker' = tracker /\ current' = current /\ marked' = marked
        /\ frames' = frames /\ lost' = lost
    BY ONLY <1>1, Zenon DEF Video!wvars
  <2>3. Video!Becomes(r)
    BY <2>1, <2>2 DEF Video!Receiver, Video!Becomes
  <2>4. Filming(r, arrived', newest', pending') /\ pending' \in 0 .. VideoSent + 1
    BY <1>1, <2>1, <2>2 DEF FilmInv
  <2> QED BY <1>1, <2>2, <2>3, <2>4, FilmKeeps
<1>2. ASSUME FilmInv, Video!VideoNext PROVE FilmInv'
  BY <1>2, LineStep, StopTailStep, StopFilmStep DEF Video!VideoNext
<1> QED BY <1>1, <1>2

LEMMA FramesFollow == FilmInv => Video!FramesAreWhole
<1> SUFFICES ASSUME FilmInv PROVE Video!FramesAreWhole
  OBVIOUS
<1>1. Receives(Video!Receiver, arrived)
  BY DEF FilmInv, Filming
<1>2. /\ frames \in Seq(Pictures) /\ Finished(frames, marked, arrived) /\ InOrder(frames)
  BY <1>1 DEF Receives, IsReceiver, Video!Receiver
<1>3. ASSUME NEW i \in 1 .. Len(frames)
      PROVE  /\ \A l \in DOMAIN frames[i].lines :
                  frames[i].lines[l] = frames[i].num * Lines + l + 1
             /\ frames[i].marked => DOMAIN frames[i].lines = 0 .. (Lines - 1)
  BY <1>2 DEF Finished, Shows, Whole, Base
<1> QED BY <1>2, <1>3 DEF Video!FramesAreWhole, InOrder

(* For every stream and every capture: a frame the capture hands out has its *)
(* own lines and all of them once a first end has been seen, and no frame    *)
(* comes twice or out of order.                                              *)
THEOREM FramesAreKept == RunSpec => []FramesAreWhole
<1> DEFINE I == subject = "video" => FilmInv
<1>1. RunInit => I
  BY SubjectBegins, FilmBegins
<1>2. I /\ [RunNext]_allvars => I'
  BY SubjectMoves, FilmStep
<1>3. I => FramesAreWhole
  BY FramesFollow DEF FramesAreWhole
<1> QED BY <1>1, <1>2, <1>3, PTL DEF RunSpec
=============================================================================
