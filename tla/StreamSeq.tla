------------------------------- MODULE StreamSeq -------------------------------
(***************************************************************************)
(* SequenceTracker (_stream_seq.py), the accounting the three UDP stream   *)
(* receivers share: what a datagram's 16-bit number means after the ones   *)
(* that came before it.  A tracker is a record, observing a datagram       *)
(* yields an event and the tracker's next value.  _missing is kept in two  *)
(* books: the numbers still owed, and, for those that have arrived late,   *)
(* the book of what was received.  `reordered' is only a count and left    *)
(* out.                                                                    *)
(***************************************************************************)
EXTENDS Integers, Sequences

CONSTANTS
  Modulus,   \* numbers there are: 2^16
  Window,    \* window: how far back the tracker remembers
  MaxHeld    \* MAX_HELD_DUPLICATES

Half == Modulus \div 2
None == Modulus
Plus(s, n) == (s + n) % Modulus
Minus(s, n) == (s + Modulus - (n % Modulus)) % Modulus
Empty == [s \in {} |-> 0]

Fresh == [highest |-> None, owed |-> Empty, got |-> Empty, held |-> <<>>,
          dropped |-> 0, resyncs |-> 0, discarded |-> 0]

Age(t, s) == Minus(t.highest, s)
Behind(t, s) == Minus(s, t.highest + 1) >= Half
Owed(t, s) == s \in DOMAIN t.owed /\ Age(t, s) < Window
SeenIdentical(t, s, digest) ==
  Age(t, s) < Window /\ s \in DOMAIN t.got /\ t.got[s] = digest

Put(book, s, v) == [x \in DOMAIN book \cup {s} |-> IF x = s THEN v ELSE book[x]]
Young(book, high) == [s \in {x \in DOMAIN book : Minus(high, x) < Window} |-> book[s]]

\* _advance, with _prune of both books.
Advance(t, s, digest) ==
  [t EXCEPT !.highest = s,
            !.got = Young(Put(t.got, s, digest), s),
            !.owed = Young(t.owed, s)]

\* flush_held: the held datagrams were duplicates.
FlushHeld(t) == [t EXCEPT !.held = <<>>, !.discarded = @ + Len(t.held)]

\* An event: what the caller does with the datagram, the numbers a gap
\* skipped, oldest first, with how many older ones are not remembered, the
\* slot of a late one, and the held datagrams to keep ahead of this one.
Event(kind, tracker) ==
  [kind |-> kind, t |-> tracker, gap |-> <<>>, untracked |-> 0, slot |-> 0, readmit |-> <<>>]

Forget(t) == [t EXCEPT !.owed = Empty, !.got = Empty, !.resyncs = @ + 1]

HoldBack(t, d) == [t EXCEPT !.held = Append(@, d)]

Gap(t, d) ==
  LET gap == Minus(d.seq, t.highest + 1)
      tracked == IF gap < Window THEN gap ELSE Window - 1
      skipped == [i \in 1..tracked |-> Minus(d.seq, tracked + 1 - i)]
      numbers == {skipped[i] : i \in 1..tracked}
      owed == [s \in DOMAIN t.owed \cup numbers |-> IF s \in numbers THEN 0 ELSE t.owed[s]]
  IN  [Event("gap", Advance([t EXCEPT !.dropped = @ + gap, !.owed = owed], d.seq, d.digest))
         EXCEPT !.gap = skipped, !.untracked = gap - tracked]

\* A number that was owed comes after all and goes into the slot kept for it.
Late(t, d) ==
  [Event("late", [t EXCEPT !.dropped = @ - 1,
                           !.got = Put(@, d.seq, d.digest),
                           !.owed = [s \in DOMAIN t.owed \ {d.seq} |-> t.owed[s]]])
     EXCEPT !.slot = t.owed[d.seq]]

\* _classify.
Classify(t, d) ==
  IF t.highest = None \/ d.seq = Plus(t.highest, 1)
  THEN Event("next", Advance(t, d.seq, d.digest))
  ELSE IF ~Behind(t, d.seq) THEN Gap(t, d)
  ELSE IF Owed(t, d.seq) THEN Late(t, d)
  ELSE IF SeenIdentical(t, d.seq, d.digest) THEN Event("held", HoldBack(t, d))
  ELSE Event("resync", Advance(Forget(t), d.seq, d.digest))

\* The books of a stream that began with the held datagrams and this one.
Reopened(t, d) ==
  LET numbers == {t.held[i].seq : i \in 1..Len(t.held)}
      digestOf(s) == t.held[CHOOSE i \in 1..Len(t.held) : t.held[i].seq = s].digest
  IN  Advance([Forget(t) EXCEPT !.got = [s \in numbers |-> digestOf(s)], !.held = <<>>],
              d.seq, d.digest)

\* Mutant: a receiver that goes on with the new datagram only.
RestartLosing(t, d) == Event("resync", Reopened(t, d))

\* _restart: the held run continued, so the held datagrams were a new stream's.
Restart(t, d) == [Event("resync", Reopened(t, d)) EXCEPT !.readmit = t.held]

Continues(t, d) ==
  /\ t.held # <<>>
  /\ d.seq = Plus(t.held[Len(t.held)].seq, 1)
  /\ Behind(t, d.seq) /\ ~Owed(t, d.seq)

\* observe.
Observe(t, d) ==
  IF ~Continues(t, d) THEN Classify(FlushHeld(t), d)
  ELSE IF SeenIdentical(t, d.seq, d.digest) /\ Len(t.held) < MaxHeld
       THEN Event("held", HoldBack(t, d))
       ELSE Restart(t, d)

\* bind: the slot the caller gave a number it is owed.
Bind(t, slotOf) ==
  [t EXCEPT !.owed = [s \in DOMAIN t.owed |->
                        IF s \in DOMAIN slotOf THEN slotOf[s] ELSE t.owed[s]]]
=============================================================================
