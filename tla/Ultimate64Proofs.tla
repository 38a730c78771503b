------------------------- MODULE Ultimate64Proofs ---------------------------
(* Proofs about the client's side of one Ultimate 64, a component at a time. *)
(* The ledger of /Temp, for any number of threads, clients and files: what   *)
(* the sweep at every handover is for, that no attachment escapes the        *)
(* counts, and which files a sweep spares.  The storage, for any number of   *)
(* calls; memory writes of any length; keys for a KERNAL buffer of any size; *)
(* the probe, for any number of probes; the identity records, for any number *)
(* of holds and moves; the configuration, for any slots and any number of    *)
(* calls.                                                                    *)
EXTENDS MCUltimate64, FiniteSetTheorems, SequenceTheorems, WellFoundedInduction, TLAPS

-----------------------------------------------------------------------------
(* Sums over a finite set                                                   *)

LEMMA RowSize ==
    ASSUME NEW x, NEW n \in Nat
    PROVE  IsFiniteSet({x} \X (1 .. n)) /\ Cardinality({x} \X (1 .. n)) = n
<1> DEFINE g == [i \in 1 .. n |-> <<x, i>>]
<1>1. g \in Bijection(1 .. n, {x} \X (1 .. n))
  BY DEF Bijection, Injection, Surjection, IsInjective
<1>2. IsFiniteSet(1 .. n) /\ Cardinality(1 .. n) = n
  BY FS_Interval
<1> HIDE DEF g
<1>3. ExistsBijection(1 .. n, {x} \X (1 .. n))
  BY <1>1 DEF ExistsBijection
<1> QED BY <1>2, <1>3, FS_Bijection

LEMMA CellsOfMember ==
    ASSUME NEW f, NEW S, NEW x \in S
    PROVE  /\ Cells(f, S) = Cells(f, S \ {x}) \cup ({x} \X (1 .. f[x]))
           /\ Cells(f, S \ {x}) \cap ({x} \X (1 .. f[x])) = {}
  BY DEF Cells

(* An induction over the finite subsets of S, by its least counterexample.  *)
LEMMA CellsFinite ==
    ASSUME NEW f, NEW S, IsFiniteSet(S), \A x \in S : f[x] \in Nat
    PROVE  IsFiniteSet(Cells(f, S))
<1> DEFINE bad == {T \in SUBSET S : ~IsFiniteSet(Cells(f, T))}
<1>1. SUFFICES ASSUME bad # {} PROVE FALSE
  <2>1. S \in SUBSET S
    OBVIOUS
  <2> QED BY <2>1
<1>2. IsWellFoundedOn(StrictSubsetOrdering(S), SUBSET S)
  BY FS_StrictSubsetOrderingWellFounded, FS_FiniteSubsetsOfFinite
<1>3. bad \subseteq SUBSET S
  OBVIOUS
<1> HIDE DEF bad
<1>4. PICK T \in bad : \A U \in bad : <<U, T>> \notin StrictSubsetOrdering(S)
  BY <1>1, <1>2, <1>3, WFMin
<1>5. T \in SUBSET S /\ ~IsFiniteSet(Cells(f, T))
  BY <1>4 DEF bad
<1>6. CASE T = {}
  <2>1. Cells(f, T) = {}
    BY <1>6 DEF Cells
  <2> QED BY <1>5, <2>1, FS_EmptySet
<1>7. ASSUME NEW x \in T PROVE FALSE
  <2>1. T \ {x} \in SUBSET S /\ T \ {x} \subseteq T /\ T \ {x} # T
    BY <1>5
  <2>2. <<T \ {x}, T>> \in StrictSubsetOrdering(S)
    BY <1>5, <2>1 DEF StrictSubsetOrdering
  <2>3. IsFiniteSet(Cells(f, T \ {x}))
    BY <1>4, <2>1, <2>2 DEF bad
  <2>4. IsFiniteSet({x} \X (1 .. f[x]))
    BY <1>5, RowSize
  <2>5. Cells(f, T) = Cells(f, T \ {x}) \cup ({x} \X (1 .. f[x]))
    BY CellsOfMember
  <2>6. IsFiniteSet(Cells(f, T \ {x}) \cup ({x} \X (1 .. f[x])))
    BY <2>3, <2>4, FS_Union
  <2> QED BY <1>5, <2>5, <2>6
<1> QED BY <1>6, <1>7

LEMMA TotalType ==
    ASSUME NEW f, NEW S, IsFiniteSet(S), \A x \in S : f[x] \in Nat
    PROVE  Total(f, S) \in Nat
  BY CellsFinite, FS_CardinalityType DEF Total

LEMMA TotalOfMember ==
    ASSUME NEW f, NEW S, IsFiniteSet(S), \A x \in S : f[x] \in Nat, NEW x \in S
    PROVE  Total(f, S) = Total(f, S \ {x}) + f[x]
<1> DEFINE row == {x} \X (1 .. f[x])
           rest == Cells(f, S \ {x})
<1>1. IsFiniteSet(row) /\ Cardinality(row) = f[x]
  BY RowSize
<1>2. IsFiniteSet(S \ {x}) /\ \A y \in S \ {x} : f[y] \in Nat
  BY FS_RemoveElement
<1>3. IsFiniteSet(rest)
  BY <1>2, CellsFinite
<1>4. Cells(f, S) = rest \cup row /\ rest \cap row = {}
  BY CellsOfMember
<1> HIDE DEF row, rest
<1>5. Cardinality(rest) \in Nat /\ Cardinality(rest \cap row) = 0
  BY <1>3, <1>4, FS_CardinalityType, FS_EmptySet
<1>6. Cardinality(rest \cup row) =
        Cardinality(rest) + Cardinality(row) - Cardinality(rest \cap row)
  BY <1>1, <1>3, FS_Union
<1>7. Total(f, S) = Cardinality(rest) + f[x] - 0
  BY <1>1, <1>4, <1>5, <1>6 DEF Total
<1>8. Cardinality(rest) = Total(f, S \ {x})
  BY DEF Total, rest
<1> QED BY <1>5, <1>7, <1>8

LEMMA TotalSame ==
    ASSUME NEW f, NEW g, NEW S, \A x \in S : f[x] = g[x]
    PROVE  Total(f, S) = Total(g, S)
<1>1. Cells(f, S) = Cells(g, S)
  BY DEF Cells
<1> QED BY <1>1 DEF Total

LEMMA TotalOfPart ==
    ASSUME NEW f, NEW S, IsFiniteSet(S), \A x \in S : f[x] \in Nat,
           NEW T \in SUBSET S
    PROVE  Total(f, T) <= Total(f, S)
<1>1. Cells(f, T) \in SUBSET Cells(f, S) /\ IsFiniteSet(Cells(f, S))
  BY CellsFinite DEF Cells
<1> QED BY <1>1, FS_Subset DEF Total

LEMMA TotalOfNone == ASSUME NEW f PROVE Total(f, {}) = 0
  BY FS_EmptySet DEF Total, Cells

LEMMA TotalOfZeros ==
    ASSUME NEW f, NEW S, \A x \in S : f[x] = 0 PROVE Total(f, S) = 0
<1>1. Cells(f, S) = {}
  BY DEF Cells
<1> QED BY <1>1, FS_EmptySet DEF Total

(* A sum, member or not.                                                    *)
LEMMA TotalOfOther ==
    ASSUME NEW f, NEW S, IsFiniteSet(S), \A y \in S : f[y] \in Nat,
           NEW x, NEW R, R = S \ {x}
    PROVE  /\ x \in S => Total(f, S) = Total(f, R) + f[x]
           /\ x \notin S => Total(f, S) = Total(f, R)
           /\ Total(f, R) \in Nat
<1>1. Total(f, R) \in Nat
  <2>1. IsFiniteSet(S \ {x})
    BY FS_RemoveElement
  <2> QED BY <2>1, TotalType
<1>2. CASE x \in S
  <2>1. Total(f, S) = Total(f, S \ {x}) + f[x]
    BY <1>2, TotalOfMember
  <2> QED BY <1>1, <1>2, <2>1
<1>3. CASE x \notin S
  <2>1. S = R
    BY <1>3
  <2>2. Total(f, S) = Total(f, R)
    BY <2>1, Zenon
  <2> QED BY <1>1, <1>3, <2>2
<1> QED BY <1>2, <1>3

(* What the open reservations of a set of threads come to.                  *)
LEMMA OpenType ==
    ASSUME NEW r \in [Threads -> Reservations], NEW S \in SUBSET Threads
    PROVE  /\ IsFiniteSet(S) /\ \A t \in S : Open(r)[t] \in Nat
           /\ Total(Open(r), S) \in Nat
<1>1. IsFiniteSet(S)
  BY LedgerAssumption, FS_Subset
<1>2. \A t \in S : Open(r)[t] \in Nat
  BY DEF Open, Reservations
<1> QED BY <1>1, <1>2, TotalType

LEMMA OpenOfOther ==
    ASSUME NEW r \in [Threads -> Reservations], NEW t \in Threads,
           NEW S \in SUBSET Threads, NEW R, R = S \ {t}
    PROVE  /\ Total(Open(r), S) =
                Total(Open(r), R) + (IF t \in S THEN r[t].count ELSE 0)
           /\ Total(Open(r), R) \in Nat
<1> DEFINE f == Open(r)
<1>1. IsFiniteSet(S) /\ \A u \in S : f[u] \in Nat
  BY OpenType
<1>2. f[t] = r[t].count
  BY DEF Open
<1> HIDE DEF f
<1>3. /\ t \in S => Total(f, S) = Total(f, R) + f[t]
      /\ t \notin S => Total(f, S) = Total(f, R)
      /\ Total(f, R) \in Nat
  BY <1>1, TotalOfOther
<1> QED BY <1>2, <1>3 DEF f

LEMMA OpenSame ==
    ASSUME NEW r, NEW q, NEW S \in SUBSET Threads,
           \A t \in S : q[t].count = r[t].count
    PROVE  Total(Open(q), S) = Total(Open(r), S)
<1>1. \A t \in S : Open(q)[t] = Open(r)[t]
  BY DEF Open
<1> QED BY <1>1, TotalSame

(* One reservation changes.                                                 *)
PartOf(S, t, r) == IF t \in S THEN r[t].count ELSE 0

LEMMA OpenChanged ==
    ASSUME NEW r \in [Threads -> Reservations],
           NEW q \in [Threads -> Reservations],
           NEW t \in Threads, \A u \in Threads : u # t => q[u].count = r[u].count,
           NEW S \in SUBSET Threads, NEW T \in SUBSET Threads,
           \A u \in Threads : u # t => (u \in S <=> u \in T)
    PROVE  \E n \in Nat :
              /\ Total(Open(r), S) = n + PartOf(S, t, r)
              /\ Total(Open(q), T) = n + PartOf(T, t, q)
<1> DEFINE R == S \ {t}
<1>1. R = S \ {t} /\ R \in SUBSET Threads /\ R = T \ {t}
  OBVIOUS
<1>2. \A u \in R : q[u].count = r[u].count
  OBVIOUS
<1> HIDE DEF R
<1>3. Total(Open(q), R) = Total(Open(r), R)
  BY <1>1, <1>2, OpenSame
<1>4. /\ Total(Open(r), S) = Total(Open(r), R) + PartOf(S, t, r)
      /\ Total(Open(r), R) \in Nat
  <2>1. R = S \ {t}
    BY <1>1
  <2> QED BY <2>1, OpenOfOther DEF PartOf
<1>5. Total(Open(q), T) = Total(Open(q), R) + PartOf(T, t, q)
  <2>1. ASSUME NEW A, A = T \ {t}
        PROVE  Total(Open(q), T) = Total(Open(q), A) + PartOf(T, t, q)
    BY <2>1, OpenOfOther DEF PartOf
  <2>2. R = T \ {t}
    BY <1>1
  <2> QED BY <2>1, <2>2
<1> QED BY <1>3, <1>4, <1>5

(* An open reservation is part of what is in flight.                        *)
LEMMA OpenOfOne ==
    ASSUME NEW r \in [Threads -> Reservations], NEW S \in SUBSET Threads,
           NEW t \in S
    PROVE  r[t].count \in Nat /\ r[t].count <= Total(Open(r), S)
<1>1. PICK R : R = S \ {t}
  OBVIOUS
<1>2. /\ Total(Open(r), S) = Total(Open(r), R) + r[t].count
      /\ Total(Open(r), R) \in Nat
  BY <1>1, OpenOfOther
<1>3. r[t].count \in Nat
  BY DEF Reservations
<1> QED BY <1>2, <1>3

-----------------------------------------------------------------------------
(* The books                                                                *)

LEMMA SharesChanged ==
    ASSUME NEW o \in [Clients -> Nat], NEW q \in [Clients -> Nat],
           NEW c \in Clients, \A d \in Clients : d # c => q[d] = o[d]
    PROVE  \E n \in Nat : Total(o, Clients) = n + o[c] /\ Total(q, Clients) = n + q[c]
<1>1. PICK R : R = Clients \ {c}
  OBVIOUS
<1>2. IsFiniteSet(Clients)
  BY LedgerAssumption
<1>3. Total(o, Clients) = Total(o, R) + o[c] /\ Total(o, R) \in Nat
  BY <1>1, <1>2, TotalOfOther
<1>4. Total(q, Clients) = Total(q, R) + q[c]
  BY <1>1, <1>2, TotalOfOther
<1>5. Total(q, R) = Total(o, R)
  BY <1>1, TotalSame
<1> QED BY <1>3, <1>4, <1>5

(* The books only know some of the fields.                                  *)
LEMMA BooksSame ==
    ASSUME NEW l, NEW k, NEW o, NEW r, NEW q, Books(l, o, r),
           k.pending = l.pending, k.in_flight = l.in_flight,
           k.in_flight_armed = l.in_flight_armed,
           \A t \in Threads : /\ q[t].count = r[t].count
                              /\ q[t].armed = r[t].armed
                              /\ q[t].current = r[t].current
    PROVE  /\ Books(k, o, q)
           /\ Total(Open(q), Threads) = Total(Open(r), Threads)
           /\ Total(Open(q), ArmedIn(q)) = Total(Open(r), ArmedIn(r))
<1>1. \A S \in SUBSET Threads : Total(Open(q), S) = Total(Open(r), S)
  BY OpenSame
<1>2. /\ ArmedIn(q) = ArmedIn(r) /\ StaleIn(q) = StaleIn(r)
      /\ \A c \in Clients : CurrentOf(c, q) = CurrentOf(c, r)
  BY DEF ArmedIn, StaleIn, CurrentOf
<1>3. /\ Total(Open(q), Threads) = Total(Open(r), Threads)
      /\ Total(Open(q), ArmedIn(q)) = Total(Open(r), ArmedIn(r))
      /\ Total(Open(q), StaleIn(q)) = Total(Open(r), StaleIn(r))
      /\ \A c \in Clients : Total(Open(q), CurrentOf(c, q)) = Total(Open(r), CurrentOf(c, r))
  BY <1>1, <1>2 DEF ArmedIn, StaleIn, CurrentOf
<1> QED BY <1>3 DEF Books

(* t's request for n begins, and takes the ledger, the shares and the       *)
(* reservations from l, o, r to k, p, q.                                    *)
Begins(t, n, b, l, o, r, k, p, q) ==
    /\ t \in Threads /\ n \in Nat /\ b \in BOOLEAN
    /\ l \in Ledgers /\ o \in [Clients -> Nat] /\ r \in [Threads -> Reservations]
    /\ r[t].count = 0
    /\ k = Counted(l, n, b)
    /\ p \in [Clients -> Nat] /\ p[ClientOf[t]] = o[ClientOf[t]] + n
    /\ \A d \in Clients : d # ClientOf[t] => p[d] = o[d]
    /\ q \in [Threads -> Reservations]
    /\ q[t].count = n /\ q[t].armed = b /\ q[t].current = TRUE
    /\ \A u \in Threads : u # t => q[u] = r[u]

LEMMA ReserveBooks ==
    ASSUME NEW t, NEW n, NEW b, NEW l, NEW o, NEW r, NEW k, NEW p, NEW q,
           Begins(t, n, b, l, o, r, k, p, q), Books(l, o, r)
    PROVE  /\ Books(k, p, q)
           /\ k.pending = l.pending + n
           /\ k.armed_pending = (l.armed_pending \/ b)
           /\ Total(Open(q), Threads) = Total(Open(r), Threads) + n
           /\ ~b => Total(Open(q), ArmedIn(q)) = Total(Open(r), ArmedIn(r))
<1> USE DEF Begins
<1> DEFINE own_c == ClientOf[t]
<1>0. own_c \in Clients
  BY LedgerAssumption
<1>1. /\ k.pending = l.pending + n
      /\ k.armed_pending = (l.armed_pending \/ b)
      /\ k.in_flight = l.in_flight + n
      /\ b => k.in_flight_armed = l.in_flight_armed + n
      /\ ~b => k.in_flight_armed = l.in_flight_armed
      /\ l.pending \in Nat /\ l.in_flight \in Nat /\ l.in_flight_armed \in Nat
  BY DEF Counted, Ledgers
<1>5. Total(Open(q), Threads) = Total(Open(r), Threads) + n
  <2>1. PICK m \in Nat : /\ Total(Open(r), Threads) = m + PartOf(Threads, t, r)
                         /\ Total(Open(q), Threads) = m + PartOf(Threads, t, q)
    BY OpenChanged
  <2> QED BY <2>1 DEF PartOf
<1>6. /\ b => Total(Open(q), ArmedIn(q)) = Total(Open(r), ArmedIn(r)) + n
      /\ ~b => Total(Open(q), ArmedIn(q)) = Total(Open(r), ArmedIn(r))
  <2>1. /\ ArmedIn(r) \in SUBSET Threads /\ ArmedIn(q) \in SUBSET Threads
        /\ \A u \in Threads : u # t => (u \in ArmedIn(r) <=> u \in ArmedIn(q))
        /\ t \in ArmedIn(q) <=> b
    BY DEF ArmedIn
  <2>2. PICK m \in Nat :
            /\ Total(Open(r), ArmedIn(r)) = m + PartOf(ArmedIn(r), t, r)
            /\ Total(Open(q), ArmedIn(q)) = m + PartOf(ArmedIn(q), t, q)
    BY <2>1, OpenChanged
  <2> QED BY <2>1, <2>2 DEF PartOf
<1>7. Total(Open(q), StaleIn(q)) = Total(Open(r), StaleIn(r))
  <2>1. /\ StaleIn(r) \in SUBSET Threads /\ StaleIn(q) \in SUBSET Threads
        /\ \A u \in Threads : u # t => (u \in StaleIn(r) <=> u \in StaleIn(q))
        /\ t \notin StaleIn(q)
    BY DEF StaleIn
  <2>2. PICK m \in Nat :
            /\ Total(Open(r), StaleIn(r)) = m + PartOf(StaleIn(r), t, r)
            /\ Total(Open(q), StaleIn(q)) = m + PartOf(StaleIn(q), t, q)
    BY <2>1, OpenChanged
  <2>3. PartOf(StaleIn(r), t, r) = 0 /\ PartOf(StaleIn(q), t, q) = 0
    BY <2>1 DEF PartOf
  <2> QED BY <2>2, <2>3
<1>8. ASSUME NEW c \in Clients PROVE Total(Open(q), CurrentOf(c, q)) <= p[c]
  <2>1. /\ CurrentOf(c, r) \in SUBSET Threads /\ CurrentOf(c, q) \in SUBSET Threads
        /\ \A u \in Threads : u # t => (u \in CurrentOf(c, r) <=> u \in CurrentOf(c, q))
        /\ t \in CurrentOf(c, q) <=> c = own_c
    BY DEF CurrentOf
  <2>2. PICK m \in Nat :
            /\ Total(Open(r), CurrentOf(c, r)) = m + PartOf(CurrentOf(c, r), t, r)
            /\ Total(Open(q), CurrentOf(c, q)) = m + PartOf(CurrentOf(c, q), t, q)
    BY <2>1, OpenChanged
  <2>3. m <= o[c] /\ o[c] \in Nat
    BY <2>2 DEF Books, PartOf
  <2> QED BY <1>0, <2>1, <2>2, <2>3 DEF PartOf
<1>9. Total(p, Clients) = Total(o, Clients) + n
  <2>1. PICK m \in Nat : Total(o, Clients) = m + o[own_c] /\ Total(p, Clients) = m + p[own_c]
    BY <1>0, SharesChanged
  <2> QED BY <1>0, <2>1
<1>10. /\ Total(Open(r), Threads) \in Nat /\ Total(Open(r), ArmedIn(r)) \in Nat
       /\ Total(Open(r), StaleIn(r)) \in Nat /\ Total(o, Clients) \in Nat
  <2>1. \A S \in SUBSET Threads : Total(Open(r), S) \in Nat
    BY OpenType
  <2>2. IsFiniteSet(Clients)
    BY LedgerAssumption
  <2> QED BY <2>1, <2>2, TotalType DEF ArmedIn, StaleIn
<1>11. Books(k, p, q)
  BY <1>1, <1>5, <1>6, <1>7, <1>8, <1>9, <1>10 DEF Books
<1> QED BY <1>1, <1>5, <1>6, <1>10, <1>11

(* t's request ends, all but unsent of what it reserved tried.              *)
Ends(t, unsent, l, o, r, k, p, q) ==
    /\ t \in Threads /\ unsent \in Nat /\ unsent <= r[t].count
    /\ l \in Ledgers /\ o \in [Clients -> Nat] /\ r \in [Threads -> Reservations]
    /\ k = Ended(l, r[t].count, r[t].armed, unsent)
    /\ p \in [Clients -> Nat]
    /\ p[ClientOf[t]] = IF r[t].current THEN AtLeastZero(o[ClientOf[t]] - unsent)
                                        ELSE o[ClientOf[t]]
    /\ \A d \in Clients : d # ClientOf[t] => p[d] = o[d]
    /\ q \in [Threads -> Reservations] /\ q[t] = NoResv
    /\ \A u \in Threads : u # t => q[u] = r[u]

LEMMA EndBooks ==
    ASSUME NEW t, NEW unsent, NEW l, NEW o, NEW r, NEW k, NEW p, NEW q,
           Ends(t, unsent, l, o, r, k, p, q), Books(l, o, r)
    PROVE  /\ Books(k, p, q)
           /\ k.pending = AtLeastZero(l.pending - unsent)
           /\ k.armed_pending = l.armed_pending
           /\ Total(Open(r), Threads) = Total(Open(q), Threads) + r[t].count
           /\ r[t].armed => Total(Open(r), ArmedIn(r)) = Total(Open(q), ArmedIn(q)) + r[t].count
           /\ ~r[t].armed => Total(Open(r), ArmedIn(r)) = Total(Open(q), ArmedIn(q))
<1> USE DEF Ends
<1> DEFINE c0 == ClientOf[t]
           n == r[t].count
           b == r[t].armed
<1>0. /\ c0 \in Clients /\ n \in Nat /\ b \in BOOLEAN /\ r[t].current \in BOOLEAN
      /\ o[c0] \in Nat
  BY LedgerAssumption DEF Reservations
<1>1. /\ k.pending = AtLeastZero(l.pending - unsent)
      /\ k.armed_pending = l.armed_pending
      /\ k.in_flight = AtLeastZero(l.in_flight - n)
      /\ b => k.in_flight_armed = AtLeastZero(l.in_flight_armed - n)
      /\ ~b => k.in_flight_armed = l.in_flight_armed
      /\ l.pending \in Nat /\ l.in_flight \in Nat /\ l.in_flight_armed \in Nat
  BY DEF Ended, Ledgers
<1>2. q[t].count = 0 /\ q[t].armed = FALSE /\ q[t].current = FALSE
  BY DEF NoResv
<1>3. \A S \in SUBSET Threads : Total(Open(r), S) \in Nat /\ Total(Open(q), S) \in Nat
  BY OpenType
<1>4. Total(Open(r), Threads) = Total(Open(q), Threads) + n
  <2>1. PICK m \in Nat : /\ Total(Open(r), Threads) = m + PartOf(Threads, t, r)
                         /\ Total(Open(q), Threads) = m + PartOf(Threads, t, q)
    BY OpenChanged
  <2> QED BY <1>2, <2>1 DEF PartOf
<1>5. /\ b => Total(Open(r), ArmedIn(r)) = Total(Open(q), ArmedIn(q)) + n
      /\ ~b => Total(Open(r), ArmedIn(r)) = Total(Open(q), ArmedIn(q))
  <2>1. /\ ArmedIn(r) \in SUBSET Threads /\ ArmedIn(q) \in SUBSET Threads
        /\ \A u \in Threads : u # t => (u \in ArmedIn(r) <=> u \in ArmedIn(q))
        /\ t \in ArmedIn(r) <=> b
        /\ t \notin ArmedIn(q)
    BY <1>2 DEF ArmedIn
  <2>2. PICK m \in Nat :
            /\ Total(Open(r), ArmedIn(r)) = m + PartOf(ArmedIn(r), t, r)
            /\ Total(Open(q), ArmedIn(q)) = m + PartOf(ArmedIn(q), t, q)
    BY <2>1, OpenChanged
  <2> QED BY <1>0, <2>1, <2>2 DEF PartOf
<1>6. /\ r[t].current => Total(Open(r), StaleIn(r)) = Total(Open(q), StaleIn(q))
      /\ ~r[t].current => Total(Open(r), StaleIn(r)) = Total(Open(q), StaleIn(q)) + n
  <2>1. /\ StaleIn(r) \in SUBSET Threads /\ StaleIn(q) \in SUBSET Threads
        /\ \A u \in Threads : u # t => (u \in StaleIn(r) <=> u \in StaleIn(q))
        /\ t \in StaleIn(r) <=> ~r[t].current
    BY DEF StaleIn
  <2>2. PICK m \in Nat :
            /\ Total(Open(r), StaleIn(r)) = m + PartOf(StaleIn(r), t, r)
            /\ Total(Open(q), StaleIn(q)) = m + PartOf(StaleIn(q), t, q)
    BY <2>1, OpenChanged
  <2>3. PartOf(StaleIn(q), t, q) = 0
    BY <1>2 DEF PartOf
  <2> QED BY <1>0, <2>1, <2>2, <2>3 DEF PartOf
<1>7. ASSUME NEW c \in Clients PROVE Total(Open(q), CurrentOf(c, q)) <= p[c]
  <2>1. /\ CurrentOf(c, r) \in SUBSET Threads /\ CurrentOf(c, q) \in SUBSET Threads
        /\ \A u \in Threads : u # t => (u \in CurrentOf(c, r) <=> u \in CurrentOf(c, q))
        /\ t \in CurrentOf(c, r) <=> c = c0 /\ r[t].current
        /\ t \notin CurrentOf(c, q)
    BY <1>2 DEF CurrentOf
  <2>2. PICK m \in Nat :
            /\ Total(Open(r), CurrentOf(c, r)) = m + PartOf(CurrentOf(c, r), t, r)
            /\ Total(Open(q), CurrentOf(c, q)) = m + PartOf(CurrentOf(c, q), t, q)
    BY <2>1, OpenChanged
  <2>3. Total(Open(r), CurrentOf(c, r)) <= o[c] /\ o[c] \in Nat
    BY DEF Books
  <2>4. Total(Open(q), CurrentOf(c, q)) = m
    BY <2>1, <2>2 DEF PartOf
  <2>5. CASE c = c0 /\ r[t].current
    <3>1. m + n <= o[c]
      BY <2>1, <2>2, <2>3, <2>5 DEF PartOf
    <3>2. p[c] = AtLeastZero(o[c] - unsent)
      BY <2>5
    <3> QED BY <1>0, <2>2, <2>3, <2>4, <3>1, <3>2 DEF AtLeastZero
  <2>6. CASE ~(c = c0 /\ r[t].current)
    <3>1. m <= o[c]
      BY <2>1, <2>2, <2>3, <2>6 DEF PartOf
    <3>2. p[c] = o[c]
      BY <2>6
    <3> QED BY <2>4, <3>1, <3>2
  <2> QED BY <2>5, <2>6
<1>8. /\ Total(o, Clients) \in Nat /\ Total(p, Clients) \in Nat
      /\ r[t].current => Total(p, Clients) + unsent = Total(o, Clients)
      /\ ~r[t].current => Total(p, Clients) = Total(o, Clients)
  <2>1. PICK m \in Nat : Total(o, Clients) = m + o[c0] /\ Total(p, Clients) = m + p[c0]
    BY <1>0, SharesChanged
  <2>2. r[t].current => unsent <= o[c0]
    <3>1. SUFFICES ASSUME r[t].current PROVE unsent <= o[c0]
      OBVIOUS
    <3>2. CurrentOf(c0, r) \in SUBSET Threads /\ t \in CurrentOf(c0, r)
      BY <3>1 DEF CurrentOf
    <3>3. n <= Total(Open(r), CurrentOf(c0, r))
      BY <3>2, OpenOfOne
    <3>4. Total(Open(r), CurrentOf(c0, r)) <= o[c0]
      BY <1>0 DEF Books
    <3> QED BY <1>0, <1>3, <3>2, <3>3, <3>4
  <2>3. p[c0] \in Nat
    BY <1>0
  <2> QED BY <1>0, <2>1, <2>2, <2>3 DEF AtLeastZero
<1>9. StaleIn(r) \in SUBSET Threads /\ StaleIn(q) \in SUBSET Threads
      /\ ArmedIn(q) \in SUBSET Threads
  BY DEF StaleIn, ArmedIn
<1>10. /\ l.in_flight = Total(Open(r), Threads)
       /\ l.in_flight_armed = Total(Open(r), ArmedIn(r))
       /\ Total(o, Clients) + Total(Open(r), StaleIn(r)) <= l.pending
  BY DEF Books
<1>11. k.in_flight = Total(Open(q), Threads)
  BY <1>0, <1>1, <1>3, <1>4, <1>10 DEF AtLeastZero
<1>12. k.in_flight_armed = Total(Open(q), ArmedIn(q))
  BY <1>0, <1>1, <1>3, <1>5, <1>9, <1>10 DEF AtLeastZero
<1>13. Total(p, Clients) + Total(Open(q), StaleIn(q)) <= k.pending
  <2>1. Total(Open(r), StaleIn(r)) \in Nat /\ Total(Open(q), StaleIn(q)) \in Nat
    BY <1>3, <1>9
  <2> QED BY <1>0, <1>1, <1>6, <1>8, <1>10, <2>1 DEF AtLeastZero
<1>14. Books(k, p, q)
  BY <1>7, <1>11, <1>12, <1>13 DEF Books
<1> QED BY <1>1, <1>4, <1>5, <1>14

(* A pass that succeeds resets the shares and makes the reservations stale. *)
NoShares == [c \in Clients |-> 0]
Staled(r) == [t \in Threads |-> [r[t] EXCEPT !.current = FALSE]]

LEMMA CollectedBooks ==
    ASSUME NEW l \in Ledgers, NEW o, NEW r \in [Threads -> Reservations],
           Books(l, o, r)
    PROVE  /\ Books(Collected(l), NoShares, Staled(r))
           /\ Collected(l).pending = Total(Open(Staled(r)), Threads)
           /\ Collected(l).armed_pending =
                    (Total(Open(Staled(r)), ArmedIn(Staled(r))) > 0)
<1> DEFINE k == Collected(l)
           p == NoShares
           q == Staled(r)
<1>1. /\ k.pending = l.in_flight /\ k.in_flight = l.in_flight
      /\ k.in_flight_armed = l.in_flight_armed
      /\ k.armed_pending = (l.in_flight_armed > 0)
      /\ l.in_flight \in Nat
  BY DEF Collected, Ledgers
<1>2. \A t \in Threads : /\ q[t].count = r[t].count
                         /\ q[t].armed = r[t].armed
                         /\ q[t].current = FALSE
  BY DEF Reservations, Staled
<1>0. \A c \in Clients : p[c] = 0
  BY DEF NoShares
<1> HIDE DEF k, p, q
<1>3. /\ ArmedIn(q) = ArmedIn(r) /\ StaleIn(q) = Threads
      /\ \A c \in Clients : CurrentOf(c, q) = {}
      /\ ArmedIn(r) \in SUBSET Threads
  BY <1>2 DEF ArmedIn, StaleIn, CurrentOf
<1>4. \A S \in SUBSET Threads : Total(Open(q), S) = Total(Open(r), S)
  BY <1>2, OpenSame
<1>5. Total(p, Clients) = 0
  BY <1>0, TotalOfZeros
<1>6. \A c \in Clients : Total(Open(q), CurrentOf(c, q)) = 0
  BY <1>3, TotalOfNone
<1>7. \A c \in Clients : Total(Open(q), CurrentOf(c, q)) <= p[c]
  BY <1>0, <1>6
<1>8. /\ l.in_flight = Total(Open(q), Threads)
      /\ l.in_flight_armed = Total(Open(q), ArmedIn(q))
  BY <1>3, <1>4 DEF Books
<1>9. Books(k, p, q)
  BY <1>1, <1>3, <1>5, <1>7, <1>8 DEF Books
<1> QED BY <1>1, <1>8, <1>9 DEF k, p, q

-----------------------------------------------------------------------------
USE LedgerAssumption

Entry == [by : Origins, mounted : BOOLEAN]

(* What is left of a listing is a listing of some of it.                    *)
LEMMA WithoutProperties ==
    ASSUME NEW S, NEW s \in Seq(S), NEW D, NEW r \in Without(s, D)
    PROVE  /\ r \in Seq(S)
           /\ Len(r) <= Len(s)
           /\ \A i \in DOMAIN r : \E j \in DOMAIN s : r[i] = s[j]
<1> DEFINE left == DOMAIN s \ D
           n == Cardinality(left)
<1>1. DOMAIN s = 1 .. Len(s) /\ Len(s) \in Nat
  OBVIOUS
<1>2. IsFiniteSet(1 .. Len(s)) /\ Cardinality(1 .. Len(s)) = Len(s)
  <2>1. /\ IsFiniteSet(1 .. Len(s))
        /\ Cardinality(1 .. Len(s)) = IF 1 > Len(s) THEN 0 ELSE Len(s) - 1 + 1
    BY <1>1, FS_Interval
  <2> QED BY <1>1, <2>1
<1>3. n \in Nat /\ n <= Len(s)
  BY <1>1, <1>2, FS_Subset, FS_CardinalityType
<1>4. PICK f \in [1 .. n -> left] : r = [i \in DOMAIN f |-> s[f[i]]]
  BY DEF Without
<1> HIDE DEF n
<1>5. DOMAIN r = 1 .. n /\ \A i \in 1 .. n : f[i] \in DOMAIN s /\ r[i] = s[f[i]]
  BY <1>4
<1>6. \A i \in 1 .. n : r[i] \in S
  BY <1>5, <1>1
<1>7. r = [i \in 1 .. n |-> r[i]]
  BY <1>4, <1>5
<1>8. r \in [1 .. n -> S]
  BY <1>6, <1>7
<1>9. r \in Seq(S) /\ Len(r) = n
  BY <1>3, <1>8
<1> QED BY <1>3, <1>5, <1>9

LEMMA InitGateInv == Init => GateInv
  BY DEF Init, GateInv, TypeOK, Ledgers, Reservations, Sweeps, SweptIsClean,
         GatesBlock, Held, NoResv, NoSweep

(* The ledger's own operations keep it a ledger, and whether it is swept.   *)
LEMMA CountedProperties ==
    ASSUME NEW l \in Ledgers, NEW n \in Nat, NEW b \in BOOLEAN
    PROVE  Counted(l, n, b) \in Ledgers /\ Counted(l, n, b).swept = l.swept
<1> DEFINE p == l.pending + n
           c == l.armed_pending \/ b
           f == l.in_flight + n
           a == IF b THEN l.in_flight_armed + n ELSE l.in_flight_armed
           k == Counted(l, n, b)
<1>1. p \in Nat /\ f \in Nat /\ a \in Nat
  BY DEF Ledgers
<1>2. c \in BOOLEAN
  OBVIOUS
<1>3. k = [l EXCEPT !.pending = p, !.armed_pending = c,
                    !.in_flight = f, !.in_flight_armed = a]
  BY DEF Counted
<1> HIDE DEF k, p, f, a, c
<1>4. k \in Ledgers /\ k.swept = l.swept
  BY <1>1, <1>2, <1>3 DEF Ledgers
<1> QED BY <1>4 DEF k

LEMMA ReserveProperties ==
    ASSUME armed \subseteq Clients,
           NEW t \in Threads, NEW n \in Nat, NEW l \in Ledgers,
           NEW o \in [Clients -> Nat], NEW r \in [Threads -> Reservations],
           Reserve(t, n, l, o, r)
    PROVE  /\ ledger' \in Ledgers /\ ledger'.swept = l.swept
           /\ own' \in [Clients -> Nat]
           /\ resv' \in [Threads -> Reservations]
           /\ \A u \in Threads \ {t} : resv'[u].count = r[u].count
<1>1. (ClientOf[t] \in armed) \in BOOLEAN /\ ClientOf[t] \in Clients
  OBVIOUS
<1>2. ledger' \in Ledgers /\ ledger'.swept = l.swept
  BY <1>1, CountedProperties DEF Reserve
<1>3. own' \in [Clients -> Nat]
  BY <1>1 DEF Reserve
<1>4. /\ resv' \in [Threads -> Reservations]
      /\ \A u \in Threads \ {t} : resv'[u].count = r[u].count
  BY <1>1 DEF Reserve, Reservations
<1> QED BY <1>2, <1>3, <1>4

(* The end of a pass, whoever waits for it: the request that it lets        *)
(* through is the only one that is new.                                     *)
Locks == {"off", "held", "draining", "drained"}

LEMMA GoesOnProperties ==
    ASSUME GateInv, NEW l \in Ledgers, NEW o \in [Clients -> Nat],
           NEW r \in [Threads -> Reservations], GoesOn(l, o, r)
    PROVE  /\ ledger' \in Ledgers /\ ledger'.swept = l.swept
           /\ own' \in [Clients -> Nat]
           /\ resv' \in [Threads -> Reservations]
           /\ lock' \in Locks /\ (lock' # "off" => lock # "off")
           /\ sweep' \in Sweeps /\ GatesBlock'
           /\ \A u \in Threads : \/ resv'[u].count = r[u].count
                                 \/ u = sweep.thread /\ ~(l.blocked /\ Required)
<1> DEFINE refused == l.blocked /\ Required
           again == /\ sweep.why = "handover"
                    /\ ~l.blocked
                    /\ OverBudget(l, sweep.count)
<1>0. /\ sweep \in Sweeps /\ lock \in Locks /\ armed \subseteq Clients
      /\ GatesBlock
  BY DEF GateInv, TypeOK, Locks
<1>1. NoSweep \in Sweeps /\ NoSweep.thread = NoThread
  BY DEF NoSweep, Sweeps
<1>2. CASE /\ again
           /\ sweep' = [sweep EXCEPT !.phase = "list", !.why = "budget",
                                     !.listed = 0, !.doomed = {}]
           /\ ledger' = l /\ own' = o /\ resv' = r
           /\ UNCHANGED lock
  <2>1. sweep' \in Sweeps /\ sweep'.why = "budget"
    <3>1. 0 \in 0 .. MaxFiles /\ {} \in SUBSET (1 .. MaxFiles)
      OBVIOUS
    <3> QED BY <1>0, <1>2, <3>1, Zenon DEF Sweeps
  <2> QED BY <1>0, <1>2, <2>1 DEF GatesBlock
<1>3. CASE /\ sweep.thread # NoThread /\ ~again /\ ~refused
           /\ sweep' = NoSweep
           /\ Reserve(sweep.thread, sweep.count, l, o, r)
           /\ UNCHANGED lock
  <2>1. sweep.thread \in Threads /\ sweep.count \in Nat
    BY <1>0, <1>3 DEF Sweeps
  <2>2. /\ ledger' \in Ledgers /\ ledger'.swept = l.swept
        /\ own' \in [Clients -> Nat]
        /\ resv' \in [Threads -> Reservations]
        /\ \A u \in Threads \ {sweep.thread} : resv'[u].count = r[u].count
    BY <1>0, <1>3, <2>1, ReserveProperties
  <2> QED BY <1>0, <1>1, <1>3, <2>2 DEF GatesBlock
<1>4. CASE /\ sweep.thread = NoThread \/ refused
           /\ sweep' = NoSweep
           /\ ledger' = l /\ own' = o /\ resv' = r
           /\ lock' = IF lock = "draining" THEN "drained" ELSE lock
  BY <1>0, <1>1, <1>4 DEF GatesBlock, Locks
<1> QED BY <1>2, <1>3, <1>4 DEF GoesOn

-----------------------------------------------------------------------------
LEMMA SweepDeleteCleans ==
    ASSUME GateInv, SweepDelete
    PROVE  /\ files' \in Seq(Entry) /\ Len(files') <= MaxFiles
           /\ Files({"other"})' = {}
<1> DEFINE after == [i \in DOMAIN files |-> After(i)]
<1>1. files \in Seq(Entry) /\ Len(files) <= MaxFiles
  BY DEF GateInv, TypeOK, Entry
<1>2. ASSUME NEW i \in DOMAIN files
      PROVE  After(i) \in Entry /\ After(i).by # "other"
  <2>1. files[i] \in Entry
    BY <1>1
  <2>2. CASE files[i].by \in Threads
    <3>1. After(i) = [files[i] EXCEPT !.by = files[i].by]
      BY <2>2 DEF After
    <3> QED BY <2>1, <2>2, <3>1 DEF Entry, Origins
  <2>3. CASE files[i].by \notin Threads
    <3>1. \E b \in {"kept", "passed"} : After(i) = [files[i] EXCEPT !.by = b]
      BY <2>3 DEF After
    <3> QED BY <2>1, <3>1 DEF Entry, Origins
  <2> QED BY <2>2, <2>3
<1>3. after \in Seq(Entry) /\ Len(after) = Len(files) /\ DOMAIN after = DOMAIN files
  <2>1. DOMAIN files = 1 .. Len(files) /\ Len(files) \in Nat
    BY <1>1
  <2>2. after \in [1 .. Len(files) -> Entry]
    BY <1>2, <2>1
  <2> HIDE DEF after
  <2>3. after \in Seq(Entry) /\ Len(after) = Len(files)
    BY <2>1, <2>2
  <2> QED BY <2>1, <2>2, <2>3
<1>4. PICK D \in SUBSET sweep.doomed : files' \in Without(after, D)
  BY DEF SweepDelete
<1>5. \A i \in DOMAIN after : after[i].by # "other"
  BY <1>2
<1> HIDE DEF after
<1>6. /\ files' \in Seq(Entry) /\ Len(files') <= Len(after)
      /\ \A i \in DOMAIN files' : \E j \in DOMAIN after : files'[i] = after[j]
  <2>1. ASSUME NEW s \in Seq(Entry), NEW r \in Without(s, D)
        PROVE  /\ r \in Seq(Entry) /\ Len(r) <= Len(s)
               /\ \A i \in DOMAIN r : \E j \in DOMAIN s : r[i] = s[j]
    BY WithoutProperties
  <2> QED BY <1>3, <1>4, <2>1
<1>7. \A i \in DOMAIN files' : files'[i].by # "other"
  BY <1>5, <1>6
<1>8. Len(files') <= MaxFiles
  BY <1>1, <1>3, <1>6
<1> QED BY <1>6, <1>7, <1>8 DEF Files

-----------------------------------------------------------------------------
(* Steps that leave the files alone, or add one that is not another lane's. *)
LEMMA StaysClean ==
    ASSUME SweptIsClean,
           ledger'.swept => ledger.swept,
           lock' # "off" => lock # "off",
           Files({"other"})' \subseteq Files({"other"})
    PROVE  SweptIsClean'
  BY DEF SweptIsClean, Held

(* A pass begins.                                                           *)
LEMMA StartSweepProperties ==
    ASSUME NEW why \in {"handover", "budget", "leaked", "inherited", "orphan"},
           NEW c \in Clients \cup {NoClient}, NEW t \in Threads \cup {NoThread},
           NEW n \in Nat, StartSweep(why, c, t, n)
    PROVE  sweep' \in Sweeps /\ sweep'.why = why /\ sweep'.thread = t
<1>1. sweep' = [phase |-> "list", why |-> why, client |-> c, thread |-> t,
                count |-> n, listed |-> 0, doomed |-> {}]
  BY DEF StartSweep, NoSweep
<1>2. 0 \in 0 .. MaxFiles /\ {} \in SUBSET (1 .. MaxFiles)
  OBVIOUS
<1>3. /\ why \in {"none", "handover", "budget", "leaked", "inherited", "orphan"}
      /\ "list" \in {"idle", "list", "delete"}
  OBVIOUS
<1>4. sweep' \in Sweeps
  BY <1>1, <1>2, <1>3, Zenon DEF Sweeps
<1> QED BY <1>1, <1>4

LEMMA CollectedProperties ==
    ASSUME NEW l \in Ledgers PROVE Collected(l) \in Ledgers
<1> DEFINE k == Collected(l)
           b == l.in_flight_armed > 0
           p == l.in_flight
<1>1. b \in BOOLEAN /\ p \in Nat
  BY DEF Ledgers
<1>2. k = [l EXCEPT !.pending = p, !.blocked = FALSE, !.swept = TRUE,
                    !.armed_pending = b]
  BY DEF Collected
<1> HIDE DEF k, b, p
<1>3. k \in Ledgers
  BY <1>1, <1>2 DEF Ledgers
<1> QED BY <1>3 DEF k

(* A function on the positions of a listing is a listing as long.           *)
LEMMA SameLength ==
    ASSUME NEW s \in Seq(Entry), NEW r,
           DOMAIN r = DOMAIN s, r = [i \in DOMAIN r |-> r[i]],
           \A i \in DOMAIN s : r[i] \in Entry
    PROVE  r \in Seq(Entry) /\ Len(r) = Len(s)
<1>1. DOMAIN s = 1 .. Len(s) /\ Len(s) \in Nat
  OBVIOUS
<1>2. r \in [1 .. Len(s) -> Entry]
  BY <1>1
<1> QED BY <1>1, <1>2

LEMMA StepGateInv ==
    ASSUME GateInv, [Next]_vars PROVE GateInv'
<1> USE DEF GateInv, TypeOK
<1>0. /\ files \in Seq(Entry) /\ DOMAIN files = 1 .. Len(files)
      /\ Len(files) \in Nat /\ sweep \in Sweeps
      /\ \A t \in Threads : t # "other"
  BY DEF Entry
<1>1. CASE UNCHANGED vars
  BY <1>1 DEF vars, SweptIsClean, Held, Files, GatesBlock
<1>2. ASSUME NEW t \in Threads, NEW n \in Costs[t], Upload(t, n) PROVE GateInv'
  <2>1. n \in Nat
    OBVIOUS
  <2>2. /\ Reserve(t, n, ledger, own, resv)
        /\ UNCHANGED <<armed, lock, sweep, files>>
    BY <1>2 DEF Upload
  <2>3. /\ ledger' \in Ledgers /\ ledger'.swept = ledger.swept
        /\ own' \in [Clients -> Nat]
        /\ resv' \in [Threads -> Reservations]
    BY <2>1, <2>2, ReserveProperties
  <2>4. SweptIsClean'
    BY <2>2, <2>3, StaysClean DEF Files
  <2> QED BY <2>2, <2>3, <2>4 DEF GatesBlock
<1>3. ASSUME NEW t \in Threads, NEW n \in Costs[t], UploadSweeps(t, n)
      PROVE  GateInv'
  <2>1. n \in Nat /\ ClientOf[t] \in Clients
    OBVIOUS
  <2>2. PICK why \in {"handover", "budget"} :
            StartSweep(why, ClientOf[t], t, n)
    BY <1>3 DEF UploadSweeps
  <2>3. UNCHANGED <<ledger, own, resv, armed, lock, files>>
    BY <1>3 DEF UploadSweeps
  <2>4. sweep' \in Sweeps /\ sweep'.why = why
    BY <2>1, <2>2, StartSweepProperties
  <2>5. SweptIsClean'
    BY <2>3, StaysClean DEF Files
  <2> QED BY <2>3, <2>4, <2>5 DEF GatesBlock
<1>4. CASE SweepList
  <2>1. /\ UNCHANGED <<ledger, own, resv, armed, lock, files>>
        /\ sweep' = [sweep EXCEPT !.phase = "delete", !.listed = Len(files),
                                  !.doomed = Doomed(Len(files))]
    BY <1>4 DEF SweepList
  <2>2. Len(files) \in 0 .. MaxFiles /\ Doomed(Len(files)) \in SUBSET (1 .. MaxFiles)
    BY <1>0 DEF Doomed
  <2>3. sweep' \in Sweeps /\ sweep'.why = sweep.why /\ sweep'.thread = sweep.thread
    BY <1>0, <2>1, <2>2, Zenon DEF Sweeps
  <2>4. SweptIsClean'
    BY <2>1, StaysClean DEF Files
  <2> QED BY <2>1, <2>3, <2>4 DEF GatesBlock
<1>5. CASE SweepDelete
  <2> DEFINE r == [t \in Threads |-> [resv[t] EXCEPT !.current = FALSE]]
             o == [c \in Clients |-> 0]
  <2>1. Collected(ledger) \in Ledgers
    BY CollectedProperties
  <2>2. o \in [Clients -> Nat] /\ r \in [Threads -> Reservations]
    BY DEF Reservations
  <2>3. GoesOn(Collected(ledger), o, r) /\ UNCHANGED armed
    BY <1>5 DEF SweepDelete
  <2> HIDE DEF r, o
  <2>4. /\ ledger' \in Ledgers
        /\ own' \in [Clients -> Nat]
        /\ resv' \in [Threads -> Reservations]
        /\ lock' \in Locks
        /\ sweep' \in Sweeps /\ GatesBlock'
    BY <2>1, <2>2, <2>3, GoesOnProperties
  <2>5. /\ files' \in Seq(Entry) /\ Len(files') <= MaxFiles
        /\ Files({"other"})' = {}
    BY <1>5, SweepDeleteCleans
  <2> QED BY <2>3, <2>4, <2>5 DEF SweptIsClean, Locks, Entry
<1>6. CASE EnableFTP
  <2>1. /\ ledger' = [ledger EXCEPT !.ftp_enable_attempted = TRUE]
        /\ UNCHANGED <<own, resv, armed, lock, sweep, files>>
    BY <1>6 DEF EnableFTP
  <2>2. ledger' \in Ledgers /\ ledger'.swept = ledger.swept
    BY <2>1 DEF Ledgers
  <2>3. SweptIsClean'
    BY <2>1, <2>2, StaysClean DEF Files
  <2> QED BY <2>1, <2>2, <2>3 DEF GatesBlock
<1>7. CASE SweepFail
  <2> DEFINE l == [ledger EXCEPT
                !.blocked = @ \/ sweep.why # "inherited",
                !.ftp_enable_attempted = @ \/ MayEnable]
  <2>1. l \in Ledgers /\ l.swept = ledger.swept
    BY DEF Ledgers
  <2>2. GoesOn(l, own, resv) /\ UNCHANGED <<armed, files>>
    BY <1>7 DEF SweepFail
  <2> HIDE DEF l
  <2>3. /\ ledger' \in Ledgers /\ ledger'.swept = l.swept
        /\ own' \in [Clients -> Nat]
        /\ resv' \in [Threads -> Reservations]
        /\ lock' \in Locks /\ (lock' # "off" => lock # "off")
        /\ sweep' \in Sweeps /\ GatesBlock'
    BY <2>1, <2>2, GoesOnProperties
  <2>4. SweptIsClean'
    BY <2>1, <2>2, <2>3, StaysClean DEF Files
  <2> QED BY <2>2, <2>3, <2>4 DEF Locks
<1>8. ASSUME NEW t \in Threads, Land(t) PROVE GateInv'
  <2>1. /\ Len(files) < MaxFiles
        /\ files' = Append(files, [by |-> t, mounted |-> FALSE])
        /\ resv' = [resv EXCEPT ![t].landed = @ + 1]
        /\ UNCHANGED <<ledger, own, armed, lock, sweep>>
    BY <1>8 DEF Land
  <2>2. [by |-> t, mounted |-> FALSE] \in Entry
    BY DEF Entry, Origins
  <2>3. /\ files' \in Seq(Entry) /\ Len(files') <= MaxFiles
        /\ DOMAIN files' = 1 .. Len(files) + 1
        /\ \A i \in 1 .. Len(files) : files'[i] = files[i]
        /\ files'[Len(files) + 1] = [by |-> t, mounted |-> FALSE]
    BY <1>0, <2>1, <2>2
  <2>4. resv' \in [Threads -> Reservations]
    <3>1. resv[t] \in Reservations /\ resv[t].landed + 1 \in Nat
      BY DEF Reservations
    <3> DEFINE n == resv[t].landed + 1
    <3>2. resv' = [resv EXCEPT ![t] = [resv[t] EXCEPT !.landed = n]]
      BY <2>1
    <3> HIDE DEF n
    <3>3. [resv[t] EXCEPT !.landed = n] \in Reservations
      BY <3>1, Zenon DEF Reservations, n
    <3> QED BY <3>2, <3>3
  <2>5. Files({"other"})' \subseteq Files({"other"})
    BY <1>0, <2>3 DEF Files
  <2>6. SweptIsClean'
    BY <2>1, <2>5, StaysClean
  <2> QED BY <2>1, <2>3, <2>4, <2>6 DEF GatesBlock, Entry
<1>9. ASSUME NEW t \in Threads, Mount(t) PROVE GateInv'
  <2>1. PICK i \in DOMAIN files :
            files' = [j \in DOMAIN files |-> [files[j] EXCEPT !.mounted = (j = i)]]
    BY <1>9 DEF Mount
  <2>2. UNCHANGED <<ledger, own, resv, armed, lock, sweep>>
    BY <1>9 DEF Mount
  <2>3. \A j \in DOMAIN files : files'[j] \in Entry /\ files'[j].by = files[j].by
    <3> TAKE j \in DOMAIN files
    <3>1. files[j] \in Entry /\ (j = i) \in BOOLEAN
      BY <1>0
    <3>2. files'[j] = [files[j] EXCEPT !.mounted = (j = i)]
      BY <2>1
    <3> QED BY <3>1, <3>2, Zenon DEF Entry
  <2>4. DOMAIN files' = DOMAIN files /\ files' = [j \in DOMAIN files' |-> files'[j]]
    BY <2>1
  <2>5. files' \in Seq(Entry) /\ Len(files') = Len(files) /\ DOMAIN files' = DOMAIN files
    BY <1>0, <2>3, <2>4, SameLength
  <2>6. SweptIsClean'
    BY <2>2, <2>3, <2>5, StaysClean DEF Files
  <2> QED BY <2>2, <2>5, <2>6 DEF GatesBlock, Entry
<1>10. ASSUME NEW t \in Threads, NEW posted \in 0 .. resv[t].count, End(t, posted)
       PROVE  GateInv'
  <2> DEFINE c == ClientOf[t]
             unsent == resv[t].count - posted
  <2>1. /\ ledger' = Ended(ledger, resv[t].count, resv[t].armed, unsent)
        /\ own' = IF resv[t].current
                  THEN [own EXCEPT ![c] = AtLeastZero(@ - unsent)] ELSE own
        /\ resv' = [resv EXCEPT ![t] = NoResv]
        /\ files' = [i \in DOMAIN files |->
                        IF files[i].by = t
                        THEN [files[i] EXCEPT
                                !.by = IF resv[t].armed
                                       THEN "armed" ELSE "disarmed"]
                        ELSE files[i]]
        /\ UNCHANGED <<armed, lock, sweep>>
    BY <1>10 DEF End
  <2>2. /\ resv[t].count \in Nat /\ resv[t].armed \in BOOLEAN /\ unsent \in Nat
        /\ c \in Clients
    BY DEF Reservations
  <2>3. ledger' \in Ledgers /\ ledger'.swept = ledger.swept
    <3> DEFINE n == resv[t].count
               f == AtLeastZero(ledger.in_flight - n)
               a == IF resv[t].armed THEN AtLeastZero(ledger.in_flight_armed - n)
                                     ELSE ledger.in_flight_armed
               p == AtLeastZero(ledger.pending - unsent)
    <3>1. f \in Nat /\ a \in Nat /\ p \in Nat
      <4>1. /\ ledger.in_flight - n \in Int /\ ledger.in_flight_armed - n \in Int
            /\ ledger.pending - unsent \in Int /\ ledger.in_flight_armed \in Nat
        BY <2>2 DEF Ledgers
      <4>2. \A x \in Int : AtLeastZero(x) \in Nat
        BY DEF AtLeastZero
      <4> HIDE DEF unsent, n
      <4> HIDE DEF GateInv
      <4> QED BY <4>1, <4>2, ZenonT(30)
    <3>2. ledger' = [ledger EXCEPT !.in_flight = f, !.in_flight_armed = a,
                                   !.pending = p]
      BY <2>1 DEF Ended
    <3> HIDE DEF p, f, a
    <3> QED BY <3>1, <3>2 DEF Ledgers
  <2>4. own' \in [Clients -> Nat]
    BY <2>1, <2>2 DEF AtLeastZero
  <2>5. resv' \in [Threads -> Reservations]
    BY <2>1 DEF NoResv, Reservations
  <2>6. \A j \in DOMAIN files : /\ files'[j] \in Entry
                                /\ files'[j].by = "other" => files[j].by = "other"
    <3> TAKE j \in DOMAIN files
    <3>1. files[j] \in Entry
      BY <1>0
    <3>2. \/ files'[j] = files[j]
          \/ \E by \in {"armed", "disarmed"} : files'[j] = [files[j] EXCEPT !.by = by]
      BY <2>1
    <3> QED BY <3>1, <3>2 DEF Entry, Origins
  <2>7. DOMAIN files' = DOMAIN files /\ files' = [j \in DOMAIN files' |-> files'[j]]
    BY <2>1
  <2>8. files' \in Seq(Entry) /\ Len(files') = Len(files) /\ DOMAIN files' = DOMAIN files
    BY <1>0, <2>6, <2>7, SameLength
  <2>9. SweptIsClean'
    BY <2>1, <2>3, <2>6, <2>8, StaysClean DEF Files
  <2> QED BY <2>1, <2>3, <2>4, <2>5, <2>8, <2>9 DEF GatesBlock, Entry
<1>11. CASE Acquire
  <2>1. ledger' = [ledger EXCEPT !.swept = FALSE] /\ lock' = "held"
    BY <1>11 DEF Acquire
  <2>2. ledger' \in Ledgers /\ ~ledger'.swept
    BY <2>1 DEF Ledgers
  <2> QED BY <1>11, <2>1, <2>2 DEF Acquire, SweptIsClean, GatesBlock
<1>12. ASSUME NEW why \in {"leaked", "inherited", "orphan"},
              NEW c \in Clients \cup {NoClient},
              StartSweep(why, c, NoThread, 0)
       PROVE  sweep' \in Sweeps /\ GatesBlock'
  <2>1. sweep' \in Sweeps /\ sweep'.thread = NoThread
    BY <1>12, StartSweepProperties
  <2> QED BY <2>1 DEF GatesBlock
<1>13. ASSUME NEW c \in Clients, Drain(c) PROVE sweep' \in Sweeps /\ GatesBlock'
  BY <1>12, <1>13 DEF Drain
<1>14. CASE Release
  <2>1. UNCHANGED <<ledger, own, resv, armed, files>> /\ lock = "held"
    BY <1>14 DEF Release
  <2>2. lock' \in {"draining", "drained"}
    BY <1>14 DEF Release
  <2>3. \/ \E c \in Clients : Drain(c)
        \/ StartSweep("orphan", NoClient, NoThread, 0)
        \/ UNCHANGED sweep
    BY <1>14 DEF Release
  <2>4. sweep' \in Sweeps /\ GatesBlock'
    BY <1>0, <1>12, <1>13, <2>3 DEF GatesBlock
  <2>5. SweptIsClean'
    BY <2>1, StaysClean DEF Files
  <2> QED BY <2>1, <2>2, <2>4, <2>5
<1>15. CASE Unlock
  BY <1>15 DEF Unlock, SweptIsClean, Held, GatesBlock
<1>16. ASSUME NEW c \in Clients, Close(c) PROVE GateInv'
  <2>1. sweep' \in Sweeps /\ GatesBlock'
    BY <1>13, <1>16 DEF Close
  <2>2. UNCHANGED <<ledger, own, resv, armed, lock, files>>
    BY <1>16 DEF Close
  <2>3. SweptIsClean'
    BY <2>2, StaysClean DEF Files
  <2> QED BY <2>1, <2>2, <2>3
<1>17. ASSUME NEW c \in Clients, Replace(c) \/ Reprobe(c) PROVE GateInv'
  <2>1. UNCHANGED <<ledger, resv, lock, sweep, files>>
    BY <1>17 DEF Replace, Reprobe
  <2>2. armed' \subseteq Clients /\ own' \in [Clients -> Nat]
    BY <1>17 DEF Replace, Reprobe
  <2>3. SweptIsClean'
    BY <2>1, StaysClean DEF Files
  <2> QED BY <2>1, <2>2, <2>3 DEF GatesBlock
<1>18. CASE OtherLane
  <2>1. /\ lock = "off" /\ Len(files) < MaxFiles
        /\ files' = Append(files, [by |-> "other", mounted |-> FALSE])
        /\ UNCHANGED <<ledger, own, resv, armed, lock, sweep>>
    BY <1>18 DEF OtherLane
  <2>2. [by |-> "other", mounted |-> FALSE] \in Entry
    BY DEF Entry, Origins
  <2>3. files' \in Seq(Entry) /\ Len(files') <= MaxFiles
    BY <1>0, <2>1, <2>2
  <2> QED BY <2>1, <2>3 DEF SweptIsClean, Held, GatesBlock, Entry
<1> QED
  BY <1>1, <1>2, <1>3, <1>4, <1>5, <1>6, <1>7, <1>8, <1>9, <1>10, <1>11,
     <1>14, <1>15, <1>16, <1>17, <1>18 DEF Next

(* Whatever the threads, the lanes and the sweeps do: while this process    *)
(* holds the device, a swept epoch means that nothing of another lane's is  *)
(* left in /Temp, and a gate's own pass blocks the device if it fails.      *)
THEOREM Invariant == Spec => []GateInv
<1>1. Init => GateInv
  BY InitGateInv
<1>2. GateInv /\ [Next]_vars => GateInv'
  BY StepGateInv
<1> QED BY <1>1, <1>2, PTL DEF Spec

-----------------------------------------------------------------------------
(* A request that begins is one that the gate let through, or one that      *)
(* waited for a pass that did not fail.                                     *)
LEMMA StepSpends ==
    ASSUME GateInv, Next, NEW t \in Threads, Spending(t)
    PROVE  Files({"other"})' = {}
<1>1. /\ ~(resv[t].count > 0) /\ resv'[t].count > 0
      /\ ClientOf[t] \in armed /\ Required
  BY DEF Spending, Sending
<1>2. /\ resv'[t].count # resv[t].count /\ resv'[t].count # 0
  BY <1>1
<1>3. /\ resv \in [Threads -> Reservations] /\ own \in [Clients -> Nat]
      /\ ledger \in Ledgers /\ armed \subseteq Clients
      /\ SweptIsClean /\ GatesBlock
  BY DEF GateInv, TypeOK
<1>4. ASSUME NEW u \in Threads, NEW n \in Costs[u], Upload(u, n)
      PROVE  Files({"other"})' = {}
  <2>1. n \in Nat
    OBVIOUS
  <2>2. Reserve(u, n, ledger, own, resv) /\ Passes(u, n) /\ files' = files
    BY <1>4 DEF Upload
  <2>3. \A v \in Threads \ {u} : resv'[v].count = resv[v].count
    BY <1>3, <2>1, <2>2, ReserveProperties
  <2>4. t = u
    BY <1>2, <2>3
  <2>5. ledger.swept /\ Held
    BY <1>1, <2>2, <2>4 DEF Passes
  <2> QED BY <1>3, <2>2, <2>5 DEF SweptIsClean, Files
<1>5. CASE SweepDelete
  BY <1>5, SweepDeleteCleans
<1>6. CASE SweepFail
  <2> DEFINE l == [ledger EXCEPT
                !.blocked = @ \/ sweep.why # "inherited",
                !.ftp_enable_attempted = @ \/ MayEnable]
  <2>1. l \in Ledgers /\ l.blocked = (ledger.blocked \/ sweep.why # "inherited")
    BY <1>3 DEF Ledgers
  <2>2. GoesOn(l, own, resv)
    BY <1>6 DEF SweepFail
  <2> HIDE DEF l
  <2>3. \/ resv'[t].count = resv[t].count
        \/ t = sweep.thread /\ ~(l.blocked /\ Required)
    BY <1>3, <2>1, <2>2, GoesOnProperties
  <2>4. t = sweep.thread /\ ~l.blocked
    BY <1>1, <1>2, <2>3
  <2>5. sweep.why \in {"handover", "budget"}
    BY <1>3, <2>4 DEF GatesBlock
  <2> QED BY <2>1, <2>4, <2>5
<1>7. ASSUME NEW u \in Threads, Land(u) PROVE FALSE
  BY <1>2, <1>3, <1>7 DEF Land, Reservations
<1>8. ASSUME NEW u \in Threads, NEW posted \in 0 .. resv[u].count, End(u, posted)
      PROVE  FALSE
  <2>1. resv' = [resv EXCEPT ![u] = NoResv]
    BY <1>8 DEF End
  <2> QED BY <1>2, <1>3, <2>1 DEF NoResv
<1>9. ASSUME UNCHANGED resv PROVE FALSE
  BY <1>2, <1>9
<1> QED
  BY <1>4, <1>5, <1>6, <1>7, <1>8, <1>9
  DEF Next, UploadSweeps, SweepList, EnableFTP, Mount, Acquire, Release, Unlock,
      Close, Replace, Reprobe, OtherLane

(* "A sweep at every handover, failing closed": where the sweep is required *)
(* an armed client never begins to spend attachments on a device that holds *)
(* what another lane left (_before_temp_attachment()).                      *)
THEOREM NeverSpendsOnUnswept == Spec => NoSpendOnUnswept
<1>1. GateInv /\ [Next]_vars
      => [\A t \in Threads : Spending(t) => Files({"other"})' = {}]_vars
  BY StepSpends
<1> QED BY <1>1, Invariant, PTL DEF Spec, NoSpendOnUnswept

-----------------------------------------------------------------------------
(* The files of a listing, by what they are                                 *)
HIDE LedgerAssumption

Filed(fs, S) == {i \in DOMAIN fs : fs[i].by \in S}

LEMMA FiledFinite ==
    ASSUME NEW fs \in Seq(Entry), NEW S
    PROVE  IsFiniteSet(Filed(fs, S)) /\ Cardinality(Filed(fs, S)) \in Nat
<1>1. DOMAIN fs = 1 .. Len(fs) /\ Len(fs) \in Nat
  OBVIOUS
<1>2. IsFiniteSet(1 .. Len(fs))
  BY <1>1, FS_Interval
<1>3. Filed(fs, S) \in SUBSET (1 .. Len(fs))
  BY <1>1 DEF Filed
<1>4. IsFiniteSet(Filed(fs, S))
  BY <1>2, <1>3, FS_Subset
<1> QED BY <1>4, FS_CardinalityType

(* A listing that maps into another has no more of them.                    *)
LEMMA FiledFewer ==
    ASSUME NEW fs \in Seq(Entry), NEW gs \in Seq(Entry), NEW S,
           NEW f \in [DOMAIN gs -> DOMAIN fs],
           \A i, j \in DOMAIN gs : f[i] = f[j] => i = j,
           \A i \in DOMAIN gs : gs[i].by \in S => fs[f[i]].by \in S
    PROVE  Cardinality(Filed(gs, S)) <= Cardinality(Filed(fs, S))
<1> DEFINE A == Filed(gs, S)
           B == Filed(fs, S)
           g == [i \in A |-> f[i]]
<1>1. g \in [A -> B] /\ \A i, j \in A : g[i] = g[j] => i = j
  BY DEF Filed
<1>2. IsFiniteSet(B)
  BY FiledFinite
<1> HIDE DEF A, B, g
<1>3. g \in Injection(A, B)
  BY <1>1 DEF Injection, IsInjective
<1>4. Cardinality(A) <= Cardinality(B)
  BY <1>2, <1>3, FS_Injection
<1> QED BY <1>4 DEF A, B

(* One in which everything is what it was has as many.                      *)
LEMMA FiledSame ==
    ASSUME NEW fs, NEW gs, NEW S, DOMAIN gs = DOMAIN fs,
           \A i \in DOMAIN fs : gs[i].by \in S <=> fs[i].by \in S
    PROVE  Filed(gs, S) = Filed(fs, S)
  BY DEF Filed

(* Where every request has sent at most what it reserved, so has a set of   *)
(* them: by the least set of threads that has not.                          *)
LEMMA FiledBound ==
    ASSUME NEW fs \in Seq(Entry), NEW r \in [Threads -> Reservations],
           \A t \in Threads : Cardinality(Filed(fs, {t})) <= r[t].count,
           NEW S \in SUBSET Threads
    PROVE  Cardinality(Filed(fs, S)) <= Total(Open(r), S)
<1> DEFINE Fits(T) == Cardinality(Filed(fs, T)) <= Total(Open(r), T)
           bad == {T \in SUBSET Threads : ~Fits(T)}
<1>1. SUFFICES ASSUME bad # {} PROVE FALSE
  <2>1. S \in SUBSET Threads
    OBVIOUS
  <2> QED BY <2>1
<1>2. IsWellFoundedOn(StrictSubsetOrdering(Threads), SUBSET Threads)
  <2>1. IsFiniteSet(Threads)
    BY LedgerAssumption
  <2> QED BY <2>1, FS_StrictSubsetOrderingWellFounded, FS_FiniteSubsetsOfFinite
<1>3. bad \subseteq SUBSET Threads
  OBVIOUS
<1> HIDE DEF bad
<1>4. PICK T \in bad : \A U \in bad : <<U, T>> \notin StrictSubsetOrdering(Threads)
  BY <1>1, <1>2, <1>3, WFMin
<1>5. T \in SUBSET Threads /\ ~Fits(T)
  BY <1>4 DEF bad
<1>6. CASE T = {}
  <2>1. Filed(fs, T) = {}
    BY <1>6 DEF Filed
  <2>2. Cardinality(Filed(fs, T)) = 0
    BY <2>1, FS_EmptySet
  <2>3. Total(Open(r), T) = 0
    BY <1>6, TotalOfNone
  <2> QED BY <1>5, <2>2, <2>3
<1>7. ASSUME NEW t \in T PROVE FALSE
  <2>1. PICK R : R = T \ {t}
    OBVIOUS
  <2>2. R \in SUBSET Threads /\ R \subseteq T /\ R # T /\ t \in Threads
    BY <1>5, <2>1
  <2>3. <<R, T>> \in StrictSubsetOrdering(Threads)
    BY <1>5, <2>2 DEF StrictSubsetOrdering
  <2>4. Fits(R)
    BY <1>4, <2>2, <2>3 DEF bad
  <2>5. Total(Open(r), T) = Total(Open(r), R) + r[t].count /\ Total(Open(r), R) \in Nat
    BY <1>5, <2>1, <2>2, OpenOfOther
  <2>6. Cardinality(Filed(fs, {t})) <= r[t].count /\ r[t].count \in Nat
    BY <2>2 DEF Reservations
  <2>7. Cardinality(Filed(fs, T)) <= Cardinality(Filed(fs, R)) + Cardinality(Filed(fs, {t}))
    <3>1. Filed(fs, T) = Filed(fs, R) \cup Filed(fs, {t})
      BY <2>1 DEF Filed
    <3>2. Filed(fs, R) \cap Filed(fs, {t}) = {}
      BY <2>1 DEF Filed
    <3>3. /\ IsFiniteSet(Filed(fs, R)) /\ IsFiniteSet(Filed(fs, {t}))
          /\ Cardinality(Filed(fs, R)) \in Nat /\ Cardinality(Filed(fs, {t})) \in Nat
      BY FiledFinite
    <3>4. Cardinality(Filed(fs, R) \cup Filed(fs, {t})) =
             Cardinality(Filed(fs, R)) + Cardinality(Filed(fs, {t}))
                - Cardinality(Filed(fs, R) \cap Filed(fs, {t}))
      BY <3>3, FS_Union
    <3>5. Cardinality(Filed(fs, R) \cap Filed(fs, {t})) = 0
      BY <3>2, FS_EmptySet
    <3> HIDE DEF Fits
    <3> QED BY <3>1, <3>3, <3>4, <3>5
  <2>8. /\ Cardinality(Filed(fs, R)) \in Nat /\ Cardinality(Filed(fs, {t})) \in Nat
        /\ Cardinality(Filed(fs, T)) \in Nat
    BY FiledFinite
  <2> QED BY <1>5, <2>4, <2>5, <2>6, <2>7, <2>8
<1> QED BY <1>6, <1>7

(* What is left of a listing maps into it.                                  *)
LEMMA WithoutInjects ==
    ASSUME NEW S, NEW s \in Seq(S), NEW D, NEW r \in Without(s, D)
    PROVE  \E f \in [DOMAIN r -> DOMAIN s] :
              /\ \A i, j \in DOMAIN r : f[i] = f[j] => i = j
              /\ \A i \in DOMAIN r : r[i] = s[f[i]]
<1> DEFINE left == DOMAIN s \ D
           n == Cardinality(left)
<1>1. DOMAIN s = 1 .. Len(s) /\ Len(s) \in Nat
  OBVIOUS
<1>2. IsFiniteSet(1 .. Len(s)) /\ left \in SUBSET (1 .. Len(s))
  BY <1>1, FS_Interval
<1>3. n \in Nat
  BY <1>2, FS_Subset, FS_CardinalityType
<1>4. PICK f \in [1 .. n -> left] :
            /\ \A i, j \in DOMAIN f : i < j => f[i] < f[j]
            /\ r = [i \in DOMAIN f |-> s[f[i]]]
  BY DEF Without
<1> HIDE DEF n
<1>5. DOMAIN r = 1 .. n /\ f \in [DOMAIN r -> DOMAIN s]
  BY <1>4
<1>6. \A i \in DOMAIN r : r[i] = s[f[i]] /\ f[i] \in Nat
  BY <1>1, <1>4, <1>5
<1>7. ASSUME NEW i \in DOMAIN r, NEW j \in DOMAIN r, f[i] = f[j] PROVE i = j
  <2>1. i \in Int /\ j \in Int /\ f[i] \in Int /\ f[j] \in Int
    BY <1>3, <1>5, <1>6
  <2>2. ~(i < j) /\ ~(j < i)
    BY <1>4, <1>5, <1>7, <2>1
  <2> QED BY <2>1, <2>2
<1> QED BY <1>5, <1>6, <1>7

-----------------------------------------------------------------------------
(* What the counts promise, of a ledger, the shares, the reservations and   *)
(* the files                                                                *)

Uploaded == {"armed", "disarmed"}

Fresh(l, r, fs) ==
    /\ Cardinality(Filed(fs, Uploaded)) + Total(Open(r), Threads) <= l.pending
    /\ Filed(fs, {"armed"}) # {} \/ Total(Open(r), ArmedIn(r)) > 0
            => l.armed_pending

Landed(r, fs) ==
    \A t \in Threads : /\ r[t].landed <= r[t].count
                       /\ Cardinality(Filed(fs, {t})) <= r[t].landed

Counts(l, o, r, fs) == Books(l, o, r) /\ Fresh(l, r, fs) /\ Landed(r, fs)

LEMMA CountsOfState ==
    /\ Counts(ledger, own, resv, files)
            <=> NeverUndercounts /\ OrphansRemembered /\ Landings
    /\ Counts(ledger, own, resv, files)'
            <=> (NeverUndercounts /\ OrphansRemembered /\ Landings)'
<1>1. \A S : Files(S) = Filed(files, S) /\ Files(S)' = Filed(files', S)
  BY DEF Files, Filed
<1> QED
  BY <1>1 DEF Counts, Fresh, Landed, NeverUndercounts, OrphansRemembered,
              Landings, InFlight, ArmedThreads, Uploaded

LEMMA CountsSame ==
    ASSUME NEW l, NEW k, NEW o, NEW r, NEW q, NEW fs, NEW gs,
           Counts(l, o, r, fs),
           k.pending = l.pending, k.in_flight = l.in_flight,
           k.in_flight_armed = l.in_flight_armed,
           k.armed_pending = l.armed_pending,
           \A t \in Threads : /\ q[t].count = r[t].count
                              /\ q[t].armed = r[t].armed
                              /\ q[t].current = r[t].current,
           \A S \in {Uploaded, {"armed"}} : Filed(gs, S) = Filed(fs, S),
           Landed(q, gs)
    PROVE  Counts(k, o, q, gs)
<1>1. /\ Books(k, o, q)
      /\ Total(Open(q), Threads) = Total(Open(r), Threads)
      /\ Total(Open(q), ArmedIn(q)) = Total(Open(r), ArmedIn(r))
  BY BooksSame DEF Counts
<1>2. Filed(gs, Uploaded) = Filed(fs, Uploaded) /\ Filed(gs, {"armed"}) = Filed(fs, {"armed"})
  OBVIOUS
<1>3. Fresh(l, r, fs)
  BY DEF Counts
<1>4. Fresh(k, q, gs)
  BY <1>1, <1>2, <1>3 DEF Fresh
<1> QED BY <1>1, <1>4 DEF Counts

LEMMA ReserveCounts ==
    ASSUME NEW t \in Threads, NEW n \in Nat, NEW l \in Ledgers,
           NEW o \in [Clients -> Nat], NEW r \in [Threads -> Reservations],
           NEW fs \in Seq(Entry), armed \subseteq Clients,
           Counts(l, o, r, fs), r[t].count = 0, Reserve(t, n, l, o, r)
    PROVE  Counts(ledger', own', resv', fs)
<1> DEFINE b == ClientOf[t] \in armed
           rec == [count |-> n, landed |-> 0, armed |-> b, current |-> TRUE]
<1>0. ClientOf[t] \in Clients /\ b \in BOOLEAN
  BY LedgerAssumption
<1>1. ledger' = Counted(l, n, b)
  BY DEF Reserve
<1>2. /\ own' \in [Clients -> Nat] /\ own'[ClientOf[t]] = o[ClientOf[t]] + n
      /\ \A d \in Clients : d # ClientOf[t] => own'[d] = o[d]
  BY <1>0 DEF Reserve
<1>3. /\ resv' \in [Threads -> Reservations] /\ resv'[t] = rec
      /\ \A u \in Threads : u # t => resv'[u] = r[u]
  <2>1. rec \in Reservations
    BY <1>0 DEF Reservations
  <2>2. resv' = [r EXCEPT ![t] = rec]
    BY DEF Reserve
  <2> HIDE DEF rec
  <2> QED BY <2>1, <2>2
<1>4. resv'[t].count = n /\ resv'[t].armed = b /\ resv'[t].current = TRUE /\ resv'[t].landed = 0
  BY <1>3
<1>5. Books(l, o, r) /\ Fresh(l, r, fs) /\ Landed(r, fs)
  BY DEF Counts
<1> HIDE DEF b, rec
<1>6. /\ Books(ledger', own', resv')
      /\ ledger'.pending = l.pending + n
      /\ ledger'.armed_pending = (l.armed_pending \/ b)
      /\ Total(Open(resv'), Threads) = Total(Open(r), Threads) + n
      /\ ~b => Total(Open(resv'), ArmedIn(resv')) = Total(Open(r), ArmedIn(r))
  <2>1. Begins(t, n, b, l, o, r, ledger', own', resv')
    BY <1>0, <1>1, <1>2, <1>3, <1>4 DEF Begins
  <2> QED BY <1>5, <2>1, ReserveBooks
<1>7. Fresh(ledger', resv', fs)
  <2>1. Total(Open(r), Threads) \in Nat /\ l.pending \in Nat
    BY OpenType DEF Ledgers
  <2>2. Cardinality(Filed(fs, Uploaded)) \in Nat
    BY FiledFinite
  <2>3. Cardinality(Filed(fs, Uploaded)) + Total(Open(resv'), Threads) <= ledger'.pending
    BY <1>5, <1>6, <2>1, <2>2 DEF Fresh
  <2>4. Filed(fs, {"armed"}) # {} \/ Total(Open(resv'), ArmedIn(resv')) > 0
            => ledger'.armed_pending
    BY <1>0, <1>5, <1>6 DEF Fresh
  <2> QED BY <2>3, <2>4 DEF Fresh
<1>8. Landed(resv', fs)
  <2> SUFFICES ASSUME NEW u \in Threads
               PROVE  /\ resv'[u].landed <= resv'[u].count
                      /\ Cardinality(Filed(fs, {u})) <= resv'[u].landed
    BY DEF Landed
  <2>1. Cardinality(Filed(fs, {u})) \in Nat
    BY FiledFinite
  <2>2. CASE u = t
    <3>1. r[t].landed <= 0 /\ Cardinality(Filed(fs, {t})) <= r[t].landed /\ r[t].landed \in Nat
      BY <1>5 DEF Landed, Reservations
    <3> QED BY <1>4, <2>1, <2>2, <3>1
  <2>3. CASE u # t
    BY <1>3, <1>5, <2>3 DEF Landed
  <2> QED BY <2>2, <2>3
<1> QED BY <1>6, <1>7, <1>8 DEF Counts

LEMMA CollectedCounts ==
    ASSUME NEW l \in Ledgers, NEW o, NEW r \in [Threads -> Reservations],
           NEW fs \in Seq(Entry), Counts(l, o, r, fs),
           NEW gs \in Seq(Entry), Filed(gs, Uploaded) = {},
           \A t \in Threads :
                Cardinality(Filed(gs, {t})) <= Cardinality(Filed(fs, {t}))
    PROVE  /\ Counts(Collected(l), NoShares, Staled(r), gs)
           /\ NoShares \in [Clients -> Nat]
           /\ Staled(r) \in [Threads -> Reservations]
           /\ \A t \in Threads : Staled(r)[t].count = r[t].count
<1> DEFINE q == Staled(r)
<1>1. /\ Books(Collected(l), NoShares, q)
      /\ Collected(l).pending = Total(Open(q), Threads)
      /\ Collected(l).armed_pending = (Total(Open(q), ArmedIn(q)) > 0)
  BY CollectedBooks DEF Counts
<1>2. /\ q \in [Threads -> Reservations]
      /\ \A t \in Threads : q[t].landed = r[t].landed /\ q[t].count = r[t].count
  BY DEF Reservations, Staled
<1> HIDE DEF q
<1>3. Fresh(Collected(l), q, gs)
  <2>1. Total(Open(q), Threads) \in Nat
    BY <1>2, OpenType
  <2>2. Cardinality(Filed(gs, Uploaded)) = 0
    BY FS_EmptySet
  <2>3. Filed(gs, {"armed"}) = {}
    BY DEF Filed, Uploaded
  <2>4. Cardinality(Filed(gs, Uploaded)) + Total(Open(q), Threads) <= Collected(l).pending
    BY <1>1, <2>1, <2>2
  <2>5. Filed(gs, {"armed"}) # {} \/ Total(Open(q), ArmedIn(q)) > 0
            => Collected(l).armed_pending
    BY <1>1, <2>3
  <2> QED BY <2>4, <2>5 DEF Fresh
<1>4. Landed(q, gs)
  <2> SUFFICES ASSUME NEW t \in Threads
               PROVE  /\ q[t].landed <= q[t].count
                      /\ Cardinality(Filed(gs, {t})) <= q[t].landed
    BY DEF Landed
  <2>1. q[t].landed = r[t].landed /\ q[t].count = r[t].count /\ r[t].landed \in Nat
    BY <1>2 DEF Reservations
  <2>2. /\ Cardinality(Filed(gs, {t})) \in Nat /\ Cardinality(Filed(fs, {t})) \in Nat
        /\ Cardinality(Filed(gs, {t})) <= Cardinality(Filed(fs, {t}))
    BY FiledFinite
  <2>3. Cardinality(Filed(fs, {t})) <= r[t].landed /\ r[t].landed <= r[t].count
    BY DEF Counts, Landed
  <2> QED BY <2>1, <2>2, <2>3
<1>5. NoShares \in [Clients -> Nat]
  BY DEF NoShares
<1> QED BY <1>1, <1>2, <1>3, <1>4, <1>5 DEF Counts, q

LEMMA EndCounts ==
    ASSUME GateInv, Counts(ledger, own, resv, files),
           NEW t \in Threads, NEW posted \in 0 .. resv[t].count, End(t, posted),
           GateInv'
    PROVE  Counts(ledger', own', resv', files')
<1> DEFINE c == ClientOf[t]
           unsent == resv[t].count - posted
           by == IF resv[t].armed THEN "armed" ELSE "disarmed"
<1>0. /\ resv \in [Threads -> Reservations] /\ own \in [Clients -> Nat]
      /\ ledger \in Ledgers /\ files \in Seq(Entry)
      /\ resv' \in [Threads -> Reservations] /\ own' \in [Clients -> Nat]
      /\ ledger' \in Ledgers /\ files' \in Seq(Entry)
  BY DEF GateInv, TypeOK, Entry
<1>1. /\ ledger' = Ended(ledger, resv[t].count, resv[t].armed, unsent)
      /\ own' = IF resv[t].current
                THEN [own EXCEPT ![c] = AtLeastZero(@ - unsent)] ELSE own
      /\ resv' = [resv EXCEPT ![t] = NoResv]
      /\ files' = [i \in DOMAIN files |->
                      IF files[i].by = t THEN [files[i] EXCEPT !.by = by]
                                         ELSE files[i]]
      /\ posted \in resv[t].landed .. resv[t].count
  BY DEF End
<1>2. /\ c \in Clients /\ resv[t].count \in Nat /\ resv[t].landed \in Nat
      /\ posted \in Nat /\ posted >= resv[t].landed
      /\ resv[t].armed \in BOOLEAN /\ resv[t].current \in BOOLEAN
      /\ unsent \in Nat /\ unsent + posted = resv[t].count
  <2>1. c \in Clients
    BY LedgerAssumption
  <2>2. /\ resv[t].count \in Nat /\ resv[t].landed \in Nat
        /\ resv[t].armed \in BOOLEAN /\ resv[t].current \in BOOLEAN
    BY <1>0 DEF Reservations
  <2> QED BY <1>1, <2>1, <2>2
<1>3. Ends(t, unsent, ledger, own, resv, ledger', own', resv')
  <2>1. /\ own'[c] = IF resv[t].current THEN AtLeastZero(own[c] - unsent) ELSE own[c]
        /\ \A d \in Clients : d # c => own'[d] = own[d]
    BY <1>0, <1>1, <1>2
  <2>2. resv'[t] = NoResv /\ \A u \in Threads : u # t => resv'[u] = resv[u]
    BY <1>0, <1>1
  <2> HIDE DEF unsent
  <2>3. unsent <= resv[t].count
    BY <1>2
  <2> QED BY <1>0, <1>1, <1>2, <2>1, <2>2, <2>3 DEF Ends
<1>4. Books(ledger, own, resv) /\ Fresh(ledger, resv, files) /\ Landed(resv, files)
  BY DEF Counts
<1>5. /\ Books(ledger', own', resv')
      /\ ledger'.pending = AtLeastZero(ledger.pending - unsent)
      /\ ledger'.armed_pending = ledger.armed_pending
      /\ Total(Open(resv), Threads) = Total(Open(resv'), Threads) + resv[t].count
      /\ resv[t].armed => Total(Open(resv), ArmedIn(resv)) =
                             Total(Open(resv'), ArmedIn(resv')) + resv[t].count
      /\ ~resv[t].armed => Total(Open(resv), ArmedIn(resv)) =
                             Total(Open(resv'), ArmedIn(resv'))
  BY <1>3, <1>4, EndBooks
<1> HIDE DEF unsent, c
<1>6. t \notin Uploaded /\ by \in Uploaded /\ (by = "armed" => resv[t].armed)
  BY LedgerAssumption DEF Uploaded
<1>7. /\ DOMAIN files' = DOMAIN files
      /\ \A i \in DOMAIN files : files[i].by = t => files'[i].by = by
      /\ \A i \in DOMAIN files : files[i].by # t => files'[i] = files[i]
  <2>1. \A i \in DOMAIN files : files[i] \in Entry
    BY <1>0
  <2> HIDE DEF by
  <2> QED BY <1>1, <2>1 DEF Entry
<1> HIDE DEF by
<1>8. Filed(files', Uploaded) = Filed(files, Uploaded) \cup Filed(files, {t})
  BY <1>6, <1>7 DEF Filed
<1>9. Cardinality(Filed(files, {t})) <= resv[t].landed
  BY <1>4 DEF Landed
<1>10. /\ Cardinality(Filed(files, Uploaded)) \in Nat /\ IsFiniteSet(Filed(files, Uploaded))
       /\ Cardinality(Filed(files, {t})) \in Nat /\ IsFiniteSet(Filed(files, {t}))
       /\ Cardinality(Filed(files', Uploaded)) \in Nat
  BY <1>0, FiledFinite
<1>11. Cardinality(Filed(files', Uploaded)) <=
          Cardinality(Filed(files, Uploaded)) + Cardinality(Filed(files, {t}))
  <2>1. Filed(files, Uploaded) \cap Filed(files, {t}) = {}
    BY <1>6 DEF Filed
  <2>2. Cardinality(Filed(files, Uploaded) \cap Filed(files, {t})) = 0
    BY <2>1, FS_EmptySet
  <2>3. Cardinality(Filed(files, Uploaded) \cup Filed(files, {t})) =
            Cardinality(Filed(files, Uploaded)) + Cardinality(Filed(files, {t}))
                - Cardinality(Filed(files, Uploaded) \cap Filed(files, {t}))
    BY <1>10, FS_Union
  <2> QED BY <1>8, <1>10, <2>2, <2>3
<1>12. /\ Total(Open(resv'), Threads) \in Nat /\ ledger.pending \in Nat
       /\ Total(Open(resv'), ArmedIn(resv')) \in Nat
  BY <1>0, OpenType DEF Ledgers, ArmedIn
<1>13. Cardinality(Filed(files', Uploaded)) + Total(Open(resv'), Threads)
            <= ledger'.pending
  <2>1. Cardinality(Filed(files, Uploaded)) + Total(Open(resv), Threads) <= ledger.pending
    BY <1>4 DEF Fresh
  <2>2. Cardinality(Filed(files', Uploaded)) + Total(Open(resv'), Threads)
            <= ledger.pending - unsent
    BY <1>2, <1>5, <1>9, <1>10, <1>11, <1>12, <2>1
  <2> QED BY <1>2, <1>5, <1>10, <1>12, <2>2 DEF AtLeastZero
<1>14. Filed(files', {"armed"}) # {} \/ Total(Open(resv'), ArmedIn(resv')) > 0
            => ledger'.armed_pending
  <2>1. CASE Total(Open(resv'), ArmedIn(resv')) > 0
    <3>1. Total(Open(resv), ArmedIn(resv)) > 0
      BY <1>2, <1>5, <1>12, <2>1
    <3> QED BY <1>4, <1>5, <3>1 DEF Fresh
  <2>2. ASSUME NEW i \in Filed(files', {"armed"}) PROVE ledger'.armed_pending
    <3>1. i \in DOMAIN files /\ files'[i].by = "armed"
      BY <1>7 DEF Filed
    <3>2. CASE files[i].by = t
      <4>1. resv[t].armed
        BY <1>6, <1>7, <3>1, <3>2
      <4>2. Filed(files, {t}) # {}
        BY <3>1, <3>2 DEF Filed
      <4>3. Cardinality(Filed(files, {t})) # 0
        BY <1>10, <4>2, FS_EmptySet
      <4>4. resv[t].count > 0
        BY <1>2, <1>4, <1>9, <1>10, <4>3 DEF Landed
      <4>5. Total(Open(resv), ArmedIn(resv)) > 0
        BY <1>2, <1>5, <1>12, <4>1, <4>4
      <4> QED BY <1>4, <1>5, <4>5 DEF Fresh
    <3>3. CASE files[i].by # t
      <4>1. i \in Filed(files, {"armed"})
        BY <1>7, <3>1, <3>3 DEF Filed
      <4> QED BY <1>4, <1>5, <4>1 DEF Fresh
    <3> QED BY <3>2, <3>3
  <2> QED BY <2>1, <2>2
<1>15. Landed(resv', files')
  <2> SUFFICES ASSUME NEW u \in Threads
               PROVE  /\ resv'[u].landed <= resv'[u].count
                      /\ Cardinality(Filed(files', {u})) <= resv'[u].landed
    BY DEF Landed
  <2>1. u \notin Uploaded
    BY LedgerAssumption DEF Uploaded
  <2>2. CASE u = t
    <3>1. resv'[t] = NoResv
      BY <1>0, <1>1
    <3>2. Filed(files', {t}) = {}
      BY <1>6, <1>7, <2>1 DEF Filed
    <3> QED BY <2>2, <3>1, <3>2, FS_EmptySet DEF NoResv
  <2>3. CASE u # t
    <3>1. resv'[u] = resv[u]
      BY <1>0, <1>1, <2>3
    <3>2. Filed(files', {u}) = Filed(files, {u})
      BY <1>6, <1>7, <2>1, <2>3 DEF Filed
    <3> QED BY <1>4, <3>1, <3>2 DEF Landed
  <2> QED BY <2>2, <2>3
<1> QED BY <1>5, <1>13, <1>14, <1>15 DEF Counts, Fresh

-----------------------------------------------------------------------------
(* The steps, for the counts and for the thread that waits for a pass       *)

CountedState == Counts(ledger, own, resv, files) /\ GateWaits

(* GateWaits', of what the step makes of the pass.                          *)
LEMMA WaitsNext ==
    /\ GateWaits' <=> /\ sweep'.phase = "idle" => sweep'.thread = NoThread
                      /\ sweep'.thread # NoThread
                            => ~(resv'[sweep'.thread].count > 0)
    /\ GateWaits <=> /\ sweep.phase = "idle" => sweep.thread = NoThread
                     /\ sweep.thread # NoThread
                            => ~(resv[sweep.thread].count > 0)
  BY DEF GateWaits, Free, Sending

LEMMA GoesOnCounts ==
    ASSUME GateInv, GateWaits, NEW l \in Ledgers, NEW o \in [Clients -> Nat],
           NEW r \in [Threads -> Reservations],
           \A t \in Threads : r[t].count = resv[t].count,
           NEW fs \in Seq(Entry), Counts(l, o, r, fs), GoesOn(l, o, r)
    PROVE  Counts(ledger', own', resv', fs) /\ GateWaits'
<1> DEFINE refused == l.blocked /\ Required
           again == /\ sweep.why = "handover"
                    /\ ~l.blocked
                    /\ OverBudget(l, sweep.count)
<1>0. sweep \in Sweeps /\ armed \subseteq Clients
  BY DEF GateInv, TypeOK
<1>1. CASE /\ again
           /\ sweep' = [sweep EXCEPT !.phase = "list", !.why = "budget",
                                     !.listed = 0, !.doomed = {}]
           /\ ledger' = l /\ own' = o /\ resv' = r
           /\ UNCHANGED lock
  <2>1. sweep'.phase = "list" /\ sweep'.thread = sweep.thread
    BY <1>0, <1>1 DEF Sweeps
  <2>2. sweep.thread # NoThread => sweep.thread \in Threads
    BY <1>0 DEF Sweeps
  <2> QED BY <1>1, <2>1, <2>2, WaitsNext
<1>2. CASE /\ sweep.thread # NoThread /\ ~again /\ ~refused
           /\ sweep' = NoSweep
           /\ Reserve(sweep.thread, sweep.count, l, o, r)
           /\ UNCHANGED lock
  <2>1. sweep.thread \in Threads /\ sweep.count \in Nat
    BY <1>0, <1>2 DEF Sweeps
  <2>2. r[sweep.thread].count = 0
    <3>1. r[sweep.thread].count \in Nat
      BY <2>1 DEF Reservations
    <3>2. ~(r[sweep.thread].count > 0)
      BY <1>2, <2>1, WaitsNext
    <3> QED BY <3>1, <3>2
  <2>3. Counts(ledger', own', resv', fs)
    BY <1>0, <1>2, <2>1, <2>2, ReserveCounts
  <2>4. sweep'.thread = NoThread
    BY <1>2 DEF NoSweep
  <2> QED BY <2>3, <2>4, WaitsNext
<1>3. CASE /\ sweep.thread = NoThread \/ refused
           /\ sweep' = NoSweep
           /\ ledger' = l /\ own' = o /\ resv' = r
           /\ lock' = IF lock = "draining" THEN "drained" ELSE lock
  <2>1. sweep'.thread = NoThread
    BY <1>3 DEF NoSweep
  <2> QED BY <1>3, <2>1, WaitsNext
<1> QED BY <1>1, <1>2, <1>3 DEF GoesOn

(* What a pass leaves of the files of each request, and of the uploaded.    *)
LEMMA SweepDeleteFiled ==
    ASSUME GateInv, SweepDelete, files' \in Seq(Entry)
    PROVE  /\ Filed(files', Uploaded) = {}
           /\ \A t \in Threads :
                Cardinality(Filed(files', {t})) <= Cardinality(Filed(files, {t}))
<1> DEFINE after == [i \in DOMAIN files |-> After(i)]
<1>1. files \in Seq(Entry) /\ DOMAIN files = 1 .. Len(files) /\ Len(files) \in Nat
  BY DEF GateInv, TypeOK, Entry
<1>2. ASSUME NEW i \in DOMAIN files
      PROVE  /\ After(i).by \notin Uploaded
             /\ \A t \in Threads : After(i).by = t => files[i].by = t
             /\ After(i) \in Entry
  <2>1. files[i] \in Entry
    BY <1>1
  <2>2. /\ \A t \in Threads : t \notin Uploaded \cup {"kept", "passed"}
        /\ \A b \in {"kept", "passed"} : b \notin Uploaded
    BY LedgerAssumption DEF Uploaded
  <2>3. CASE files[i].by \in Threads
    <3>1. After(i) = [files[i] EXCEPT !.by = files[i].by]
      BY <2>3 DEF After
    <3>2. After(i).by = files[i].by /\ After(i) \in Entry
      BY <2>1, <3>1 DEF Entry
    <3> QED BY <2>2, <2>3, <3>2
  <2>4. CASE files[i].by \notin Threads
    <3>1. PICK b \in {"kept", "passed"} : After(i) = [files[i] EXCEPT !.by = b]
      BY <2>4 DEF After
    <3>2. After(i).by = b /\ After(i) \in Entry
      BY <2>1, <3>1 DEF Entry, Origins
    <3> QED BY <2>2, <3>2
  <2> QED BY <2>3, <2>4
<1>3. after \in Seq(Entry) /\ DOMAIN after = DOMAIN files
  <2>1. after \in [1 .. Len(files) -> Entry]
    BY <1>1, <1>2
  <2>2. DOMAIN after = DOMAIN files
    OBVIOUS
  <2> HIDE DEF after
  <2> QED BY <1>1, <2>1, <2>2
<1>4. /\ \A i \in DOMAIN files : after[i].by \notin Uploaded
      /\ \A i \in DOMAIN files : \A t \in Threads : after[i].by = t => files[i].by = t
  BY <1>2
<1>5. PICK D \in SUBSET sweep.doomed : files' \in Without(after, D)
  BY DEF SweepDelete
<1> HIDE DEF after
<1>6. PICK f \in [DOMAIN files' -> DOMAIN files] :
            /\ \A i, j \in DOMAIN files' : f[i] = f[j] => i = j
            /\ \A i \in DOMAIN files' : files'[i] = after[f[i]]
  <2>1. ASSUME NEW s \in Seq(Entry), NEW r \in Without(s, D)
        PROVE  \E f \in [DOMAIN r -> DOMAIN s] :
                  /\ \A i, j \in DOMAIN r : f[i] = f[j] => i = j
                  /\ \A i \in DOMAIN r : r[i] = s[f[i]]
    BY WithoutInjects
  <2>2. \E f \in [DOMAIN files' -> DOMAIN after] :
            /\ \A i, j \in DOMAIN files' : f[i] = f[j] => i = j
            /\ \A i \in DOMAIN files' : files'[i] = after[f[i]]
    BY <1>3, <1>5, <2>1
  <2> QED BY <1>3, <2>2
<1>7. Filed(files', Uploaded) = {}
  BY <1>4, <1>6 DEF Filed
<1>8. ASSUME NEW t \in Threads
      PROVE  Cardinality(Filed(files', {t})) <= Cardinality(Filed(files, {t}))
  <2>1. \A i \in DOMAIN files' : files'[i].by \in {t} => files[f[i]].by \in {t}
    BY <1>4, <1>6
  <2> QED BY <1>1, <1>6, <2>1, FiledFewer
<1> QED BY <1>7, <1>8

LEMMA LandCounts ==
    ASSUME GateInv, Counts(ledger, own, resv, files),
           NEW t \in Threads, Land(t)
    PROVE  Counts(ledger', own', resv', files')
<1>0. /\ resv \in [Threads -> Reservations]
      /\ files \in Seq(Entry) /\ DOMAIN files = 1 .. Len(files) /\ Len(files) \in Nat
  BY DEF GateInv, TypeOK, Entry
<1>1. /\ files' = Append(files, [by |-> t, mounted |-> FALSE])
      /\ resv' = [resv EXCEPT ![t].landed = @ + 1]
      /\ resv[t].landed < resv[t].count
      /\ UNCHANGED <<ledger, own>>
  BY DEF Land
<1>2. /\ DOMAIN files' = 1 .. Len(files) + 1
      /\ \A i \in 1 .. Len(files) : files'[i] = files[i]
      /\ files'[Len(files) + 1].by = t
  <2>1. [by |-> t, mounted |-> FALSE] \in Entry
    BY DEF Entry, Origins
  <2> QED BY <1>0, <1>1, <2>1
<1>3. /\ \A u \in Threads : /\ resv'[u].count = resv[u].count
                            /\ resv'[u].armed = resv[u].armed
                            /\ resv'[u].current = resv[u].current
      /\ \A u \in Threads : u # t => resv'[u].landed = resv[u].landed
      /\ resv'[t].landed = resv[t].landed + 1
      /\ \A u \in Threads : resv[u].landed \in Nat /\ resv[u].count \in Nat
  BY <1>0, <1>1 DEF Reservations
<1>4. /\ \A u \in Threads : u \notin Uploaded
      /\ "armed" \notin Threads
  BY LedgerAssumption DEF Uploaded
<1>5. ASSUME NEW S, t \notin S PROVE Filed(files', S) = Filed(files, S)
  BY <1>0, <1>2, <1>5 DEF Filed
<1>6. \A S \in {Uploaded, {"armed"}} : Filed(files', S) = Filed(files, S)
  <2>1. t \notin Uploaded /\ t \notin {"armed"}
    BY <1>4
  <2> QED BY <1>5, <2>1
<1>7. Landed(resv', files')
  <2> SUFFICES ASSUME NEW u \in Threads
               PROVE  /\ resv'[u].landed <= resv'[u].count
                      /\ Cardinality(Filed(files', {u})) <= resv'[u].landed
    BY DEF Landed
  <2>1. resv[u].landed <= resv[u].count /\ Cardinality(Filed(files, {u})) <= resv[u].landed
    BY DEF Counts, Landed
  <2>2. CASE u # t
    <3>1. Filed(files', {u}) = Filed(files, {u})
      BY <1>5, <2>2
    <3> QED BY <1>3, <2>1, <2>2, <3>1
  <2>3. CASE u = t
    <3>1. Filed(files', {t}) = Filed(files, {t}) \cup {Len(files) + 1}
      BY <1>0, <1>2 DEF Filed
    <3>2. Len(files) + 1 \notin Filed(files, {t})
      BY <1>0 DEF Filed
    <3>3. IsFiniteSet(Filed(files, {t})) /\ Cardinality(Filed(files, {t})) \in Nat
      BY <1>0, FiledFinite
    <3>4. Cardinality(Filed(files', {t})) = Cardinality(Filed(files, {t})) + 1
      BY <3>1, <3>2, <3>3, FS_AddElement
    <3> QED BY <1>1, <1>3, <2>1, <2>3, <3>3, <3>4
  <2> QED BY <2>2, <2>3
<1>8. ledger' = ledger /\ own' = own
  BY <1>1
<1> QED BY <1>3, <1>6, <1>7, <1>8, CountsSame

LEMMA ReplaceCounts ==
    ASSUME GateInv, Counts(ledger, own, resv, files),
           NEW c \in Clients, Replace(c)
    PROVE  Counts(ledger', own', resv', files')
<1>0. own \in [Clients -> Nat] /\ resv \in [Threads -> Reservations] /\ ledger \in Ledgers
  BY DEF GateInv, TypeOK
<1>1. /\ \A t \in Threads : ClientOf[t] = c => ~(resv[t].count > 0)
      /\ own' = [own EXCEPT ![c] = 0]
      /\ ledger' = ledger /\ resv' = resv /\ files' = files
  BY DEF Replace, Sending
<1>2. /\ own' \in [Clients -> Nat] /\ own'[c] = 0
      /\ \A d \in Clients : d # c => own'[d] = own[d]
  BY <1>0, <1>1
<1>3. Total(own', Clients) <= Total(own, Clients)
  <2>1. PICK n \in Nat : /\ Total(own, Clients) = n + own[c]
                         /\ Total(own', Clients) = n + own'[c]
    BY <1>0, <1>2, SharesChanged
  <2> QED BY <1>0, <1>2, <2>1
<1>4. ASSUME NEW d \in Clients PROVE Total(Open(resv), CurrentOf(d, resv)) <= own'[d]
  <2>1. CASE d = c
    <3>1. ASSUME NEW t \in CurrentOf(d, resv) PROVE Open(resv)[t] = 0
      <4>1. t \in Threads /\ ~(resv[t].count > 0) /\ resv[t].count \in Nat
        BY <1>0, <1>1, <2>1 DEF CurrentOf, Reservations
      <4> QED BY <4>1 DEF Open
    <3>2. Total(Open(resv), CurrentOf(d, resv)) = 0
      BY <3>1, TotalOfZeros
    <3> QED BY <1>2, <2>1, <3>2
  <2>2. CASE d # c
    BY <1>2, <2>2 DEF Counts, Books
  <2> QED BY <2>1, <2>2
<1>5. Total(own', Clients) + Total(Open(resv), StaleIn(resv)) <= ledger.pending
  <2>1. Total(own, Clients) + Total(Open(resv), StaleIn(resv)) <= ledger.pending
    BY DEF Counts, Books
  <2>2. Total(Open(resv), StaleIn(resv)) \in Nat /\ ledger.pending \in Nat
    BY <1>0, OpenType DEF StaleIn, Ledgers
  <2>3. Total(own, Clients) \in Nat /\ Total(own', Clients) \in Nat
    <3>1. IsFiniteSet(Clients)
      BY LedgerAssumption
    <3> QED BY <1>0, <1>2, <3>1, TotalType
  <2> QED BY <1>3, <2>1, <2>2, <2>3
<1>6. Books(ledger, own', resv)
  BY <1>4, <1>5 DEF Counts, Books
<1> QED BY <1>1, <1>6 DEF Counts

LEMMA QuietCounts ==
    ASSUME Counts(ledger, own, resv, files), UNCHANGED <<own, resv, files>>,
           ledger'.pending = ledger.pending,
           ledger'.in_flight = ledger.in_flight,
           ledger'.in_flight_armed = ledger.in_flight_armed,
           ledger'.armed_pending = ledger.armed_pending
    PROVE  Counts(ledger', own', resv', files')
<1>1. own' = own /\ resv' = resv /\ files' = files
  OBVIOUS
<1>2. Landed(resv, files)
  BY DEF Counts
<1>3. Counts(ledger', own, resv, files)
  BY <1>2, CountsSame
<1> QED BY <1>1, <1>3

LEMMA StepCounts ==
    ASSUME GateInv, GateInv', CountedState, [Next]_vars
    PROVE  Counts(ledger', own', resv', files') /\ GateWaits'
<1> DEFINE Now == Counts(ledger', own', resv', files')
<1>0. /\ Counts(ledger, own, resv, files) /\ GateWaits
      /\ sweep \in Sweeps /\ armed \subseteq Clients
      /\ resv \in [Threads -> Reservations] /\ own \in [Clients -> Nat]
      /\ ledger \in Ledgers /\ files \in Seq(Entry)
      /\ DOMAIN files = 1 .. Len(files) /\ Len(files) \in Nat
      /\ files' \in Seq(Entry)
  BY DEF CountedState, GateInv, TypeOK, Entry
<1>0a. sweep.thread # NoThread => sweep.thread \in Threads
  BY <1>0 DEF Sweeps
<1>1. CASE UNCHANGED vars
  BY <1>0, <1>1, WaitsNext DEF vars
\* Steps of the device, the lock and the pass that leave the counts alone.
<1>2. ASSUME UNCHANGED <<own, resv, files>>,
             ledger'.pending = ledger.pending,
             ledger'.in_flight = ledger.in_flight,
             ledger'.in_flight_armed = ledger.in_flight_armed,
             ledger'.armed_pending = ledger.armed_pending
      PROVE  Now
  BY <1>0, <1>2, QuietCounts
<1>3. ASSUME NEW why \in {"handover", "budget", "leaked", "inherited", "orphan"},
             NEW c \in Clients \cup {NoClient}, NEW n \in Nat,
             NEW t \in Threads \cup {NoThread}, StartSweep(why, c, t, n),
             t # NoThread => ~(resv[t].count > 0), UNCHANGED resv
      PROVE  GateWaits'
  <2>1. sweep'.phase = "list" /\ sweep'.thread = t
    BY <1>3 DEF StartSweep, NoSweep
  <2> QED BY <1>3, <2>1, WaitsNext
<1>4. ASSUME NEW c \in Clients, Drain(c), UNCHANGED resv PROVE GateWaits'
  BY <1>3, <1>4 DEF Drain
<1>5. ASSUME UNCHANGED <<resv, sweep>> PROVE GateWaits'
  BY <1>0, <1>5, WaitsNext
<1>6. ASSUME NEW t \in Threads, NEW n \in Costs[t], Upload(t, n)
      PROVE  Now /\ GateWaits'
  <2>1. n \in Nat
    BY LedgerAssumption
  <2>2. /\ Reserve(t, n, ledger, own, resv)
        /\ sweep' = sweep /\ files' = files
        /\ sweep.phase = "idle" /\ ~(resv[t].count > 0)
    BY <1>6 DEF Upload, Starts, Free, Sending
  <2>3. resv[t].count = 0
    BY <1>0, <2>2 DEF Reservations
  <2>4. Counts(ledger', own', resv', files)
    BY <1>0, <2>1, <2>2, <2>3, ReserveCounts
  <2>5. sweep'.thread = NoThread
    BY <1>0, <2>2, WaitsNext
  <2> QED BY <2>2, <2>4, <2>5, WaitsNext
<1>7. ASSUME NEW t \in Threads, NEW n \in Costs[t], UploadSweeps(t, n)
      PROVE  Now /\ GateWaits'
  <2>1. n \in Nat /\ ClientOf[t] \in Clients
    BY LedgerAssumption
  <2>2. PICK why \in {"handover", "budget"} : StartSweep(why, ClientOf[t], t, n)
    BY <1>7 DEF UploadSweeps
  <2>3. ~(resv[t].count > 0) /\ UNCHANGED <<ledger, own, resv, files>>
    BY <1>7 DEF UploadSweeps, Starts, Sending
  <2> QED BY <1>2, <1>3, <2>1, <2>2, <2>3
<1>8. CASE SweepList
  <2>1. /\ UNCHANGED <<ledger, own, resv, files>>
        /\ sweep' = [sweep EXCEPT !.phase = "delete", !.listed = Len(files),
                                  !.doomed = Doomed(Len(files))]
    BY <1>8 DEF SweepList
  <2>2. sweep'.phase = "delete" /\ sweep'.thread = sweep.thread
    BY <1>0, <2>1 DEF Sweeps
  <2> QED BY <1>0, <1>2, <2>1, <2>2, WaitsNext
<1>9. CASE SweepDelete
  <2>1. /\ Filed(files', Uploaded) = {}
        /\ \A t \in Threads :
                Cardinality(Filed(files', {t})) <= Cardinality(Filed(files, {t}))
    BY <1>0, <1>9, SweepDeleteFiled
  <2>2. /\ Counts(Collected(ledger), NoShares, Staled(resv), files')
        /\ NoShares \in [Clients -> Nat]
        /\ Staled(resv) \in [Threads -> Reservations]
        /\ \A t \in Threads : Staled(resv)[t].count = resv[t].count
    BY <1>0, <2>1, CollectedCounts
  <2>3. GoesOn(Collected(ledger), NoShares, Staled(resv))
    BY <1>9 DEF SweepDelete, NoShares, Staled
  <2>4. Collected(ledger) \in Ledgers
    BY <1>0, CollectedProperties
  <2> QED BY <1>0, <2>2, <2>3, <2>4, GoesOnCounts
<1>10. CASE EnableFTP
  <2>1. /\ ledger' = [ledger EXCEPT !.ftp_enable_attempted = TRUE]
        /\ UNCHANGED <<own, resv, sweep, files>>
    BY <1>10 DEF EnableFTP
  <2>2. /\ ledger'.pending = ledger.pending
        /\ ledger'.in_flight = ledger.in_flight
        /\ ledger'.in_flight_armed = ledger.in_flight_armed
        /\ ledger'.armed_pending = ledger.armed_pending
    BY <1>0, <2>1 DEF Ledgers
  <2> QED BY <1>2, <1>5, <2>1, <2>2
<1>11. CASE SweepFail
  <2> DEFINE l == [ledger EXCEPT
                !.blocked = @ \/ sweep.why # "inherited",
                !.ftp_enable_attempted = @ \/ MayEnable]
  <2>1. /\ l \in Ledgers
        /\ l.pending = ledger.pending
        /\ l.in_flight = ledger.in_flight
        /\ l.in_flight_armed = ledger.in_flight_armed
        /\ l.armed_pending = ledger.armed_pending
    BY <1>0 DEF Ledgers
  <2>2. GoesOn(l, own, resv) /\ files' = files
    BY <1>11 DEF SweepFail
  <2> HIDE DEF l
  <2>3. Landed(resv, files)
    BY <1>0 DEF Counts
  <2>4. Counts(l, own, resv, files)
    BY <1>0, <2>1, <2>3, CountsSame
  <2> QED BY <1>0, <2>1, <2>2, <2>4, GoesOnCounts
<1>12. ASSUME NEW t \in Threads, Land(t) PROVE Now /\ GateWaits'
  <2>1. Now
    BY <1>0, <1>12, LandCounts
  <2>2. resv' = [resv EXCEPT ![t].landed = @ + 1] /\ sweep' = sweep
    BY <1>12 DEF Land
  <2>3. \A u \in Threads : resv'[u].count = resv[u].count
    BY <1>0, <2>2 DEF Reservations
  <2> QED BY <1>0, <1>0a, <2>1, <2>2, <2>3, WaitsNext
<1>13. ASSUME NEW t \in Threads, Mount(t) PROVE Now /\ GateWaits'
  <2>1. PICK i \in DOMAIN files :
            files' = [j \in DOMAIN files |-> [files[j] EXCEPT !.mounted = (j = i)]]
    BY <1>13 DEF Mount
  <2>2. ledger' = ledger /\ own' = own /\ resv' = resv /\ sweep' = sweep
    BY <1>13 DEF Mount
  <2>3. DOMAIN files' = DOMAIN files /\ \A j \in DOMAIN files : files'[j].by = files[j].by
    BY <1>0, <2>1 DEF Entry
  <2>4. \A S : Filed(files', S) = Filed(files, S)
    BY <2>3 DEF Filed
  <2>5. Landed(resv, files')
    BY <1>0, <2>4 DEF Counts, Landed
  <2>6. Counts(ledger, own, resv, files')
    BY <1>0, <2>4, <2>5, CountsSame
  <2> QED BY <1>5, <2>2, <2>6
<1>14. ASSUME NEW t \in Threads, NEW posted \in 0 .. resv[t].count, End(t, posted)
       PROVE  Now /\ GateWaits'
  <2>1. Now
    BY <1>0, <1>14, EndCounts
  <2>2. sweep.phase = "idle" /\ sweep' = sweep
    BY <1>14 DEF End, Free
  <2>3. sweep'.thread = NoThread
    BY <1>0, <2>2, WaitsNext
  <2> QED BY <2>1, <2>3, WaitsNext
<1>15. CASE Acquire
  <2>1. ledger' = [ledger EXCEPT !.swept = FALSE]
        /\ UNCHANGED <<own, resv, sweep, files>>
    BY <1>15 DEF Acquire
  <2>2. /\ ledger'.pending = ledger.pending
        /\ ledger'.in_flight = ledger.in_flight
        /\ ledger'.in_flight_armed = ledger.in_flight_armed
        /\ ledger'.armed_pending = ledger.armed_pending
    BY <1>0, <2>1 DEF Ledgers
  <2> QED BY <1>2, <1>5, <2>1, <2>2
<1>16. CASE Release
  <2>1. UNCHANGED <<ledger, own, resv, files>>
    BY <1>16 DEF Release
  <2>2. \/ \E c \in Clients : Drain(c)
        \/ StartSweep("orphan", NoClient, NoThread, 0)
        \/ UNCHANGED sweep
    BY <1>0, <1>16 DEF Release
  <2>3. GateWaits'
    BY <1>3, <1>4, <1>5, <2>1, <2>2
  <2> QED BY <1>2, <2>1, <2>3
<1>17. CASE Unlock
  BY <1>2, <1>5, <1>17 DEF Unlock
<1>18. ASSUME NEW c \in Clients, Close(c) PROVE Now /\ GateWaits'
  BY <1>2, <1>4, <1>18 DEF Close
<1>19. ASSUME NEW c \in Clients, Replace(c) PROVE Now /\ GateWaits'
  <2>1. UNCHANGED <<resv, sweep>>
    BY <1>19 DEF Replace
  <2> QED BY <1>0, <1>5, <1>19, <2>1, ReplaceCounts
<1>20. ASSUME NEW c \in Clients, Reprobe(c) PROVE Now /\ GateWaits'
  BY <1>2, <1>5, <1>20 DEF Reprobe
<1>21. CASE OtherLane
  <2>1. /\ files' = Append(files, [by |-> "other", mounted |-> FALSE])
        /\ ledger' = ledger /\ own' = own /\ resv' = resv /\ sweep' = sweep
    BY <1>21 DEF OtherLane
  <2>2. /\ DOMAIN files' = 1 .. Len(files) + 1
        /\ \A i \in 1 .. Len(files) : files'[i] = files[i]
        /\ files'[Len(files) + 1].by = "other"
    <3>1. [by |-> "other", mounted |-> FALSE] \in Entry
      BY DEF Entry, Origins
    <3> QED BY <1>0, <2>1, <3>1
  <2>3. ASSUME NEW S, "other" \notin S PROVE Filed(files', S) = Filed(files, S)
    BY <1>0, <2>2, <2>3 DEF Filed
  <2>4. /\ \A S \in {Uploaded, {"armed"}} : Filed(files', S) = Filed(files, S)
        /\ \A t \in Threads : Filed(files', {t}) = Filed(files, {t})
    <3>1. "other" \notin Uploaded /\ "other" \notin {"armed"}
      BY DEF Uploaded
    <3>2. \A t \in Threads : "other" \notin {t}
      BY LedgerAssumption
    <3> QED BY <2>3, <3>1, <3>2
  <2>5. Landed(resv, files')
    BY <1>0, <2>4 DEF Counts, Landed
  <2>6. Counts(ledger, own, resv, files')
    BY <1>0, <2>4, <2>5, CountsSame
  <2> QED BY <1>5, <2>1, <2>6
<1> QED
  BY <1>1, <1>6, <1>7, <1>8, <1>9, <1>10, <1>11, <1>12, <1>13, <1>14, <1>15,
     <1>16, <1>17, <1>18, <1>19, <1>20, <1>21 DEF Next

-----------------------------------------------------------------------------
(* What a pass is about to delete                                           *)

Used(i, fs) == \/ fs[i].mounted
               \/ /\ fs[i].by \in Threads
                  /\ \A j \in DOMAIN fs : j > i => fs[j].by # fs[i].by

Later(i, fs) == {j \in DOMAIN fs : j > i /\ fs[j].by \notin Threads}

Spares(fs) == sweep.phase = "delete" =>
                \A i \in sweep.doomed :
                    /\ i \in DOMAIN fs
                    /\ Used(i, fs) => Cardinality(Later(i, fs)) > DEFAULT_KEEP

LEMMA SparesOfState ==
    /\ Spares(files) <=> DoomedListed /\ SparesUnlessOvertaken
    /\ Spares(files)' <=> (DoomedListed /\ SparesUnlessOvertaken)'
  BY DEF Spares, DoomedListed, SparesUnlessOvertaken, InUse, Overtaken, Used, Later

LEMMA LaterFinite ==
    ASSUME NEW fs \in Seq(Entry), NEW i
    PROVE  IsFiniteSet(Later(i, fs)) /\ Cardinality(Later(i, fs)) \in Nat
<1>1. DOMAIN fs = 1 .. Len(fs) /\ Len(fs) \in Nat
  OBVIOUS
<1>2. IsFiniteSet(1 .. Len(fs)) /\ Later(i, fs) \in SUBSET (1 .. Len(fs))
  BY <1>1, FS_Interval DEF Later
<1>3. IsFiniteSet(Later(i, fs))
  BY <1>2, FS_Subset
<1> QED BY <1>3, FS_CardinalityType

(* A file in use that the keep-count does not save has been overtaken: what *)
(* is younger is another request's, and counted, or nobody's any more.      *)
LEMMA DoomedOvertaken ==
    ASSUME GateInv, CountedState, NEW i \in Doomed(Len(files)), Used(i, files)
    PROVE  i \in DOMAIN files /\ Cardinality(Later(i, files)) > DEFAULT_KEEP
<1> DEFINE candidates == {j \in 1 .. Len(files) : ~files[j].mounted}
           younger == {j \in candidates : j > i}
           t == files[i].by
<1>0. /\ files \in Seq(Entry) /\ DOMAIN files = 1 .. Len(files) /\ Len(files) \in Nat
      /\ ledger \in Ledgers /\ resv \in [Threads -> Reservations]
      /\ Books(ledger, own, resv) /\ Landed(resv, files)
  BY DEF GateInv, TypeOK, Entry, CountedState, Counts
<1>1. i \in 1 .. Len(files) /\ ~files[i].mounted /\ Cardinality(younger) >= SweepKeep
  BY DEF Doomed
<1>2. t \in Threads /\ \A j \in DOMAIN files : j > i => files[j].by # t
  BY <1>1 DEF Used
<1> HIDE DEF t
<1>3. PICK R : R = Threads \ {t}
  OBVIOUS
<1>4. younger \subseteq Later(i, files) \cup Filed(files, R)
  BY <1>0, <1>2, <1>3 DEF Later, Filed
<1>5. /\ IsFiniteSet(Later(i, files)) /\ Cardinality(Later(i, files)) \in Nat
      /\ IsFiniteSet(Filed(files, R)) /\ Cardinality(Filed(files, R)) \in Nat
      /\ IsFiniteSet(Filed(files, {t})) /\ Cardinality(Filed(files, {t})) \in Nat
  BY <1>0, FiledFinite, LaterFinite
<1>6. Cardinality(younger) <= Cardinality(Later(i, files)) + Cardinality(Filed(files, R))
      /\ Cardinality(younger) \in Nat
  <2> HIDE DEF younger
  <2> DEFINE A == Later(i, files)
             B == Filed(files, R)
  <2>1. IsFiniteSet(A) /\ IsFiniteSet(B) /\ younger \in SUBSET (A \cup B)
    BY <1>4, <1>5
  <2> HIDE DEF A, B
  <2>2. /\ IsFiniteSet(A \cup B)
        /\ Cardinality(A \cup B) = Cardinality(A) + Cardinality(B) - Cardinality(A \cap B)
    BY <2>1, FS_Union
  <2>3. IsFiniteSet(A \cap B)
    BY <2>1, FS_Intersection
  <2>4. Cardinality(younger) <= Cardinality(A \cup B) /\ IsFiniteSet(younger)
    BY <2>1, <2>2, FS_Subset
  <2>5. /\ Cardinality(A) \in Nat /\ Cardinality(B) \in Nat
        /\ Cardinality(A \cap B) \in Nat /\ Cardinality(younger) \in Nat
    BY <2>1, <2>3, <2>4, FS_CardinalityType
  <2> QED BY <2>2, <2>4, <2>5 DEF A, B
<1> HIDE DEF younger
<1>7. /\ \A u \in Threads : Cardinality(Filed(files, {u})) <= resv[u].count
      /\ Cardinality(Filed(files, {t})) <= resv[t].count
      /\ resv[t].count \in Nat
  <2>1. ASSUME NEW u \in Threads PROVE Cardinality(Filed(files, {u})) <= resv[u].count
    <3>1. resv[u].count \in Nat /\ resv[u].landed \in Nat
      BY <1>0 DEF Reservations
    <3>2. Cardinality(Filed(files, {u})) \in Nat
      BY <1>0, FiledFinite
    <3> QED BY <1>0, <3>1, <3>2 DEF Landed
  <2> QED BY <1>0, <1>2, <2>1 DEF Reservations
<1>8. Cardinality(Filed(files, R)) <= Total(Open(resv), R)
  <2>1. R \in SUBSET Threads
    BY <1>3
  <2> QED BY <1>0, <1>7, <2>1, FiledBound
<1>9. /\ Total(Open(resv), Threads) = Total(Open(resv), R) + resv[t].count
      /\ Total(Open(resv), R) \in Nat
  <2>1. Threads \in SUBSET Threads
    OBVIOUS
  <2> QED BY <1>0, <1>2, <1>3, <2>1, OpenOfOther
<1>10. Cardinality(Filed(files, {t})) >= 1
  <2>1. i \in Filed(files, {t})
    BY <1>0, <1>1 DEF Filed, t
  <2>2. Cardinality(Filed(files, {t})) # 0
    BY <1>5, <2>1, FS_EmptySet
  <2> QED BY <1>5, <2>2
<1>11. SweepKeep >= 1 + Total(Open(resv), Threads)
  <2>1. ledger.in_flight = Total(Open(resv), Threads) /\ ledger.in_flight \in Nat
    BY <1>0 DEF Books, Ledgers
  <2>2. Keep \in Nat
    BY LedgerAssumption
  <2> QED BY <2>1, <2>2 DEF SweepKeep, DEFAULT_KEEP
<1>12. SweepKeep \in Nat
  <2>1. ledger.in_flight \in Nat /\ Keep \in Nat
    BY <1>0, LedgerAssumption DEF Ledgers
  <2> QED BY <2>1 DEF SweepKeep, DEFAULT_KEEP
<1>13. Cardinality(Later(i, files)) >= 2
  BY <1>1, <1>5, <1>6, <1>7, <1>8, <1>9, <1>10, <1>11, <1>12
<1> QED BY <1>0, <1>1, <1>5, <1>13 DEF DEFAULT_KEEP

(* While a pass deletes, what is listed stays, and only a mount can put a   *)
(* file to use: one whose request sends no other, so in use since it landed.*)
LEMMA SparesSame ==
    ASSUME Spares(files), sweep' = sweep,
           files \in Seq(Entry), files' \in Seq(Entry),
           DOMAIN files \subseteq DOMAIN files',
           \A j \in DOMAIN files : files'[j].by = files[j].by,
           \A i \in DOMAIN files : i \in sweep.doomed /\ Used(i, files')
                                        => Used(i, files)
    PROVE  Spares(files)'
<1> SUFFICES ASSUME sweep.phase = "delete", NEW i \in sweep.doomed
             PROVE  /\ i \in DOMAIN files'
                    /\ Used(i, files') => Cardinality(Later(i, files')) > DEFAULT_KEEP
  BY DEF Spares, Used, Later
<1>1. i \in DOMAIN files /\ (Used(i, files) => Cardinality(Later(i, files)) > DEFAULT_KEEP)
  BY DEF Spares
<1>2. Later(i, files) \in SUBSET Later(i, files')
  BY DEF Later
<1>3. /\ Cardinality(Later(i, files)) <= Cardinality(Later(i, files'))
      /\ Cardinality(Later(i, files)) \in Nat /\ Cardinality(Later(i, files')) \in Nat
  BY <1>2, LaterFinite, FS_Subset
<1> QED BY <1>1, <1>3 DEF DEFAULT_KEEP

LEMMA StepSpares ==
    ASSUME GateInv, GateInv', CountedState, Spares(files), [Next]_vars
    PROVE  Spares(files)'
<1>0. /\ sweep \in Sweeps /\ resv \in [Threads -> Reservations]
      /\ files \in Seq(Entry) /\ DOMAIN files = 1 .. Len(files) /\ Len(files) \in Nat
      /\ files' \in Seq(Entry)
  BY DEF GateInv, TypeOK, Entry
<1>1. ASSUME sweep'.phase # "delete" PROVE Spares(files)'
  BY <1>1 DEF Spares
<1>2. ASSUME UNCHANGED <<sweep, files>> PROVE Spares(files)'
  BY <1>0, <1>2, SparesSame
<1>3. ASSUME NEW why, NEW c, NEW t, NEW n, StartSweep(why, c, t, n)
      PROVE  Spares(files)'
  BY <1>1, <1>3 DEF StartSweep, NoSweep
<1>4. ASSUME NEW c, Drain(c) PROVE Spares(files)'
  BY <1>3, <1>4 DEF Drain
<1>5. ASSUME NEW l, NEW o, NEW r, GoesOn(l, o, r) PROVE Spares(files)'
  <2>1. \/ sweep' = [sweep EXCEPT !.phase = "list", !.why = "budget",
                                  !.listed = 0, !.doomed = {}]
        \/ sweep' = NoSweep
    BY <1>5, Zenon DEF GoesOn
  <2>2. CASE sweep' = NoSweep
    BY <1>1, <2>2 DEF NoSweep
  <2>3. CASE sweep' = [sweep EXCEPT !.phase = "list", !.why = "budget",
                                    !.listed = 0, !.doomed = {}]
    <3>1. sweep'.phase = "list"
      BY <1>0, <2>3 DEF Sweeps
    <3> QED BY <1>1, <3>1
  <2> QED BY <2>1, <2>2, <2>3
<1>6. ASSUME NEW x \in Entry, files' = Append(files, x), ~x.mounted,
             sweep' = sweep
      PROVE  Spares(files)'
  <2>1. /\ DOMAIN files' = 1 .. Len(files) + 1
        /\ \A j \in 1 .. Len(files) : files'[j] = files[j]
    BY <1>0, <1>6
  <2>2. ASSUME NEW i \in DOMAIN files, Used(i, files') PROVE Used(i, files)
    BY <1>0, <2>1, <2>2 DEF Used
  <2> QED BY <1>0, <1>6, <2>1, <2>2, SparesSame
<1>7. CASE SweepList
  <2>1. sweep' = [sweep EXCEPT !.phase = "delete", !.listed = Len(files),
                               !.doomed = Doomed(Len(files))]
        /\ files' = files
    BY <1>7 DEF SweepList
  <2>2. sweep'.doomed = Doomed(Len(files))
    BY <1>0, <2>1 DEF Sweeps
  <2>3. ASSUME NEW i \in Doomed(Len(files))
        PROVE  /\ i \in DOMAIN files
               /\ Used(i, files) => Cardinality(Later(i, files)) > DEFAULT_KEEP
    <3>1. i \in DOMAIN files
      BY <1>0 DEF Doomed
    <3> QED BY <3>1, DoomedOvertaken
  <2>4. files' = files
    BY <2>1
  <2> QED BY <2>2, <2>3, <2>4 DEF Spares, Used, Later
<1>8. ASSUME NEW t \in Threads, Land(t) PROVE Spares(files)'
  <2>1. [by |-> t, mounted |-> FALSE] \in Entry
    BY DEF Entry, Origins
  <2> QED BY <1>6, <1>8, <2>1 DEF Land
<1>9. CASE OtherLane
  <2>1. [by |-> "other", mounted |-> FALSE] \in Entry
    BY DEF Entry, Origins
  <2> QED BY <1>6, <1>9, <2>1 DEF OtherLane
<1>10. ASSUME NEW t \in Threads, Mount(t) PROVE Spares(files)'
  <2>1. PICK m \in DOMAIN files :
            /\ files[m].by = t
            /\ files' = [j \in DOMAIN files |-> [files[j] EXCEPT !.mounted = (j = m)]]
    BY <1>10 DEF Mount
  <2>2. sweep' = sweep /\ resv[t].count = 1
    BY <1>10 DEF Mount
  <2>3. /\ DOMAIN files' = DOMAIN files
        /\ \A j \in DOMAIN files : /\ files'[j].by = files[j].by
                                   /\ files'[j].mounted = (j = m)
    BY <1>0, <2>1 DEF Entry
  <2>4. Cardinality(Filed(files, {t})) <= 1
    <3>1. /\ Cardinality(Filed(files, {t})) <= resv[t].landed
          /\ resv[t].landed <= resv[t].count /\ resv[t].landed \in Nat
      BY <1>0 DEF CountedState, Counts, Landed, Reservations
    <3>2. Cardinality(Filed(files, {t})) \in Nat
      BY <1>0, FiledFinite
    <3> QED BY <2>2, <3>1, <3>2
  <2>5. ASSUME NEW j \in DOMAIN files, j # m PROVE files[j].by # t
    <3>1. SUFFICES ASSUME files[j].by = t PROVE FALSE
      OBVIOUS
    <3>2. {j, m} \in SUBSET Filed(files, {t})
      BY <2>1, <3>1 DEF Filed
    <3>3. Cardinality({j, m}) = 2
      <4>1. IsFiniteSet({j}) /\ Cardinality({j}) = 1
        BY FS_Singleton
      <4>2. Cardinality({j} \cup {m}) = Cardinality({j}) + 1
        BY <2>5, <4>1, FS_AddElement
      <4>3. {j} \cup {m} = {j, m}
        OBVIOUS
      <4> QED BY <4>1, <4>2, <4>3
    <3>4. IsFiniteSet(Filed(files, {t})) /\ Cardinality(Filed(files, {t})) \in Nat
      BY <1>0, FiledFinite
    <3>5. Cardinality({j, m}) <= Cardinality(Filed(files, {t}))
      BY <3>2, <3>4, FS_Subset
    <3> QED BY <2>4, <3>3, <3>4, <3>5
  <2>6. ASSUME NEW i \in DOMAIN files, Used(i, files') PROVE Used(i, files)
    <3>1. CASE i = m
      BY <1>0, <2>1, <2>5, <3>1 DEF Used
    <3>2. CASE i # m
      BY <2>3, <2>6, <3>2 DEF Used
    <3> QED BY <3>1, <3>2
  <2> QED BY <1>0, <2>2, <2>3, <2>6, SparesSame
<1>11. ASSUME NEW t \in Threads, NEW posted \in 0 .. resv[t].count, End(t, posted)
       PROVE  Spares(files)'
  BY <1>1, <1>11 DEF End, Free
<1>12. ASSUME NEW t \in Threads, NEW n \in Costs[t], Upload(t, n) \/ UploadSweeps(t, n)
       PROVE  Spares(files)'
  BY <1>2, <1>3, <1>12 DEF Upload, UploadSweeps
<1>13. CASE Release
  BY <1>2, <1>3, <1>4, <1>13 DEF Release
<1>14. ASSUME NEW c \in Clients, Close(c) PROVE Spares(files)'
  BY <1>4, <1>14 DEF Close
<1>15. CASE SweepDelete \/ SweepFail
  BY <1>5, <1>15 DEF SweepDelete, SweepFail
<1>16. CASE EnableFTP \/ Acquire \/ Unlock \/ UNCHANGED vars
  BY <1>2, <1>16 DEF EnableFTP, Acquire, Unlock, vars
<1>17. ASSUME NEW c \in Clients, Replace(c) \/ Reprobe(c) PROVE Spares(files)'
  BY <1>2, <1>17 DEF Replace, Reprobe
<1> QED
  BY <1>7, <1>8, <1>9, <1>10, <1>11, <1>12, <1>13, <1>14, <1>15, <1>16, <1>17
  DEF Next

LEMMA InitCountInv == Init => CountInv
<1> SUFFICES ASSUME Init PROVE CountInv
  OBVIOUS
<1>1. /\ ledger.pending = 0 /\ ledger.in_flight = 0 /\ ledger.in_flight_armed = 0
      /\ own = [c \in Clients |-> 0] /\ resv = [t \in Threads |-> NoResv]
      /\ sweep = NoSweep /\ files = <<>>
  BY DEF Init
<1>2. \A t \in Threads : Open(resv)[t] = 0
  BY <1>1 DEF Open, NoResv
<1>3. \A S \in SUBSET Threads : Total(Open(resv), S) = 0
  BY <1>2, TotalOfZeros
<1>4. Total(own, Clients) = 0
  BY <1>1, TotalOfZeros
<1>5. Books(ledger, own, resv)
  BY <1>1, <1>3, <1>4 DEF Books, ArmedIn, StaleIn, CurrentOf
<1>6. \A S : Filed(files, S) = {}
  BY <1>1 DEF Filed
<1>6a. \A S : Cardinality(Filed(files, S)) = 0
  BY <1>6, FS_EmptySet
<1>7. Fresh(ledger, resv, files)
  BY <1>1, <1>3, <1>6, <1>6a DEF Fresh, ArmedIn
<1>8. Landed(resv, files)
  BY <1>1, <1>6a DEF Landed, NoResv
<1>9. NeverUndercounts /\ OrphansRemembered /\ Landings
  BY <1>5, <1>7, <1>8, CountsOfState DEF Counts
<1>10. GateWaits /\ DoomedListed /\ SparesUnlessOvertaken
  BY <1>1 DEF GateWaits, DoomedListed, SparesUnlessOvertaken, NoSweep
<1> QED BY <1>9, <1>10 DEF CountInv

LEMMA StepCountInv ==
    ASSUME GateInv, GateInv', CountInv, [Next]_vars PROVE CountInv'
<1>1. CountedState /\ Spares(files)
  BY CountsOfState, SparesOfState DEF CountInv, CountedState
<1>2. Counts(ledger', own', resv', files') /\ GateWaits'
  BY <1>1, StepCounts
<1>3. Spares(files)'
  BY <1>1, StepSpares
<1>4. (NeverUndercounts /\ OrphansRemembered /\ Landings)'
  BY <1>2, CountsOfState
<1>5. (DoomedListed /\ SparesUnlessOvertaken)'
  BY <1>3, SparesOfState
<1> QED BY <1>2, <1>4, <1>5 DEF CountInv

(* Whatever the threads, the lanes and the sweeps do, the books of the      *)
(* ledger are right, a file is a counted one's, and what is being deleted   *)
(* was listed.                                                              *)
THEOREM CountInvariant == Spec => []CountInv
<1>1. Init => CountInv
  BY InitCountInv
<1>2. GateInv /\ GateInv' /\ CountInv /\ [Next]_vars => CountInv'
  BY StepCountInv
<1> QED BY <1>1, <1>2, Invariant, PTL DEF Spec

(* The count of the device misses no attachment, whatever sweeps ran while  *)
(* a request was being sent, and end_reservation()'s clamps mend nothing.   *)
THEOREM CountsEverything == Spec => []NeverUndercounts
<1>1. CountInv => NeverUndercounts
  BY DEF CountInv
<1> QED BY <1>1, CountInvariant, PTL

(* What an armed client left uncollected is remembered when the client is   *)
(* gone: the release's own sweep finds it (armed_pending).                  *)
THEOREM RemembersOrphans == Spec => []OrphansRemembered
<1>1. CountInv => OrphansRemembered
  BY DEF CountInv
<1> QED BY <1>1, CountInvariant, PTL

(* The keep-count that grows with the requests in flight is enough: a sweep *)
(* deletes a file in use only if more than DEFAULT_KEEP younger uploads     *)
(* have ended since.                                                        *)
THEOREM SparesWhatIsUsed == Spec => []SparesUnlessOvertaken
<1>1. CountInv => SparesUnlessOvertaken
  BY DEF CountInv
<1> QED BY <1>1, CountInvariant, PTL

-----------------------------------------------------------------------------
(* Only the subject moves                                                    *)

LEMMA SubjectMoves ==
    ASSUME [RunNext]_allvars
    PROVE  /\ subject' = subject
           /\ subject = "config" => [Config!Next]_(Config!vars)
           /\ subject = "write" => [Writes!Next]_(Writes!vars)
           /\ subject = "keys" => [Typing!Next]_(Typing!vars)
           /\ subject = "probe" => [Probe!Next]_(Probe!vars)
           /\ subject = "storage" => [Storage!Next]_(Storage!vars)
           /\ subject = "identity" => [Identity!IdentityNext]_(Identity!ivars)
<1> USE DEF config, writing, typing, probing, storing, identity
<1>1. CASE UNCHANGED allvars
  BY <1>1 DEF allvars, Config!vars, Writes!vars, Typing!vars, Probe!vars, Probe!device, Probe!asking, Storage!vars,
              Identity!ivars
<1>2. CASE RunNext
  BY <1>2 DEF RunNext, Config!vars, Writes!vars, Typing!vars, Probe!vars, Probe!device, Probe!asking, Storage!vars,
              Identity!ivars
<1> QED BY <1>1, <1>2

LEMMA SubjectBegins ==
    ASSUME RunInit
    PROVE  /\ subject = "config" => Config!Init
           /\ subject = "write" => Writes!Init
           /\ subject = "keys" => Typing!Init
           /\ subject = "probe" => Probe!Init
           /\ subject = "storage" => Storage!Init
           /\ subject = "identity" => Identity!IdentityInit
BY DEF RunInit

-----------------------------------------------------------------------------
(* Storage (U64Storage)                                                      *)

LEMMA StorageWords ==
    /\ "none" \in Storage!Contents /\ "damaged" \in Storage!Contents
    /\ "new" \in Storage!Contents /\ "test" \in Storage!Places
    /\ Storage!Places \ {"stock"} \subseteq Storage!Places
BY DEF Storage!Contents, Storage!Places

(* STOR changes the place of the operation only.                            *)
LEMMA StoreChanges ==
    ASSUME Storage!TypeOK, NEW c \in Storage!Contents, NEW next, NEW undo,
           Storage!Store(c, next, undo)
    PROVE  /\ file' \in [Storage!Places -> Storage!Contents]
           /\ \A q \in Storage!Places \ {op.place} : file'[q] = file[q]
           /\ step' \in {next, undo}
BY StorageWords DEF Storage!TypeOK, Storage!Store

LEMMA StorageTypes ==
    ASSUME Storage!TypeOK, [Storage!Next]_(Storage!vars)
    PROVE  Storage!TypeOK'
<1> USE DEF Storage!TypeOK
<1>1. CASE UNCHANGED Storage!vars
  BY <1>1 DEF Storage!vars
<1>2. CASE Storage!Put
  BY <1>2, StorageWords DEF Storage!Put, Storage!Enter
<1>3. CASE Storage!Fetch
  BY <1>3 DEF Storage!Fetch, Storage!MayFail, Storage!Tell
<1>4. CASE Storage!Parents
  BY <1>4 DEF Storage!Parents, Storage!MayFail, Storage!Tell
<1>5. CASE Storage!Send
  BY <1>5, StorageWords, StoreChanges DEF Storage!Send
<1>6. CASE Storage!Verify
  BY <1>6 DEF Storage!Verify, Storage!MayFail, Storage!Tell
<1>7. CASE Storage!Undo
  BY <1>7, StorageWords, StoreChanges DEF Storage!Undo, Storage!Tell
<1>8. CASE Storage!Check
  BY <1>8 DEF Storage!Check, Storage!MayFail, Storage!Tell
<1>9. CASE Storage!Lost
  BY <1>9 DEF Storage!Lost, Storage!Tell
<1>10. CASE Storage!Delete
  <2>1. PICK place \in Storage!Places \ {"stock"} :
           /\ op' = [Storage!NoOp EXCEPT !.place = place]
           /\ file' \in {file, [file EXCEPT ![place] = "none"]}
    BY <1>10 DEF Storage!Delete
  <2>2. op' = [place |-> place, overwrite |-> FALSE, verify |-> TRUE]
    BY <2>1 DEF Storage!NoOp
  <2>3. UNCHANGED original /\ before' = file
    BY <1>10 DEF Storage!Delete, Storage!Enter
  <2>4. op' \in [place : Storage!Places, overwrite : BOOLEAN, verify : BOOLEAN]
    BY <2>2, StorageWords
  <2>5. file' \in [Storage!Places -> Storage!Contents]
    BY <2>1, StorageWords
  <2> QED BY <2>3, <2>4, <2>5
<1>11. CASE Storage!MkDir \/ Storage!RmDir
  BY <1>11 DEF Storage!MkDir, Storage!RmDir, Storage!Enter
<1> QED BY <1>1, <1>2, <1>3, <1>4, <1>5, <1>6, <1>7, <1>8, <1>9, <1>10, <1>11 DEF Storage!Next

LEMMA StorageInit == Storage!Init => Storage!StorageInv
<1> SUFFICES ASSUME Storage!Init PROVE Storage!StorageInv
  OBVIOUS
<1>1. file \in [Storage!Places -> Storage!Contents] /\ before = file
  BY DEF Storage!Init, Storage!Contents
<1>2. step = "idle" /\ told = "none" /\ op = Storage!NoOp /\ original = "none"
  BY DEF Storage!Init
<1> QED
  BY <1>1, <1>2, StorageWords
     DEF Storage!StorageInv, Storage!TypeOK, Storage!OnePlaceDiffers, Storage!OriginalIsKnown,
         Storage!StoredOrTold, Storage!NoOp

LEMMA PutBackIsAsBefore ==
    ASSUME Storage!StorageInv, step = "check", file[op.place] = original PROVE file = before
<1>1. \A p \in Storage!Places : file[p] = before[p]
  BY DEF Storage!StorageInv, Storage!OnePlaceDiffers, Storage!OriginalIsKnown
<1>2. file \in [Storage!Places -> Storage!Contents]
      /\ before \in [Storage!Places -> Storage!Contents]
  BY DEF Storage!StorageInv, Storage!TypeOK
<1> QED BY <1>1, <1>2

LEMMA StorageStep ==
    ASSUME Storage!StorageInv, [Storage!Next]_(Storage!vars)
    PROVE  Storage!StorageInv'
<1> USE DEF Storage!StorageInv, Storage!OnePlaceDiffers, Storage!OriginalIsKnown,
            Storage!StoredOrTold
<1>0. Storage!TypeOK /\ Storage!TypeOK'
  BY StorageTypes
<1>1. CASE UNCHANGED Storage!vars
  BY <1>0, <1>1 DEF Storage!vars
<1>2. CASE Storage!Put
  <2>1. before' = file /\ file' = file /\ told' = "busy" /\ original' = "none"
    BY <1>2 DEF Storage!Put, Storage!Enter
  <2>2. /\ step' \in {"parents", "fetch"}
        /\ step' = "fetch" => file[op'.place] # "none"
        /\ step' = "parents" => file[op'.place] = "none"
    <3>1. PICK place \in Storage!Places, overwrite \in BOOLEAN, verify \in BOOLEAN :
             /\ op' = [place |-> place, overwrite |-> overwrite, verify |-> verify]
             /\ step' = IF file[place] = "none" THEN "parents" ELSE "fetch"
      BY <1>2 DEF Storage!Put
    <3>2. op'.place = place
      BY <3>1
    <3> QED BY <3>1, <3>2
  <2> QED BY <1>0, <2>1, <2>2 DEF Storage!TypeOK
<1>3. CASE Storage!Fetch
  BY <1>0, <1>3 DEF Storage!Fetch, Storage!MayFail, Storage!Tell
<1>4. CASE Storage!Parents
  BY <1>0, <1>4 DEF Storage!Parents, Storage!MayFail, Storage!Tell
<1>5. CASE Storage!Send
  BY <1>0, <1>5, StoreChanges, StorageWords DEF Storage!Send
<1>6. CASE Storage!Verify
  BY <1>0, <1>6 DEF Storage!Verify, Storage!MayFail, Storage!Tell
<1>7. CASE Storage!Undo
  <2>1. original = before[op.place] /\ told = "busy"
    BY <1>7 DEF Storage!Undo
  <2>2. CASE original = "none"
    BY <1>0, <1>7, <2>1, <2>2, StorageWords DEF Storage!Undo, Storage!Tell, Storage!TypeOK
  <2>3. CASE original # "none"
    <3>1. Storage!Store(original, "check", "lost")
      BY <1>7, <2>3 DEF Storage!Undo
    <3>2. /\ \A q \in Storage!Places \ {op.place} : file'[q] = file[q]
          /\ step' \in {"check", "lost"}
      BY <1>0, <3>1, StoreChanges DEF Storage!TypeOK
    <3>3. told' = "busy" /\ UNCHANGED <<op, original, before>>
      BY <1>7, <2>1, <2>3 DEF Storage!Undo
    <3> QED BY <1>0, <1>7, <2>1, <3>2, <3>3 DEF Storage!Undo
  <2> QED BY <2>2, <2>3
<1>8. CASE Storage!Check
  <2>1. file[op.place] = original => file = before
    BY <1>8, PutBackIsAsBefore DEF Storage!Check
  <2> QED BY <1>0, <1>8, <2>1 DEF Storage!Check, Storage!PutBack, Storage!MayFail, Storage!Tell
<1>9. CASE Storage!Lost
  BY <1>0, <1>9 DEF Storage!Lost, Storage!Tell
<1>10. CASE Storage!Delete
  BY <1>0, <1>10 DEF Storage!Delete, Storage!Enter, Storage!MayFail
<1>11. CASE Storage!MkDir \/ Storage!RmDir
  BY <1>0, <1>11 DEF Storage!MkDir, Storage!RmDir, Storage!Enter
<1> QED BY <1>1, <1>2, <1>3, <1>4, <1>5, <1>6, <1>7, <1>8, <1>9, <1>10, <1>11 DEF Storage!Next

(* What the caller of write_data_to_device, of put_file or of another storage *)
(* call is told is so, whichever of its requests fails: a file is stored as   *)
(* asked for, or is as it was, or the caller hears that it is not.            *)
THEOREM StorageTellsTheTruth == RunSpec => []StoredOrTold
<1> DEFINE I == subject = "storage" => Storage!StorageInv
<1>1. RunInit => I
  BY SubjectBegins, StorageInit
<1>2. I /\ [RunNext]_allvars => I'
  BY SubjectMoves, StorageStep
<1>3. I => StoredOrTold
  BY DEF Storage!StorageInv, StoredOrTold
<1> QED BY <1>1, <1>2, <1>3, PTL DEF RunSpec

-----------------------------------------------------------------------------
(* Memory writes (U64Write)                                                  *)

LEMMA SpanIs == Writes!Span = 1 .. Chunks /\ Chunks \in Nat /\ Chunks > 0 /\ Chunks \in Writes!Span
BY WriteAssumption DEF Writes!Span, Writes!ChunksAssumption

LEMMA WriteInit == Writes!Init => Writes!WriteInv
<1> SUFFICES ASSUME Writes!Init PROVE Writes!WriteInv
  OBVIOUS
<1>1. /\ mem \in [Writes!Span -> Nat] /\ want = mem /\ writes = 0 /\ sent = 0
      /\ step = "idle" /\ pipe = <<>>
  BY DEF Writes!Init
<1>2. pipe \in Seq(Writes!Span \X Nat) /\ sent \in 0 .. Chunks
  BY <1>1, SpanIs
<1> QED
  BY <1>1, <1>2 DEF Writes!WriteInv, Writes!TypeOK, Writes!PipeIsLive, Writes!PipeIsRest

(* A connection is given up when the device has dropped it: nothing is on   *)
(* its way.                                                                 *)
LEMMA GivenUp ==
    ASSUME Writes!WriteInv, Writes!Failed \/ Writes!Unanswered,
           UNCHANGED <<mem, want, writes, pipe>>, sock = "dead"
    PROVE  Writes!WriteInv'
<1>1. pipe = <<>> /\ step' \in {"enter", "raised", "rest"} /\ sent' = 0
  BY DEF Writes!WriteInv, Writes!PipeIsLive, Writes!Failed, Writes!FellBack, Writes!Unanswered
<1> QED
  BY <1>1, SpanIs
     DEF Writes!WriteInv, Writes!TypeOK, Writes!PipeIsLive, Writes!PipeIsRest

LEMMA WriteBegins ==
    ASSUME Writes!WriteInv, Writes!Write PROVE Writes!WriteInv'
<1> USE DEF Writes!WriteInv, Writes!TypeOK, Writes!PipeIsLive, Writes!PipeIsRest
<1>1. pipe = <<>> /\ writes' = writes + 1 /\ writes' \in Nat /\ sent' = 0
      /\ UNCHANGED <<mem, sock, pipe>> /\ step' \in {"enter", "rest", "raised"}
  BY DEF Writes!Write
<1>2. PICK sameTail \in BOOLEAN :
         want' = [c \in Writes!Span |-> IF c = Chunks /\ sameTail THEN mem[c] ELSE writes']
  BY DEF Writes!Write
<1>3. want' \in [Writes!Span -> Nat]
  BY <1>1, <1>2
<1> QED BY <1>1, <1>3, SpanIs

(* The next chunk goes out.                                                 *)
LEMMA ChunkIsSent ==
    ASSUME Writes!WriteInv, step = "send", sent < Chunks, sent' = sent + 1, sock = "open",
           pipe' = Append(pipe, <<sent + 1, want[sent + 1]>>),
           UNCHANGED <<mem, want, writes, step, sock>>
    PROVE  Writes!WriteInv'
<1> USE DEF Writes!WriteInv, Writes!TypeOK
<1> DEFINE new == <<sent + 1, want[sent + 1]>>
<1>1. sent + 1 \in Writes!Span /\ want[sent + 1] \in Nat /\ sent' \in 0 .. Chunks
  BY SpanIs
<1>2. new \in Writes!Span \X Nat /\ new[1] = sent + 1 /\ new[2] = want[sent + 1]
  BY <1>1
<1> HIDE DEF new
<1>3. /\ pipe' \in Seq(Writes!Span \X Nat) /\ pipe' # <<>> /\ Len(pipe') = Len(pipe) + 1
      /\ \A i \in 1 .. Len(pipe) : pipe'[i] = pipe[i]
      /\ pipe'[Len(pipe) + 1] = new
  <2>1. pipe' = Append(pipe, new) /\ pipe \in Seq(Writes!Span \X Nat)
    BY DEF new
  <2> QED BY <1>2, <2>1, AppendProperties
<1>4. Writes!Executed' = Writes!Executed /\ Writes!Executed \in Int
      /\ Writes!Executed + Len(pipe') = sent + 1
  BY <1>3, LenProperties, SpanIs DEF Writes!Executed
<1>5. Writes!PipeIsRest'
  <2>1. ASSUME NEW i \in 1 .. Len(pipe')
        PROVE  pipe'[i][1] = Writes!Executed + i /\ pipe'[i][2] = want[Writes!Executed + i]
    <3>1. CASE i \in 1 .. Len(pipe)
      BY <1>3, <3>1 DEF Writes!PipeIsRest
    <3>2. CASE i = Len(pipe) + 1
      <4>1. Writes!Executed + i = sent + 1
        BY <1>3, <1>4, <3>2
      <4> QED BY <1>2, <1>3, <3>2, <4>1
    <3> QED BY <1>3, <2>1, <3>1, <3>2, LenProperties
  <2> QED BY <1>4, <2>1 DEF Writes!PipeIsRest
<1> QED BY <1>1, <1>3, <1>5 DEF Writes!PipeIsLive

(* The device executes the oldest chunk on its way.                         *)
LEMMA ChunkIsExecuted ==
    ASSUME Writes!WriteInv, Writes!DeviceExecutes PROVE Writes!WriteInv'
<1> USE DEF Writes!WriteInv, Writes!TypeOK
<1>1. /\ pipe # <<>> /\ pipe' = Tail(pipe) /\ step = "send" /\ sock = "open"
      /\ mem' = [mem EXCEPT ![Head(pipe)[1]] = Head(pipe)[2]]
      /\ UNCHANGED <<want, writes, step, sent, sock>>
  BY DEF Writes!DeviceExecutes, Writes!PipeIsLive
<1>2. /\ pipe' \in Seq(Writes!Span \X Nat) /\ Len(pipe') = Len(pipe) - 1 /\ Len(pipe) \in Nat
      /\ Len(pipe') \in Nat /\ Len(pipe) >= 1
      /\ \A i \in 1 .. Len(pipe') : pipe'[i] = pipe[i + 1]
      /\ Head(pipe) = pipe[1] /\ pipe[1] \in Writes!Span \X Nat
  BY <1>1, HeadTailProperties, LenProperties
<1> DEFINE e == Writes!Executed
<1>3. e \in Nat /\ Writes!Executed' = e + 1
  BY <1>1, <1>2 DEF Writes!Executed, Writes!PipeIsRest
<1>4. pipe[1][1] = e + 1 /\ pipe[1][2] = want[e + 1]
  BY <1>1, <1>2 DEF Writes!PipeIsRest
<1>5. e + 1 \in Writes!Span /\ want[e + 1] \in Nat /\ mem' = [mem EXCEPT ![e + 1] = want[e + 1]]
  BY <1>1, <1>2, <1>4
<1> HIDE DEF e
<1>6. /\ mem' \in [Writes!Span -> Nat]
      /\ \A c \in 1 .. e : mem'[c] = mem[c]
      /\ mem'[e + 1] = want[e + 1]
  BY <1>3, <1>5, SpanIs
<1>7. Writes!PipeIsRest'
  <2>1. \A c \in 1 .. (e + 1) : mem'[c] = want[c]
    <3>1. \A c \in 1 .. e : mem[c] = want[c]
      BY <1>1 DEF Writes!PipeIsRest, e
    <3>2. ASSUME NEW c \in 1 .. (e + 1) PROVE mem'[c] = want[c]
      <4>1. c \in 1 .. e \/ c = e + 1
        BY <1>3
      <4>2. CASE c \in 1 .. e
        BY <1>6, <3>1, <4>2
      <4>3. CASE c = e + 1
        BY <1>6, <4>3
      <4> QED BY <4>1, <4>2, <4>3
    <3> QED BY <1>1, <3>2
  <2>2. ASSUME NEW i \in 1 .. Len(pipe')
        PROVE  pipe'[i][1] = (e + 1) + i /\ pipe'[i][2] = want[(e + 1) + i]
    <3>1. i + 1 \in 1 .. Len(pipe) /\ e + (i + 1) = (e + 1) + i
      BY <1>2, <1>3
    <3>2. pipe[i + 1][1] = e + (i + 1) /\ pipe[i + 1][2] = want[e + (i + 1)]
      BY <1>1, <3>1 DEF Writes!PipeIsRest, e
    <3> QED BY <1>2, <3>1, <3>2
  <2> QED BY <1>1, <1>3, <2>1, <2>2 DEF Writes!PipeIsRest
<1> QED BY <1>1, <1>2, <1>6, <1>7 DEF Writes!PipeIsLive

(* The barrier is answered when all of it is there.                         *)
LEMMA AllIsThere ==
    ASSUME Writes!WriteInv, step = "send", sent = Chunks, Writes!Answered
    PROVE  mem = want
<1>1. \A c \in Writes!Span : mem[c] = want[c]
  BY SpanIs DEF Writes!Answered, Writes!WriteInv, Writes!PipeIsRest, Writes!Executed
<1>2. mem \in [Writes!Span -> Nat] /\ want \in [Writes!Span -> Nat]
  BY DEF Writes!WriteInv, Writes!TypeOK
<1> QED BY <1>1, <1>2

LEMMA RestGoesOn ==
    ASSUME Writes!WriteInv, Writes!Rest PROVE Writes!WriteInv'
<1> USE DEF Writes!WriteInv, Writes!TypeOK, Writes!PipeIsLive, Writes!PipeIsRest
<1>0. step = "rest" /\ pipe = <<>> /\ sent < Chunks /\ UNCHANGED <<want, writes, sock, pipe>>
  BY DEF Writes!Rest
<1>1. CASE mem' = want /\ step' = "done" /\ UNCHANGED sent
  BY <1>0, <1>1
<1>2. CASE step' = "raised" /\ UNCHANGED <<mem, sent>>
  BY <1>0, <1>2
<1>3. CASE /\ mem' = [mem EXCEPT ![sent + 1] = want[sent + 1]] /\ sent' = sent + 1
           /\ step' = IF sent + 1 = Chunks THEN "done" ELSE "rest"
  <2>1. sent + 1 \in Writes!Span /\ want[sent + 1] \in Nat /\ sent' \in 0 .. Chunks
    BY <1>0, <1>3, SpanIs
  <2>2. mem' \in [Writes!Span -> Nat] /\ \A c \in 1 .. sent' : mem'[c] = want[c]
    BY <1>0, <1>3, <2>1, SpanIs
  <2>3. sent' = Chunks => mem' = want
    BY <2>2, SpanIs
  <2>4. CASE sent + 1 = Chunks
    BY <1>0, <1>3, <2>1, <2>2, <2>3, <2>4
  <2>5. CASE sent + 1 # Chunks
    <3>1. sent' < Chunks /\ step' = "rest"
      BY <1>0, <1>3, <2>1, <2>5, SpanIs
    <3> QED BY <1>0, <1>3, <2>1, <2>2, <3>1
  <2> QED BY <2>4, <2>5
<1> QED BY <1>1, <1>2, <1>3 DEF Writes!Rest

LEMMA WriteStep ==
    ASSUME ~Pauses, ~SlowDrain, Writes!WriteInv, [Writes!Next]_(Writes!vars)
    PROVE  Writes!WriteInv'
<1> USE DEF Writes!WriteInv, Writes!TypeOK, Writes!PipeIsLive, Writes!PipeIsRest
<1>1. CASE UNCHANGED Writes!vars
  BY <1>1 DEF Writes!vars, Writes!Executed
<1>2. CASE Writes!Enter
  <2>1. pipe = <<>> /\ sent' = 0 /\ UNCHANGED <<mem, want, writes, pipe>>
        /\ step' \in {"send", "raised", "rest"}
    BY <1>2 DEF Writes!Enter, Writes!FellBack
  <2> QED BY <2>1, SpanIs DEF Writes!Executed
<1>3. CASE Writes!Send
  <2>1. CASE sock = "dead" /\ Writes!Failed /\ UNCHANGED pipe
    BY <1>3, <2>1, GivenUp DEF Writes!Send
  <2>2. CASE sock = "open" /\ ~Writes!Failed
    BY <1>3, <2>2, ChunkIsSent DEF Writes!Send
  <2>3. CASE sock # "open" /\ sent' = sent + 1 /\ UNCHANGED <<pipe, step, attempt, sock>>
    BY <1>3, <2>3, SpanIs DEF Writes!Send
  <2> QED BY <1>3, <2>1, <2>2, <2>3, ChunkIsSent DEF Writes!Send
<1>4. CASE Writes!IdleReconnect
  <2>1. pipe = <<>> /\ sent = 0 /\ UNCHANGED <<mem, want, writes, step, sent, pipe>>
    BY <1>4 DEF Writes!IdleReconnect
  <2> QED BY <2>1, SpanIs DEF Writes!Executed
<1>5. CASE Writes!Drop
  <2>1. pipe' = <<>> /\ sock' = "dead" /\ UNCHANGED <<mem, want, writes, step, sent>>
    BY <1>5 DEF Writes!Drop
  <2> QED BY <2>1
<1>6. CASE Writes!Barrier
  <2>1. CASE Writes!Answered /\ step' \in {"done", "verify"} /\ UNCHANGED <<sock, sent>>
    <3>1. mem = want
      BY <1>6, <2>1, AllIsThere DEF Writes!Barrier
    <3> QED BY <1>6, <2>1, <3>1 DEF Writes!Barrier, Writes!Answered
  <2>2. CASE sock = "dead" /\ (Writes!Failed \/ Writes!Unanswered)
    BY <1>6, <2>2, GivenUp DEF Writes!Barrier
  <2> QED BY <1>6, <2>1, <2>2 DEF Writes!Barrier
<1>7. CASE Writes!Verify
  <2>1. step = "verify" /\ mem = want /\ pipe = <<>> /\ sent' = 0 /\ step' \in {"done", "raised"}
        /\ UNCHANGED <<mem, want, writes, pipe, sock>>
    BY <1>7 DEF Writes!Verify
  <2> QED BY <2>1, SpanIs
<1>8. CASE Writes!Close
  BY <1>8 DEF Writes!Close
<1> QED
  BY <1>1, <1>2, <1>3, <1>4, <1>5, <1>6, <1>7, <1>8, WriteBegins, ChunkIsExecuted, RestGoesOn
     DEF Writes!Next

-----------------------------------------------------------------------------
(* Key injection (KeyInjection)                                              *)

LEMMA TypingInit == Typing!Init => Typing!KeysInv
<1> SUFFICES ASSUME Typing!Init PROVE Typing!KeysInv
  OBVIOUS
<1> USE TypingAssumption DEF Typing!KeysAssumption
<1>1. /\ remaining = Typing!Text /\ host = "read" /\ buf = [i \in 1 .. BufMax |-> 0]
      /\ count = 0 /\ kernal = 0 /\ typed = <<>>
  BY DEF Typing!Init
<1>2. remaining \in Seq(Nat) /\ Len(remaining) = Keys
      /\ \A i \in 1 .. Keys : remaining[i] = i
  BY <1>1 DEF Typing!Text
<1>3. Typing!TypeOK /\ Typing!Handed = 0 /\ Typing!Got = 0 /\ Len(typed) = 0
  BY <1>1, <1>2 DEF Typing!TypeOK, Typing!Handed, Typing!Got
<1> QED BY <1>1, <1>2, <1>3 DEF Typing!KeysInv, Typing!BufferIsRest

(* The numbers the invariant counts with.                                   *)
LEMMA TypingNumbers ==
    ASSUME Typing!KeysInv
    PROVE  /\ Keys \in Nat /\ BufMax \in Nat
           /\ Len(remaining) \in Nat /\ Len(typed) \in Nat
           /\ Typing!Handed \in Nat /\ Typing!Got \in Nat
           /\ Typing!Handed + Len(remaining) = Keys
           /\ count \in Nat /\ kernal \in Nat
           /\ Typing!Batch \in Nat /\ Typing!Batch <= BufMax /\ Typing!Batch <= Len(remaining)
           /\ Len(typed) + count = Typing!Handed
BY TypingAssumption, LenProperties
   DEF Typing!KeysAssumption, Typing!KeysInv, Typing!TypeOK, Typing!Handed, Typing!Got,
       Typing!Batch, Typing!Min2, Typing!BufferIsRest

LEMMA KeysAreHandedOver ==
    ASSUME Typing!KeysInv, Typing!WriteCount PROVE Typing!KeysInv'
<1> DEFINE b == Typing!Batch
           n == Len(remaining)
           h == Typing!Handed
<1>0. /\ b \in Nat /\ n \in Nat /\ h \in Nat /\ b <= n /\ b <= BufMax /\ BufMax \in Nat
      /\ h + n = Keys
  BY TypingNumbers
<1>1. /\ host = "count" /\ count = 0 /\ kernal = 0 /\ count' = b /\ host' = "read"
      /\ remaining' = SubSeq(remaining, b + 1, n)
      /\ UNCHANGED <<buf, kernal, typed>>
  BY DEF Typing!WriteCount, Typing!KeysInv, Typing!BufferIsRest
<1>2. /\ \A i \in 1 .. n : remaining[i] = h + i
      /\ \A i \in 1 .. b : buf[i] = remaining[i]
      /\ \A i \in 1 .. Len(typed) : typed[i] = i
      /\ typed \in Seq(Nat) /\ buf \in [1 .. BufMax -> Nat] /\ kernal \in Nat
  BY <1>1 DEF Typing!KeysInv, Typing!TypeOK
<1>3. Len(typed) = h
  BY <1>1, TypingNumbers
<1>4. Typing!Got' = h
  BY <1>1, <1>0, <1>3 DEF Typing!Got
<1> HIDE DEF b, n, h
<1>5. /\ remaining' \in Seq(Nat) /\ Len(remaining') = n - b
      /\ \A i \in 1 .. n - b : remaining'[i] = remaining[b + i]
  <2>1. \A i \in b + 1 .. n : remaining[i] \in Nat
    BY <1>0, <1>2
  <2>2. /\ SubSeq(remaining, b + 1, n) \in Seq(Nat)
        /\ Len(SubSeq(remaining, b + 1, n)) = IF b + 1 <= n THEN n - (b + 1) + 1 ELSE 0
        /\ \A i \in 1 .. n - (b + 1) + 1 : SubSeq(remaining, b + 1, n)[i] = remaining[(b + 1) + i - 1]
    BY <1>0, <2>1, SubSeqProperties
  <2>3. Len(remaining') = n - b
    BY <1>0, <1>1, <2>2
  <2>4. ASSUME NEW i \in 1 .. n - b PROVE remaining'[i] = remaining[b + i]
    <3>1. i \in 1 .. n - (b + 1) + 1 /\ (b + 1) + i - 1 = b + i
      BY <1>0
    <3>2. remaining'[i] = remaining[(b + 1) + i - 1]
      BY <1>1, <2>2, <3>1
    <3> QED BY <3>1, <3>2
  <2> QED BY <1>1, <2>2, <2>3, <2>4
<1>6. Typing!Handed' = h + b
  BY <1>0, <1>5 DEF Typing!Handed
<1>7. \A i \in 1 .. Len(remaining') : remaining'[i] = Typing!Handed' + i
  <2>1. ASSUME NEW i \in 1 .. n - b PROVE remaining'[i] = (h + b) + i
    <3>1. b + i \in 1 .. n /\ h + (b + i) = (h + b) + i
      BY <1>0
    <3> QED BY <1>2, <1>5, <3>1
  <2> QED BY <1>5, <1>6, <2>1
<1>8. \A i \in 1 .. b : buf[i] = h + i
  <2>1. ASSUME NEW i \in 1 .. b PROVE buf[i] = h + i
    <3>1. i \in 1 .. n
      BY <1>0
    <3> QED BY <1>2, <3>1
  <2> QED BY <2>1
<1>9. Typing!TypeOK'
  <2>1. b \in 0 .. BufMax /\ n - b <= Keys
    BY <1>0
  <2> QED BY <1>1, <1>2, <1>5, <2>1 DEF Typing!TypeOK
<1>10. Typing!BufferIsRest'
  <2>1. Typing!Handed' - Typing!Got' = b /\ Len(typed') + count' = Typing!Handed'
    BY <1>0, <1>1, <1>3, <1>4, <1>6
  <2> QED BY <1>1, <1>4, <1>8, <2>1 DEF Typing!BufferIsRest
<1> QED BY <1>1, <1>2, <1>7, <1>9, <1>10 DEF Typing!KeysInv

LEMMA KeyIsTaken ==
    ASSUME Typing!KeysInv, Typing!TakeKey PROVE Typing!KeysInv'
<1> DEFINE g == Len(typed)
           h == Typing!Handed
<1>0. g \in Nat /\ h \in Nat /\ count \in Nat /\ g + count = h /\ BufMax \in Nat
  BY TypingNumbers
<1>1. /\ count > 0 /\ kernal = 0 /\ kernal' = buf[1]
      /\ buf' = [i \in 1 .. BufMax |-> IF i < count THEN buf[i + 1] ELSE buf[i]]
      /\ UNCHANGED <<remaining, host, reads, count, typed>>
  BY DEF Typing!TakeKey
<1>2. /\ remaining \in Seq(Nat) /\ Len(remaining) <= Keys /\ typed \in Seq(Nat)
      /\ buf \in [1 .. BufMax -> Nat] /\ count \in 0 .. BufMax
      /\ \A i \in 1 .. Len(remaining) : remaining[i] = h + i
      /\ \A i \in 1 .. Len(typed) : typed[i] = i
      /\ host \notin {"buffer", "count"}
      /\ host = "done" => remaining = <<>>
  BY <1>1, <1>0 DEF Typing!KeysInv, Typing!TypeOK
<1>3. \A i \in 1 .. count : buf[i] = g + i
  <2>1. Typing!Got = g /\ h - g = count
    BY <1>0, <1>1 DEF Typing!Got
  <2> QED BY <2>1 DEF Typing!KeysInv, Typing!BufferIsRest
<1>4. Typing!Handed' = h
  BY <1>1 DEF Typing!Handed
<1> HIDE DEF h
<1>5. kernal' = g + 1
  BY <1>0, <1>1, <1>3
<1>6. Typing!Got' = g + 1
  BY <1>0, <1>1, <1>5 DEF Typing!Got
<1> HIDE DEF g
<1>7. ASSUME NEW i \in 1 .. (count - 1) PROVE buf'[i] = (g + 1) + i
  <2>1. i \in 1 .. BufMax /\ i < count /\ i + 1 \in 1 .. count /\ g + (i + 1) = (g + 1) + i
    BY <1>0, <1>2
  <2> QED BY <1>1, <1>3, <2>1
<1>8. buf' \in [1 .. BufMax -> Nat]
  <2>1. ASSUME NEW i \in 1 .. BufMax
        PROVE  (IF i < count THEN buf[i + 1] ELSE buf[i]) \in Nat
    <3>1. i < count => i + 1 \in 1 .. BufMax
      BY <1>0, <1>2
    <3> QED BY <1>2, <3>1
  <2> QED BY <1>1, <2>1
<1>9. Typing!TypeOK'
  BY <1>0, <1>1, <1>2, <1>5, <1>8 DEF Typing!TypeOK
<1>10. Typing!BufferIsRest'
  <2>1. Typing!Handed' - Typing!Got' = count - 1 /\ Len(typed') + count' = Typing!Handed'
    BY <1>0, <1>1, <1>4, <1>6 DEF g
  <2> QED BY <1>1, <1>5, <1>6, <1>7, <2>1 DEF Typing!BufferIsRest
<1> QED BY <1>1, <1>2, <1>4, <1>9, <1>10 DEF Typing!KeysInv

LEMMA KeyIsReceived ==
    ASSUME Typing!KeysInv, Typing!CountDown PROVE Typing!KeysInv'
<1> USE DEF Typing!KeysInv
<1>1. /\ kernal # 0 /\ typed' = Append(typed, kernal) /\ kernal' = 0 /\ count' = count - 1
      /\ UNCHANGED <<remaining, host, reads, buf>>
  BY DEF Typing!CountDown
<1>2. kernal = Typing!Got /\ Typing!Got = Len(typed) + 1 /\ count > 0
  BY <1>1, TypingNumbers DEF Typing!Got, Typing!BufferIsRest
<1>3. typed \in Seq(Nat)
  BY DEF Typing!TypeOK
<1>4. /\ typed' \in Seq(Nat) /\ Len(typed') = Len(typed) + 1
      /\ \A i \in 1 .. Len(typed) : typed'[i] = typed[i]
      /\ typed'[Len(typed) + 1] = kernal
  BY <1>1, <1>3, TypingNumbers, AppendProperties
<1>5. Typing!Got' = Typing!Got /\ Typing!Handed' = Typing!Handed
  BY <1>1, <1>2, <1>4, TypingNumbers DEF Typing!Got, Typing!Handed
<1>6. ASSUME NEW i \in 1 .. Len(typed') PROVE typed'[i] = i
  <2>1. i \in 1 .. Len(typed) \/ i = Len(typed) + 1
    BY <1>4, TypingNumbers
  <2> QED BY <1>2, <1>4, <2>1
<1>7. Typing!TypeOK'
  BY <1>1, <1>2, <1>4, TypingNumbers DEF Typing!TypeOK
<1>8. Typing!BufferIsRest'
  BY <1>1, <1>4, <1>5, TypingNumbers DEF Typing!BufferIsRest
<1>9. host \notin {"buffer", "count"}
  BY <1>2, TypingNumbers
<1> QED BY <1>1, <1>5, <1>6, <1>7, <1>8, <1>9

LEMMA TypingStep ==
    ASSUME Typing!KeysInv, [Typing!Next]_(Typing!vars) PROVE Typing!KeysInv'
<1> USE DEF Typing!KeysInv, Typing!TypeOK, Typing!BufferIsRest
<1>1. CASE UNCHANGED Typing!vars
  BY <1>1 DEF Typing!vars, Typing!Handed, Typing!Got, Typing!Batch
<1>2. CASE Typing!ReadCount
  <2>1. UNCHANGED <<remaining, buf, count, kernal, typed>>
        /\ host' \in {"gave up", "buffer", "read"} /\ (host' = "buffer" => count = 0)
    BY <1>2 DEF Typing!ReadCount, Typing!Drained
  <2> QED BY <2>1 DEF Typing!Handed, Typing!Got, Typing!Batch
<1>3. CASE Typing!WriteKeys
  <2>1. /\ host = "buffer" /\ host' = "count" /\ count = 0 /\ kernal = 0
        /\ buf' = [i \in 1 .. BufMax |-> IF i <= Typing!Batch THEN remaining[i] ELSE buf[i]]
        /\ UNCHANGED <<remaining, reads, count, kernal, typed>>
    BY <1>3 DEF Typing!WriteKeys
  <2>2. buf' \in [1 .. BufMax -> Nat]
    BY <2>1, TypingNumbers
  <2>3. \A i \in 1 .. Typing!Batch : buf'[i] = remaining[i]
    BY <2>1, TypingNumbers
  <2>4. Typing!Got = Typing!Handed /\ Typing!Got' = Typing!Got /\ Typing!Handed' = Typing!Handed
        /\ Typing!Batch' = Typing!Batch
    BY <2>1, TypingNumbers DEF Typing!Handed, Typing!Got, Typing!Batch
  <2> QED BY <2>1, <2>2, <2>3, <2>4, TypingNumbers
<1>4. CASE Typing!Return
  BY <1>4 DEF Typing!Return, Typing!Handed, Typing!Got, Typing!Batch
<1> QED
  BY <1>1, <1>2, <1>3, <1>4, KeysAreHandedOver, KeyIsTaken, KeyIsReceived DEF Typing!Next

(* The first n keys of the text.                                            *)
LEMMA TextUpTo ==
    ASSUME NEW n \in Nat, n <= Keys, NEW s \in Seq(Nat), Len(s) = n, \A i \in 1 .. n : s[i] = i
    PROVE  s = SubSeq(Typing!Text, 1, n)
<1>1. \A i \in 1 .. n : Typing!Text[i] = i
  BY TypingAssumption DEF Typing!KeysAssumption, Typing!Text
<1>2. /\ SubSeq(Typing!Text, 1, n) \in Seq(Nat) /\ Len(SubSeq(Typing!Text, 1, n)) = n
      /\ \A i \in 1 .. n : SubSeq(Typing!Text, 1, n)[i] = Typing!Text[i]
  BY <1>1, SubSeqProperties
<1> QED BY <1>1, <1>2, SeqEqual

LEMMA TypedInOrder == ASSUME Typing!KeysInv PROVE Typing!KeysInOrder
<1> DEFINE coming == IF kernal = 0 THEN <<>> ELSE <<kernal>>
           got == typed \o coming
<1> USE DEF Typing!KeysInv
<1>1. typed \in Seq(Nat) /\ coming \in Seq(Nat) /\ Len(coming) = (IF kernal = 0 THEN 0 ELSE 1)
  BY DEF Typing!TypeOK
<1>2. Typing!Got <= Typing!Handed /\ Typing!Got <= Keys
  BY TypingNumbers DEF Typing!BufferIsRest, Typing!Got
<1>3. got \in Seq(Nat) /\ Len(got) = Typing!Got
  BY <1>1, ConcatProperties DEF Typing!Got
<1>4. ASSUME NEW i \in 1 .. Typing!Got PROVE got[i] = i
  <2>1. CASE i <= Len(typed)
    BY <1>1, <2>1, ConcatProperties, TypingNumbers
  <2>2. CASE i > Len(typed)
    <3>1. kernal # 0 /\ i = Len(typed) + 1 /\ kernal = i
      BY <2>2, TypingNumbers DEF Typing!Got, Typing!BufferIsRest
    <3>2. got[i] = coming[1]
      BY <1>1, <3>1, ConcatProperties, TypingNumbers
    <3> QED BY <3>1, <3>2
  <2>3. i <= Len(typed) \/ i > Len(typed)
    BY TypingNumbers
  <2> QED BY <2>1, <2>2, <2>3
<1>5. got = SubSeq(Typing!Text, 1, Len(got))
  <2> HIDE DEF got
  <2> QED BY <1>2, <1>3, <1>4, TextUpTo, TypingNumbers
<1>6. ASSUME host = "done", count = 0 PROVE typed = Typing!Text
  <2>1. Len(typed) = Keys
    BY <1>6, TypingNumbers DEF Typing!Handed
  <2>2. \A i \in 1 .. Keys : typed[i] = i
    BY <2>1
  <2>3. /\ Typing!Text \in Seq(Nat) /\ Len(Typing!Text) = Keys
        /\ \A i \in 1 .. Keys : Typing!Text[i] = i
    BY TypingNumbers DEF Typing!Text
  <2> QED BY <1>1, <2>1, <2>2, <2>3, SeqEqual
<1> QED BY <1>2, <1>3, <1>5, <1>6 DEF Typing!KeysInOrder

(* A write that returned is in memory, whole and in order, through any       *)
(* number of resets of the connection, retries and fallbacks to REST, as long *)
(* as the host does not stop for IDLE_RECONNECT_SECONDS within a write        *)
(* (~Pauses) and the device does not drain more slowly than the floor the     *)
(* barrier waits by (~SlowDrain).  Injected keys are typed in order, each     *)
(* once, for a text and a keyboard buffer of any length.                      *)
THEOREM WritesAndKeysLand == ASSUME ~Pauses, ~SlowDrain PROVE RunSpec => []WritesLand
<1> DEFINE I == /\ subject = "write" => Writes!WriteInv
                /\ subject = "keys" => Typing!KeysInv
<1>1. RunInit => I
  BY SubjectBegins, WriteInit, TypingInit
<1>2. I /\ [RunNext]_allvars => I'
  BY SubjectMoves, WriteStep, TypingStep
<1>3. I => WritesLand
  BY TypedInOrder DEF Writes!WriteInv, Writes!WriteLanded, WritesLand
<1> QED BY <1>1, <1>2, <1>3, PTL DEF RunSpec

-----------------------------------------------------------------------------
(* The probe (U64Probe)                                                      *)

(* The facts of the invariant that every step reads.                        *)
LEMMA ProbeFacts ==
    ASSUME Probe!ProbeInv
    PROVE  /\ temp \in Nat /\ spent \in Nat /\ temp <= spent
           /\ span \in Probe!Spans /\ kept \in Probe!Spans
           /\ took \in BOOLEAN /\ good \in BOOLEAN /\ troubled \in BOOLEAN
           /\ probe \in {"liveness", "write", "none"}
           /\ probe = "none" => step = "none"
           /\ probe # "none" => step \in {"read", "write", "check", "restore", "confirm"}
           /\ step # "none" => probe \in {"liveness", "write"}
BY DEF Probe!ProbeInv, Probe!BodiesAreReserved, Probe!SpanIsKnown

(* A verdict that is due may be given: what a probe that ends says is true. *)
LEMMA Stopped ==
    ASSUME Probe!ProbeInv, probe # "none", NEW healthy \in BOOLEAN, NEW restored,
           Probe!Stop(healthy, restored),
           temp' \in Nat, spent' \in Nat, temp' <= spent',
           span' \in Probe!Spans, kept' = kept,
           took' \in BOOLEAN, good' \in BOOLEAN, troubled' \in BOOLEAN,
           counted' = spent',
           restored \in {"untouched", "yes"} =>
             span' = kept \/ (probe = "liveness" /\ restored = "yes" /\ health' = "deaf"),
           healthy => took' \/ (probe = "liveness" /\ kept = Probe!Plain("pattern")),
           ~troubled' => healthy /\ restored = "yes"
    PROVE  Probe!ProbeInv'
<1>1. probe' = "none" /\ step' = "none" /\ kept' \in Probe!Spans
      /\ result' = [by |-> probe, healthy |-> healthy, restored |-> restored]
  BY ProbeFacts DEF Probe!Stop
<1>2. result'.by = probe /\ result'.healthy = healthy /\ result'.restored = restored
  BY <1>1
<1>3. Probe!ProbeIsHonest'
  <2>1. temp' <= counted'
    OBVIOUS
  <2>2. result'.restored \in {"untouched", "yes"} =>
          span' = kept' \/ (result'.by = "liveness" /\ result'.restored = "yes" /\ health' = "deaf")
    BY <1>2
  <2>3. result'.healthy => took' \/ (result'.by = "liveness" /\ kept' = Probe!Plain("pattern"))
    BY <1>2, Zenon
  <2>4. ~troubled' => result'.healthy /\ result'.restored = "yes"
    BY <1>2, Zenon
  <2> QED BY <2>1, <2>2, <2>3, <2>4, Zenon DEF Probe!ProbeIsHonest
<1>4. Probe!BodiesAreReserved'
  BY <1>1 DEF Probe!BodiesAreReserved
<1>5. Probe!SpanIsKnown' /\ Probe!VerdictIsDue'
  BY <1>1 DEF Probe!SpanIsKnown, Probe!VerdictIsDue
<1> QED BY <1>1, <1>3, <1>4, <1>5 DEF Probe!ProbeInv

(* What a probe still has reserved it gives back as it ends.                *)
LEMMA Refunded ==
    ASSUME Probe!ProbeInv, probe # "none", NEW healthy, NEW restored,
           Probe!Stop(healthy, restored), Probe!Attach(TRUE) \/ Probe!Attach(FALSE)
    PROVE  counted' = spent' /\ temp' \in Nat /\ spent' \in Nat /\ temp' <= spent'
<1>1. temp \in Nat /\ spent \in Nat /\ temp <= spent /\ probe \in {"liveness", "write"}
  BY ProbeFacts
<1>2. /\ bodies \in Nat
      /\ probe = "liveness" => counted = spent + (2 - bodies)
      /\ probe = "write" => counted = spent
  BY <1>1 DEF Probe!ProbeInv, Probe!BodiesAreReserved
<1>3. counted' = counted - (IF probe = "liveness" THEN 2 - bodies' ELSE 0)
  BY DEF Probe!Stop
<1> DEFINE body == IF probe = "liveness" THEN 1 ELSE 0
<1>4. /\ bodies' = bodies + body /\ spent' = spent + body
      /\ temp' \in {temp, temp + body}
  BY DEF Probe!Attach
<1>5. CASE probe = "liveness"
  <2>1. bodies' = bodies + 1 /\ spent' = spent + 1 /\ temp' \in {temp, temp + 1}
    BY <1>4, <1>5
  <2> QED BY <1>1, <1>2, <1>3, <1>5, <2>1
<1>6. CASE probe = "write"
  <2>1. bodies' = bodies + 0 /\ spent' = spent + 0 /\ temp' \in {temp, temp + 0}
    BY <1>4, <1>6
  <2> QED BY <1>1, <1>2, <1>3, <1>6, <2>1
<1> QED BY <1>1, <1>5, <1>6

LEMMA RefundedAtOnce ==
    ASSUME Probe!ProbeInv, probe # "none", NEW healthy, NEW restored,
           Probe!Stop(healthy, restored), UNCHANGED <<bodies, temp, spent>>
    PROVE  counted' = spent' /\ temp' \in Nat /\ spent' \in Nat /\ temp' <= spent'
<1>1. temp \in Nat /\ spent \in Nat /\ temp <= spent /\ probe \in {"liveness", "write"}
  BY ProbeFacts
<1>2. /\ bodies \in Nat
      /\ probe = "liveness" => counted = spent + (2 - bodies)
      /\ probe = "write" => counted = spent
  BY <1>1 DEF Probe!ProbeInv, Probe!BodiesAreReserved
<1>3. counted' = counted - (IF probe = "liveness" THEN 2 - bodies ELSE 0)
  BY DEF Probe!Stop
<1> QED BY <1>1, <1>2, <1>3

(* The write, or what a body's arrival leaves of the reservation.           *)
LEMMA BodyIsReserved ==
    ASSUME Probe!ProbeInv, step = "write", Probe!Attach(TRUE) \/ Probe!Attach(FALSE),
           UNCHANGED <<probe, counted>>, step' \in {"check", "restore"}
    PROVE  Probe!BodiesAreReserved' /\ temp' <= counted'
<1>1. temp \in Nat /\ spent \in Nat /\ temp <= spent /\ probe \in {"liveness", "write"}
  BY ProbeFacts
<1>2. /\ bodies = 0
      /\ probe = "liveness" => counted = spent + (2 - bodies)
      /\ probe = "write" => counted = spent
  BY <1>1 DEF Probe!ProbeInv, Probe!BodiesAreReserved
<1> DEFINE body == IF probe = "liveness" THEN 1 ELSE 0
<1>3. /\ bodies' = bodies + body /\ spent' = spent + body
      /\ temp' \in {temp, temp + body}
  BY DEF Probe!Attach
<1>4. CASE probe = "liveness"
  <2>1. bodies' = 1 /\ spent' = spent + 1 /\ temp' \in {temp, temp + 1}
    BY <1>2, <1>3, <1>4
  <2> QED BY <1>1, <1>2, <1>4, <2>1 DEF Probe!BodiesAreReserved
<1>5. CASE probe = "write"
  <2>1. bodies' = 0 /\ spent' = spent + 0 /\ temp' \in {temp, temp + 0}
    BY <1>2, <1>3, <1>5
  <2> QED BY <1>1, <1>2, <1>5, <2>1 DEF Probe!BodiesAreReserved
<1> QED BY <1>1, <1>4, <1>5

(* The pattern of a write check is not what the span held.                  *)
LEMMA PatternTells ==
    ASSUME Probe!ProbeInv, probe \in {"liveness", "write"}
    PROVE  /\ Probe!Pattern \in Probe!Spans
           /\ Probe!Pattern = kept => probe = "liveness" /\ kept = Probe!Plain("pattern")
<1>1. kept \in [bytes : {"orig", "pattern", "cleared"}, inverted : BOOLEAN]
  BY ProbeFacts DEF Probe!Spans
<1>2. CASE probe = "liveness"
  BY <1>2 DEF Probe!Pattern, Probe!Plain, Probe!Spans
<1>3. CASE probe = "write"
  <2>1. Probe!Pattern = [kept EXCEPT !.inverted = ~kept.inverted]
    BY <1>3 DEF Probe!Pattern
  <2>2. Probe!Pattern.inverted = ~kept.inverted /\ kept.inverted \in BOOLEAN
    BY <1>1, <2>1
  <2> QED BY <1>1, <2>1, <2>2 DEF Probe!Spans
<1> QED BY <1>2, <1>3

LEMMA ReadKeeps == ASSUME Probe!ProbeInv, Probe!Read PROVE Probe!ProbeInv'
<1>1. /\ step = "read" /\ probe \in {"liveness", "write"}
      /\ UNCHANGED <<health, span, temp, spent, kept, bodies, took, good>>
  BY ProbeFacts DEF Probe!Read, Probe!device
<1>2. CASE Probe!GoOn("write") /\ Probe!Calm
  BY <1>1, <1>2 DEF Probe!GoOn, Probe!Calm, Probe!ProbeInv, Probe!BodiesAreReserved,
     Probe!SpanIsKnown, Probe!VerdictIsDue, Probe!ProbeIsHonest, Probe!Serves
<1>3. ASSUME NEW restored \in {"untouched", "raised"}, Probe!Fails, Probe!Stop(FALSE, restored)
      PROVE  Probe!ProbeInv'
  <2>1. counted' = spent' /\ temp' \in Nat /\ spent' \in Nat /\ temp' <= spent'
    BY ONLY <1>1, <1>3, RefundedAtOnce, Probe!ProbeInv, "liveness" # "none", "write" # "none"
  <2>2. span' \in Probe!Spans /\ took' \in BOOLEAN /\ good' \in BOOLEAN /\ span' = kept
    BY <1>1, ProbeFacts DEF Probe!ProbeInv, Probe!SpanIsKnown
  <2>3. troubled' = TRUE
    BY <1>3 DEF Probe!Fails
  <2> QED BY <1>1, <1>3, <2>1, <2>2, <2>3, Stopped
<1> QED BY <1>2, <1>3 DEF Probe!Read, Probe!Raise

LEMMA ProbeWrites == ASSUME Probe!ProbeInv, Probe!Write PROVE Probe!ProbeInv'
<1>1. /\ step = "write" /\ probe \in {"liveness", "write"} /\ probe # "none"
      /\ UNCHANGED <<health, kept>>
  BY ProbeFacts DEF Probe!Write
<1>2. span = kept /\ took = FALSE
  BY <1>1, ProbeFacts DEF Probe!ProbeInv, Probe!SpanIsKnown
<1>3. ASSUME NEW wrote \in BOOLEAN, Probe!Put(Probe!Pattern, wrote)
      PROVE  /\ took' = wrote /\ span' \in Probe!Spans
             /\ span' = (IF took' THEN Probe!Pattern ELSE kept)
  BY <1>1, <1>2, <1>3, PatternTells, ProbeFacts DEF Probe!Put
<1>4. Probe!Serves(probe) \in BOOLEAN
  BY DEF Probe!Serves
<1>5. ASSUME NEW next \in {"check", "restore"}, Probe!GoOn(next),
             Probe!Attach(TRUE) \/ Probe!Attach(FALSE),
             took' \in BOOLEAN, good' \in BOOLEAN, span' \in Probe!Spans,
             span' = (IF took' THEN Probe!Pattern ELSE kept),
             next = "restore" => good' = FALSE /\ troubled' = TRUE,
             troubled' \in BOOLEAN,
             ~troubled' => Probe!Serves(probe) /\ took'
      PROVE  Probe!ProbeInv'
  <2>1. step' = next /\ UNCHANGED <<probe, counted, result>>
    BY <1>5 DEF Probe!GoOn
  <2>2. Probe!BodiesAreReserved'
    BY <1>1, <1>5, <2>1, BodyIsReserved
  <2>3. Probe!SpanIsKnown'
    BY <1>1, <1>5, <2>1, ProbeFacts DEF Probe!SpanIsKnown, Probe!Pattern
  <2>4. Probe!VerdictIsDue'
    BY <1>1, <1>5, <2>1 DEF Probe!VerdictIsDue, Probe!Serves
  <2>5. temp' <= counted'
    BY <1>1, <1>5, <2>1, BodyIsReserved
  <2>6. Probe!ProbeIsHonest'
    BY <1>1, <2>1, <2>5 DEF Probe!ProbeIsHonest
  <2> QED BY <1>1, <1>5, <2>1, <2>2, <2>3, <2>4, <2>6 DEF Probe!ProbeInv
<1>6. ASSUME NEW restored \in {"no", "raised"}, Probe!Stop(FALSE, restored),
             Probe!Attach(TRUE) \/ Probe!Attach(FALSE),
             took' \in BOOLEAN, good' \in BOOLEAN, span' \in Probe!Spans, troubled' = TRUE
      PROVE  Probe!ProbeInv'
  <2>1. counted' = spent' /\ temp' \in Nat /\ spent' \in Nat /\ temp' <= spent'
    BY <1>1, <1>6, Refunded
  <2>2. kept' = kept
    BY <1>1
  <2>3. restored \notin {"untouched", "yes"}
    BY <1>6
  <2> QED BY ONLY <1>1, <1>6, <2>1, <2>2, <2>3, Stopped, Probe!ProbeInv
<1>7. CASE /\ Probe!Accepts /\ Probe!Attach(TRUE) /\ Probe!Put(Probe!Pattern, Probe!Serves(probe))
           /\ Probe!GoOn("check") /\ UNCHANGED good /\ Probe!Calm
  <2>1. /\ took' = Probe!Serves(probe) /\ span' \in Probe!Spans
        /\ span' = (IF took' THEN Probe!Pattern ELSE kept)
    BY <1>3, <1>4, <1>7
  <2>2. troubled' = troubled /\ good' = good
    BY <1>7 DEF Probe!Calm
  <2>3. troubled' \in BOOLEAN /\ good' \in BOOLEAN /\ took' \in BOOLEAN
    BY <1>4, <2>1, <2>2, ProbeFacts
  <2>4. ~troubled' => Probe!Serves(probe) /\ took'
    BY <1>1, <2>1, <2>2 DEF Probe!ProbeInv, Probe!VerdictIsDue
  <2>5. Probe!GoOn("check") /\ Probe!Attach(TRUE)
    BY <1>7
  <2> HIDE <1>7
  <2> QED BY <1>5, <2>1, <2>3, <2>4, <2>5
<1>8. ASSUME Probe!GiveUp, Probe!Attach(TRUE) \/ Probe!Attach(FALSE), troubled' = TRUE,
             took' \in BOOLEAN, span' \in Probe!Spans,
             span' = (IF took' THEN Probe!Pattern ELSE kept)
      PROVE  Probe!ProbeInv'
  <2>1. good' = FALSE
    BY <1>8 DEF Probe!GiveUp
  <2>2. CASE probe = "write"
    <3>1. Probe!GoOn("restore")
      BY <1>8, <2>2 DEF Probe!GiveUp
    <3> QED BY <1>5, <1>8, <2>1, <3>1
  <2>3. CASE probe # "write"
    <3>1. Probe!Stop(FALSE, "no")
      BY <1>8, <2>3 DEF Probe!GiveUp
    <3> QED BY <1>6, <1>8, <2>1, <3>1
  <2> QED BY <2>2, <2>3
<1>9. CASE /\ Probe!Answers /\ ~Probe!Accepts /\ Probe!Attach(TRUE)
           /\ Probe!Put(Probe!Pattern, FALSE) /\ Probe!GiveUp /\ Probe!Calm
  <2>1. took' \in BOOLEAN /\ span' \in Probe!Spans
        /\ span' = (IF took' THEN Probe!Pattern ELSE kept)
    BY <1>3, <1>9
  <2>2. troubled' = TRUE
    <3>1. troubled' = troubled /\ ~Probe!Serves(probe)
      BY <1>9 DEF Probe!Calm, Probe!Accepts
    <3> QED BY <1>1, <3>1, ProbeFacts DEF Probe!ProbeInv, Probe!VerdictIsDue
  <2>3. Probe!GiveUp /\ Probe!Attach(TRUE)
    BY <1>9
  <2> QED BY <1>8, <2>1, <2>2, <2>3
<1>10. CASE /\ Probe!Fails /\ Probe!Attach(FALSE)
            /\ \E wrote \in {FALSE, Probe!Serves(probe)} : Probe!Put(Probe!Pattern, wrote)
            /\ Probe!GiveUp \/ (Probe!Raise /\ UNCHANGED good)
  <2>1. took' \in BOOLEAN /\ span' \in Probe!Spans
        /\ span' = (IF took' THEN Probe!Pattern ELSE kept)
    BY <1>3, <1>4, <1>10
  <2>2. troubled' = TRUE
    BY <1>10 DEF Probe!Fails
  <2>3. CASE Probe!GiveUp
    BY <1>8, <1>10, <2>1, <2>2, <2>3
  <2>4. CASE Probe!Raise /\ UNCHANGED good
    <3>1. Probe!Stop(FALSE, "raised") /\ good' \in BOOLEAN
      BY <2>4, ProbeFacts DEF Probe!Raise
    <3> QED BY <1>6, <1>10, <2>1, <2>2, <3>1
  <2> QED BY <1>10, <2>3, <2>4
<1> QED BY <1>7, <1>9, <1>10 DEF Probe!Write

LEMMA CheckAsks == ASSUME Probe!ProbeInv, Probe!Check PROVE Probe!ProbeInv'
<1>1. /\ step = "check" /\ probe \in {"liveness", "write"} /\ probe # "none"
      /\ UNCHANGED <<health, span, temp, spent, kept, bodies, took>>
  BY ProbeFacts DEF Probe!Check, Probe!device
<1>2. span = (IF took THEN Probe!Pattern ELSE kept)
  BY <1>1 DEF Probe!ProbeInv, Probe!SpanIsKnown
<1>3. ASSUME Probe!GoOn("restore"), good' \in BOOLEAN, troubled' \in BOOLEAN,
             good' => span = Probe!Pattern,
             ~troubled' => troubled = FALSE /\ good'
      PROVE  Probe!ProbeInv'
  <2>1. step' = "restore" /\ UNCHANGED <<probe, counted, result>>
    BY <1>3 DEF Probe!GoOn
  <2>2. Probe!BodiesAreReserved'
    BY <1>1, <2>1 DEF Probe!ProbeInv, Probe!BodiesAreReserved
  <2>3. Probe!SpanIsKnown'
    BY <1>1, <1>2, <2>1, ProbeFacts DEF Probe!SpanIsKnown, Probe!Pattern
  <2>4. good' => took \/ (probe = "liveness" /\ kept = Probe!Plain("pattern"))
    BY <1>1, <1>2, <1>3, PatternTells
  <2>5. ~troubled' => Probe!Serves(probe) /\ took
    BY <1>1, <1>3 DEF Probe!ProbeInv, Probe!VerdictIsDue
  <2>6. Probe!VerdictIsDue'
    BY <1>1, <1>3, <2>1, <2>4, <2>5 DEF Probe!VerdictIsDue, Probe!Serves
  <2>7. Probe!ProbeIsHonest'
    BY <1>1, <2>1 DEF Probe!ProbeInv, Probe!ProbeIsHonest
  <2> QED BY <1>1, <1>3, <2>1, <2>2, <2>3, <2>6, <2>7, ProbeFacts DEF Probe!ProbeInv
<1>4. ASSUME NEW restored \in {"no", "raised"}, Probe!Stop(FALSE, restored),
             troubled' = TRUE, good' \in BOOLEAN
      PROVE  Probe!ProbeInv'
  <2>1. counted' = spent' /\ temp' \in Nat /\ spent' \in Nat /\ temp' <= spent'
    BY <1>1, <1>4, RefundedAtOnce
  <2>2. span' \in Probe!Spans /\ took' \in BOOLEAN /\ kept' = kept
    BY <1>1, ProbeFacts
  <2>3. restored \notin {"untouched", "yes"}
    BY <1>4
  <2> QED BY ONLY <1>1, <1>4, <2>1, <2>2, <2>3, Stopped, Probe!ProbeInv
<1>5. CASE good' = (span = Probe!Pattern) /\ Probe!GoOn("restore") /\ Probe!Calm
  <2>1. good' \in BOOLEAN /\ (good' => span = Probe!Pattern)
    BY <1>5
  <2>2. troubled' = troubled /\ troubled' \in BOOLEAN
    BY <1>5, ProbeFacts DEF Probe!Calm
  <2>3. ~troubled' => troubled = FALSE /\ good'
    <3>1. ~troubled => took
      BY <1>1 DEF Probe!ProbeInv, Probe!VerdictIsDue
    <3> QED BY <1>2, <1>5, <2>2, <3>1
  <2> QED BY <1>3, <1>5, <2>1, <2>2, <2>3
<1>6. CASE /\ Probe!Fails
           /\ \/ Probe!GiveUp
              \/ good' = FALSE /\ Probe!GoOn("restore")
              \/ Probe!Raise /\ UNCHANGED good
  <2>1. troubled' = TRUE
    BY <1>6 DEF Probe!Fails
  <2>2. CASE good' = FALSE /\ Probe!GoOn("restore")
    BY <1>3, <2>1, <2>2
  <2>3. CASE good' \in BOOLEAN /\ \E restored \in {"no", "raised"} : Probe!Stop(FALSE, restored)
    BY <1>4, <2>1, <2>3
  <2> QED BY <1>6, <2>2, <2>3, ProbeFacts DEF Probe!GiveUp, Probe!Raise
<1> QED BY <1>5, <1>6 DEF Probe!Check

LEMMA RestoreEnds == ASSUME Probe!ProbeInv, Probe!Restore PROVE Probe!ProbeInv'
<1>1. /\ step = "restore" /\ probe \in {"liveness", "write"} /\ probe # "none"
      /\ UNCHANGED <<health, kept, took, good>>
  BY ProbeFacts DEF Probe!Restore
<1>2. /\ took \in BOOLEAN /\ good \in BOOLEAN /\ troubled \in BOOLEAN
      /\ span \in Probe!Spans /\ kept \in Probe!Spans
  BY ProbeFacts
<1>3. /\ good => took \/ (probe = "liveness" /\ kept = Probe!Plain("pattern"))
      /\ ~troubled => Probe!Serves(probe) /\ took /\ good
  BY <1>1 DEF Probe!ProbeInv, Probe!VerdictIsDue
<1>4. ASSUME NEW restored, Probe!Stop(good, restored), span' \in Probe!Spans,
             Probe!Attach(TRUE) \/ Probe!Attach(FALSE), troubled' \in BOOLEAN,
             restored \in {"untouched", "yes"} =>
               span' = kept \/ (probe = "liveness" /\ restored = "yes" /\ health' = "deaf"),
             ~troubled' => troubled = FALSE /\ restored = "yes"
      PROVE  Probe!ProbeInv'
  <2>1. counted' = spent' /\ temp' \in Nat /\ spent' \in Nat /\ temp' <= spent'
    BY <1>1, <1>4, Refunded
  <2>2. kept' = kept /\ took' \in BOOLEAN /\ good' \in BOOLEAN
    BY <1>1, <1>2
  <2>3. good => took' \/ (probe = "liveness" /\ kept = Probe!Plain("pattern"))
    BY <1>1, <1>3
  <2>4. ~troubled' => good /\ restored = "yes"
    BY <1>3, <1>4
  <2> QED BY ONLY <1>1, <1>2, <1>4, <2>1, <2>2, <2>3, <2>4, Stopped, Probe!ProbeInv
<1>5. CASE /\ Probe!Accepts /\ Probe!Attach(TRUE) /\ Probe!Calm
           /\ span' = (IF Probe!Serves(probe) THEN kept ELSE span)
           /\ IF probe = "write" THEN Probe!GoOn("confirm") ELSE Probe!Stop(good, "yes")
  <2>1. troubled' = troubled /\ span' \in Probe!Spans
    BY <1>2, <1>5 DEF Probe!Calm
  <2>2. CASE probe = "liveness"
    <3>1. Probe!Stop(good, "yes")
      BY <1>5, <2>2
    <3>2. span' = kept \/ health' = "deaf"
      BY <1>1, <1>5 DEF Probe!Accepts
    <3> QED BY <1>2, <1>4, <1>5, <2>1, <2>2, <3>1, <3>2
  <2>3. CASE probe = "write"
    <3>1. step' = "confirm" /\ UNCHANGED <<probe, counted, result>>
      BY <1>5, <2>3 DEF Probe!GoOn
    <3>2. bodies' = bodies + 0 /\ spent' = spent + 0 /\ temp' = temp + 0
      BY <1>5, <2>3 DEF Probe!Attach
    <3>3. temp \in Nat /\ spent \in Nat /\ temp <= spent /\ bodies = 0 /\ counted = spent
      BY <1>1, <2>3 DEF Probe!ProbeInv, Probe!BodiesAreReserved
    <3>4. Probe!BodiesAreReserved' /\ temp' <= counted'
      BY <2>3, <3>1, <3>2, <3>3 DEF Probe!BodiesAreReserved
    <3>5. Probe!SpanIsKnown'
      BY <1>1, <1>2, <2>1, <3>1 DEF Probe!SpanIsKnown
    <3>6. ~troubled' => Probe!Serves(probe) /\ span' = kept /\ took /\ good
      BY <1>3, <1>5, <2>1
    <3>7. Probe!VerdictIsDue'
      BY <1>1, <1>3, <3>1, <3>6 DEF Probe!VerdictIsDue, Probe!Serves
    <3>8. Probe!ProbeIsHonest'
      BY <2>3, <3>1, <3>4 DEF Probe!ProbeIsHonest
    <3> QED BY <1>1, <1>2, <2>1, <2>3, <3>1, <3>4, <3>5, <3>7, <3>8 DEF Probe!ProbeInv
  <2> QED BY <1>1, <2>2, <2>3
<1>6. CASE /\ Probe!Answers /\ ~Probe!Accepts /\ Probe!Attach(TRUE) /\ UNCHANGED span
           /\ Probe!Stop(good, "no") /\ Probe!Calm
  <2>1. troubled' = troubled /\ troubled' = TRUE /\ span' \in Probe!Spans
    BY <1>2, <1>3, <1>6 DEF Probe!Calm, Probe!Accepts
  <2> QED BY <1>4, <1>6, <2>1
<1>7. CASE /\ Probe!Fails /\ Probe!Attach(FALSE) /\ Probe!Stop(good, "no")
           /\ span' \in {span} \cup (IF Probe!Serves(probe) THEN {kept} ELSE {})
  <2>1. troubled' = TRUE /\ span' \in Probe!Spans
    BY <1>2, <1>7 DEF Probe!Fails
  <2> QED BY <1>4, <1>7, <2>1
<1> QED BY <1>5, <1>6, <1>7 DEF Probe!Restore

LEMMA ConfirmEnds == ASSUME Probe!ProbeInv, Probe!Confirm PROVE Probe!ProbeInv'
<1>1. /\ step = "confirm" /\ probe = "write"
      /\ UNCHANGED <<health, span, temp, spent, kept, bodies, took, good>>
  BY DEF Probe!Confirm, Probe!ProbeInv, Probe!device
<1>2. /\ took \in BOOLEAN /\ good \in BOOLEAN /\ troubled \in BOOLEAN /\ span \in Probe!Spans
  BY ProbeFacts
<1>3. /\ good => took
      /\ ~troubled => good /\ span = kept
  BY <1>1 DEF Probe!ProbeInv, Probe!VerdictIsDue
<1>4. ASSUME NEW restored, Probe!Stop(good, restored), troubled' \in BOOLEAN,
             restored \in {"untouched", "yes"} => span = kept,
             ~troubled' => troubled = FALSE /\ restored = "yes"
      PROVE  Probe!ProbeInv'
  <2>1. counted' = spent' /\ temp' \in Nat /\ spent' \in Nat /\ temp' <= spent'
    BY <1>1, <1>4, RefundedAtOnce
  <2>2. kept' = kept /\ took' \in BOOLEAN /\ good' \in BOOLEAN /\ span' \in Probe!Spans
        /\ span' = span /\ probe # "none"
    BY <1>1, <1>2
  <2>3. good => took' \/ (probe = "liveness" /\ kept = Probe!Plain("pattern"))
    BY <1>1, <1>3
  <2>4. ~troubled' => good /\ restored = "yes"
    BY <1>3, <1>4
  <2> QED BY ONLY <1>2, <1>4, <2>1, <2>2, <2>3, <2>4, Stopped, Probe!ProbeInv
<1>5. CASE Probe!Stop(good, IF span = kept THEN "yes" ELSE "no") /\ Probe!Calm
  <2>1. troubled' = troubled
    BY <1>5 DEF Probe!Calm
  <2>2. CASE span = kept
    BY <1>2, <1>4, <1>5, <2>1, <2>2
  <2>3. CASE span # kept
    BY <1>2, <1>3, <1>4, <1>5, <2>1, <2>3
  <2> QED BY <2>2, <2>3
<1>6. CASE Probe!Fails /\ Probe!Stop(good, "no")
  <2>1. troubled' = TRUE
    BY <1>6 DEF Probe!Fails
  <2> QED BY <1>4, <1>6, <2>1
<1> QED BY <1>5, <1>6 DEF Probe!Confirm

(* Between two probes nothing is reserved.                                  *)
LEMMA AtRestBetween ==
    ASSUME Probe!ProbeInv, probe = "none", UNCHANGED <<probe, step>>,
           span' \in Probe!Spans, kept' = span', took' \in BOOLEAN, good' \in BOOLEAN,
           troubled' \in BOOLEAN, temp' \in Nat, spent' \in Nat, temp' <= spent',
           counted' = spent',
           \/ result' = Probe!NoResult
           \/ troubled' = TRUE /\ \E p : result' = [by |-> p, healthy |-> FALSE, restored |-> "untouched"]
    PROVE  Probe!ProbeInv'
<1>1. step = "none" /\ probe' = "none" /\ step' = "none"
  BY ProbeFacts
<1>2. /\ result'.healthy = FALSE
      /\ result'.by = "none" \/ troubled'
  BY DEF Probe!NoResult
<1>3. Probe!ProbeIsHonest'
  <2>1. temp' <= counted'
    OBVIOUS
  <2>2. kept' = span' /\ counted' = spent' /\ (result'.by # "none" => troubled')
    BY <1>2
  <2> QED BY <1>2, <2>1, <2>2, Zenon DEF Probe!ProbeIsHonest
<1>4. Probe!BodiesAreReserved' /\ Probe!SpanIsKnown' /\ Probe!VerdictIsDue'
  BY <1>1 DEF Probe!BodiesAreReserved, Probe!SpanIsKnown, Probe!VerdictIsDue
<1> QED BY <1>1, <1>3, <1>4 DEF Probe!ProbeInv

LEMMA StartKeeps == ASSUME Probe!ProbeInv, Probe!Start PROVE Probe!ProbeInv'
<1>1. /\ probe = "none" /\ step = "none" /\ kept' = span /\ bodies' = 0
      /\ took' = FALSE /\ good' = FALSE /\ UNCHANGED <<health, span, temp, spent>>
  BY ProbeFacts DEF Probe!Start, Probe!device
<1>2. /\ temp \in Nat /\ spent \in Nat /\ temp <= spent /\ counted = spent
      /\ span \in Probe!Spans /\ troubled \in BOOLEAN
  BY <1>1, ProbeFacts DEF Probe!ProbeInv, Probe!BodiesAreReserved
<1>3. PICK p \in {"liveness", "write"} :
       \/ /\ Probe!Answers
          /\ probe' = p /\ step' = "read"
          /\ counted' = counted + (IF p = "liveness" THEN 2 ELSE 0)
          /\ troubled' = ~Probe!Serves(p)
       \/ /\ Probe!Fails
          /\ result' = [by |-> p, healthy |-> FALSE, restored |-> "untouched"]
          /\ UNCHANGED <<probe, step, counted>>
       \/ /\ result' = Probe!NoResult
          /\ UNCHANGED <<probe, step, counted, troubled>>
  BY DEF Probe!Start
<1>4. CASE /\ probe' = p /\ step' = "read"
           /\ counted' = counted + (IF p = "liveness" THEN 2 ELSE 0)
           /\ troubled' = ~Probe!Serves(p)
  <2>1. Probe!BodiesAreReserved' /\ temp' <= counted'
    BY <1>1, <1>2, <1>4 DEF Probe!BodiesAreReserved
  <2>2. Probe!SpanIsKnown'
    BY <1>1, <1>2, <1>4 DEF Probe!SpanIsKnown
  <2>3. Probe!VerdictIsDue'
    BY <1>1, <1>4 DEF Probe!VerdictIsDue, Probe!Serves
  <2>4. Probe!ProbeIsHonest'
    BY <1>4, <2>1 DEF Probe!ProbeIsHonest
  <2>5. troubled' \in BOOLEAN
    BY <1>4 DEF Probe!Serves
  <2> QED BY <1>1, <1>4, <2>1, <2>2, <2>3, <2>4, <2>5 DEF Probe!ProbeInv
<1>7. took' \in BOOLEAN /\ good' \in BOOLEAN /\ TRUE \in BOOLEAN
  BY <1>1, Zenon
<1>5. CASE /\ Probe!Fails
           /\ result' = [by |-> p, healthy |-> FALSE, restored |-> "untouched"]
           /\ UNCHANGED <<probe, step, counted>>
  <2>1. troubled' = TRUE
    BY <1>5 DEF Probe!Fails
  <2>2. kept' = span' /\ counted' = spent' /\ temp' \in Nat /\ spent' \in Nat /\ temp' <= spent'
        /\ span' \in Probe!Spans
    BY <1>1, <1>2, <1>5
  <2> QED BY ONLY Probe!ProbeInv, <1>1, <1>5, <2>1, <2>2, AtRestBetween, <1>7, Zenon
<1>6. CASE result' = Probe!NoResult /\ UNCHANGED <<probe, step, counted, troubled>>
  <2>1. kept' = span' /\ counted' = spent' /\ temp' \in Nat /\ spent' \in Nat /\ temp' <= spent'
        /\ span' \in Probe!Spans
    BY <1>1, <1>2, <1>6
  <2>2. troubled' \in BOOLEAN
    BY <1>2, <1>6
  <2> QED BY ONLY Probe!ProbeInv, <1>1, <1>6, <1>7, <2>1, <2>2, AtRestBetween, Zenon
<1> QED BY <1>3, <1>4, <1>5, <1>6

LEMMA RecoveryKeeps ==
    ASSUME Probe!ProbeInv, Probe!Recover \/ Probe!RunnerCheck PROVE Probe!ProbeInv'
<1>1. /\ probe = "none" /\ result' = Probe!NoResult /\ kept' = span'
      /\ UNCHANGED <<probe, step, took, good>>
  BY DEF Probe!Recover, Probe!RunnerCheck, Probe!Forget
<1>2. /\ temp \in Nat /\ spent \in Nat /\ temp <= spent /\ counted = spent
      /\ span \in Probe!Spans /\ troubled \in BOOLEAN /\ took \in BOOLEAN /\ good \in BOOLEAN
  BY <1>1, ProbeFacts DEF Probe!ProbeInv, Probe!BodiesAreReserved
<1>3. troubled' \in BOOLEAN
  BY <1>2 DEF Probe!Recover, Probe!RunnerCheck, Probe!Fails, Probe!Calm
<1>4. Probe!Plain("cleared") \in Probe!Spans
  BY DEF Probe!Plain, Probe!Spans
<1>5. span' \in Probe!Spans
  BY <1>2, <1>4 DEF Probe!Recover, Probe!RunnerCheck
<1>6. temp' \in Nat /\ spent' \in Nat /\ temp' <= spent' /\ counted' = spent'
  <2>1. CASE Probe!Recover
    BY <1>2, <2>1 DEF Probe!Recover
  <2>2. CASE Probe!RunnerCheck
    BY <1>2, <2>2 DEF Probe!RunnerCheck
  <2> QED BY <2>1, <2>2
<1> QED BY <1>1, <1>2, <1>3, <1>5, <1>6, AtRestBetween

LEMMA DegradeKeeps == ASSUME Probe!ProbeInv, Probe!Degrade PROVE Probe!ProbeInv'
<1>1. /\ UNCHANGED <<span, temp, spent, counted, probe, step, bodies, kept, took, good, result>>
      /\ troubled' = (troubled \/ probe # "none") /\ health = "well"
  BY DEF Probe!Degrade
<1>2. troubled' \in BOOLEAN /\ (probe # "none" => troubled')
      /\ (probe = "none" => troubled' = troubled)
  BY <1>1, ProbeFacts
<1>3. Probe!ProbeIsHonest'
  BY <1>1, <1>2 DEF Probe!ProbeInv, Probe!ProbeIsHonest
<1>4. Probe!BodiesAreReserved' /\ Probe!SpanIsKnown'
  BY <1>1 DEF Probe!ProbeInv, Probe!BodiesAreReserved, Probe!SpanIsKnown, Probe!Pattern
<1>5. Probe!VerdictIsDue'
  BY <1>1, <1>2 DEF Probe!ProbeInv, Probe!VerdictIsDue
<1> QED BY <1>1, <1>2, <1>3, <1>4, <1>5 DEF Probe!ProbeInv

LEMMA ProbeStep ==
    ASSUME Probe!ProbeInv, [Probe!Next]_(Probe!vars) PROVE Probe!ProbeInv'
<1>1. CASE UNCHANGED Probe!vars
  <2>1. UNCHANGED <<health, span, temp, spent, counted, probe, step, bodies, kept, took, good,
                    troubled, result>>
    BY <1>1 DEF Probe!vars, Probe!device, Probe!asking
  <2>2. Probe!ProbeIsHonest' /\ Probe!BodiesAreReserved'
    BY <2>1 DEF Probe!ProbeInv, Probe!ProbeIsHonest, Probe!BodiesAreReserved
  <2>3. Probe!SpanIsKnown' /\ Probe!VerdictIsDue'
    BY <2>1 DEF Probe!ProbeInv, Probe!SpanIsKnown, Probe!VerdictIsDue, Probe!Pattern, Probe!Serves
  <2> QED BY <2>1, <2>2, <2>3 DEF Probe!ProbeInv
<1> QED
  BY <1>1, DegradeKeeps, StartKeeps, ReadKeeps, ProbeWrites, CheckAsks, RestoreEnds, ConfirmEnds,
     RecoveryKeeps
     DEF Probe!Next, Probe!ProbeSteps

LEMMA ProbeInit == Probe!Init => Probe!ProbeInv
<1> SUFFICES ASSUME Probe!Init PROVE Probe!ProbeInv
  OBVIOUS
<1>1. /\ span = Probe!Plain("orig") /\ kept = span /\ temp = 0 /\ spent = 0 /\ counted = 0
      /\ probe = "none" /\ step = "none" /\ took = FALSE /\ good = FALSE /\ troubled = FALSE
      /\ result = Probe!NoResult
  BY DEF Probe!Init
<1>2. span \in Probe!Spans
  BY <1>1 DEF Probe!Plain, Probe!Spans
<1>3. Probe!BodiesAreReserved
  BY <1>1 DEF Probe!BodiesAreReserved
<1>4. result.by = "none" /\ result.healthy = FALSE
  BY <1>1 DEF Probe!NoResult
<1>5. Probe!ProbeIsHonest
  BY <1>1, <1>4 DEF Probe!ProbeIsHonest
<1>6. Probe!SpanIsKnown /\ Probe!VerdictIsDue
  BY <1>1, <1>2 DEF Probe!SpanIsKnown, Probe!VerdictIsDue
<1>7. took \in BOOLEAN /\ good \in BOOLEAN /\ troubled \in BOOLEAN
  BY <1>1, Zenon
<1> QED BY <1>1, <1>3, <1>5, <1>6, <1>7 DEF Probe!ProbeInv

(* What a probe that has ended said is true, for any number of probes, whichever *)
(* requests fail, served or not, and whatever the device turns into at any    *)
(* moment.  A device it called healthy carried a write out (or the liveness   *)
(* probe found its own pattern there), a span it called untouched or restored *)
(* is what it was (but for a liveness probe of a deaf device), a device that  *)
(* served everything was called healthy, and the reservation is settled: what *)
(* is counted is what was sent, and covers what is in /Temp.                  *)
THEOREM ProbesClaimNoMore == RunSpec => []ProbeIsHonest
<1> DEFINE I == subject = "probe" => Probe!ProbeInv
<1>1. RunInit => I
  BY SubjectBegins, ProbeInit
<1>2. I /\ [RunNext]_allvars => I'
  BY SubjectMoves, ProbeStep
<1>3. I => ProbeIsHonest
  BY DEF Probe!ProbeInv, ProbeIsHonest
<1> QED BY <1>1, <1>2, <1>3, PTL DEF RunSpec

-----------------------------------------------------------------------------
(* The identity records (DeviceIdentity)                                     *)

(* What a lane's step does to a lane.                                       *)
LEMMA LaneSet ==
    ASSUME Identity!TypeOK, NEW l \in Identity!Lanes, NEW changes, Identity!Set(l, changes)
    PROVE  /\ DOMAIN lane' = Identity!Lanes
           /\ \A o \in Identity!Lanes : o # l => lane'[o] = lane[o]
           /\ DOMAIN lane'[l] = DOMAIN Identity!InitialLane
           /\ \A f \in DOMAIN Identity!InitialLane :
                lane'[l][f] = IF f \in DOMAIN changes THEN changes[f] ELSE lane[l][f]
BY DEF Identity!TypeOK, Identity!Set

LEMMA LaneFields ==
    DOMAIN Identity!InitialLane =
      {"step", "address", "id", "holds", "read", "checked", "finding", "real", "known"}
BY DEF Identity!InitialLane

LEMMA IdentityWords ==
    /\ Identity!Checkers \subseteq Identity!Lanes /\ Identity!Addresses \subseteq Identity!LockKeys
    /\ Identity!CanonicalKey \in Identity!LockKeys /\ Identity!CanonicalKey \notin Identity!Addresses
    /\ Identity!Nobody \notin Identity!Lanes /\ Identity!Nobody \notin Identity!Devices
    /\ Identity!Mapped \in Identity!Devices /\ Identity!NoHold \in Identity!Holds
    /\ Identity!NoRecord \in [Identity!LockKeys -> Identity!Holds]
    /\ Identity!NoHold.lane = Identity!Nobody
BY DEF Identity!Checkers, Identity!Lanes, Identity!Addresses, Identity!LockKeys, Identity!CanonicalKey,
       Identity!Nobody, Identity!Devices, Identity!Mapped, Identity!NoHold, Identity!Holds,
       Identity!NoRecord

LEMMA KeyIs ==
    ASSUME Identity!TypeOK, NEW l \in Identity!Lanes
    PROVE  /\ Identity!KeyOf(l) \in Identity!LockKeys
           /\ Identity!Hold(l) \in Identity!Holds
           /\ Identity!Hold(l).lane = l
           /\ map = {} => Identity!KeyOf(l) = lane[l].address /\ Identity!KeyOf(l) \in Identity!Addresses
           /\ \A k \in Identity!LockKeys : map = {} => Identity!Key(l, k) = k
BY IdentityWords DEF Identity!TypeOK, Identity!KeyOf, Identity!Key, Identity!Hold, Identity!Holds

(* Two lanes at work have different keys.                                   *)
LEMMA KeysDiffer ==
    ASSUME Identity!HoldsAreLocked, NEW l \in Identity!Lanes, NEW o \in Identity!Lanes,
           lane[l].step # "idle", lane[o].step # "idle", l # o
    PROVE  Identity!KeyOf(l) # Identity!KeyOf(o)
BY DEF Identity!HoldsAreLocked

(* A lane that does nothing keeps its key and its hold.                     *)
LEMMA StandsStill ==
    ASSUME NEW l \in Identity!Lanes, lane'[l].address = lane[l].address, lane'[l].holds = lane[l].holds,
           map' = map
    PROVE  Identity!KeyOf(l)' = Identity!KeyOf(l) /\ Identity!Hold(l)' = Identity!Hold(l)
BY DEF Identity!KeyOf, Identity!Key, Identity!Hold

LEMMA IdentityInit == Identity!IdentityInit => Identity!IdentityInv
<1> SUFFICES ASSUME Identity!IdentityInit PROVE Identity!IdentityInv
  OBVIOUS
<1>1. \A l \in Identity!Lanes : lane[l] = Identity!InitialLane
  BY DEF Identity!IdentityInit
<1>2. /\ Identity!InitialLane.step = "idle" /\ Identity!InitialLane.address = "a1"
      /\ Identity!InitialLane.id = Identity!Nobody /\ Identity!InitialLane.holds = 0
      /\ ~Identity!InitialLane.checked /\ Identity!InitialLane.read = Identity!NoRecord
      /\ Identity!InitialLane.real
  BY DEF Identity!InitialLane
<1>3. Identity!TypeOK
  <2>1. "a1" \in Identity!Addresses
    BY DEF Identity!Addresses
  <2>2. /\ map \in {{}, Identity!Addresses} /\ answers \in [Identity!Addresses -> Identity!Devices]
        /\ owner = [k \in Identity!LockKeys |-> Identity!Nobody]
        /\ lockfile = [k \in Identity!LockKeys |-> Identity!NoHold]
        /\ records = [d \in Identity!Devices |-> Identity!NoRecord]
        /\ lane = [l \in Identity!Lanes |-> Identity!InitialLane]
    BY DEF Identity!IdentityInit
  <2> QED BY <1>2, <2>1, <2>2, IdentityWords DEF Identity!TypeOK
<1>4. Identity!HoldsAreLocked
  BY <1>1, <1>2 DEF Identity!HoldsAreLocked
<1>5. Identity!ChecksTakeTurns
  BY <1>1, <1>2 DEF Identity!ChecksTakeTurns, Identity!Checking
<1>6. Identity!RecordsAreCurrent /\ Identity!SecondSees
  BY <1>1, <1>2, IdentityWords DEF Identity!RecordsAreCurrent, Identity!SecondSees
<1>7. Identity!RealUnlessUnwritten
  BY <1>1, <1>2 DEF Identity!RealUnlessUnwritten
<1> QED BY <1>3, <1>4, <1>5, <1>6, <1>7 DEF Identity!IdentityInv

(* The invariant says the same of a lane that stands still, as long as the  *)
(* step keeps its lock, its lockfile and its entry.                         *)
LEMMA AcquireKeeps ==
    ASSUME Identity!IdentityInv, NEW m \in Identity!Lanes, NEW a \in Identity!Addresses,
           Identity!Acquire(m, a)
    PROVE  Identity!IdentityInv'
<1> DEFINE changes == [step |-> "claim", address |-> a, holds |-> lane[m].holds + 1]
           key == Identity!Key(m, a)
<1>0. Identity!TypeOK /\ Identity!HoldsAreLocked
  BY DEF Identity!IdentityInv
<1>1. /\ lane[m].step = "idle" /\ owner[key] = Identity!Nobody
      /\ owner' = [owner EXCEPT ![key] = m] /\ Identity!Set(m, changes)
      /\ UNCHANGED <<map, answers, lockfile, records, overlapped, moves>>
  BY DEF Identity!Acquire
<1>2. /\ lane'[m].step = "claim" /\ lane'[m].address = a /\ lane'[m].holds = lane[m].holds + 1
      /\ lane'[m].id = lane[m].id /\ lane'[m].checked = lane[m].checked
      /\ lane'[m].read = lane[m].read
      /\ lane'[m].real = lane[m].real /\ lane'[m].known = lane[m].known
      /\ DOMAIN lane' = Identity!Lanes /\ \A o \in Identity!Lanes : o # m => lane'[o] = lane[o]
  BY <1>0, <1>1, LaneSet, LaneFields
<1>3. DOMAIN lane'[m] = DOMAIN Identity!InitialLane
  BY <1>0, <1>1, LaneSet
<1>4. key \in Identity!LockKeys /\ Identity!KeyOf(m)' = key
  BY <1>1, <1>2, IdentityWords DEF Identity!Key, Identity!KeyOf
<1>5. ASSUME NEW o \in Identity!Lanes, o # m
      PROVE  /\ Identity!KeyOf(o)' = Identity!KeyOf(o) /\ Identity!Hold(o)' = Identity!Hold(o)
             /\ lane'[o].step # "idle" => owner'[Identity!KeyOf(o)] = o
  <2>1. Identity!KeyOf(o)' = Identity!KeyOf(o) /\ Identity!Hold(o)' = Identity!Hold(o)
    BY <1>1, <1>2, <1>5, StandsStill
  <2>2. ASSUME lane'[o].step # "idle" PROVE owner'[Identity!KeyOf(o)] = o
    <3>1. owner[Identity!KeyOf(o)] = o
      BY <1>0, <1>2, <1>5, <2>2 DEF Identity!HoldsAreLocked
    <3>2. Identity!KeyOf(o) # key
      BY <1>1, <3>1, IdentityWords
    <3> QED BY <1>0, <1>1, <3>1, <3>2, KeyIs DEF Identity!TypeOK
  <2> QED BY <2>1, <2>2
<1> HIDE DEF changes, key
<1>6. Identity!TypeOK'
  <2>1. owner' \in [Identity!LockKeys -> Identity!Lanes \cup {Identity!Nobody}]
    BY <1>0, <1>1 DEF Identity!TypeOK
  <2>2. ASSUME NEW l \in Identity!Lanes
        PROVE  /\ DOMAIN lane'[l] = DOMAIN Identity!InitialLane
               /\ lane'[l].address \in Identity!Addresses
               /\ lane'[l].id \in Identity!Devices \cup {Identity!Nobody}
               /\ lane'[l].holds \in Nat /\ lane'[l].read \in [Identity!LockKeys -> Identity!Holds]
    BY <1>0, <1>2, <1>3 DEF Identity!TypeOK
  <2> QED BY <1>0, <1>1, <1>2, <2>1, <2>2 DEF Identity!TypeOK
<1>7. Identity!HoldsAreLocked'
  <2>1. owner'[key] = m
    BY <1>0, <1>1, <1>4 DEF Identity!TypeOK
  <2>2. ~lane'[m].checked
    BY <1>0, <1>1, <1>2 DEF Identity!HoldsAreLocked
  <2> QED BY <1>0, <1>1, <1>2, <1>4, <1>5, <2>1, <2>2 DEF Identity!HoldsAreLocked
<1>8. Identity!ChecksTakeTurns'
  BY <1>1, <1>2 DEF Identity!IdentityInv, Identity!ChecksTakeTurns, Identity!Checking
<1>9. ~lane'[m].checked
  BY <1>0, <1>1, <1>2 DEF Identity!HoldsAreLocked
<1>10. Identity!RecordsAreCurrent' /\ Identity!SecondSees'
  BY <1>1, <1>2, <1>5, <1>9, IdentityWords DEF Identity!IdentityInv, Identity!RecordsAreCurrent, Identity!SecondSees
<1>11. Identity!RealUnlessUnwritten'
  BY <1>1, <1>2 DEF Identity!IdentityInv, Identity!RealUnlessUnwritten
<1> QED BY <1>6, <1>7, <1>8, <1>10, <1>11 DEF Identity!IdentityInv
(* A step of one lane that keeps its lock and its address.                  *)
LEMMA AtWork ==
    ASSUME Identity!IdentityInv, NEW m \in Identity!Lanes, NEW changes, Identity!Set(m, changes),
           "address" \notin DOMAIN changes, "holds" \notin DOMAIN changes,
           lane[m].step # "idle", UNCHANGED <<map, owner>>
    PROVE  \A o \in Identity!Lanes :
             /\ Identity!KeyOf(o)' = Identity!KeyOf(o) /\ Identity!Hold(o)' = Identity!Hold(o)
             /\ lane'[o].address = lane[o].address /\ lane'[o].holds = lane[o].holds
             /\ lane'[o].step # "idle" => owner'[Identity!KeyOf(o)] = o
<1> SUFFICES ASSUME NEW o \in Identity!Lanes
             PROVE  /\ Identity!KeyOf(o)' = Identity!KeyOf(o)
                    /\ Identity!Hold(o)' = Identity!Hold(o)
                    /\ lane'[o].address = lane[o].address /\ lane'[o].holds = lane[o].holds
                    /\ lane'[o].step # "idle" => owner'[Identity!KeyOf(o)] = o
  OBVIOUS
<1>1. Identity!TypeOK /\ Identity!HoldsAreLocked
  BY DEF Identity!IdentityInv
<1>2. /\ lane'[o].address = lane[o].address /\ lane'[o].holds = lane[o].holds
      /\ o # m => lane'[o] = lane[o]
  BY <1>1, LaneSet, LaneFields
<1>3. Identity!KeyOf(o)' = Identity!KeyOf(o) /\ Identity!Hold(o)' = Identity!Hold(o)
  BY <1>2, StandsStill
<1> QED BY <1>1, <1>2, <1>3 DEF Identity!HoldsAreLocked

LEMMA ClaimKeeps ==
    ASSUME Identity!IdentityInv, NEW m \in Identity!Lanes, Identity!Claim(m)
    PROVE  Identity!IdentityInv'
<1> DEFINE changes == [step |-> "held"]
           key == Identity!KeyOf(m)
<1>0. Identity!TypeOK /\ Identity!HoldsAreLocked
  BY DEF Identity!IdentityInv
<1>1. /\ lane[m].step = "claim" /\ Identity!Set(m, changes)
      /\ UNCHANGED <<map, answers, owner, records, overlapped, moves>>
      /\ \/ lockfile' = [lockfile EXCEPT ![key] = Identity!Hold(m)]
         \/ m \notin Identity!Checkers /\ lockfile' = lockfile
  BY DEF Identity!Claim
<1>2. /\ lane'[m].step = "held" /\ lane'[m].id = lane[m].id /\ lane'[m].checked = lane[m].checked
      /\ lane'[m].read = lane[m].read
      /\ lane'[m].real = lane[m].real /\ lane'[m].known = lane[m].known
      /\ DOMAIN lane' = Identity!Lanes /\ \A o \in Identity!Lanes : o # m => lane'[o] = lane[o]
      /\ DOMAIN lane'[m] = DOMAIN Identity!InitialLane
  BY <1>0, <1>1, LaneSet, LaneFields
<1>3. \A o \in Identity!Lanes :
        /\ Identity!KeyOf(o)' = Identity!KeyOf(o) /\ Identity!Hold(o)' = Identity!Hold(o)
        /\ lane'[o].address = lane[o].address /\ lane'[o].holds = lane[o].holds
        /\ lane'[o].step # "idle" => owner'[Identity!KeyOf(o)] = o
  <2>1. "address" \notin DOMAIN changes /\ "holds" \notin DOMAIN changes /\ lane[m].step # "idle"
    BY <1>1
  <2> HIDE DEF changes
  <2> QED BY <1>1, <2>1, AtWork
<1> HIDE DEF changes
<1>4. \A l \in Identity!Lanes : Identity!KeyOf(l) \in Identity!LockKeys /\ Identity!Hold(l) \in Identity!Holds
  BY <1>0, KeyIs
<1>5. Identity!TypeOK'
  <2>1. lockfile' \in [Identity!LockKeys -> Identity!Holds]
    BY <1>0, <1>1, <1>4 DEF Identity!TypeOK
  <2> QED BY <1>0, <1>1, <1>2, <1>3, <2>1 DEF Identity!TypeOK
<1>6. Identity!HoldsAreLocked'
  <2>1. ASSUME NEW o \in Identity!Checkers, lane'[o].step \notin {"idle", "claim"}
        PROVE  lockfile'[Identity!KeyOf(o)] = Identity!Hold(o)
    <3>0. o \in Identity!Lanes
      BY IdentityWords
    <3>1. CASE o = m
      BY <1>0, <1>1, <1>4, <2>1, <3>1 DEF Identity!TypeOK
    <3>2. CASE o # m
      <4>1. lockfile[Identity!KeyOf(o)] = Identity!Hold(o)
        BY <1>0, <1>2, <2>1, <3>0, <3>2 DEF Identity!HoldsAreLocked
      <4>2. Identity!KeyOf(o) # key
        BY <1>0, <1>1, <1>2, <2>1, <3>0, <3>2, KeysDiffer
      <4> QED BY <1>0, <1>1, <1>4, <3>0, <4>1, <4>2 DEF Identity!TypeOK
    <3> QED BY <3>1, <3>2
  <2> QED BY <1>0, <1>2, <1>3, <2>1 DEF Identity!HoldsAreLocked
<1>7. Identity!ChecksTakeTurns'
  BY <1>1, <1>2 DEF Identity!IdentityInv, Identity!ChecksTakeTurns, Identity!Checking
<1>8. ~lane'[m].checked
  BY <1>0, <1>1, <1>2 DEF Identity!HoldsAreLocked
<1>9. Identity!RecordsAreCurrent' /\ Identity!SecondSees'
  BY <1>1, <1>2, <1>3, <1>8, IdentityWords
     DEF Identity!IdentityInv, Identity!RecordsAreCurrent, Identity!SecondSees
<1>10. Identity!RealUnlessUnwritten'
  BY <1>1, <1>2 DEF Identity!IdentityInv, Identity!RealUnlessUnwritten
<1> QED BY <1>5, <1>6, <1>7, <1>9, <1>10 DEF Identity!IdentityInv

(* A step of a check keeps the types and the locks.                         *)
LEMMA CheckKeepsLocks ==
    ASSUME Identity!IdentityInv, NEW m \in Identity!Checkers, NEW changes, Identity!Set(m, changes),
           "address" \notin DOMAIN changes, "holds" \notin DOMAIN changes,
           lane[m].step \notin {"idle", "claim"}, lane'[m].step \notin {"idle", "claim"},
           UNCHANGED <<map, answers, owner, lockfile>>,
           records' \in [Identity!Devices -> [Identity!LockKeys -> Identity!Holds]],
           lane'[m].id \in Identity!Devices \cup {Identity!Nobody},
           lane'[m].read \in [Identity!LockKeys -> Identity!Holds],
           lane'[m].step \in {"write", "judge"} => lane'[m].id # Identity!Nobody
    PROVE  Identity!TypeOK' /\ Identity!HoldsAreLocked'
<1>0. Identity!TypeOK /\ Identity!HoldsAreLocked /\ m \in Identity!Lanes
  BY IdentityWords DEF Identity!IdentityInv
<1>1. \A o \in Identity!Lanes :
        /\ Identity!KeyOf(o)' = Identity!KeyOf(o) /\ Identity!Hold(o)' = Identity!Hold(o)
        /\ lane'[o].address = lane[o].address /\ lane'[o].holds = lane[o].holds
        /\ lane'[o].step # "idle" => owner'[Identity!KeyOf(o)] = o
  BY <1>0, AtWork
<1>2. /\ DOMAIN lane' = Identity!Lanes /\ \A o \in Identity!Lanes : o # m => lane'[o] = lane[o]
      /\ DOMAIN lane'[m] = DOMAIN Identity!InitialLane
  BY <1>0, LaneSet
<1>3. Identity!TypeOK'
  <2>1. \A l \in Identity!Lanes :
          /\ DOMAIN lane'[l] = DOMAIN Identity!InitialLane
          /\ lane'[l].address \in Identity!Addresses
          /\ lane'[l].id \in Identity!Devices \cup {Identity!Nobody}
          /\ lane'[l].holds \in Nat /\ lane'[l].read \in [Identity!LockKeys -> Identity!Holds]
    BY <1>0, <1>1, <1>2 DEF Identity!TypeOK
  <2>2. /\ map' = map /\ answers' = answers /\ owner' = owner /\ lockfile' = lockfile
    OBVIOUS
  <2> QED BY <1>0, <1>2, <2>1, <2>2 DEF Identity!TypeOK
<1>4. Identity!HoldsAreLocked'
  <2>1. lockfile' = lockfile
    OBVIOUS
  <2> QED BY <1>0, <1>1, <1>2, <2>1 DEF Identity!HoldsAreLocked
<1> QED BY <1>3, <1>4

LEMMA AskKeeps ==
    ASSUME Identity!IdentityInv, NEW m \in Identity!Lanes, Identity!AskId(m)
    PROVE  Identity!IdentityInv'
<1> DEFINE changes == [id |-> answers[lane[m].address]]
<1>0. Identity!TypeOK /\ Identity!HoldsAreLocked
  BY DEF Identity!IdentityInv
<1>1. /\ m \in Identity!Checkers /\ lane[m].step = "held" /\ lane[m].id = Identity!Nobody
      /\ Identity!Set(m, changes) /\ DOMAIN changes = {"id"}
      /\ map' = map /\ answers' = answers /\ owner' = owner /\ lockfile' = lockfile
      /\ records' = records /\ overlapped' = overlapped
  BY DEF Identity!AskId
<1>2. /\ lane'[m].step = "held" /\ lane'[m].id = answers[lane[m].address]
      /\ lane'[m].checked = lane[m].checked /\ lane'[m].read = lane[m].read
      /\ lane'[m].real = lane[m].real /\ lane'[m].known = lane[m].known
      /\ DOMAIN lane' = Identity!Lanes /\ \A o \in Identity!Lanes : o # m => lane'[o] = lane[o]
  BY <1>0, <1>1, LaneSet, LaneFields
<1> HIDE DEF changes
<1>3. Identity!TypeOK' /\ Identity!HoldsAreLocked'
  <2>1. answers[lane[m].address] \in Identity!Devices
    BY <1>0 DEF Identity!TypeOK
  <2>2. /\ lane'[m].read \in [Identity!LockKeys -> Identity!Holds]
        /\ records' \in [Identity!Devices -> [Identity!LockKeys -> Identity!Holds]]
    BY <1>0, <1>1, <1>2 DEF Identity!TypeOK
  <2>3. lane[m].step \notin {"idle", "claim"} /\ lane'[m].step \notin {"idle", "claim", "write", "judge"}
    BY <1>1, <1>2
  <2>4. lane'[m].id \in Identity!Devices \cup {Identity!Nobody}
    BY <1>2, <2>1
  <2>5. "address" \notin DOMAIN changes /\ "holds" \notin DOMAIN changes
    BY <1>1
  <2> QED BY <1>1, <2>2, <2>3, <2>4, <2>5, CheckKeepsLocks
<1>4. \A o \in Identity!Lanes : Identity!KeyOf(o)' = Identity!KeyOf(o) /\ Identity!Hold(o)' = Identity!Hold(o)
  <2>1. lane[m].step # "idle" /\ "address" \notin DOMAIN changes /\ "holds" \notin DOMAIN changes
    BY <1>1
  <2> QED BY <1>1, <2>1, AtWork
<1>5. map = {} /\ ~overlapped => ~lane[m].checked
  BY <1>1, IdentityWords DEF Identity!IdentityInv, Identity!RecordsAreCurrent
<1>6. Identity!ChecksTakeTurns'
  BY <1>1, <1>2 DEF Identity!IdentityInv, Identity!ChecksTakeTurns, Identity!Checking
<1>7. Identity!RecordsAreCurrent' /\ Identity!SecondSees'
  BY <1>1, <1>2, <1>4, <1>5, IdentityWords
     DEF Identity!IdentityInv, Identity!RecordsAreCurrent, Identity!SecondSees
<1>8. Identity!RealUnlessUnwritten'
  BY <1>1, <1>2 DEF Identity!IdentityInv, Identity!RealUnlessUnwritten
<1> QED BY <1>3, <1>6, <1>7, <1>8 DEF Identity!IdentityInv

(* A legacy holder, or another device's id, needs an alias map.             *)
LEMMA BeginKeeps ==
    ASSUME Identity!IdentityInv, NEW m \in Identity!Lanes, Identity!BeginCheck(m)
    PROVE  Identity!IdentityInv'
<1>0. Identity!TypeOK /\ Identity!HoldsAreLocked
  BY DEF Identity!IdentityInv
<1>1. /\ m \in Identity!Checkers /\ lane[m].step = "held"
      /\ map' = map /\ answers' = answers /\ owner' = owner /\ lockfile' = lockfile
      /\ records' = records
  BY DEF Identity!BeginCheck
<1>2. /\ "idle" # "held" /\ "claim" # "held"
      /\ records' \in [Identity!Devices -> [Identity!LockKeys -> Identity!Holds]]
      /\ lane[m].id \in Identity!Devices \cup {Identity!Nobody}
      /\ lane[m].read \in [Identity!LockKeys -> Identity!Holds]
  BY <1>0, <1>1 DEF Identity!TypeOK
<1>3. ASSUME NEW found, Identity!Set(m, [checked |-> TRUE, finding |-> found]), map # {},
             overlapped' = overlapped
      PROVE  Identity!IdentityInv'
  <2> DEFINE changes == [checked |-> TRUE, finding |-> found]
  <2>1. Identity!Set(m, changes) /\ DOMAIN changes = {"checked", "finding"}
    BY <1>3
  <2>2. /\ lane'[m].step = lane[m].step /\ lane'[m].id = lane[m].id
        /\ lane'[m].read = lane[m].read
        /\ lane'[m].real = lane[m].real /\ lane'[m].known = lane[m].known
        /\ DOMAIN lane' = Identity!Lanes /\ \A o \in Identity!Lanes : o # m => lane'[o] = lane[o]
    BY <1>0, <2>1, LaneSet, LaneFields
  <2> HIDE DEF changes
  <2>3. Identity!TypeOK' /\ Identity!HoldsAreLocked'
    BY <1>1, <1>2, <2>1, <2>2, CheckKeepsLocks
  <2>4. Identity!ChecksTakeTurns'
    BY <1>3, <2>2 DEF Identity!IdentityInv, Identity!ChecksTakeTurns, Identity!Checking
  <2>5. Identity!RecordsAreCurrent' /\ Identity!SecondSees'
    BY <1>1, <1>3 DEF Identity!RecordsAreCurrent, Identity!SecondSees
  <2>6. Identity!RealUnlessUnwritten'
    BY <2>2 DEF Identity!IdentityInv, Identity!RealUnlessUnwritten
  <2> QED BY <2>3, <2>4, <2>5, <2>6 DEF Identity!IdentityInv
<1>4. ASSUME Identity!Set(m, [step |-> "write", read |-> records[lane[m].id]]),
             lane[m].id # Identity!Nobody,
             overlapped' = (overlapped \/ \E o \in Identity!Lanes : lane[o].step \in {"write", "judge"})
      PROVE  Identity!IdentityInv'
  <2> DEFINE changes == [step |-> "write", read |-> records[lane[m].id]]
  <2>1. Identity!Set(m, changes) /\ DOMAIN changes = {"step", "read"}
    BY <1>4
  <2>2. /\ lane'[m].step = "write" /\ lane'[m].id = lane[m].id
        /\ lane'[m].read = records[lane[m].id] /\ lane'[m].checked = lane[m].checked
        /\ lane'[m].finding = lane[m].finding
        /\ lane'[m].real = lane[m].real /\ lane'[m].known = lane[m].known
        /\ DOMAIN lane' = Identity!Lanes /\ \A o \in Identity!Lanes : o # m => lane'[o] = lane[o]
    BY <1>0, <2>1, LaneSet, LaneFields
  <2>3. records[lane[m].id] \in [Identity!LockKeys -> Identity!Holds]
    BY <1>0, <1>2, <1>4 DEF Identity!TypeOK
  <2> HIDE DEF changes
  <2>4. Identity!TypeOK' /\ Identity!HoldsAreLocked'
    BY <1>1, <1>2, <1>4, <2>1, <2>2, <2>3, CheckKeepsLocks
  <2>5. \A o \in Identity!Lanes : Identity!KeyOf(o)' = Identity!KeyOf(o) /\ Identity!Hold(o)' = Identity!Hold(o)
    BY <1>1, <1>2, <2>1, AtWork
  <2>6. ASSUME ~overlapped'
        PROVE  ~overlapped /\ \A o \in Identity!Lanes : lane[o].step \notin {"write", "judge"}
    BY <1>4, <2>6
  <2>7. Identity!ChecksTakeTurns'
    BY <2>2, <2>6 DEF Identity!ChecksTakeTurns, Identity!Checking
  <2>8. Identity!RecordsAreCurrent' /\ Identity!SecondSees'
    <3> SUFFICES ASSUME map' = {}, ~overlapped'
                 PROVE  Identity!RecordsAreCurrent' /\ Identity!SecondSees'
      BY DEF Identity!RecordsAreCurrent, Identity!SecondSees
    <3>1. map = {} /\ ~overlapped
      BY <1>1, <2>6
    <3>2. Identity!RecordsAreCurrent /\ Identity!SecondSees
      BY DEF Identity!IdentityInv
    <3>3. Identity!RecordsAreCurrent'
      BY <1>1, <2>2, <2>5, <3>1, <3>2, IdentityWords DEF Identity!RecordsAreCurrent
    <3>4. Identity!SecondSees'
      BY <1>1, <2>2, <3>1, <3>2, IdentityWords DEF Identity!SecondSees
    <3> QED BY <3>3, <3>4
  <2>9. Identity!RealUnlessUnwritten'
    BY <2>2 DEF Identity!IdentityInv, Identity!RealUnlessUnwritten
  <2> QED BY <2>4, <2>7, <2>8, <2>9 DEF Identity!IdentityInv
<1>5. CASE Identity!LegacyHeld(m)
  <2>1. map # {}
    BY <1>5 DEF Identity!LegacyHeld
  <2>2. /\ Identity!Set(m, [checked |-> TRUE, finding |-> "collision"]) /\ overlapped' = overlapped
    BY <1>5 DEF Identity!BeginCheck
  <2> QED BY <1>3, <2>1, <2>2
<1>6. CASE /\ ~Identity!LegacyHeld(m)
           /\ Identity!KeyOf(m) = Identity!CanonicalKey /\ lane[m].id # Identity!Mapped
  <2>1. map # {}
    BY <1>0, <1>6, KeyIs, IdentityWords
  <2>2. /\ Identity!Set(m, [checked |-> TRUE, finding |-> Identity!Worst(m, "mismatch")])
        /\ overlapped' = overlapped
    BY <1>6 DEF Identity!BeginCheck
  <2> QED BY <1>3, <2>1, <2>2
<1>7. CASE /\ ~Identity!LegacyHeld(m)
           /\ ~(Identity!KeyOf(m) = Identity!CanonicalKey /\ lane[m].id # Identity!Mapped)
  <2>1. /\ Identity!Set(m, [step |-> "write", read |-> records[lane[m].id]])
        /\ lane[m].id # Identity!Nobody
        /\ overlapped' = (overlapped \/ \E o \in Identity!Lanes : lane[o].step \in {"write", "judge"})
    BY <1>7 DEF Identity!BeginCheck
  <2> QED BY <1>4, <2>1
<1> QED BY <1>5, <1>6, <1>7

(* What a record written changes of the records: the lane's own entry, and  *)
(* entries under the lane's key.                                            *)
LEMMA RecordWritten ==
    ASSUME Identity!TypeOK, NEW l \in Identity!Lanes, lane[l].id # Identity!Nobody
    PROVE  /\ Identity!Recorded(l) \in [Identity!Devices -> [Identity!LockKeys -> Identity!Holds]]
           /\ Identity!Recorded(l)[lane[l].id][Identity!KeyOf(l)] = Identity!Hold(l)
           /\ \A k \in Identity!LockKeys \ {Identity!KeyOf(l)} :
                /\ Identity!Recorded(l)[lane[l].id][k] = lane[l].read[k]
                /\ \A e \in Identity!Devices \ {lane[l].id} :
                     Identity!Recorded(l)[e][k] = records[e][k]
<1> DEFINE key == Identity!KeyOf(l)
           d == lane[l].id
           mine == [lane[l].read EXCEPT ![key] = Identity!Hold(l)]
           R == Identity!Recorded(l)
<1>1. /\ key \in Identity!LockKeys /\ Identity!Hold(l) \in Identity!Holds
      /\ d \in Identity!Devices /\ lane[l].read \in [Identity!LockKeys -> Identity!Holds]
      /\ records \in [Identity!Devices -> [Identity!LockKeys -> Identity!Holds]]
      /\ Identity!NoHold \in Identity!Holds
  BY KeyIs, IdentityWords DEF Identity!TypeOK
<1>2. /\ mine \in [Identity!LockKeys -> Identity!Holds] /\ mine[key] = Identity!Hold(l)
      /\ \A k \in Identity!LockKeys \ {key} : mine[k] = lane[l].read[k]
  BY <1>1
<1>3. /\ DOMAIN R = Identity!Devices /\ R[d] = mine
      /\ \A e \in Identity!Devices \ {d} :
           R[e] = [records[e] EXCEPT ![key] = Identity!NoHold] \/ R[e] = records[e]
      /\ R = [e \in Identity!Devices |-> R[e]]
  BY <1>1 DEF Identity!Recorded
<1> HIDE DEF mine, R, key, d
<1>4. ASSUME NEW e \in Identity!Devices \ {d}
      PROVE  /\ R[e] \in [Identity!LockKeys -> Identity!Holds]
             /\ \A k \in Identity!LockKeys \ {key} : R[e][k] = records[e][k]
  BY <1>1, <1>3, <1>4
<1>5. R \in [Identity!Devices -> [Identity!LockKeys -> Identity!Holds]]
  BY <1>2, <1>3, <1>4
<1> QED BY <1>2, <1>3, <1>4, <1>5 DEF key, d, R

LEMMA WriteKeeps ==
    ASSUME Identity!IdentityInv, NEW m \in Identity!Lanes, Identity!WriteRecord(m)
    PROVE  Identity!IdentityInv'
<1> DEFINE changes == [step |-> "judge"]
           key == Identity!KeyOf(m)
           d == lane[m].id
<1>0. Identity!TypeOK /\ Identity!HoldsAreLocked
  BY DEF Identity!IdentityInv
<1>1. /\ lane[m].step = "write" /\ records' = Identity!Recorded(m)
      /\ Identity!Set(m, changes) /\ DOMAIN changes = {"step"}
      /\ map' = map /\ answers' = answers /\ owner' = owner /\ lockfile' = lockfile
      /\ overlapped' = overlapped
  BY DEF Identity!WriteRecord
<1>2. /\ lane'[m].step = "judge" /\ lane'[m].id = lane[m].id
      /\ lane'[m].read = lane[m].read /\ lane'[m].checked = lane[m].checked
      /\ lane'[m].finding = lane[m].finding
      /\ lane'[m].real = lane[m].real /\ lane'[m].known = lane[m].known
      /\ DOMAIN lane' = Identity!Lanes /\ \A o \in Identity!Lanes : o # m => lane'[o] = lane[o]
  BY <1>0, <1>1, LaneSet, LaneFields
<1>3. m \in Identity!Checkers /\ d # Identity!Nobody
  BY <1>0, <1>1 DEF Identity!HoldsAreLocked
<1>4. /\ d \in Identity!Devices /\ lane[m].read \in [Identity!LockKeys -> Identity!Holds]
      /\ "write" # "idle" /\ "write" # "claim" /\ "judge" # "idle" /\ "judge" # "claim"
      /\ "address" # "step" /\ "holds" # "step"
  BY <1>0, <1>3 DEF Identity!TypeOK
<1> HIDE DEF changes
<1>5. /\ records' \in [Identity!Devices -> [Identity!LockKeys -> Identity!Holds]]
      /\ records'[d][key] = Identity!Hold(m)
      /\ \A k \in Identity!LockKeys \ {key} :
           /\ records'[d][k] = lane[m].read[k]
           /\ \A e \in Identity!Devices \ {d} : records'[e][k] = records[e][k]
  BY <1>0, <1>1, <1>3, RecordWritten
<1>6. Identity!TypeOK' /\ Identity!HoldsAreLocked'
  BY <1>1, <1>2, <1>3, <1>4, <1>5, CheckKeepsLocks
<1>7. \A o \in Identity!Lanes : Identity!KeyOf(o)' = Identity!KeyOf(o) /\ Identity!Hold(o)' = Identity!Hold(o)
  BY <1>1, <1>4, AtWork
<1>8. Identity!ChecksTakeTurns'
  BY <1>1, <1>2 DEF Identity!IdentityInv, Identity!ChecksTakeTurns, Identity!Checking
<1>9. Identity!SecondSees'
  BY <1>1, <1>2, IdentityWords DEF Identity!IdentityInv, Identity!SecondSees
<1>10. Identity!RecordsAreCurrent'
  <2> SUFFICES ASSUME map' = {}, ~overlapped' PROVE Identity!RecordsAreCurrent'
    BY DEF Identity!RecordsAreCurrent
  <2>1. map = {} /\ ~overlapped
    BY <1>1
  <2>2. /\ lane[m].read = records[d]
        /\ \A o \in Identity!Lanes : o # m => lane[o].step \notin {"write", "judge"}
    BY <1>1, <1>3, <2>1
       DEF Identity!IdentityInv, Identity!RecordsAreCurrent, Identity!ChecksTakeTurns, Identity!Checking
  <2>3. ASSUME NEW o \in Identity!Checkers, o # m, lane[o].checked
        PROVE  lane[o].id # Identity!Nobody /\ records'[lane[o].id][Identity!KeyOf(o)] = Identity!Hold(o)
    <3>1. /\ o \in Identity!Lanes /\ lane[o].id # Identity!Nobody
          /\ records[lane[o].id][Identity!KeyOf(o)] = Identity!Hold(o)
      BY <2>1, <2>3, IdentityWords DEF Identity!IdentityInv, Identity!RecordsAreCurrent
    <3>2. lane[o].id \in Identity!Devices /\ Identity!KeyOf(o) \in Identity!LockKeys
      BY <1>0, <3>1, KeyIs DEF Identity!TypeOK
    <3>3. Identity!KeyOf(o) # key
      <4>1. lane[o].step # "idle"
        BY <1>0, <2>3, <3>1 DEF Identity!HoldsAreLocked
      <4> QED BY <1>0, <1>1, <1>4, <2>3, <3>1, <4>1, KeysDiffer
    <3> QED BY <1>5, <2>2, <3>1, <3>2, <3>3
  <2> QED BY <1>1, <1>2, <1>3, <1>5, <1>7, <2>2, <2>3, IdentityWords DEF Identity!RecordsAreCurrent
<1>11. Identity!RealUnlessUnwritten'
  BY <1>2 DEF Identity!IdentityInv, Identity!RealUnlessUnwritten
<1> QED BY <1>6, <1>8, <1>9, <1>10, <1>11 DEF Identity!IdentityInv

(* The keys a check finds held: one that another lane holds, and recorded   *)
(* for the same device in the present hold, is among them.                  *)
LEMMA JudgeKeeps ==
    ASSUME Identity!IdentityInv, NEW m \in Identity!Lanes, Identity!Judge(m)
    PROVE  Identity!IdentityInv'
<1> DEFINE held == {k \in Identity!Others(m) :
                      \E h \in Identity!ForeignHolder(m, k) : Identity!HeldBy(lane[m].read[k], h)}
           found == Identity!Worst(m, IF held # {} THEN "collision"
                                      ELSE IF Identity!Others(m) # {} THEN "seen" ELSE "none")
           really == \A k \in held : /\ owner[k] = lane[m].read[k].lane
                                     /\ Identity!Hold(owner[k]) = lane[m].read[k]
           written == \A k \in held : lockfile[k] = Identity!Hold(owner[k])
           isReal == lane[m].real /\ really
           isKnown == lane[m].known /\ written
           changes == [step |-> "held", checked |-> TRUE, read |-> Identity!NoRecord,
                       finding |-> found, real |-> isReal, known |-> isKnown]
<1>0. Identity!TypeOK /\ Identity!HoldsAreLocked
  BY DEF Identity!IdentityInv
<1>1. /\ lane[m].step = "judge"
      /\ Identity!Set(m, changes)
      /\ map' = map /\ answers' = answers /\ owner' = owner /\ lockfile' = lockfile
      /\ records' = records /\ overlapped' = overlapped
  BY DEF Identity!Judge
<1>2. DOMAIN changes = {"step", "checked", "read", "finding", "real", "known"}
  OBVIOUS
<1>3. /\ changes.step = "held" /\ changes.checked /\ changes.read = Identity!NoRecord
      /\ changes.finding = found /\ changes.real = isReal /\ changes.known = isKnown
  OBVIOUS
<1>4. really \/ ~written
  <2> SUFFICES ASSUME written PROVE really
    OBVIOUS
  <2> SUFFICES ASSUME NEW k \in held
               PROVE  owner[k] = lane[m].read[k].lane /\ Identity!Hold(owner[k]) = lane[m].read[k]
    OBVIOUS
  <2>1. lockfile[k] = Identity!Hold(owner[k])
    OBVIOUS
  <2>2. lane[m].read[k] = lockfile[k]
    BY DEF Identity!ForeignHolder, Identity!HeldBy
  <2>3. Identity!Hold(owner[k]).lane = owner[k]
    BY DEF Identity!Hold
  <2> QED BY <2>1, <2>2, <2>3
<1>5. held # {} => found = "collision"
  BY DEF Identity!Worst
<1>6. \A k \in Identity!Others(m) : owner[k] # Identity!Nobody /\ lockfile[k].lane # m
                                    /\ lockfile[k] = lane[m].read[k] => k \in held
  BY DEF Identity!ForeignHolder, Identity!HeldBy
<1> HIDE DEF held, found, really, written
<1>7. isReal \/ ~isKnown
  BY <1>4 DEF Identity!IdentityInv, Identity!RealUnlessUnwritten
<1> HIDE DEF isReal, isKnown, changes
<1>8. /\ lane'[m].step = "held" /\ lane'[m].id = lane[m].id
      /\ lane'[m].read = Identity!NoRecord /\ lane'[m].checked /\ lane'[m].finding = found
      /\ lane'[m].real = isReal /\ lane'[m].known = isKnown
      /\ DOMAIN lane' = Identity!Lanes /\ \A o \in Identity!Lanes : o # m => lane'[o] = lane[o]
  BY <1>0, <1>1, <1>2, <1>3, LaneSet, LaneFields
<1>9. /\ m \in Identity!Checkers /\ lane[m].id # Identity!Nobody
      /\ "judge" # "idle" /\ "judge" # "claim" /\ "held" # "idle" /\ "held" # "claim"
      /\ "held" # "write" /\ "held" # "judge"
      /\ "address" \notin DOMAIN changes /\ "holds" \notin DOMAIN changes
  BY <1>0, <1>1, <1>2 DEF Identity!HoldsAreLocked
<1>10. Identity!TypeOK' /\ Identity!HoldsAreLocked'
  <2>1. /\ lane[m].id \in Identity!Devices \cup {Identity!Nobody}
        /\ records \in [Identity!Devices -> [Identity!LockKeys -> Identity!Holds]]
    BY <1>0 DEF Identity!TypeOK
  <2> QED BY <1>1, <1>8, <1>9, <2>1, IdentityWords, CheckKeepsLocks
<1>11. \A o \in Identity!Lanes : Identity!KeyOf(o)' = Identity!KeyOf(o) /\ Identity!Hold(o)' = Identity!Hold(o)
  BY <1>1, <1>9, AtWork
<1>12. Identity!ChecksTakeTurns'
  BY <1>1, <1>8 DEF Identity!IdentityInv, Identity!ChecksTakeTurns, Identity!Checking
<1>13. Identity!RecordsAreCurrent'
  BY <1>1, <1>8, <1>9, <1>11, IdentityWords DEF Identity!IdentityInv, Identity!RecordsAreCurrent
<1>14. Identity!SecondSees'
  <2> SUFFICES ASSUME map' = {}, ~overlapped' PROVE Identity!SecondSees'
    BY DEF Identity!SecondSees
  <2>1. map = {} /\ ~overlapped
    BY <1>1
  <2>2. Identity!RecordsAreCurrent /\ Identity!SecondSees
    BY DEF Identity!IdentityInv
  <2>3. ASSUME NEW o \in Identity!Checkers, o # m, lane[o].checked, lane[o].id = lane[m].id
        PROVE  found = "collision"
    <3> DEFINE k == Identity!KeyOf(o)
    <3>1. /\ o \in Identity!Lanes /\ records[lane[m].id][k] = Identity!Hold(o)
      BY <2>1, <2>2, <2>3, IdentityWords DEF Identity!RecordsAreCurrent
    <3>2. lane[o].step \notin {"idle", "claim"}
      BY <1>0, <2>3, <3>1 DEF Identity!HoldsAreLocked
    <3>3. k # Identity!KeyOf(m) /\ owner[k] = o /\ lockfile[k] = Identity!Hold(o)
      BY <1>0, <1>1, <1>9, <2>3, <3>1, <3>2, KeysDiffer DEF Identity!HoldsAreLocked
    <3>4. k \in Identity!LockKeys /\ Identity!Key(m, k) = k /\ Identity!Hold(o).lane = o
      BY <1>0, <2>1, <3>1, KeyIs
    <3>5. lane[m].read[k] = Identity!Hold(o)
      BY <1>1, <1>9, <2>1, <2>2, <3>1, <3>3, <3>4 DEF Identity!RecordsAreCurrent
    <3>6. k \in Identity!Others(m)
      BY <3>1, <3>3, <3>4, <3>5, IdentityWords DEF Identity!Others
    <3> QED BY <1>5, <1>6, <2>3, <3>1, <3>3, <3>4, <3>5, <3>6, IdentityWords
  <2> QED BY <1>8, <1>9, <2>1, <2>2, <2>3, IdentityWords DEF Identity!SecondSees
<1>15. Identity!RealUnlessUnwritten'
  BY <1>7, <1>8 DEF Identity!IdentityInv, Identity!RealUnlessUnwritten
<1> QED BY <1>10, <1>12, <1>13, <1>14, <1>15 DEF Identity!IdentityInv

LEMMA ReleaseKeeps ==
    ASSUME Identity!IdentityInv, NEW m \in Identity!Lanes, Identity!Release(m)
    PROVE  Identity!IdentityInv'
<1> DEFINE key == Identity!KeyOf(m)
<1>0. Identity!TypeOK /\ Identity!HoldsAreLocked
  BY DEF Identity!IdentityInv
<1>1. /\ lane[m].step = "held" /\ owner' = [owner EXCEPT ![key] = Identity!Nobody]
      /\ map' = map /\ answers' = answers /\ lockfile' = lockfile
      /\ records' = records /\ overlapped' = overlapped
  BY DEF Identity!Release
<1>2. PICK id \in {lane[m].id, Identity!Nobody} :
        lane' = [lane EXCEPT ![m] =
          [Identity!InitialLane EXCEPT !.id = id, !.holds = lane[m].holds,
             !.address = IF id = Identity!Nobody THEN "a1" ELSE lane[m].address]]
  BY DEF Identity!Release
<1>3. /\ lane'[m].step = "idle" /\ lane'[m].id = id /\ lane'[m].holds = lane[m].holds
      /\ lane'[m].address = (IF id = Identity!Nobody THEN "a1" ELSE lane[m].address)
      /\ ~lane'[m].checked /\ lane'[m].read = Identity!NoRecord /\ lane'[m].real
      /\ DOMAIN lane'[m] = DOMAIN Identity!InitialLane
      /\ DOMAIN lane' = Identity!Lanes /\ \A o \in Identity!Lanes : o # m => lane'[o] = lane[o]
  BY <1>0, <1>2 DEF Identity!TypeOK, Identity!InitialLane
<1>4. key \in Identity!LockKeys
  BY <1>0, KeyIs
<1>5. ASSUME NEW o \in Identity!Lanes, o # m
      PROVE  /\ Identity!KeyOf(o)' = Identity!KeyOf(o) /\ Identity!Hold(o)' = Identity!Hold(o)
             /\ lane'[o].step # "idle" => owner'[Identity!KeyOf(o)] = o
  <2>1. Identity!KeyOf(o)' = Identity!KeyOf(o) /\ Identity!Hold(o)' = Identity!Hold(o)
    BY <1>1, <1>3, <1>5, StandsStill
  <2>2. ASSUME lane'[o].step # "idle" PROVE owner'[Identity!KeyOf(o)] = o
    <3>1. owner[Identity!KeyOf(o)] = o
      BY <1>0, <1>3, <1>5, <2>2 DEF Identity!HoldsAreLocked
    <3>2. Identity!KeyOf(o) # key
      BY <1>0, <1>1, <1>3, <1>5, <2>2, KeysDiffer
    <3> QED BY <1>0, <1>1, <1>4, <3>1, <3>2, KeyIs DEF Identity!TypeOK
  <2> QED BY <2>1, <2>2
<1> HIDE DEF key
<1>6. Identity!TypeOK'
  <2>1. owner' \in [Identity!LockKeys -> Identity!Lanes \cup {Identity!Nobody}]
    BY <1>0, <1>1 DEF Identity!TypeOK
  <2>2. "a1" \in Identity!Addresses
    BY DEF Identity!Addresses
  <2>3. ASSUME NEW l \in Identity!Lanes
        PROVE  /\ DOMAIN lane'[l] = DOMAIN Identity!InitialLane
               /\ lane'[l].address \in Identity!Addresses
               /\ lane'[l].id \in Identity!Devices \cup {Identity!Nobody}
               /\ lane'[l].holds \in Nat /\ lane'[l].read \in [Identity!LockKeys -> Identity!Holds]
    BY <1>0, <1>2, <1>3, <2>2, IdentityWords DEF Identity!TypeOK
  <2> QED BY <1>0, <1>1, <1>3, <2>1, <2>3 DEF Identity!TypeOK
<1>7. Identity!HoldsAreLocked'
  BY <1>0, <1>1, <1>3, <1>5 DEF Identity!HoldsAreLocked
<1>8. Identity!ChecksTakeTurns'
  BY <1>1, <1>3 DEF Identity!IdentityInv, Identity!ChecksTakeTurns, Identity!Checking
<1>9. Identity!RecordsAreCurrent' /\ Identity!SecondSees'
  BY <1>1, <1>3, <1>5, IdentityWords
     DEF Identity!IdentityInv, Identity!RecordsAreCurrent, Identity!SecondSees
<1>10. Identity!RealUnlessUnwritten'
  BY <1>3 DEF Identity!IdentityInv, Identity!RealUnlessUnwritten
<1> QED BY <1>6, <1>7, <1>8, <1>9, <1>10 DEF Identity!IdentityInv

(* The invariant does not look at what an address answers.                  *)
LEMMA NothingMoves ==
    ASSUME Identity!IdentityInv, answers' \in [Identity!Addresses -> Identity!Devices],
           UNCHANGED <<map, owner, lockfile, records, lane, overlapped>>
    PROVE  Identity!IdentityInv'
<1>1. \A o : Identity!KeyOf(o)' = Identity!KeyOf(o) /\ Identity!Hold(o)' = Identity!Hold(o)
  BY DEF Identity!KeyOf, Identity!Key, Identity!Hold
<1>2. /\ map' = map /\ owner' = owner /\ lockfile' = lockfile /\ records' = records
      /\ lane' = lane /\ overlapped' = overlapped
  OBVIOUS
<1>3. Identity!TypeOK'
  BY <1>2 DEF Identity!IdentityInv, Identity!TypeOK
<1>4. Identity!HoldsAreLocked'
  BY <1>1, <1>2 DEF Identity!IdentityInv, Identity!HoldsAreLocked
<1>5. Identity!ChecksTakeTurns' /\ Identity!RealUnlessUnwritten'
  BY <1>2 DEF Identity!IdentityInv, Identity!ChecksTakeTurns, Identity!Checking,
              Identity!RealUnlessUnwritten
<1>6. Identity!RecordsAreCurrent' /\ Identity!SecondSees'
  BY <1>1, <1>2 DEF Identity!IdentityInv, Identity!RecordsAreCurrent, Identity!SecondSees
<1> QED BY <1>3, <1>4, <1>5, <1>6 DEF Identity!IdentityInv

LEMMA IdentityStep ==
    Identity!IdentityInv /\ [Identity!IdentityNext]_(Identity!ivars) => Identity!IdentityInv'
<1> SUFFICES ASSUME Identity!IdentityInv, [Identity!IdentityNext]_(Identity!ivars)
             PROVE  Identity!IdentityInv'
  OBVIOUS
<1>1. ASSUME NEW l \in Identity!Lanes,
             \/ \E a \in Identity!Addresses : Identity!Acquire(l, a)
             \/ Identity!Claim(l) \/ Identity!AskId(l) \/ Identity!BeginCheck(l)
             \/ Identity!WriteRecord(l) \/ Identity!Judge(l) \/ Identity!Release(l)
      PROVE  Identity!IdentityInv'
  BY <1>1, AcquireKeeps, ClaimKeeps, AskKeeps, BeginKeeps, WriteKeeps, JudgeKeeps, ReleaseKeeps
<1>2. ASSUME NEW a \in Identity!Addresses, Identity!Move(a)
      PROVE  Identity!IdentityInv'
  <2>1. answers \in [Identity!Addresses -> Identity!Devices]
    BY DEF Identity!IdentityInv, Identity!TypeOK
  <2>2. PICK d \in Identity!Devices : answers' = [answers EXCEPT ![a] = d]
    BY <1>2 DEF Identity!Move
  <2>3. answers' \in [Identity!Addresses -> Identity!Devices]
    BY <2>1, <2>2
  <2>4. UNCHANGED <<map, owner, lockfile, records, lane, overlapped>>
    BY <1>2 DEF Identity!Move
  <2> QED BY <2>3, <2>4, NothingMoves
<1>3. CASE UNCHANGED Identity!ivars
  <2>1. answers' \in [Identity!Addresses -> Identity!Devices]
    BY <1>3 DEF Identity!ivars, Identity!IdentityInv, Identity!TypeOK
  <2> QED BY <1>3, <2>1, NothingMoves DEF Identity!ivars
<1> QED BY <1>1, <1>2, <1>3 DEF Identity!IdentityNext

LEMMA IdentityShows ==
    Identity!IdentityInv => Identity!CollisionUnlessUnwritten /\ Identity!SplitIsSeen
<1> SUFFICES ASSUME Identity!IdentityInv
             PROVE  Identity!CollisionUnlessUnwritten /\ Identity!SplitIsSeen
  OBVIOUS
<1>1. Identity!CollisionUnlessUnwritten
  BY DEF Identity!IdentityInv, Identity!RealUnlessUnwritten, Identity!CollisionUnlessUnwritten
<1>2. Identity!SplitIsSeen
  <2> SUFFICES ASSUME NEW l \in Identity!Checkers, NEW o \in Identity!Checkers,
                      l # o, ~overlapped, lane[l].checked, lane[o].checked,
                      lane[l].id = lane[o].id, Identity!KeyOf(l) # Identity!KeyOf(o)
               PROVE  "collision" \in {lane[l].finding, lane[o].finding}
    BY DEF Identity!SplitIsSeen
  <2>1. map = {}
    <3>1. lane[l].address \in Identity!Addresses /\ lane[o].address \in Identity!Addresses
      BY IdentityWords DEF Identity!IdentityInv, Identity!TypeOK
    <3>2. map # Identity!Addresses
      BY <3>1 DEF Identity!KeyOf, Identity!Key
    <3> QED BY <3>2 DEF Identity!IdentityInv, Identity!TypeOK
  <2> QED BY <2>1 DEF Identity!IdentityInv, Identity!SecondSees
<1> QED BY <1>1, <1>2

(* A collision that the records show names a lane that holds the device in   *)
(* the very hold in which it was recorded, unless the other flock's owner has *)
(* not written its lockfile yet; and two lanes that hold one device under two *)
(* keys, and have checked in turn, cannot both go on believing to be alone,   *)
(* for any number of holds and moves.                                         *)
THEOREM IdentityRecordsTell == RunSpec => []IdentityIsSound
<1> DEFINE I == subject = "identity" => Identity!IdentityInv
<1>1. RunInit => I
  BY SubjectBegins, IdentityInit
<1>2. I /\ [RunNext]_allvars => I'
  BY SubjectMoves, IdentityStep
<1>3. I => IdentityIsSound
  BY IdentityShows DEF IdentityIsSound
<1> QED BY <1>1, <1>2, <1>3, PTL DEF RunSpec

-----------------------------------------------------------------------------
(* Configuration (U64Config)                                                 *)

LEMMA ConfigItems ==
    /\ Config!SidItems = Config!SlotSet \cup {"mirror"}
    /\ Config!Items = Config!SidItems \cup {"turbo", "speed", "badline", "cart", "reu", "ftp"}
    /\ Config!SlotSet \cap {"mirror", "turbo", "speed", "badline", "cart", "reu", "ftp"} = {}
    /\ Slots \in Seq(Config!SlotSet)
    /\ \A s \in Config!SlotSet : \E n \in DOMAIN Slots : Slots[n] = s
BY ConfigAssumption DEF Config!SlotsAssumption, Config!OtherItems, Config!SidItems, Config!Items,
                        Config!SlotSet

LEMMA SlotOffered ==
    ASSUME NEW s \in Config!SlotSet
    PROVE  Bases[Config!Place(s)] \in Offered /\ Bases[1] \in Offered
<1>1. PICK n \in DOMAIN Slots : Slots[n] = s
  BY ConfigItems
<1>2. Config!Place(s) \in DOMAIN Slots
  BY <1>1 DEF Config!Place
<1>3. 1 \in DOMAIN Slots
  BY <1>1, ConfigItems
<1> QED BY <1>2, <1>3, ConfigAssumption DEF Config!SlotsAssumption

LEMMA Defaults ==
    /\ DOMAIN Config!Default = Config!Items /\ Config!Answerable(Config!Default)
    /\ Config!Default["turbo"] = "Off" /\ Config!Default["badline"] = "Enabled"
<1>1. \A s \in Config!SlotSet : s \notin {"mirror", "turbo", "speed", "badline", "cart", "reu", "ftp"}
                                /\ s \in Config!Items
  BY ConfigItems
<1>2. "turbo" \in Config!Items /\ "badline" \in Config!Items
      /\ "turbo" \notin Config!SlotSet /\ "badline" \notin Config!SlotSet
  BY ConfigItems
<1>3. \A s \in Config!SlotSet : Config!Default[s] = Bases[Config!Place(s)]
  BY <1>1 DEF Config!Default
<1>4. Config!Default["turbo"] = "Off" /\ Config!Default["badline"] = "Enabled"
  BY <1>2 DEF Config!Default
<1>5. DOMAIN Config!Default = Config!Items
  BY DEF Config!Default
<1> QED BY <1>3, <1>4, <1>5, SlotOffered DEF Config!Answerable

LEMMA Categories ==
    /\ \A i \in Config!Items \ {"ftp"} : Config!Category[i] \in {"U64", "Cart", "SID"}
    /\ Config!Category["ftp"] = "Network"
<1>1. \A i \in Config!Items : i \in Config!SidItems \/ i \in {"turbo", "speed", "badline"}
                              \/ i \in {"cart", "reu"} \/ i = "ftp"
  BY ConfigItems
<1>2. \A i \in Config!SidItems : i \notin {"turbo", "speed", "badline", "cart", "reu", "ftp"}
                                 /\ i \in Config!Items
  BY ConfigItems
<1>3. {"turbo", "speed", "badline", "cart", "reu", "ftp"} \subseteq Config!Items
  BY ConfigItems
<1>4. \A i \in Config!SidItems : Config!Category[i] = "SID"
  BY <1>2 DEF Config!Category
<1>5. \A i \in {"turbo", "speed", "badline"} : Config!Category[i] = "U64"
  BY <1>2, <1>3 DEF Config!Category
<1>6. \A i \in {"cart", "reu"} : Config!Category[i] = "Cart"
  BY <1>2, <1>3 DEF Config!Category
<1>7. Config!Category["ftp"] = "Network"
  BY <1>2, <1>3 DEF Config!Category
<1> QED BY <1>1, <1>4, <1>5, <1>6, <1>7

LEMMA SeriesOf ==
    ASSUME NEW n \in Nat, NEW q, DOMAIN q = 1 .. n, q = [i \in 1 .. n |-> q[i]]
    PROVE  q \in Seq({q[i] : i \in DOMAIN q})
<1>1. q \in [1 .. n -> {q[i] : i \in DOMAIN q}]
  OBVIOUS
<1> QED BY <1>1

(* What is left of a series of writes.                                      *)
LEMMA RestOfWrites ==
    ASSUME NEW q, q \in Seq({q[n] : n \in DOMAIN q}), q # <<>>
    PROVE  /\ Head(q) = q[1] /\ 1 \in DOMAIN q
           /\ Tail(q) \in Seq({Tail(q)[n] : n \in DOMAIN Tail(q)})
           /\ \A n \in DOMAIN Tail(q) : n + 1 \in DOMAIN q /\ Tail(q)[n] = q[n + 1]
           /\ \A n \in DOMAIN q : n # 1 => n - 1 \in DOMAIN Tail(q) /\ Tail(q)[n - 1] = q[n]
<1> DEFINE S == {q[n] : n \in DOMAIN q}
<1>1. Len(q) \in Nat \ {0} /\ DOMAIN q = 1 .. Len(q) /\ q \in Seq(S)
  BY EmptySeq, LenProperties
<1>2. /\ Tail(q) \in Seq(S) /\ Len(Tail(q)) = Len(q) - 1 /\ Head(q) = q[1]
      /\ \A i \in 1 .. Len(Tail(q)) : Tail(q)[i] = q[i + 1]
  BY <1>1, HeadTailProperties
<1> HIDE DEF S
<1>3. DOMAIN Tail(q) = 1 .. Len(q) - 1 /\ Tail(q) = [i \in 1 .. Len(q) - 1 |-> Tail(q)[i]]
  BY <1>1, <1>2, LenProperties
<1>4. Len(q) - 1 \in Nat
  BY <1>1
<1>5. Tail(q) \in Seq({Tail(q)[n] : n \in DOMAIN Tail(q)})
  BY <1>3, <1>4, SeriesOf
<1>6. Head(q) = q[1] /\ 1 \in DOMAIN q
  BY <1>1, <1>2
<1>7. ASSUME NEW n \in DOMAIN Tail(q) PROVE n + 1 \in DOMAIN q /\ Tail(q)[n] = q[n + 1]
  BY <1>1, <1>2, <1>3, <1>7
<1>8. ASSUME NEW n \in DOMAIN q, n # 1
      PROVE  n - 1 \in DOMAIN Tail(q) /\ Tail(q)[n - 1] = q[n]
  <2>1. n - 1 \in 1 .. Len(q) - 1 /\ (n - 1) + 1 = n
    BY <1>1, <1>8
  <2> QED BY <1>3, <1>7, <2>1
<1> QED BY <1>5, <1>6, <1>7, <1>8

(* A write that is sent, or that raises, leaves the rest to put back.       *)
LEMMA PutReturns ==
    ASSUME Config!Put, Config!CallsAreTold, Config!ValuesAreOffered,
           NEW items, NEW values, items \subseteq Config!Items,
           \A s \in items \cap Config!SlotSet : values[s] \in Offered \cup {"Unmapped"},
           Config!Returns(conf, todo, failed, items, values)
    PROVE  Config!Returns(conf', todo', failed', items, values)
<1> DEFINE w == Head(todo)
<1>1. /\ w = todo[1] /\ 1 \in DOMAIN todo /\ todo # <<>>
      /\ \A n \in DOMAIN Tail(todo) : n + 1 \in DOMAIN todo /\ Tail(todo)[n] = todo[n + 1]
      /\ \A n \in DOMAIN todo : n # 1 => n - 1 \in DOMAIN Tail(todo) /\ Tail(todo)[n - 1] = todo[n]
  BY RestOfWrites DEF Config!Put, Config!CallsAreTold
<1>2. \A n \in DOMAIN todo : todo[n].item \in items => todo[n].value = values[todo[n].item]
  BY DEF Config!Returns
<1>3. \A n \in DOMAIN Tail(todo) :
        Tail(todo)[n].item \in items => Tail(todo)[n].value = values[Tail(todo)[n].item]
  BY <1>1, <1>2
<1>4. CASE conf' = Config!Applied(w) /\ todo' = Tail(todo) /\ failed' = failed
  <2> SUFFICES ASSUME failed = {}, NEW i \in items
               PROVE  conf'[i] = values[i] \/ \E n \in DOMAIN todo' : todo'[n].item = i
    BY <1>3, <1>4 DEF Config!Returns
  <2>1. w.item = i => conf'[i] = values[i]
    <3> SUFFICES ASSUME w.item = i PROVE conf'[i] = values[i]
      OBVIOUS
    <3>1. w.value = values[i]
      BY <1>1, <1>2
    <3>2. conf' = [conf EXCEPT ![i] = values[i]]
      BY <1>4, <3>1 DEF Config!Applied
    <3> QED BY <3>2 DEF Config!ValuesAreOffered
  <2>2. w.item # i => conf'[i] = conf[i]
    BY <1>4 DEF Config!Applied, Config!ValuesAreOffered
  <2>3. CASE w.item # i /\ \E n \in DOMAIN todo : todo[n].item = i
    <3>1. PICK n \in DOMAIN todo : todo[n].item = i
      BY <2>3
    <3>2. n # 1
      BY <1>1, <2>3, <3>1
    <3> QED BY <1>1, <1>4, <3>1, <3>2
  <2> QED BY <2>1, <2>2, <2>3 DEF Config!Returns
<1>5. CASE Config!FailWrite(w)
  <2>1. failed' # {}
    BY <1>5 DEF Config!FailWrite
  <2>2. todo' = Tail(todo) \/ todo' = <<>>
    BY <1>5 DEF Config!FailWrite
  <2>3. \A n \in DOMAIN todo' : todo'[n].item \in items => todo'[n].value = values[todo'[n].item]
    <3>1. DOMAIN <<>> = {}
      OBVIOUS
    <3>2. CASE todo' = <<>>
      BY <3>1, <3>2
    <3>3. CASE todo' = Tail(todo)
      BY <1>3, <3>3
    <3> QED BY <2>2, <3>2, <3>3
  <2>4. failed' = {} => \A i \in items : conf'[i] = values[i] \/ \E n \in DOMAIN todo' : todo'[n].item = i
    BY <2>1
  <2> HIDE DEF w
  <2> QED BY <2>3, <2>4 DEF Config!Returns
<1> QED BY <1>4, <1>5 DEF Config!Put

LEMMA ConfigInit == Config!Init => Config!ConfigInv
<1> SUFFICES ASSUME Config!Init PROVE Config!ConfigInv
  OBVIOUS
<1>1. /\ conf \in {Config!Default, Config!Drifted} /\ flash = Config!Default
      /\ call = Config!Idle /\ todo = <<>> /\ snap = <<>> /\ told = <<"none", "ok">>
  BY DEF Config!Init
<1>2. /\ call.kind = "idle" /\ call.step = "none"
      /\ call = [kind |-> call.kind, step |-> call.step, want |-> call.want]
  BY <1>1 DEF Config!Idle
<1>3. Config!ValuesAreOffered
  <2>1. DOMAIN Config!Drifted = Config!Items
    BY DEF Config!Drifted
  <2>2. \A s \in Config!SlotSet : s \in Config!Items
    BY ConfigItems
  <2>3. \A s \in Config!SlotSet : Config!Drifted[s] = Bases[1]
    BY <2>2 DEF Config!Drifted
  <2>4. Config!Answerable(Config!Drifted)
    BY <2>3, SlotOffered DEF Config!Answerable
  <2> QED BY <1>1, <2>1, <2>4, Defaults DEF Config!ValuesAreOffered
<1>4. Config!CallsAreTold
  <2>1. todo \in Seq({todo[n] : n \in DOMAIN todo})
    BY <1>1
  <2> QED BY <1>1, <1>2, <2>1 DEF Config!CallsAreTold
<1>5. Config!RestoredOrTold
  BY <1>1 DEF Config!Restores, Config!RestoredOrTold
<1>6. Config!SpeedReturns /\ Config!StateReturns /\ Config!IsolationReturns /\ Config!BaselineReturns
  BY <1>2 DEF Config!Restores, Config!SpeedReturns, Config!StateReturns, Config!IsolationReturns, Config!BaselineReturns
<1> QED BY <1>3, <1>4, <1>5, <1>6 DEF Config!ConfigInv

(* While a call is at work, it is told of as busy: nothing is claimed.      *)
LEMMA BusyClaimsNothing ==
    ASSUME NEW k, told' = <<k, "busy">> PROVE Config!RestoredOrTold'
<1>1. told'[2] = "busy" /\ \A a : told' # <<a, "ok">>
  OBVIOUS
<1> QED BY <1>1 DEF Config!RestoredOrTold

LEMMA PutKeeps == ASSUME Config!ConfigInv, Config!Put PROVE Config!ConfigInv'
<1> DEFINE w == Head(todo)
<1>0. Config!ValuesAreOffered /\ Config!CallsAreTold
  BY DEF Config!ConfigInv
<1>1. /\ todo # <<>> /\ flash' = flash /\ call' = call /\ saved' = saved /\ snap' = snap
      /\ told' = told
  BY DEF Config!Put
<1>2. /\ \/ conf' = Config!Applied(w) /\ todo' = Tail(todo) /\ failed' = failed
         \/ /\ conf' \in {conf, Config!Applied(w)} /\ failed' # {}
            /\ todo' = IF w.keep THEN Tail(todo) ELSE <<>>
  BY DEF Config!Put, Config!FailWrite
<1>3. /\ w = todo[1] /\ 1 \in DOMAIN todo
      /\ Tail(todo) \in Seq({Tail(todo)[n] : n \in DOMAIN Tail(todo)})
      /\ \A n \in DOMAIN Tail(todo) : n + 1 \in DOMAIN todo /\ Tail(todo)[n] = todo[n + 1]
  BY <1>0, <1>1, RestOfWrites DEF Config!CallsAreTold
<1>4. /\ DOMAIN conf' = DOMAIN conf /\ \A i \in Config!Items : i # w.item => conf'[i] = conf[i]
      /\ \A s \in Config!SlotSet : conf'[s] = conf[s] \/ conf'[s] \in Offered \cup {"Unmapped"}
  <2>1. \/ conf' = conf
        \/ /\ conf' = [conf EXCEPT ![w.item] = w.value]
           /\ w.item \in Config!SlotSet => w.value \in Offered \cup {"Unmapped"}
    BY <1>2 DEF Config!Applied
  <2>2. DOMAIN conf = Config!Items /\ \A s \in Config!SlotSet : s \in Config!Items
    BY <1>0, ConfigItems DEF Config!ValuesAreOffered
  <2> HIDE DEF w
  <2> QED BY <2>1, <2>2
<1>5. Config!ValuesAreOffered'
  BY <1>0, <1>1, <1>4 DEF Config!ValuesAreOffered, Config!Answerable
<1>6. call.kind # "idle" /\ told = <<call.kind, "busy">>
  BY <1>0, <1>1 DEF Config!CallsAreTold
<1>7. Config!CallsAreTold'
  <2>1. <<>> \in Seq({<<>>[n] : n \in DOMAIN <<>>})
    OBVIOUS
  <2>2. todo' = Tail(todo) \/ todo' = <<>>
    BY <1>2
  <2>3. todo' \in Seq({todo'[n] : n \in DOMAIN todo'})
    <3>1. CASE todo' = Tail(todo)
      BY <1>3, <3>1
    <3>2. CASE todo' = <<>>
      BY <2>1, <3>2
    <3> QED BY <2>2, <3>1, <3>2
  <2> QED BY <1>0, <1>1, <1>6, <2>3 DEF Config!CallsAreTold
<1>8. Config!RestoredOrTold'
  <2>1. told' = <<call.kind, "busy">>
    BY <1>1, <1>6
  <2> QED BY <2>1, BusyClaimsNothing
<1>9. Config!SpeedReturns'
  <2> SUFFICES ASSUME call.kind = "speed"
               PROVE  Config!Returns(conf', todo', failed', {"turbo"}, Config!Default)
    BY <1>1 DEF Config!SpeedReturns
  <2>1. Config!Returns(conf, todo, failed, {"turbo"}, Config!Default)
    BY DEF Config!ConfigInv, Config!SpeedReturns
  <2>2. {"turbo"} \subseteq Config!Items
    BY ConfigItems
  <2>3. \A s \in {"turbo"} \cap Config!SlotSet : Config!Default[s] \in Offered \cup {"Unmapped"}
    BY ConfigItems
  <2> QED BY <1>0, <2>1, <2>2, <2>3, PutReturns
<1>10. Config!StateReturns'
  <2> DEFINE R == Config!Restorable(call.kind)
  <2> SUFFICES ASSUME call.kind \in Config!Restores
               PROVE  snap # <<>> /\ Config!Returns(conf', todo', failed', R, snap)
    BY <1>1 DEF Config!StateReturns
  <2>1. snap # <<>> /\ Config!Returns(conf, todo, failed, R, snap)
    BY DEF Config!ConfigInv, Config!StateReturns
  <2>2. R \subseteq Config!Items
    BY DEF Config!Restorable
  <2> HIDE DEF R
  <2>3. \A s \in R \cap Config!SlotSet : snap[s] \in Offered \cup {"Unmapped"}
    BY <1>0, <2>1 DEF Config!ValuesAreOffered, Config!Answerable
  <2> QED BY <1>0, <2>1, <2>2, <2>3, PutReturns
<1>11. Config!IsolationReturns'
  <2> SUFFICES ASSUME call.kind = "isolated"
               PROVE  Config!IsolationReturns'
    BY <1>1 DEF Config!IsolationReturns
  <2>1. Config!IsolationReturns /\ DOMAIN saved = Config!SidItems /\ Config!Answerable(saved)
        /\ ~Config!Conflict(call.want)
    BY DEF Config!ConfigInv, Config!IsolationReturns
  <2>2. "mirror" \in Config!Items /\ "mirror" \notin Config!SlotSet
    BY ConfigItems
  <2>3. CASE call.step = "mirror" /\ todo = <<Config!Write("mirror", "Disabled")>>
    <3>1. w = Config!Write("mirror", "Disabled") /\ Tail(todo) = <<>>
      BY <2>3
    <3>2. w.item = "mirror" /\ w.value = "Disabled" /\ ~w.keep
      BY <3>1 DEF Config!Write
    <3>3. todo' = <<>>
      BY <1>2, <3>1
    <3>4. failed' = {} => conf'["mirror"] = "Disabled"
      <4>1. Config!Applied(w) = [conf EXCEPT !["mirror"] = "Disabled"]
        BY <2>2, <3>2 DEF Config!Applied
      <4>2. Config!Applied(w)["mirror"] = "Disabled"
        BY <1>0, <2>2, <4>1 DEF Config!ValuesAreOffered
      <4>3. failed' = {} => conf' = Config!Applied(w)
        BY <1>2
      <4> HIDE DEF w
      <4> QED BY <4>2, <4>3
    <3> QED BY <1>1, <2>1, <2>3, <3>3, <3>4 DEF Config!IsolationReturns, Config!Answerable, Config!Conflict
  <2>4. CASE /\ call.step = "map" /\ conf["mirror"] = "Disabled"
             /\ \A n \in DOMAIN todo : todo[n].item \in Config!SlotSet
    <3>1. w.item \in Config!SlotSet
      BY <1>3, <2>4
    <3>2. conf'["mirror"] = "Disabled"
      <4>1. w.item # "mirror"
        BY <2>2, <3>1
      <4> QED BY <1>4, <2>2, <2>4, <4>1
    <3>3. \A n \in DOMAIN todo' : todo'[n].item \in Config!SlotSet
      <4>1. \A n \in DOMAIN Tail(todo) : Tail(todo)[n].item \in Config!SlotSet
        BY <1>3, <2>4
      <4>2. DOMAIN <<>> = {}
        OBVIOUS
      <4>3. todo' = Tail(todo) \/ todo' = <<>>
        BY <1>2
      <4> QED BY <4>1, <4>2, <4>3
    <3> QED BY <1>1, <2>1, <2>4, <3>2, <3>3 DEF Config!IsolationReturns, Config!Answerable, Config!Conflict
  <2>5. CASE /\ call.step \in {"restore", "restore_raising"}
             /\ Config!Returns(conf, todo, failed, Config!SidItems, saved)
    <3>1. \A s \in Config!SidItems \cap Config!SlotSet : saved[s] \in Offered \cup {"Unmapped"}
      BY <2>1 DEF Config!Answerable
    <3>2. Config!SidItems \subseteq Config!Items
      BY ConfigItems
    <3>3. Config!Returns(conf', todo', failed', Config!SidItems, saved)
      BY <1>0, <2>5, <3>1, <3>2, PutReturns
    <3> QED BY <1>1, <2>1, <2>5, <3>3 DEF Config!IsolationReturns, Config!Answerable, Config!Conflict
  <2> QED BY <1>1, <2>1, <2>3, <2>4, <2>5 DEF Config!IsolationReturns
<1>12. Config!BaselineReturns'
  <2>1. call.kind # "baseline"
    BY <1>1 DEF Config!ConfigInv, Config!BaselineReturns
  <2> QED BY <1>1, <2>1 DEF Config!BaselineReturns
<1> QED BY <1>5, <1>7, <1>8, <1>9, <1>10, <1>11, <1>12 DEF Config!ConfigInv

(* The writes of a map are to slots.                                        *)
LEMMA MapWritesAre ==
    ASSUME NEW part, DOMAIN part \subseteq Config!SlotSet, NEW r \in Config!MapWrites(part)
    PROVE  /\ r \in Seq({r[n] : n \in DOMAIN r})
           /\ \A n \in DOMAIN r : r[n].item \in Config!SlotSet
<1> DEFINE S == DOMAIN part
<1>1. PICK p \in Config!InOrder(S) : r = [i \in DOMAIN p |-> Config!Write(p[i], part[p[i]])]
  BY DEF Config!MapWrites
<1>2. PICK N \in Nat : p \in [1 .. N -> S]
  <2>1. PICK n \in 0 .. Len(Slots) : p \in [1 .. n -> S]
    BY DEF Config!InOrder
  <2>2. Len(Slots) \in Nat
    BY ConfigItems
  <2> QED BY <2>1, <2>2
<1> HIDE DEF S
<1>3. DOMAIN r = 1 .. N /\ r = [i \in 1 .. N |-> r[i]]
  BY <1>1, <1>2
<1>4. \A n \in DOMAIN r : r[n].item = p[n] /\ p[n] \in S
  BY <1>1, <1>2, <1>3 DEF Config!Write
<1> QED BY <1>2, <1>3, <1>4, SeriesOf DEF S

(* What a call begins with.                                                 *)
LEMMA CallBegins ==
    ASSUME Config!ConfigInv, NEW k, NEW s, NEW want0, NEW q, Config!Begin(k, s, want0, q),
           UNCHANGED <<conf, flash, snap>>, q \in Seq({q[n] : n \in DOMAIN q}), k # "idle",
           k = "isolated" <=> s \in {"mirror", "map", "body", "restore", "restore_raising"},
           k = "baseline" <=> s \in {"reset", "verify"}
    PROVE  /\ Config!ValuesAreOffered' /\ Config!CallsAreTold' /\ Config!RestoredOrTold'
           /\ call'.kind = k /\ call'.step = s /\ call'.want = want0 /\ todo' = q /\ failed' = {}
           /\ conf' = conf /\ snap' = snap
<1>1. /\ call' = [kind |-> k, step |-> s, want |-> want0] /\ todo' = q /\ failed' = {}
      /\ told' = <<k, "busy">>
  BY DEF Config!Begin
<1>2. /\ call'.kind = k /\ call'.step = s /\ call'.want = want0
      /\ call' = [kind |-> call'.kind, step |-> call'.step, want |-> call'.want]
  BY <1>1
<1>3. Config!ValuesAreOffered'
  BY DEF Config!ConfigInv, Config!ValuesAreOffered, Config!Answerable
<1>4. Config!CallsAreTold'
  BY <1>1, <1>2 DEF Config!CallsAreTold
<1>5. Config!RestoredOrTold'
  BY <1>1, BusyClaimsNothing
<1> QED BY <1>1, <1>2, <1>3, <1>4, <1>5

(* A setting is made: nothing is to be put back.                            *)
LEMMA SetBegins ==
    ASSUME Config!ConfigInv, NEW want0, NEW q, Config!Begin("set", "writes", want0, q),
           UNCHANGED <<conf, flash, snap>>, q \in Seq({q[n] : n \in DOMAIN q})
    PROVE  Config!ConfigInv'
<1>1. /\ Config!ValuesAreOffered' /\ Config!CallsAreTold' /\ Config!RestoredOrTold'
      /\ call'.kind = "set"
  BY CallBegins
<1>2. /\ Config!SpeedReturns' /\ Config!StateReturns' /\ Config!IsolationReturns'
      /\ Config!BaselineReturns'
  BY <1>1 DEF Config!Restores, Config!SpeedReturns, Config!StateReturns, Config!IsolationReturns,
              Config!BaselineReturns
<1> QED BY <1>1, <1>2 DEF Config!ConfigInv

LEMMA OneWrite == ASSUME NEW a PROVE <<a>> \in Seq({<<a>>[n] : n \in DOMAIN <<a>>})
<1>1. DOMAIN <<a>> = 1 .. 1 /\ <<a>> = [i \in 1 .. 1 |-> <<a>>[i]]
  OBVIOUS
<1> QED BY <1>1, SeriesOf

LEMMA TwoWrites == ASSUME NEW a, NEW b PROVE <<a, b>> \in Seq({<<a, b>>[n] : n \in DOMAIN <<a, b>>})
<1>1. DOMAIN <<a, b>> = 1 .. 2 /\ <<a, b>> = [i \in 1 .. 2 |-> <<a, b>>[i]]
  OBVIOUS
<1> QED BY <1>1, SeriesOf

LEMMA SetsKeep ==
    ASSUME Config!ConfigInv,
           Config!SetTurbo \/ Config!SetReu \/ Config!SetBadline \/ Config!EnableFtp \/ Config!SetSidMap
    PROVE  Config!ConfigInv'
<1>1. CASE Config!SetTurbo
  <2>1. PICK s : /\ Config!Begin("set", "writes", s,
                      IF s = "off" THEN <<Config!Write("turbo", "Off")>>
                      ELSE <<Config!Write("speed", s), Config!Write("turbo", "Manual")>>)
                 /\ UNCHANGED <<conf, flash, snap>>
    BY <1>1 DEF Config!SetTurbo
  <2>2. CASE s = "off"
    BY <2>1, <2>2, OneWrite, SetBegins
  <2>3. CASE s # "off"
    <3> DEFINE q == <<Config!Write("speed", s), Config!Write("turbo", "Manual")>>
    <3>1. Config!Begin("set", "writes", s, q)
      BY <2>1, <2>3
    <3>2. q \in Seq({q[n] : n \in DOMAIN q})
      BY TwoWrites
    <3> HIDE DEF q
    <3> QED BY <2>1, <3>1, <3>2, SetBegins
  <2> QED BY <2>2, <2>3
<1>2. CASE Config!SetReu
  <2>1. PICK on \in BOOLEAN, listed \in BOOLEAN :
          /\ Config!Begin("set", "writes", on,
               IF ~on THEN <<Config!Write("reu", "Disabled")>>
               ELSE IF listed THEN <<Config!Write("cart", "REU"), Config!Write("reu", "Enabled")>>
               ELSE <<Config!Write("reu", "Enabled")>>)
          /\ UNCHANGED <<conf, flash, snap>>
    BY <1>2 DEF Config!SetReu
  <2>2. CASE on /\ listed
    <3> DEFINE q == <<Config!Write("cart", "REU"), Config!Write("reu", "Enabled")>>
    <3>1. Config!Begin("set", "writes", on, q)
      BY <2>1, <2>2
    <3>2. q \in Seq({q[n] : n \in DOMAIN q})
      BY TwoWrites
    <3> HIDE DEF q
    <3> QED BY <2>1, <3>1, <3>2, SetBegins
  <2>3. CASE ~on
    BY <2>1, <2>3, OneWrite, SetBegins
  <2>4. CASE on /\ ~listed
    BY <2>1, <2>4, OneWrite, SetBegins
  <2> QED BY <2>2, <2>3, <2>4
<1>3. CASE Config!SetBadline
  BY <1>3, OneWrite, SetBegins DEF Config!SetBadline
<1>4. CASE Config!EnableFtp
  BY <1>4, OneWrite, SetBegins DEF Config!EnableFtp
<1>5. CASE Config!SetSidMap
  <2>1. PICK part \in Config!Requests : \E q \in Config!MapWrites(part) :
          Config!Begin("set", "writes", <<>>, q) /\ UNCHANGED <<conf, flash, snap>>
    BY <1>5 DEF Config!SetSidMap
  <2>2. PICK q \in Config!MapWrites(part) :
          Config!Begin("set", "writes", <<>>, q) /\ UNCHANGED <<conf, flash, snap>>
    BY <2>1
  <2>3. DOMAIN part \subseteq Config!SlotSet
    BY DEF Config!Requests
  <2>4. q \in Seq({q[n] : n \in DOMAIN q})
    BY <2>3, MapWritesAre
  <2> QED BY <2>2, <2>4, SetBegins
<1> QED BY <1>1, <1>2, <1>3, <1>4, <1>5

LEMMA SpeedKeeps == ASSUME Config!ConfigInv, Config!RestoreSpeed PROVE Config!ConfigInv'
<1> DEFINE a == Config!Write("speed", Config!Default["speed"])
           b == Config!Write("turbo", Config!Default["turbo"])
           q == Config!Restoring(<<a, b>>)
<1>1. Config!Begin("speed", "writes", <<>>, q) /\ UNCHANGED <<conf, flash, snap>>
  BY DEF Config!RestoreSpeed
<1>2. /\ DOMAIN q = 1 .. 2 /\ q[1].item = "speed" /\ q[2].item = "turbo"
      /\ q[2].value = Config!Default["turbo"]
      /\ q = [i \in 1 .. 2 |-> q[i]]
  BY DEF Config!Restoring, Config!Write
<1> HIDE DEF q
<1>3. q \in Seq({q[n] : n \in DOMAIN q})
  BY <1>2, SeriesOf
<1>4. /\ Config!ValuesAreOffered' /\ Config!CallsAreTold' /\ Config!RestoredOrTold'
      /\ call'.kind = "speed" /\ todo' = q
  BY <1>1, <1>3, CallBegins
<1>5. Config!Returns(conf', q, failed', {"turbo"}, Config!Default)
  <2>1. 2 \in DOMAIN q /\ \A n \in DOMAIN q : n = 1 \/ n = 2
    BY <1>2
  <2> QED BY <1>2, <2>1 DEF Config!Returns
<1>6. Config!SpeedReturns'
  BY <1>4, <1>5 DEF Config!SpeedReturns
<1>7. Config!StateReturns' /\ Config!IsolationReturns' /\ Config!BaselineReturns'
  BY <1>4 DEF Config!Restores, Config!StateReturns, Config!IsolationReturns, Config!BaselineReturns
<1> QED BY <1>4, <1>6, <1>7 DEF Config!ConfigInv

Series(q) == q \in Seq({q[n] : n \in DOMAIN q})

(* The writes give every one of `items` its value, and no other item one.   *)
PutsBack(q, items, values) ==
  /\ \A n \in DOMAIN q : q[n].item \in items /\ q[n].value = values[q[n].item]
  /\ \A i \in items : \E n \in DOMAIN q : q[n].item = i

(* What is in `c` is what is in `a` and in `b`.                             *)
Joins(c, a, b) ==
  /\ \A n \in DOMAIN c : (\E m \in DOMAIN a : c[n] = a[m]) \/ \E m \in DOMAIN b : c[n] = b[m]
  /\ \A m \in DOMAIN a : \E n \in DOMAIN c : c[n] = a[m]
  /\ \A m \in DOMAIN b : \E n \in DOMAIN c : c[n] = b[m]

(* Two series, one after the other.                                         *)
LEMMA Joined ==
    ASSUME NEW a, NEW b, Series(a), Series(b)
    PROVE  Series(a \o b) /\ Joins(a \o b, a, b)
<1> DEFINE A == {a[n] : n \in DOMAIN a}
           B == {b[n] : n \in DOMAIN b}
           T == A \cup B
           c == a \o b
<1>1. a \in Seq(A) /\ b \in Seq(B)
  BY DEF Series
<1>2. A \subseteq T /\ B \subseteq T
  OBVIOUS
<1> HIDE DEF A, B, T
<1>3. a \in Seq(T) /\ b \in Seq(T)
  BY <1>1, <1>2
<1>4. /\ DOMAIN a = 1 .. Len(a) /\ Len(a) \in Nat
      /\ DOMAIN b = 1 .. Len(b) /\ Len(b) \in Nat
  BY <1>3
<1>5. /\ c \in Seq(T) /\ Len(c) = Len(a) + Len(b)
      /\ \A i \in 1 .. Len(a) + Len(b) : c[i] = IF i <= Len(a) THEN a[i] ELSE b[i - Len(a)]
  BY <1>3, ConcatProperties
<1> HIDE DEF c
<1>6. DOMAIN c = 1 .. Len(a) + Len(b) /\ c = [i \in 1 .. Len(a) + Len(b) |-> c[i]]
  BY <1>5
<1>7. c \in Seq({c[n] : n \in DOMAIN c})
  BY <1>4, <1>6, SeriesOf
<1>8. ASSUME NEW n \in DOMAIN c
      PROVE  (\E m \in DOMAIN a : c[n] = a[m]) \/ \E m \in DOMAIN b : c[n] = b[m]
  <2>1. CASE n <= Len(a)
    BY <1>4, <1>5, <1>6, <1>8, <2>1
  <2>2. CASE ~(n <= Len(a))
    <3>1. n - Len(a) \in DOMAIN b
      BY <1>4, <1>6, <1>8, <2>2
    <3> QED BY <1>5, <1>6, <1>8, <2>2, <3>1
  <2> QED BY <2>1, <2>2
<1>9. ASSUME NEW m \in DOMAIN a PROVE \E n \in DOMAIN c : c[n] = a[m]
  <2>1. m \in 1 .. Len(a) + Len(b) /\ m <= Len(a)
    BY <1>4, <1>9
  <2> QED BY <1>5, <1>6, <2>1
<1>10. ASSUME NEW m \in DOMAIN b PROVE \E n \in DOMAIN c : c[n] = b[m]
  <2>1. m + Len(a) \in 1 .. Len(a) + Len(b) /\ ~(m + Len(a) <= Len(a)) /\ (m + Len(a)) - Len(a) = m
    BY <1>4, <1>10
  <2>2. c[m + Len(a)] = b[m]
    BY <1>5, <2>1
  <2> QED BY <1>6, <2>1, <2>2
<1>11. Series(c)
  BY <1>7 DEF Series
<1>12. Joins(c, a, b)
  BY <1>8, <1>9, <1>10 DEF Joins
<1> QED BY <1>11, <1>12 DEF c

(* The writes that put the SID addressing back: every slot, then mirroring. *)
LEMMA SidRestoreIs ==
    ASSUME NEW values
    PROVE  /\ Series(Config!SidRestore(values))
           /\ PutsBack(Config!SidRestore(values), Config!SidItems, values)
<1> DEFINE f == [i \in DOMAIN Slots |-> Config!Write(Slots[i], values[Slots[i]])]
           m == Config!Write("mirror", values["mirror"])
           T == {f[n] : n \in DOMAIN f} \cup {m}
           a == Append(f, m)
           L == Len(Slots)
           q == Config!SidRestore(values)
<1>1. DOMAIN Slots = 1 .. L /\ L \in Nat
  BY ConfigItems
<1>2. f \in [1 .. L -> T]
  BY <1>1
<1>3. f \in Seq(T) /\ Len(f) = L /\ m \in T
  BY <1>1, <1>2
<1>4. /\ a \in Seq(T) /\ Len(a) = L + 1 /\ a[L + 1] = m
      /\ \A i \in 1 .. L : a[i] = f[i]
  BY <1>3, AppendProperties
<1>5. DOMAIN a = 1 .. L + 1
  BY <1>4
<1>6. q = [i \in 1 .. L + 1 |-> [a[i] EXCEPT !.keep = TRUE]]
  BY <1>5 DEF Config!SidRestore, Config!Restoring
<1> HIDE DEF a
<1>7. \A i \in 1 .. L : q[i].item = Slots[i] /\ q[i].value = values[Slots[i]]
  <2> SUFFICES ASSUME NEW i \in 1 .. L PROVE q[i].item = Slots[i] /\ q[i].value = values[Slots[i]]
    OBVIOUS
  <2>1. a[i] = Config!Write(Slots[i], values[Slots[i]])
    BY <1>1, <1>4
  <2>2. i \in 1 .. L + 1
    BY <1>1
  <2>3. q[i] = [a[i] EXCEPT !.keep = TRUE]
    BY <1>6, <2>2
  <2> HIDE DEF L
  <2> QED BY <2>1, <2>3 DEF Config!Write
<1>8. q[L + 1].item = "mirror" /\ q[L + 1].value = values["mirror"]
  <2>1. L + 1 \in 1 .. L + 1
    BY <1>1
  <2>2. q[L + 1] = [m EXCEPT !.keep = TRUE]
    BY <1>4, <1>6, <2>1, ZenonT(30)
  <2> QED BY <2>2 DEF Config!Write
<1> HIDE DEF f, m, T, L, q
<1>9. DOMAIN q = 1 .. L + 1 /\ L + 1 \in Nat /\ q = [i \in 1 .. L + 1 |-> q[i]]
  BY <1>1, <1>6
<1>10. q \in Seq({q[n] : n \in DOMAIN q})
  BY <1>9, SeriesOf
<1>11. \A n \in DOMAIN q : n \in 1 .. L \/ n = L + 1
  BY <1>1, <1>9
<1>12. \A n \in DOMAIN q : q[n].item \in Config!SidItems /\ q[n].value = values[q[n].item]
  <2>1. \A n \in 1 .. L : Slots[n] \in Config!SidItems
    BY <1>1, ConfigItems
  <2>2. "mirror" \in Config!SidItems
    BY ConfigItems
  <2> QED BY <1>7, <1>8, <1>11, <2>1, <2>2
<1>13. ASSUME NEW i \in Config!SidItems PROVE \E n \in DOMAIN q : q[n].item = i
  <2>1. CASE i = "mirror"
    <3>1. L + 1 \in DOMAIN q
      BY <1>1, <1>9
    <3> QED BY <1>8, <2>1, <3>1
  <2>2. CASE i \in Config!SlotSet
    <3>1. PICK n \in DOMAIN Slots : Slots[n] = i
      BY <2>2, ConfigItems
    <3>2. n \in 1 .. L /\ n \in DOMAIN q
      BY <1>1, <1>9, <3>1
    <3> QED BY <1>7, <3>1, <3>2
  <2> QED BY <2>1, <2>2, ConfigItems
<1>14. Series(q)
  BY <1>10 DEF Series
<1>15. PutsBack(q, Config!SidItems, values)
  BY <1>12, <1>13 DEF PutsBack
<1> QED BY <1>14, <1>15 DEF q

(* What each of two series puts back, both do.                              *)
LEMMA BothPutBack ==
    ASSUME NEW a, NEW b, Series(a), Series(b), NEW S, NEW T, NEW values,
           PutsBack(a, S, values), PutsBack(b, T, values)
    PROVE  Series(a \o b) /\ PutsBack(a \o b, S \cup T, values)
<1> DEFINE c == a \o b
<1>1. Series(c) /\ Joins(c, a, b)
  BY Joined
<1> HIDE DEF c
<1>2. \A n \in DOMAIN c : c[n].item \in S \cup T /\ c[n].value = values[c[n].item]
  <2> SUFFICES ASSUME NEW n \in DOMAIN c
               PROVE  c[n].item \in S \cup T /\ c[n].value = values[c[n].item]
    OBVIOUS
  <2>1. CASE \E m \in DOMAIN a : c[n] = a[m]
    BY <2>1 DEF PutsBack
  <2>2. CASE \E m \in DOMAIN b : c[n] = b[m]
    BY <2>2 DEF PutsBack
  <2> QED BY <1>1, <2>1, <2>2 DEF Joins
<1>3. \A i \in S \cup T : \E n \in DOMAIN c : c[n].item = i
  <2> SUFFICES ASSUME NEW i \in S \cup T PROVE \E n \in DOMAIN c : c[n].item = i
    OBVIOUS
  <2>1. CASE i \in S
    <3>1. PICK m \in DOMAIN a : a[m].item = i
      BY <2>1 DEF PutsBack
    <3>2. PICK n \in DOMAIN c : c[n] = a[m]
      BY <1>1 DEF Joins
    <3> QED BY <3>1, <3>2
  <2>2. CASE i \in T
    <3>1. PICK m \in DOMAIN b : b[m].item = i
      BY <2>2 DEF PutsBack
    <3>2. PICK n \in DOMAIN c : c[n] = b[m]
      BY <1>1 DEF Joins
    <3> QED BY <3>1, <3>2
  <2> QED BY <2>1, <2>2
<1>4. PutsBack(c, S \cup T, values)
  BY <1>2, <1>3 DEF PutsBack
<1> QED BY <1>1, <1>4 DEF c

(* A call that has its writes to send, and none sent, puts back its items.  *)
LEMMA ReturnsAtFirst ==
    ASSUME NEW c, NEW q, NEW raised, NEW items, NEW values, PutsBack(q, items, values)
    PROVE  Config!Returns(c, q, raised, items, values)
BY DEF Config!Returns, PutsBack

(* A restore of some of the snapshot's items, in a series of their own, and  *)
(* of the SID addressing behind it.                                         *)
LEMMA RestoreBegun ==
    ASSUME Config!ConfigInv, NEW which \in Config!Restores, NEW a, NEW some,
           Config!Begin(which, "writes", <<>>, a \o Config!SidRestore(snap)),
           UNCHANGED <<conf, flash, snap>>, snap # <<>>,
           a \in Seq({a[n] : n \in DOMAIN a}), PutsBack(a, some, snap),
           some \cup Config!SidItems = Config!Restorable(which)
    PROVE  Config!ConfigInv'
<1> DEFINE b == Config!SidRestore(snap)
           q == a \o b
<1>1. Series(b) /\ PutsBack(b, Config!SidItems, snap)
  BY SidRestoreIs
<1>2. Series(a)
  BY DEF Series
<1> HIDE DEF b
<1>3. Series(q) /\ PutsBack(q, some \cup Config!SidItems, snap)
  BY <1>1, <1>2, BothPutBack
<1>4. Config!Begin(which, "writes", <<>>, q)
  BY DEF b
<1> HIDE DEF q
<1>5. q \in Seq({q[n] : n \in DOMAIN q})
  BY <1>3 DEF Series
<1>6. which # "idle" /\ which # "isolated" /\ which # "baseline" /\ which # "speed"
  BY DEF Config!Restores
<1>7. /\ Config!ValuesAreOffered' /\ Config!CallsAreTold' /\ Config!RestoredOrTold'
      /\ call'.kind = which /\ todo' = q /\ conf' = conf /\ snap' = snap
  BY <1>4, <1>5, <1>6, CallBegins
<1>8. Config!Returns(conf', q, failed', Config!Restorable(which), snap)
  BY <1>3, ReturnsAtFirst
<1>9. Config!StateReturns'
  BY <1>7, <1>8 DEF Config!StateReturns, Config!Restorable
<1>10. Config!SpeedReturns' /\ Config!IsolationReturns' /\ Config!BaselineReturns'
  BY <1>6, <1>7 DEF Config!SpeedReturns, Config!IsolationReturns, Config!BaselineReturns
<1> QED BY <1>7, <1>9, <1>10 DEF Config!ConfigInv

LEMMA StateKeeps == ASSUME Config!ConfigInv, Config!RestoreState PROVE Config!ConfigInv'
<1> DEFINE back(i) == Config!Write(i, snap[i])
           five == <<back("turbo"), back("speed"), back("badline"), back("cart"), back("reu")>>
           four == <<back("turbo"), back("speed"), back("badline"), back("reu")>>
<1>1. /\ UNCHANGED <<conf, flash, snap>> /\ snap # <<>>
      /\ \/ Config!Begin("restore", "writes", <<>>, five \o Config!SidRestore(snap))
         \/ Config!Begin("restore but cart", "writes", <<>>, four \o Config!SidRestore(snap))
  BY DEF Config!RestoreState
<1>2. "restore" \in Config!Restores /\ "restore but cart" \in Config!Restores
  BY DEF Config!Restores
<1>3. CASE Config!Begin("restore", "writes", <<>>, five \o Config!SidRestore(snap))
  <2> DEFINE a == five
             items == {"turbo", "speed", "badline", "cart", "reu"}
  <2>1. DOMAIN a = 1 .. 5 /\ a = [i \in 1 .. 5 |-> a[i]]
    OBVIOUS
  <2>2. /\ a[1].item = "turbo" /\ a[1].value = snap["turbo"]
        /\ a[2].item = "speed" /\ a[2].value = snap["speed"]
        /\ a[3].item = "badline" /\ a[3].value = snap["badline"]
        /\ a[4].item = "cart" /\ a[4].value = snap["cart"]
        /\ a[5].item = "reu" /\ a[5].value = snap["reu"]
    BY DEF Config!Write
  <2>3. /\ \A n \in 1 .. 5 : n = 1 \/ n = 2 \/ n = 3 \/ n = 4 \/ n = 5
        /\ 1 \in 1 .. 5 /\ 2 \in 1 .. 5 /\ 3 \in 1 .. 5 /\ 4 \in 1 .. 5 /\ 5 \in 1 .. 5
        /\ 5 \in Nat
    OBVIOUS
  <2>4. Config!Begin("restore", "writes", <<>>, a \o Config!SidRestore(snap))
    BY <1>3
  <2> HIDE DEF a
  <2>5. a \in Seq({a[n] : n \in DOMAIN a})
    BY <2>1, <2>3, SeriesOf
  <2>6. PutsBack(a, items, snap)
    BY <2>1, <2>2, <2>3 DEF PutsBack
  <2>7. items \cup Config!SidItems = Config!Restorable("restore")
    BY ConfigItems DEF Config!Restorable
  <2> QED BY <1>1, <1>2, <2>4, <2>5, <2>6, <2>7, RestoreBegun
<1>4. CASE Config!Begin("restore but cart", "writes", <<>>, four \o Config!SidRestore(snap))
  <2> DEFINE a == four
             items == {"turbo", "speed", "badline", "reu"}
  <2>1. DOMAIN a = 1 .. 4 /\ a = [i \in 1 .. 4 |-> a[i]]
    OBVIOUS
  <2>2. /\ a[1].item = "turbo" /\ a[1].value = snap["turbo"]
        /\ a[2].item = "speed" /\ a[2].value = snap["speed"]
        /\ a[3].item = "badline" /\ a[3].value = snap["badline"]
        /\ a[4].item = "reu" /\ a[4].value = snap["reu"]
    BY DEF Config!Write
  <2>3. /\ \A n \in 1 .. 4 : n = 1 \/ n = 2 \/ n = 3 \/ n = 4
        /\ 1 \in 1 .. 4 /\ 2 \in 1 .. 4 /\ 3 \in 1 .. 4 /\ 4 \in 1 .. 4 /\ 4 \in Nat
    OBVIOUS
  <2>4. Config!Begin("restore but cart", "writes", <<>>, a \o Config!SidRestore(snap))
    BY <1>4
  <2> HIDE DEF a
  <2>5. a \in Seq({a[n] : n \in DOMAIN a})
    BY <2>1, <2>3, SeriesOf
  <2>6. PutsBack(a, items, snap)
    BY <2>1, <2>2, <2>3 DEF PutsBack
  <2>7. items \cup Config!SidItems = Config!Restorable("restore but cart")
    BY ConfigItems DEF Config!Restorable
  <2> QED BY <1>1, <1>2, <2>4, <2>5, <2>6, <2>7, RestoreBegun
<1> QED BY <1>1, <1>3, <1>4

LEMMA IsolateKeeps == ASSUME Config!ConfigInv, Config!Isolate PROVE Config!ConfigInv'
<1>1. PICK final :
        /\ ~Config!Conflict(final)
        /\ Config!Begin("isolated", "mirror", final, <<Config!Write("mirror", "Disabled")>>)
        /\ saved' = [i \in Config!SidItems |-> conf[i]]
        /\ UNCHANGED <<conf, flash, snap>>
  BY Zenon DEF Config!Isolate
<1> DEFINE q == <<Config!Write("mirror", "Disabled")>>
<1>2. q \in Seq({q[n] : n \in DOMAIN q})
  BY OneWrite
<1> HIDE DEF q
<1>3. /\ Config!ValuesAreOffered' /\ Config!CallsAreTold' /\ Config!RestoredOrTold'
      /\ call'.kind = "isolated" /\ call'.step = "mirror" /\ call'.want = final /\ todo' = q
  <2>1. Config!Begin("isolated", "mirror", final, q) /\ UNCHANGED <<conf, flash, snap>>
    BY <1>1 DEF q
  <2> QED BY <1>2, <2>1, CallBegins
<1>4. DOMAIN saved' = Config!SidItems /\ Config!Answerable(saved')
  <2>1. \A s \in Config!SlotSet : s \in Config!SidItems
    BY ConfigItems
  <2>2. \A s \in Config!SlotSet : saved'[s] = conf[s]
    BY <1>1, <2>1
  <2>3. DOMAIN saved' = Config!SidItems
    BY <1>1
  <2> QED BY <2>2, <2>3 DEF Config!ConfigInv, Config!ValuesAreOffered, Config!Answerable
<1>5. Config!IsolationReturns'
  <2>1. ~Config!Conflict(call'.want)
    BY <1>1, <1>3
  <2> QED BY <1>3, <1>4, <2>1 DEF Config!IsolationReturns, Config!Answerable, Config!Conflict, q
<1>6. Config!SpeedReturns' /\ Config!StateReturns' /\ Config!BaselineReturns'
  BY <1>3 DEF Config!Restores, Config!SpeedReturns, Config!StateReturns, Config!BaselineReturns
<1> QED BY <1>3, <1>5, <1>6 DEF Config!ConfigInv

(* While a call other than these is on, they claim nothing.                 *)
LEMMA OnlyIsolation ==
    ASSUME call'.kind = "isolated", Config!ValuesAreOffered', Config!CallsAreTold',
           Config!IsolationReturns'
    PROVE  Config!ConfigInv'
<1>1. Config!RestoredOrTold'
  BY BusyClaimsNothing DEF Config!CallsAreTold
<1>2. Config!SpeedReturns' /\ Config!StateReturns' /\ Config!BaselineReturns'
  BY DEF Config!Restores, Config!SpeedReturns, Config!StateReturns, Config!BaselineReturns
<1> QED BY <1>1, <1>2 DEF Config!ConfigInv

(* Nothing is being done: what the last call told still stands.             *)
LEMMA AtRest ==
    ASSUME call' = [kind |-> call'.kind, step |-> call'.step, want |-> call'.want],
           call'.kind = "idle", call'.step \notin {"mirror", "map", "body", "restore",
             "restore_raising", "reset", "verify"}, todo' = <<>>,
           Config!ValuesAreOffered', Config!RestoredOrTold'
    PROVE  Config!ConfigInv'
<1>1. <<>> \in Seq({<<>>[n] : n \in DOMAIN <<>>})
  OBVIOUS
<1>2. Config!CallsAreTold'
  BY <1>1 DEF Config!CallsAreTold
<1>3. Config!SpeedReturns' /\ Config!StateReturns' /\ Config!IsolationReturns'
      /\ Config!BaselineReturns'
  BY DEF Config!Restores, Config!SpeedReturns, Config!StateReturns, Config!IsolationReturns, Config!BaselineReturns
<1> QED BY <1>2, <1>3 DEF Config!ConfigInv

(* A call that fails tells of it, and has nothing to show for it.           *)
LEMMA FailureClaimsNothing ==
    ASSUME NEW how, how \notin {"ok", "raised"}, NEW k, told' = <<k, how>>
    PROVE  Config!RestoredOrTold'
<1>1. told'[2] = how /\ \A a : told' # <<a, "ok">>
  OBVIOUS
<1> QED BY <1>1 DEF Config!RestoredOrTold

LEMMA CallEnds ==
    ASSUME Config!ValuesAreOffered', Config!RestoredOrTold', NEW how, Config!Finish(how)
    PROVE  Config!ConfigInv'
<1>1. call' = [kind |-> "idle", step |-> "none", want |-> <<>>] /\ todo' = <<>>
  BY DEF Config!Finish, Config!Idle
<1>2. /\ call'.kind = "idle" /\ call'.step = "none" /\ call'.want = <<>>
      /\ call' = [kind |-> call'.kind, step |-> call'.step, want |-> call'.want]
  BY <1>1
<1> QED BY <1>1, <1>2, AtRest

LEMMA SlotsLeft ==
    ASSUME NEW S, S \subseteq Config!SlotSet, NEW v, NEW r \in Config!MapWrites([s \in S |-> v[s]])
    PROVE  Series(r) /\ \A n \in DOMAIN r : r[n].item \in Config!SlotSet
<1> DEFINE part == [s \in S |-> v[s]]
<1>1. DOMAIN part \subseteq Config!SlotSet /\ r \in Config!MapWrites(part)
  OBVIOUS
<1> HIDE DEF part
<1>2. /\ r \in Seq({r[n] : n \in DOMAIN r})
      /\ \A n \in DOMAIN r : r[n].item \in Config!SlotSet
  BY <1>1, MapWritesAre
<1> QED BY <1>2 DEF Series

LEMMA MapKeeps == ASSUME Config!ConfigInv, Config!IsolateMap PROVE Config!ConfigInv'
<1>0. /\ Config!ValuesAreOffered /\ Config!CallsAreTold /\ Config!IsolationReturns
      /\ call.kind = "isolated" /\ call.step = "mirror" /\ todo = <<>>
  BY DEF Config!ConfigInv, Config!IsolateMap
<1>1. Config!ValuesAreOffered'
  BY <1>0 DEF Config!IsolateMap, Config!ValuesAreOffered, Config!Answerable
<1>2. CASE failed # {} /\ Config!Finish("mirror_error")
  <2>1. Config!RestoredOrTold'
    BY <1>2, FailureClaimsNothing DEF Config!Finish
  <2> QED BY <1>1, <1>2, <2>1, CallEnds
<1>3. CASE /\ failed = {} /\ call' = [call EXCEPT !.step = "map"] /\ told' = told
           /\ todo' \in Config!MapWrites([s \in {s \in Config!SlotSet : conf[s] # call.want[s]} |-> call.want[s]])
  <2> DEFINE S == {s \in Config!SlotSet : conf[s] # call.want[s]}
             v == call.want
  <2>1. /\ todo' \in Config!MapWrites([s \in S |-> v[s]])
        /\ call' = [call EXCEPT !.step = "map"] /\ failed = {}
        /\ UNCHANGED <<told, conf, saved>>
    BY <1>3 DEF Config!IsolateMap
  <2> HIDE DEF v
  <2>2. S \subseteq Config!SlotSet
    OBVIOUS
  <2> HIDE DEF S
  <2>3. Series(todo') /\ \A n \in DOMAIN todo' : todo'[n].item \in Config!SlotSet
    BY <2>1, <2>2, SlotsLeft
  <2>4. /\ call' = [kind |-> call'.kind, step |-> call'.step, want |-> call'.want]
        /\ call'.kind = "isolated" /\ call'.step = "map" /\ call'.want = call.want
    BY <1>0, <2>1 DEF Config!CallsAreTold
  <2>5. Config!CallsAreTold'
    BY <1>0, <2>1, <2>3, <2>4 DEF Config!CallsAreTold, Series
  <2>6. Config!IsolationReturns'
    <3>1. /\ DOMAIN saved = Config!SidItems /\ Config!Answerable(saved)
          /\ ~Config!Conflict(call.want) /\ conf["mirror"] = "Disabled"
      BY <1>0, <2>1 DEF Config!IsolationReturns
    <3> QED BY <2>1, <2>3, <2>4, <3>1 DEF Config!IsolationReturns, Config!Answerable, Config!Conflict
  <2> QED BY <1>1, <2>4, <2>5, <2>6, OnlyIsolation
<1> QED BY <1>0, <1>2, <1>3 DEF Config!IsolateMap

(* The addressing is to be put back.                                        *)
LEMMA RestoreBegins ==
    ASSUME Config!ConfigInv, call.kind = "isolated", NEW ok, Config!Restore(ok),
           UNCHANGED <<conf, flash, saved, snap, told>>
    PROVE  Config!ConfigInv'
<1>0. Config!ValuesAreOffered /\ Config!CallsAreTold /\ Config!IsolationReturns
  BY DEF Config!ConfigInv
<1>1. Config!ValuesAreOffered'
  BY <1>0 DEF Config!ValuesAreOffered, Config!Answerable
<1>2. /\ todo' = Config!SidRestore(saved)
      /\ \/ call' = [call EXCEPT !.step = "restore"]
         \/ call' = [call EXCEPT !.step = "restore_raising"]
  BY DEF Config!Restore
<1>3. /\ call' = [kind |-> call'.kind, step |-> call'.step, want |-> call'.want]
      /\ call'.kind = "isolated" /\ call'.step \in {"restore", "restore_raising"}
      /\ call'.want = call.want
  BY <1>0, <1>2 DEF Config!CallsAreTold
<1>4. Series(todo') /\ PutsBack(todo', Config!SidItems, saved)
  BY <1>2, SidRestoreIs
<1>5. Config!CallsAreTold'
  BY <1>0, <1>3, <1>4 DEF Config!CallsAreTold, Series
<1>6. Config!Returns(conf', todo', failed', Config!SidItems, saved)
  BY <1>4, ReturnsAtFirst
<1>7. Config!IsolationReturns'
  <2>1. DOMAIN saved = Config!SidItems /\ Config!Answerable(saved) /\ ~Config!Conflict(call.want)
    BY <1>0 DEF Config!IsolationReturns
  <2>2. saved' = saved
    OBVIOUS
  <2> QED BY <1>3, <1>6, <2>1, <2>2 DEF Config!IsolationReturns, Config!Answerable, Config!Conflict
<1> QED BY <1>1, <1>3, <1>5, <1>7, OnlyIsolation

LEMMA CheckKeeps == ASSUME Config!ConfigInv, Config!IsolateCheck PROVE Config!ConfigInv'
<1>0. /\ Config!ValuesAreOffered /\ Config!CallsAreTold /\ Config!IsolationReturns
      /\ call.kind = "isolated" /\ call.step = "map" /\ todo = <<>>
      /\ UNCHANGED <<conf, flash, saved, snap, told>>
  BY DEF Config!ConfigInv, Config!IsolateCheck
<1>1. CASE Config!Restore(FALSE)
  BY <1>0, <1>1, RestoreBegins
<1>2. CASE Config!ReadsBack /\ call' = [call EXCEPT !.step = "body"] /\ todo' = todo
  <2>1. Config!ValuesAreOffered'
    BY <1>0 DEF Config!ValuesAreOffered, Config!Answerable
  <2>2. /\ call' = [kind |-> call'.kind, step |-> call'.step, want |-> call'.want]
        /\ call'.kind = "isolated" /\ call'.step = "body" /\ call'.want = call.want
    BY <1>0, <1>2 DEF Config!CallsAreTold
  <2>3. Config!CallsAreTold'
    BY <1>0, <1>2, <2>2 DEF Config!CallsAreTold
  <2>4. Config!IsolationReturns'
    <3>1. /\ DOMAIN saved = Config!SidItems /\ Config!Answerable(saved)
          /\ ~Config!Conflict(call.want) /\ conf["mirror"] = "Disabled"
      BY <1>0 DEF Config!IsolationReturns
    <3>2. Config!SidMap' = call.want
      BY <1>0, <1>2 DEF Config!ReadsBack, Config!SidMap
    <3> QED BY <1>0, <1>2, <2>2, <3>1, <3>2 DEF Config!IsolationReturns, Config!Answerable, Config!Conflict
  <2> QED BY <2>1, <2>2, <2>3, <2>4, OnlyIsolation
<1> QED BY <1>1, <1>2 DEF Config!IsolateCheck

LEMMA BodyKeeps == ASSUME Config!ConfigInv, Config!IsolateBodyEnds PROVE Config!ConfigInv'
<1>1. PICK ok \in BOOLEAN : Config!Restore(ok)
  BY DEF Config!IsolateBodyEnds
<1>2. call.kind = "isolated" /\ UNCHANGED <<conf, flash, saved, snap, told>>
  BY DEF Config!IsolateBodyEnds
<1> QED BY <1>1, <1>2, RestoreBegins

LEMMA SnapshotKeeps == ASSUME Config!ConfigInv, Config!Snapshot PROVE Config!ConfigInv'
<1>0. /\ Config!ValuesAreOffered /\ Config!CallsAreTold /\ Config!RestoredOrTold
      /\ call.kind = "idle" /\ snap' = [i \in Config!Items \ {"ftp"} |-> conf[i]]
      /\ UNCHANGED <<conf, flash, call, todo, failed, saved, told>>
  BY DEF Config!ConfigInv, Config!Snapshot
<1>1. /\ DOMAIN snap' = Config!Items \ {"ftp"}
      /\ \A i \in Config!Items \ {"ftp"} : snap'[i] = conf[i]
  BY <1>0
<1>2. Config!ValuesAreOffered'
  <2>1. \A s \in Config!SlotSet : s \in Config!Items \ {"ftp"}
    BY ConfigItems
  <2>2. Config!Answerable(snap')
    BY <1>0, <1>1, <2>1 DEF Config!ValuesAreOffered, Config!Answerable
  <2> QED BY <1>0, <1>1, <2>2 DEF Config!ValuesAreOffered, Config!Answerable
<1>3. Config!RestoredOrTold'
  <2>1. \A i \in Config!Restorable(told[1]) : conf'[i] = snap'[i]
    <3>1. \A i \in Config!Restorable(told[1]) : i \in Config!Items \ {"ftp"}
      BY DEF Config!Restorable
    <3> QED BY <1>0, <1>1, <3>1
  <2>2. Config!MeasurementReady' = Config!MeasurementReady
    BY <1>0 DEF Config!MeasurementReady
  <2>3. UNCHANGED <<conf, saved, told>>
    BY <1>0
  <2> QED BY ONLY <1>0, <2>1, <2>2, <2>3 DEF Config!RestoredOrTold
<1>4. call' = [kind |-> call'.kind, step |-> call'.step, want |-> call'.want]
      /\ call'.kind = "idle" /\ todo' = <<>>
      /\ call'.step \notin {"mirror", "map", "body", "restore", "restore_raising", "reset", "verify"}
  BY <1>0 DEF Config!CallsAreTold
<1> QED BY <1>2, <1>3, <1>4, AtRest

(* What is in the flash and what the firmware gives by default it offers.   *)
LEMMA FlashKeeps ==
    ASSUME Config!ConfigInv, Config!SaveToFlash \/ Config!LoadFromFlash \/ Config!ResetAll
    PROVE  Config!ConfigInv'
<1>0. Config!ValuesAreOffered /\ Config!CallsAreTold
  BY DEF Config!ConfigInv
<1>1. /\ call.kind = "idle" /\ told' = <<"flash", "ok">>
      /\ UNCHANGED <<call, todo, failed, saved, snap>>
  BY DEF Config!SaveToFlash, Config!LoadFromFlash, Config!ResetAll, Config!MayCall
<1>2. Config!ValuesAreOffered'
  <2>1. CASE Config!SaveToFlash
    BY <1>0, <2>1 DEF Config!SaveToFlash, Config!ValuesAreOffered, Config!Answerable
  <2>2. CASE Config!LoadFromFlash
    <3>1. PICK cats : conf' = [i \in Config!Items |->
                                 IF Config!Category[i] \in cats THEN flash[i] ELSE conf[i]]
      BY <2>2 DEF Config!LoadFromFlash
    <3>2. flash' = flash
      BY <2>2 DEF Config!LoadFromFlash
    <3>3. \A s \in Config!SlotSet : s \in Config!Items
      BY ConfigItems
    <3>4. \A s \in Config!SlotSet : conf'[s] = flash[s] \/ conf'[s] = conf[s]
      BY <3>1, <3>3
    <3>5. DOMAIN conf' = Config!Items
      BY <3>1
    <3> QED BY <1>0, <1>1, <3>2, <3>4, <3>5 DEF Config!ValuesAreOffered, Config!Answerable
  <2>3. CASE Config!ResetAll
    BY <1>0, <1>1, <2>3, Defaults DEF Config!ResetAll, Config!ValuesAreOffered, Config!Answerable
  <2> QED BY <2>1, <2>2, <2>3
<1>3. Config!RestoredOrTold'
  BY <1>1 DEF Config!Restores, Config!RestoredOrTold
<1>4. /\ call' = [kind |-> call'.kind, step |-> call'.step, want |-> call'.want]
      /\ call'.kind = "idle" /\ todo' = <<>>
      /\ call'.step \notin {"mirror", "map", "body", "restore", "restore_raising", "reset", "verify"}
  BY <1>0, <1>1 DEF Config!CallsAreTold
<1> QED BY <1>2, <1>3, <1>4, AtRest

LEMMA EndKeeps == ASSUME Config!ConfigInv, Config!EndWrites PROVE Config!ConfigInv'
<1>0. /\ Config!ValuesAreOffered /\ Config!CallsAreTold
      /\ call.step \in {"writes", "restore", "restore_raising"} /\ todo = <<>>
      /\ UNCHANGED <<conf, flash, failed, saved, snap>>
  BY DEF Config!ConfigInv, Config!EndWrites
<1>1. PICK how : Config!Finish(how) /\ (failed # {} => how = "restore_error")
  BY DEF Config!EndWrites
<1>2. told' = <<call.kind, how>>
  BY <1>1 DEF Config!Finish
<1>3. Config!ValuesAreOffered'
  BY <1>0 DEF Config!ValuesAreOffered, Config!Answerable
<1>4. CASE failed # {}
  <2>1. Config!RestoredOrTold'
    BY <1>1, <1>2, <1>4, FailureClaimsNothing
  <2> QED BY <1>1, <1>3, <2>1, CallEnds
<1>5. CASE failed = {}
  <2>1. DOMAIN todo = {}
    BY <1>0
  <2>2. call.kind = "isolated" => \A i \in Config!SidItems : conf[i] = saved[i]
    <3> SUFFICES ASSUME call.kind = "isolated" PROVE \A i \in Config!SidItems : conf[i] = saved[i]
      OBVIOUS
    <3>1. Config!Returns(conf, todo, failed, Config!SidItems, saved)
      BY <1>0 DEF Config!ConfigInv, Config!IsolationReturns
    <3> QED BY <1>5, <2>1, <3>1 DEF Config!Returns
  <2>3. call.kind \in Config!Restores =>
          \A i \in Config!Restorable(call.kind) : conf[i] = snap[i]
    <3> SUFFICES ASSUME call.kind \in Config!Restores, NEW i \in Config!Restorable(call.kind)
                 PROVE  conf[i] = snap[i]
      OBVIOUS
    <3>1. Config!Returns(conf, todo, failed, Config!Restorable(call.kind), snap)
      BY DEF Config!ConfigInv, Config!StateReturns
    <3> QED BY <1>5, <2>1, <3>1 DEF Config!Returns
  <2>4. call.kind = "speed" => conf["turbo"] = "Off"
    <3> SUFFICES ASSUME call.kind = "speed" PROVE conf["turbo"] = "Off"
      OBVIOUS
    <3>1. Config!Returns(conf, todo, failed, {"turbo"}, Config!Default)
      BY DEF Config!ConfigInv, Config!SpeedReturns
    <3> QED BY <1>5, <2>1, <3>1, Defaults DEF Config!Returns
  <2>5. call.kind # "baseline"
    BY <1>0 DEF Config!CallsAreTold
  <2>6. Config!RestoredOrTold'
    BY <1>0, <1>2, <2>2, <2>3, <2>4, <2>5 DEF Config!RestoredOrTold
  <2> QED BY <1>1, <1>3, <2>6, CallEnds
<1> QED BY <1>4, <1>5

-----------------------------------------------------------------------------
LEMMA OnlyBaseline ==
    ASSUME call'.kind = "baseline", Config!ValuesAreOffered', Config!CallsAreTold',
           Config!BaselineReturns'
    PROVE  Config!ConfigInv'
<1>1. Config!RestoredOrTold'
  BY BusyClaimsNothing DEF Config!CallsAreTold
<1>2. Config!SpeedReturns' /\ Config!StateReturns' /\ Config!IsolationReturns'
  BY DEF Config!Restores, Config!SpeedReturns, Config!StateReturns, Config!IsolationReturns
<1> QED BY <1>1, <1>2 DEF Config!ConfigInv

LEMMA BaselineKeeps == ASSUME Config!ConfigInv, Config!Baseline PROVE Config!ConfigInv'
<1> DEFINE q == <<>>
<1>1. /\ Config!Begin("baseline", "reset", Config!BaselineCategories, q)
      /\ saved' = [i \in {"ftp"} |-> conf[i]] /\ UNCHANGED <<conf, flash, snap>>
  BY DEF Config!Baseline
<1>2. q \in Seq({q[n] : n \in DOMAIN q})
  OBVIOUS
<1> HIDE DEF q
<1>3. /\ Config!ValuesAreOffered' /\ Config!CallsAreTold'
      /\ call'.kind = "baseline" /\ call'.step = "reset" /\ call'.want = Config!BaselineCategories
      /\ todo' = q /\ conf' = conf
  BY <1>1, <1>2, CallBegins
<1>4. call'.want = <<"U64", "Cart", "SID">>
  BY <1>3 DEF Config!BaselineCategories
<1>5. \A i \in Config!Items \ {"ftp"} : \E n \in DOMAIN call'.want : Config!Category[i] = call'.want[n]
  <2> SUFFICES ASSUME NEW i \in Config!Items \ {"ftp"}
               PROVE  \E n \in DOMAIN call'.want : Config!Category[i] = call'.want[n]
    OBVIOUS
  <2>1. /\ 1 \in DOMAIN call'.want /\ 2 \in DOMAIN call'.want /\ 3 \in DOMAIN call'.want
        /\ call'.want[1] = "U64" /\ call'.want[2] = "Cart" /\ call'.want[3] = "SID"
    BY <1>4
  <2>2. Config!Category[i] \in {"U64", "Cart", "SID"}
    BY Categories
  <2> QED BY <2>1, <2>2
<1>6. saved'["ftp"] = conf["ftp"]
  BY <1>1
<1>7. Config!BaselineReturns'
  BY <1>3, <1>4, <1>5, <1>6 DEF Config!BaselineReturns, q
<1> QED BY <1>3, <1>7, OnlyBaseline

(* A category is the last of the rest, or one of what follows it.           *)
LEMMA RestOfCategories ==
    ASSUME NEW q, q \in {<<"U64", "Cart", "SID">>, <<"Cart", "SID">>, <<"SID">>}, NEW c
    PROVE  /\ Tail(q) \in {<<"Cart", "SID">>, <<"SID">>, <<>>}
           /\ Head(q) \in {"U64", "Cart", "SID"}
           /\ (\E n \in DOMAIN q : c = q[n]) => c = Head(q) \/ \E n \in DOMAIN Tail(q) : c = Tail(q)[n]
<1>1. CASE q = <<"U64", "Cart", "SID">>
  <2>1. Tail(q) = <<"Cart", "SID">> /\ Head(q) = "U64"
    BY <1>1
  <2>2. (\E n \in DOMAIN q : c = q[n]) => c = "U64" \/ c = "Cart" \/ c = "SID"
    BY <1>1
  <2>3. c = "Cart" \/ c = "SID" => \E n \in DOMAIN <<"Cart", "SID">> : c = <<"Cart", "SID">>[n]
    <3>1. /\ 1 \in DOMAIN <<"Cart", "SID">> /\ 2 \in DOMAIN <<"Cart", "SID">>
          /\ <<"Cart", "SID">>[1] = "Cart" /\ <<"Cart", "SID">>[2] = "SID"
      OBVIOUS
    <3> QED BY <3>1
  <2> QED BY <2>1, <2>2, <2>3
<1>2. CASE q = <<"Cart", "SID">>
  <2>1. Tail(q) = <<"SID">> /\ Head(q) = "Cart"
    BY <1>2
  <2>2. (\E n \in DOMAIN q : c = q[n]) => c = "Cart" \/ c = "SID"
    BY <1>2
  <2>3. c = "SID" => \E n \in DOMAIN <<"SID">> : c = <<"SID">>[n]
    <3>1. 1 \in DOMAIN <<"SID">> /\ <<"SID">>[1] = "SID"
      OBVIOUS
    <3> QED BY <3>1
  <2> QED BY <2>1, <2>2, <2>3
<1>3. CASE q = <<"SID">>
  <2>1. Tail(q) = <<>> /\ Head(q) = "SID"
    BY <1>3
  <2>2. (\E n \in DOMAIN q : c = q[n]) => c = "SID"
    BY <1>3
  <2> QED BY <2>1, <2>2
<1> QED BY <1>1, <1>2, <1>3

LEMMA ResetKeeps == ASSUME Config!ConfigInv, Config!BaselineReset PROVE Config!ConfigInv'
<1> DEFINE head == Head(call.want)
<1>0. /\ Config!ValuesAreOffered /\ Config!CallsAreTold /\ Config!BaselineReturns
      /\ call.kind = "baseline" /\ call.step = "reset" /\ call.want # <<>>
      /\ UNCHANGED <<flash, saved, snap>>
  BY DEF Config!ConfigInv, Config!BaselineReset
<1>1. PICK left :
        /\ conf' = [i \in Config!Items |-> IF Config!Category[i] = head /\ i \notin left
                                           THEN Config!Default[i] ELSE conf[i]]
        /\ \/ /\ call' = [call EXCEPT !.step = "verify"] /\ todo' = todo /\ told' = told
              /\ failed' = failed \/ failed' = failed \cup {head}
           \/ Config!Finish("raised")
  BY DEF Config!BaselineReset
<1>2. /\ head \in {"U64", "Cart", "SID"} /\ todo = <<>> /\ conf["ftp"] = saved["ftp"]
      /\ call.want \in {<<"U64", "Cart", "SID">>, <<"Cart", "SID">>, <<"SID">>}
  <2>1. /\ call.want \in {<<"U64", "Cart", "SID">>, <<"Cart", "SID">>, <<"SID">>, <<>>}
        /\ todo = <<>> /\ conf["ftp"] = saved["ftp"]
    BY <1>0 DEF Config!BaselineReturns
  <2>2. call.want \in {<<"U64", "Cart", "SID">>, <<"Cart", "SID">>, <<"SID">>}
    BY <1>0, <2>1
  <2> QED BY <2>1, <2>2, RestOfCategories
<1> HIDE DEF head
<1>3. /\ DOMAIN conf' = Config!Items
      /\ \A i \in Config!Items : conf'[i] = conf[i] \/ conf'[i] = Config!Default[i]
  BY <1>1
<1>4. Config!ValuesAreOffered'
  <2>1. \A s \in Config!SlotSet : s \in Config!Items
    BY ConfigItems
  <2> QED BY <1>0, <1>3, <2>1, Defaults DEF Config!ValuesAreOffered, Config!Answerable
<1>5. CASE Config!Finish("raised")
  <2>1. told' = <<"baseline", "raised">>
    BY <1>0, <1>5 DEF Config!Finish
  <2>2. Config!RestoredOrTold'
    BY <2>1 DEF Config!RestoredOrTold
  <2> QED BY <1>4, <1>5, <2>2, CallEnds
<1>6. CASE /\ call' = [call EXCEPT !.step = "verify"] /\ todo' = todo /\ told' = told
           /\ failed' = failed \/ failed' = failed \cup {head}
  <2>1. /\ call' = [kind |-> call'.kind, step |-> call'.step, want |-> call'.want]
        /\ call'.kind = "baseline" /\ call'.step = "verify" /\ call'.want = call.want
    BY <1>0, <1>6 DEF Config!CallsAreTold
  <2>2. Config!CallsAreTold'
    BY <1>0, <1>6, <2>1 DEF Config!CallsAreTold
  <2>3. conf'["ftp"] = conf["ftp"]
    <3>1. "ftp" \in Config!Items /\ Config!Category["ftp"] # head
      BY <1>2, ConfigItems, Categories
    <3> QED BY <1>1, <3>1
  <2>4. failed' = {} => failed = {}
    BY <1>6
  <2>5. failed = {} =>
          \A i \in Config!Items \ {"ftp"} :
            conf[i] = Config!Default[i] \/ \E n \in DOMAIN call.want : Config!Category[i] = call.want[n]
    BY <1>0 DEF Config!BaselineReturns
  <2>6. failed' = {} =>
          \A i \in Config!Items \ {"ftp"} :
            conf'[i] = Config!Default[i] \/ \E n \in DOMAIN call.want : Config!Category[i] = call.want[n]
    BY <1>3, <2>4, <2>5
  <2>7. Config!BaselineReturns'
    BY <1>0, <1>2, <1>6, <2>1, <2>3, <2>6 DEF Config!BaselineReturns
  <2> QED BY <1>4, <2>1, <2>2, <2>7, OnlyBaseline
<1> QED BY <1>1, <1>5, <1>6

LEMMA VerifyKeeps == ASSUME Config!ConfigInv, Config!BaselineVerify PROVE Config!ConfigInv'
<1> DEFINE head == Head(call.want)
           rest == Tail(call.want)
<1>0. /\ Config!ValuesAreOffered /\ Config!CallsAreTold /\ Config!BaselineReturns
      /\ call.kind = "baseline" /\ call.step = "verify"
      /\ failed' = failed \cup Config!Mismatched(head)
      /\ call' = [call EXCEPT !.step = "reset", !.want = rest]
      /\ UNCHANGED <<conf, flash, todo, saved, snap, told>>
  BY DEF Config!ConfigInv, Config!BaselineVerify
<1>1. /\ call' = [kind |-> call'.kind, step |-> call'.step, want |-> call'.want]
      /\ call'.kind = "baseline" /\ call'.step = "reset" /\ call'.want = rest
  BY <1>0 DEF Config!CallsAreTold
<1>2. Config!ValuesAreOffered'
  BY <1>0 DEF Config!ValuesAreOffered, Config!Answerable
<1>3. Config!CallsAreTold'
  BY <1>0, <1>1 DEF Config!CallsAreTold
<1>4. /\ todo = <<>> /\ conf["ftp"] = saved["ftp"]
      /\ call.want \in {<<"U64", "Cart", "SID">>, <<"Cart", "SID">>, <<"SID">>}
      /\ failed = {} =>
           \A i \in Config!Items \ {"ftp"} :
             conf[i] = Config!Default[i] \/ \E n \in DOMAIN call.want : Config!Category[i] = call.want[n]
  BY <1>0 DEF Config!BaselineReturns
<1>5. /\ rest \in {<<"Cart", "SID">>, <<"SID">>, <<>>}
      /\ \A c : (\E n \in DOMAIN call.want : c = call.want[n])
                  => c = head \/ \E n \in DOMAIN rest : c = rest[n]
  <2> HIDE DEF head, rest
  <2>1. head = Head(call.want) /\ rest = Tail(call.want)
    BY DEF head, rest
  <2>2. Tail(call.want) \in {<<"Cart", "SID">>, <<"SID">>, <<>>}
    BY <1>4, RestOfCategories
  <2>3. rest \in {<<"Cart", "SID">>, <<"SID">>, <<>>}
    BY <2>1, <2>2
  <2>4. ASSUME NEW c, \E n \in DOMAIN call.want : c = call.want[n]
        PROVE  c = head \/ \E n \in DOMAIN rest : c = rest[n]
    <3>1. PICK q : q = call.want
      OBVIOUS
    <3>2. q \in {<<"U64", "Cart", "SID">>, <<"Cart", "SID">>, <<"SID">>}
      BY <1>4, <3>1
    <3>3. \E n \in DOMAIN q : c = q[n]
      BY <2>4, <3>1
    <3>4. c = Head(q) \/ \E n \in DOMAIN Tail(q) : c = Tail(q)[n]
      BY <3>2, <3>3, RestOfCategories
    <3> QED BY <2>1, <3>1, <3>4
  <2> QED BY <2>3, <2>4
<1> HIDE DEF head, rest
<1>6. failed' = {} =>
        \A i \in Config!Items \ {"ftp"} :
          conf[i] = Config!Default[i] \/ \E n \in DOMAIN rest : Config!Category[i] = rest[n]
  <2> SUFFICES ASSUME failed' = {}, NEW i \in Config!Items \ {"ftp"}
               PROVE  conf[i] = Config!Default[i] \/ \E n \in DOMAIN rest : Config!Category[i] = rest[n]
    OBVIOUS
  <2>1. failed = {} /\ Config!Mismatched(head) = {}
    BY <1>0
  <2>2. Config!Category[i] = head => conf[i] = Config!Default[i]
    BY <2>1 DEF Config!Mismatched, Config!InCategory
  <2> QED BY <1>4, <1>5, <2>1, <2>2
<1>7. Config!BaselineReturns'
  BY <1>0, <1>1, <1>4, <1>5, <1>6 DEF Config!BaselineReturns
<1> QED BY <1>1, <1>2, <1>3, <1>7, OnlyBaseline

LEMMA BaselineEndKeeps == ASSUME Config!ConfigInv, Config!BaselineEnd PROVE Config!ConfigInv'
<1>0. /\ Config!ValuesAreOffered /\ Config!BaselineReturns
      /\ call.kind = "baseline" /\ call.want = <<>> /\ UNCHANGED <<conf, flash, saved, snap>>
  BY DEF Config!ConfigInv, Config!BaselineEnd
<1>1. PICK how : Config!Finish(how) /\ (failed # {} => how = "mismatched")
  BY DEF Config!BaselineEnd
<1>2. told' = <<"baseline", how>>
  BY <1>0, <1>1 DEF Config!Finish
<1>3. Config!ValuesAreOffered'
  BY <1>0 DEF Config!ValuesAreOffered, Config!Answerable
<1>4. CASE failed # {}
  <2>1. Config!RestoredOrTold'
    BY <1>1, <1>2, <1>4, FailureClaimsNothing
  <2> QED BY <1>1, <1>3, <2>1, CallEnds
<1>5. CASE failed = {}
  <2>1. DOMAIN call.want = {}
    BY <1>0
  <2>2. conf["ftp"] = saved["ftp"] /\ \A i \in Config!Items \ {"ftp"} : conf[i] = Config!Default[i]
    BY <1>0, <1>5, <2>1 DEF Config!BaselineReturns
  <2>3. "turbo" \in Config!Items \ {"ftp"} /\ "badline" \in Config!Items \ {"ftp"}
    BY ConfigItems
  <2>4. Config!MeasurementReady
    BY <2>2, <2>3, Defaults DEF Config!MeasurementReady
  <2>5. Config!RestoredOrTold'
    BY <1>0, <1>2, <2>2, <2>4 DEF Config!Restores, Config!RestoredOrTold, Config!MeasurementReady
  <2> QED BY <1>1, <1>3, <2>5, CallEnds
<1> QED BY <1>4, <1>5

(* What the properties rest on is kept by every step of U64Config.          *)
LEMMA ConfigStep == Config!ConfigInv /\ [Config!Next]_(Config!vars) => Config!ConfigInv'
<1> SUFFICES ASSUME Config!ConfigInv, [Config!Next]_(Config!vars) PROVE Config!ConfigInv'
  OBVIOUS
<1>1. CASE UNCHANGED Config!vars
  <2>1. UNCHANGED <<conf, flash, call, todo, failed, saved, snap, told>>
    BY <1>1 DEF Config!vars
  <2>2. Config!ValuesAreOffered' /\ Config!CallsAreTold'
    BY <2>1 DEF Config!ConfigInv, Config!ValuesAreOffered, Config!CallsAreTold, Config!Answerable
  <2>3. Config!RestoredOrTold'
    BY <2>1 DEF Config!ConfigInv, Config!RestoredOrTold, Config!MeasurementReady
  <2>4. Config!SpeedReturns' /\ Config!StateReturns'
    BY <2>1 DEF Config!ConfigInv, Config!SpeedReturns, Config!StateReturns, Config!Returns
  <2>5. Config!IsolationReturns'
    BY <2>1 DEF Config!ConfigInv, Config!IsolationReturns, Config!Returns, Config!Answerable,
                Config!Conflict, Config!SidMap
  <2>6. Config!BaselineReturns'
    BY <2>1 DEF Config!ConfigInv, Config!BaselineReturns
  <2> QED BY <2>2, <2>3, <2>4, <2>5, <2>6 DEF Config!ConfigInv
<1>2. CASE Config!Put \/ Config!EndWrites
  BY <1>2, PutKeeps, EndKeeps
<1>3. CASE \/ Config!SetTurbo \/ Config!SetReu \/ Config!SetBadline \/ Config!EnableFtp
           \/ Config!SetSidMap
  BY <1>3, SetsKeep
<1>4. CASE Config!RestoreSpeed \/ Config!RestoreState \/ Config!Snapshot
  BY <1>4, SpeedKeeps, StateKeeps, SnapshotKeeps
<1>5. CASE Config!Isolate \/ Config!IsolateMap \/ Config!IsolateCheck \/ Config!IsolateBodyEnds
  BY <1>5, IsolateKeeps, MapKeeps, CheckKeeps, BodyKeeps
<1>6. CASE Config!SaveToFlash \/ Config!LoadFromFlash \/ Config!ResetAll
  BY <1>6, FlashKeeps
<1>7. CASE \/ Config!Baseline \/ Config!BaselineReset \/ Config!BaselineVerify
           \/ Config!BaselineEnd
  BY <1>7, BaselineKeeps, ResetKeeps, VerifyKeeps, BaselineEndKeeps
<1> QED BY <1>1, <1>2, <1>3, <1>4, <1>5, <1>6, <1>7 DEF Config!Next

(* While the body runs, its map was read back and has no conflict.          *)
LEMMA IsolationFollows == Config!ConfigInv => Config!IsolationHolds
<1> SUFFICES ASSUME Config!ConfigInv, call.kind = "isolated", call.step = "body"
             PROVE  /\ ~Config!Conflict(Config!SidMap) /\ conf["mirror"] = "Disabled"
                    /\ Config!SidMap = call.want
  BY DEF Config!IsolationHolds
<1>1. /\ ~Config!Conflict(call.want) /\ conf["mirror"] = "Disabled"
      /\ Config!SidMap = call.want
  BY DEF Config!ConfigInv, Config!IsolationReturns
<1> QED BY <1>1

(* A body that isolated_sid_addressing runs has the map it asked for, without *)
(* a conflict and without mirroring; and what the helpers put back is back    *)
(* when no restore error is raised: the SID addressing, every item of a       *)
(* snapshot, the turbo's default, the entry baseline without the network      *)
(* store, for any slots and bases, any number of calls and of requests that   *)
(* raise, with or without effect.                                             *)
THEOREM SettingsAreRestored == RunSpec => []ConfigIsRestored
<1> DEFINE I == subject = "config" => Config!ConfigInv
<1>1. RunInit => I
  BY SubjectBegins, ConfigInit
<1>2. I /\ [RunNext]_allvars => I'
  BY SubjectMoves, ConfigStep
<1>3. I => ConfigIsRestored
  <2>1. Config!ConfigInv => Config!RestoredOrTold
    BY DEF Config!ConfigInv
  <2> QED BY <2>1, IsolationFollows DEF ConfigIsRestored
<1> QED BY <1>1, <1>2, <1>3, PTL DEF RunSpec
=============================================================================
