---------------------------- MODULE MemoryArbiter ----------------------------
(* memory_arbiter.py and memory_policy.py: a first-fit allocator over the    *)
(* addresses a memory policy leaves free, and the write check the transports *)
(* make.  A region is a pair of addresses, the second one past its end.      *)
EXTENDS Integers, SequencesExt

CONSTANTS Top,          \* bound: one past the highest address
          Low,          \* where the scan window begins; it ends with the space
          Scratch,      \* the regions of HARNESS_SCRATCH that are not transient
          Alignments,   \* what callers ask for
          MaxSafe, MaxReserved, MaxCalls    \* bounds

VARIABLES policy,       \* safe_regions, reserved_regions, unknown
          allocated,    \* _allocated
          asked,        \* history: the alloc of the last call, and what was taken then
          calls

avars == <<policy, allocated, asked, calls>>

Addresses == 0..(Top - 1)
Regions == {r \in Addresses \X (1..Top) : r[1] < r[2]}
Bytes(r) == r[1]..(r[2] - 1)
Overlap(r, s) == r[1] < s[2] /\ s[1] < r[2]
Larger(a, b) == IF a < b THEN b ELSE a

(* Sequences of at most n regions: the policy keeps the order it was given.  *)
Lists(n) == UNION {[1..k -> Regions] : k \in 0..n}
Before(r, s) == r[1] < s[1] \/ (r[1] = s[1] /\ r[2] < s[2])
Sorted(rs) == SetToSortSeq(rs, Before)

(* from_prg, from_config: any safe and reserved regions, either default.     *)
Policies == [safe : {ToSet(s) : s \in Lists(MaxSafe)},
             reserved : {ToSet(s) : s \in Lists(MaxReserved)},
             unknown : {"allow", "deny"}]

NoRequest == [size |-> 0, alignment |-> 1, base |-> -1, taken |-> {}]

ArbiterInit ==
  /\ policy \in Policies
  /\ allocated = {}
  /\ asked = NoRequest
  /\ calls = 0

\* Mutant: a merge that takes the end of the later interval.
AbsorbLatest(merged, r) ==
  IF merged # <<>> /\ r[1] <= Last(merged)[2]
    THEN Append(Front(merged), <<Last(merged)[1], r[2]>>)
    ELSE Append(merged, r)

(* _merge_intervals: overlapping and touching intervals become one.          *)
Absorb(merged, r) ==
  IF merged # <<>> /\ r[1] <= Last(merged)[2]
    THEN Append(Front(merged), <<Last(merged)[1], Larger(Last(merged)[2], r[2])>>)
    ELSE Append(merged, r)

Merge(rs) == FoldLeft(Absorb, <<>>, Sorted(rs))

(* _compute_free_intervals: what of the safe regions, or of the window, no   *)
(* reserved region, allocation or scratch address takes, in order.           *)
Clip(rs) == {<<Larger(r[1], Low), r[2]>> : r \in {s \in rs : s[2] > Low}}

FreeOf(allowed, blocked) ==
  LET Skip(acc, b) ==
        IF b[2] <= acc.cursor \/ b[1] >= allowed[2] THEN acc
        ELSE [cursor |-> Larger(acc.cursor, b[2]),
              free |-> IF b[1] > acc.cursor THEN Append(acc.free, <<acc.cursor, b[1]>>)
                                            ELSE acc.free]
      end == FoldLeft(Skip, [cursor |-> allowed[1], free |-> <<>>], blocked)
  IN IF end.cursor < allowed[2] THEN Append(end.free, <<end.cursor, allowed[2]>>)
     ELSE end.free

FreeIntervals ==
  LET allowed == IF policy.safe # {} THEN Merge(Clip(policy.safe)) ELSE <<<<Low, Top>>>>
      blocked == Merge(Clip(policy.reserved \cup allocated \cup Scratch))
  IN FlattenSeq([i \in DOMAIN allowed |-> FreeOf(allowed[i], blocked)])

(* _fully_covered: the regions, in order of their start, leave no gap.       *)
FullyCovered(r, regions) ==
  LET Cover(pos, s) == IF s[2] <= pos \/ s[1] > pos THEN pos ELSE s[2]
  IN FoldLeft(Cover, r[1], Sorted(regions)) >= r[2]

(* check_write: a reserved byte is refused, then a safe span allowed, then   *)
(* the policy for unknown addresses decides; "warn" allows.                  *)
CheckWrite(r) ==
  /\ \A s \in policy.reserved : ~Overlap(s, r)
  /\ FullyCovered(r, policy.safe) \/ policy.unknown = "allow"

(* alloc: the lowest aligned base of the first interval that holds the span  *)
(* and whose span the policy lets through.                                   *)
Aligned(lo, alignment) == ((lo + alignment - 1) \div alignment) * alignment

Alloc(size, alignment, free) ==
  LET long == {r \in free : Aligned(r[1], alignment) + size <= r[2]}
      bases == {b \in {Aligned(r[1], alignment) : r \in long} : CheckWrite(<<b, b + size>>)}
      base == IF bases = {} THEN -1 ELSE CHOOSE b \in bases : \A c \in bases : b <= c
  IN /\ calls' = calls + 1
     /\ asked' = [size |-> size, alignment |-> alignment, base |-> base,
                  taken |-> allocated]
     /\ allocated' = IF base = -1 THEN allocated
                     ELSE allocated \cup {<<base, base + size>>}
     /\ UNCHANGED policy

(* reserve: what the caller says is taken, whatever it overlaps.             *)
Reserve(r) ==
  /\ calls' = calls + 1
  /\ allocated' = allocated \cup {r}
  /\ asked' = NoRequest
  /\ UNCHANGED policy

ArbiterNext ==
  /\ calls < MaxCalls
  /\ \/ \E free \in {ToSet(FreeIntervals)}, size \in 1..2, alignment \in Alignments :
          Alloc(size, alignment, free)
     \/ \E r \in Regions : Reserve(r)

Spec == ArbiterInit /\ [][ArbiterNext]_avars

-----------------------------------------------------------------------------
(* alloc promises the lowest address whose span is aligned, inside the       *)
(* window and the safe regions, clear of everything taken, and lets check    *)
(* _write pass; it fails only where there is none.  Stated of the bytes, not *)
(* of intervals.                                                             *)
Fits(b) ==
  LET span == Bytes(<<b, b + asked.size>>)
      taken == policy.reserved \cup asked.taken \cup Scratch
  IN /\ b % asked.alignment = 0 /\ span \subseteq Low..(Top - 1)
     /\ policy.safe # {} => span \subseteq UNION {Bytes(r) : r \in policy.safe}
     /\ policy.unknown = "deny" => policy.safe # {}
     /\ span \cap UNION {Bytes(r) : r \in taken} = {}

AllocIsFirstFit ==
  asked.size > 0 =>
    IF asked.base = -1 THEN ~\E b \in Addresses : Fits(b)
    ELSE Fits(asked.base) /\ \A b \in Addresses : Fits(b) => asked.base <= b
=============================================================================
